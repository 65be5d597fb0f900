----------------------------- MODULE RingProofs -----------------------------
(***************************************************************************)
(* Proofs about Ring, for every set of elements and every size: its type   *)
(* invariant, that the two threads never touch the same slot, and, for a   *)
(* build that keeps the order of stores, that it implements BoundedFifo.   *)
(***************************************************************************)
EXTENDS Ring, SequenceTheorems, TLAPS

\* wx is never rx: the two indices enclose the elements.
Apart == wx # rx

\* What each thread found out about the indices stays true while it acts on it:
\* only the writing thread can fill the ring, only the reading one can empty it.
StillRoom == putting.at \in {"store", "push"} => CanWrite
StillElement == getting.at \in {"copy", "pop"} => CanRead

\* The element in flight on either side, for a build that keeps store order.
InFlight ==
    Ordered => /\ putting.at = "push" /\ delayed[wx] = Blank => store[wx] = putting.v
               /\ putting.at = "push" /\ delayed[wx] # Blank => delayed[wx] = putting.v
               /\ putting.at \in {"store", "push"} => putting.v \in Values
               /\ getting.at = "pop" => getting.v = store[NextIx(rx)]
               /\ \A i \in Index : delayed[i] # Blank => i = wx /\ putting.at = "push"

IndInv == TypeOK /\ Apart /\ StillRoom /\ StillElement

\* The inductive invariant holds initially (the constructor, ring_logic.h 52-57).
LEMMA InitIndInv == Init => IndInv
  BY RingSize DEF Init, IndInv, TypeOK, Apart, StillRoom, StillElement, Index,
                  Element, Idle

\* Every step of put() and of get() preserves the inductive invariant.
LEMMA NextIndInv == IndInv /\ [Next]_vars => IndInv'
  <1> SUFFICES ASSUME IndInv, [Next]_vars PROVE IndInv'
    OBVIOUS
  <1> USE RingSize DEF IndInv, TypeOK, Apart, StillRoom, StillElement, Index,
                       CanRead, CanWrite, NextIx
  <1>1. ASSUME NEW v \in Values, PutReserve(v) PROVE IndInv'
    BY <1>1 DEF PutReserve, Element
  <1>2. CASE PutRefuse
    BY <1>2 DEF PutRefuse
  <1>3. CASE PutStore
    BY <1>3 DEF PutStore
  <1>4. CASE PutPush
    BY <1>4 DEF PutPush, Idle, Element
  <1>5. ASSUME NEW i \in Index, StoreDrains(i) PROVE IndInv'
    BY <1>5 DEF StoreDrains, Element
  <1>6. CASE GetReserve
    BY <1>6 DEF GetReserve, Element
  <1>7. CASE GetCopy
    BY <1>7 DEF GetCopy
  <1>8. CASE GetPop
    BY <1>8 DEF GetPop, Idle, Element
  <1>9. CASE UNCHANGED vars
    BY <1>9 DEF vars
  <1> QED
    BY <1>1, <1>2, <1>3, <1>4, <1>5, <1>6, <1>7, <1>8, <1>9 DEF Next

\* The inductive invariant is an invariant.
LEMMA AlwaysIndInv == Spec => []IndInv
  BY InitIndInv, NextIndInv, PTL DEF Spec

\* A ring of any size keeps its indices inside the store (ring_logic.h 43-87).
THEOREM RingTypeCorrect == Spec => []TypeOK
  <1>1. IndInv => TypeOK
    BY DEF IndInv
  <1> QED
    BY <1>1, AlwaysIndInv, PTL

\* put() never writes the slot that get() is copying (ring.h 94-113), whatever
\* the size of the ring and the order in which stores become visible.
THEOREM RingSlotsDisjoint == Spec => []SlotsDisjoint
  <1>1. IndInv => SlotsDisjoint
    BY DEF IndInv, SlotsDisjoint, StillElement, CanRead
  <1> QED
    BY <1>1, AlwaysIndInv, PTL
-----------------------------------------------------------------------------
\* InFlight holds too: the reasons why get() returns what put() stored.
LEMMA NextInFlight ==
    ASSUME Ordered PROVE IndInv /\ InFlight /\ [Next]_vars => InFlight'
  <1> SUFFICES ASSUME IndInv, InFlight, [Next]_vars PROVE InFlight'
    OBVIOUS
  <1> USE RingSize DEF IndInv, InFlight, TypeOK, Index, Apart, StillRoom, StillElement,
                       CanRead, CanWrite, NextIx
  <1>1. ASSUME NEW v \in Values, PutReserve(v) PROVE InFlight'
    BY <1>1 DEF PutReserve
  <1>2. CASE PutRefuse
    BY <1>2 DEF PutRefuse
  <1>3. CASE PutStore
    BY <1>3, BlankIsNoValue DEF PutStore
  <1>4. CASE PutPush
    BY <1>4 DEF PutPush, Idle
  <1>5. ASSUME NEW i \in Index, StoreDrains(i) PROVE InFlight'
    BY <1>5, Ordered DEF StoreDrains
  <1>6. CASE GetReserve
    BY <1>6 DEF GetReserve
  <1>7. CASE GetCopy
    BY <1>7 DEF GetCopy
  <1>8. CASE GetPop
    BY <1>8 DEF GetPop, Idle
  <1>9. CASE UNCHANGED vars
    BY <1>9 DEF vars
  <1> QED
    BY <1>1, <1>2, <1>3, <1>4, <1>5, <1>6, <1>7, <1>8, <1>9 DEF Next

\* How many elements the indices enclose, as linear arithmetic.
LEMMA CountBounds ==
    ASSUME IndInv
    PROVE  /\ Count \in 0 .. sz - 2
           /\ CanWrite <=> Count < sz - 2
           /\ CanRead <=> Count > 0
           /\ \A i \in 1 .. Count : Slot(i) \in Index /\ Slot(i) # wx
           /\ CanRead => Slot(1) = NextIx(rx)
           /\ CanWrite => Slot(Count + 1) = wx
  BY RingSize DEF IndInv, TypeOK, Index, Apart, Count, Slot, CanRead, CanWrite, NextIx

\* The queue a ring stands for.
Queue == [i \in 1 .. Count |-> store[Slot(i)]]

LEMMA QueueType == ASSUME IndInv PROVE Queue \in Seq(Element) /\ Len(Queue) = Count
  <1>1. Count \in Nat
    BY CountBounds, RingSize
  <1>2. \A i \in 1 .. Count : store[Slot(i)] \in Element
    BY CountBounds DEF IndInv, TypeOK
  <1>3. Queue \in [1 .. Count -> Element]
    BY <1>2 DEF Queue
  <1> QED
    BY <1>1, <1>3

\* A step that leaves the indices and the slots between them alone leaves the
\* queue alone.
LEMMA SameQueue ==
    ASSUME IndInv, rx' = rx, wx' = wx,
           \A i \in Index : i # wx => store'[i] = store[i]
    PROVE  Queue' = Queue
  <1>1. Count' = Count
    BY DEF Count
  <1>2. \A i \in 1 .. Count : Slot(i)' = Slot(i)
    BY DEF Slot
  <1>3. \A i \in 1 .. Count : store'[Slot(i)'] = store[Slot(i)]
    BY <1>2, CountBounds
  <1> QED
    BY <1>1, <1>3 DEF Queue

\* push() appends the stored element (ring.h 104-113).
LEMMA PushAppends ==
    ASSUME IndInv, InFlight, Ordered, PutPush
    PROVE  Fifo!Put(putting.v)
  <1> DEFINE n == Count
  <1>1. CanWrite /\ n < sz - 2 /\ n \in Nat /\ Slot(n + 1) = wx
    BY CountBounds, RingSize DEF PutPush, IndInv, StillRoom
  <1>2. wx' = NextIx(wx) /\ rx' = rx /\ store' = store
    BY <1>1 DEF PutPush
  <1>3. Count' = n + 1
    BY <1>1, <1>2, RingSize
    DEF IndInv, TypeOK, Index, Apart, Count, CanWrite, NextIx
  <1>4. \A i \in 1 .. n + 1 : Slot(i)' = Slot(i)
    BY <1>2 DEF Slot
  <1>5. store[wx] = putting.v
    BY DEF InFlight, PutPush
  <1>6. Queue' = [i \in 1 .. n + 1 |-> store[Slot(i)]]
    BY <1>2, <1>3, <1>4 DEF Queue
  <1>7. Queue \in Seq(Element) /\ Len(Queue) = n
    BY QueueType
  <1>8. Queue' = Append(Queue, putting.v)
    <2>1. Append(Queue, putting.v) =
            [i \in 1 .. n + 1 |-> IF i = n + 1 THEN putting.v ELSE Queue[i]]
      BY <1>1, <1>7
    <2>2. \A i \in 1 .. n + 1 :
            store[Slot(i)] = IF i = n + 1 THEN putting.v ELSE Queue[i]
      BY <1>1, <1>5 DEF Queue
    <2> QED
      BY <1>6, <2>1, <2>2
  <1> QED
    BY <1>1, <1>7, <1>8 DEF Fifo!Put, Queue, PutPush

\* The tail of a sequence, as a function.
LEMMA TailShifts ==
    ASSUME NEW S, NEW q \in Seq(S), q # <<>>
    PROVE  Tail(q) = [i \in 1 .. Len(q) - 1 |-> q[i + 1]]
  <1> DEFINE t == Tail(q)
  <1>1. /\ t \in Seq(S) /\ Len(t) = Len(q) - 1
        /\ \A i \in 1 .. Len(t) : t[i] = q[i + 1]
    BY HeadTailProperties
  <1> HIDE DEF t
  <1>2. t = [i \in 1 .. Len(t) |-> t[i]]
    BY <1>1
  <1>3. t = [i \in 1 .. Len(q) - 1 |-> q[i + 1]]
    BY <1>1, <1>2
  <1> QED
    BY <1>3 DEF t

\* pop() removes the oldest element, the one get() returns (ring.h 93-102).
LEMMA PopTakesHead ==
    ASSUME IndInv, InFlight, Ordered, GetPop
    PROVE  Fifo!Get
  <1> DEFINE n == Count
  <1>1. CanRead /\ n > 0 /\ n \in Nat /\ Slot(1) = NextIx(rx)
    BY CountBounds, RingSize DEF GetPop, IndInv, StillElement
  <1>2. rx' = NextIx(rx) /\ wx' = wx /\ store' = store
    BY <1>1 DEF GetPop
  <1>3. Count' = n - 1
    BY <1>1, <1>2, RingSize
    DEF IndInv, TypeOK, Index, Apart, Count, CanRead, NextIx
  <1>4. \A i \in 1 .. n - 1 : Slot(i)' = Slot(i + 1)
    BY <1>1, <1>2, CountBounds, RingSize DEF IndInv, TypeOK, Index, Slot, NextIx
  <1>5. getting.v = store[NextIx(rx)]
    BY DEF InFlight, GetPop
  <1>6. Queue' = [i \in 1 .. n - 1 |-> store[Slot(i + 1)]]
    BY <1>2, <1>3, <1>4 DEF Queue
  <1>7. Queue \in Seq(Element) /\ Len(Queue) = n
    BY QueueType
  <1>8. Queue # <<>> /\ Head(Queue) = getting.v
    BY <1>1, <1>5, <1>7 DEF Queue
  <1>9. Queue' = Tail(Queue)
    <2>1. Tail(Queue) = [i \in 1 .. n - 1 |-> Queue[i + 1]]
      BY <1>7, <1>8, TailShifts
    <2>2. \A i \in 1 .. n - 1 : Queue[i + 1] = store[Slot(i + 1)]
      BY <1>1 DEF Queue
    <2> QED
      BY <1>6, <2>1, <2>2
  <1> QED
    BY <1>8, <1>9 DEF Fifo!Get, Queue, GetPop

\* Every step of the ring is a step of the queue or leaves it alone.
LEMMA NextImplements ==
    ASSUME Ordered, IndInv, InFlight, [Next]_vars
    PROVE  [Fifo!Next]_(Fifo!vars)
  <1> DEFINE Stutter == Queue' = Queue /\ taken' = taken /\ accepted' = accepted
  <1>0. ASSUME Stutter PROVE UNCHANGED Fifo!vars
    BY <1>0 DEF Fifo!vars, Queue
  <1>1. ASSUME NEW v \in Values, PutReserve(v) PROVE Stutter
    BY <1>1, SameQueue DEF PutReserve
  <1>2. CASE PutRefuse
    <2>1. Len(Queue) = sz - 2
      BY <1>2, CountBounds, QueueType, RingSize DEF PutRefuse
    <2>2. Queue' = Queue
      BY <1>2, SameQueue DEF PutRefuse
    <2>3. Fifo!Refuse
      BY <1>2, <2>1, <2>2 DEF Fifo!Refuse, PutRefuse, Queue
    <2> QED
      BY <2>3 DEF Fifo!Next
  <1>3. CASE PutStore
    <2>1. Queue' = Queue
      BY <1>3, SameQueue DEF PutStore, IndInv, TypeOK
    <2> QED
      BY <1>0, <1>3, <2>1 DEF PutStore
  <1>4. CASE PutPush
    <2>1. putting.v \in Values
      BY <1>4 DEF InFlight, PutPush
    <2> QED
      BY <1>4, <2>1, PushAppends DEF Fifo!Next
  <1>5. ASSUME NEW i \in Index, StoreDrains(i) PROVE Stutter
    <2>1. i = wx
      BY <1>5 DEF StoreDrains, InFlight
    <2> QED
      BY <1>5, <2>1, SameQueue DEF StoreDrains, IndInv, TypeOK
  <1>6. CASE GetReserve
    BY <1>0, <1>6, SameQueue DEF GetReserve
  <1>7. CASE GetCopy
    BY <1>0, <1>7, SameQueue DEF GetCopy
  <1>8. CASE GetPop
    BY <1>8, PopTakesHead DEF Fifo!Next
  <1>9. CASE UNCHANGED vars
    BY <1>0, <1>9, SameQueue DEF vars
  <1> QED
    BY <1>0, <1>1, <1>2, <1>3, <1>4, <1>5, <1>6, <1>7, <1>8, <1>9 DEF Next

\* Every ring, of any size and for any elements, is a first-in first-out queue of
\* sz - 2 elements, provided that the build keeps the order of stores (ring.h,
\* ring_logic.h).
THEOREM RingImplementsFifo == ASSUME Ordered PROVE Spec => ImplementsFifo
  <1>1. Init => InFlight
    BY DEF Init, InFlight, Idle
  <1>2. Init => Fifo!Init
    <2>1. Init => Count = 0
      BY DEF Init, Count
    <2>2. Init => Queue = <<>>
      BY <2>1 DEF Queue
    <2> QED
      BY <2>2 DEF Init, Fifo!Init, Queue
  <1>3. Spec => []InFlight
    BY <1>1, NextInFlight, AlwaysIndInv, PTL DEF Spec
  <1>4. IndInv /\ InFlight /\ [Next]_vars => [Fifo!Next]_(Fifo!vars)
    BY NextImplements
  <1> QED
    BY <1>2, <1>3, <1>4, AlwaysIndInv, PTL DEF Spec, ImplementsFifo, Fifo!Spec
=============================================================================
