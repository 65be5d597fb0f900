-------------------------------- MODULE Ring --------------------------------
(***************************************************************************)
(* Ring<T> and RingLogic (helpers/ring.h, helpers/ring_logic.h), used      *)
(* without a lock by one writing and one reading thread: the receive       *)
(* thread and the packet thread of a TcpConnector, a signal handler and    *)
(* the main thread.  put() and get() are split at every access to the two  *)
(* indices or to the store that the other thread can observe.              *)
(*                                                                         *)
(* The indices are volatile, the store is not and there is no barrier: a   *)
(* build for a weakly ordered processor may let the reader see the new wx  *)
(* before the stored element.  Ordered says that the build keeps the       *)
(* program's order of stores.                                              *)
(***************************************************************************)
EXTENDS Integers, Sequences

CONSTANTS
    Values,     \* the elements stored in the ring
    Blank,      \* a default constructed element
    sz,         \* the size given to the constructor
    Ordered     \* stores become visible in program order

ASSUME RingSize == sz \in Nat /\ sz >= 3
ASSUME BlankIsNoValue == Blank \notin Values
ASSUME OrderedType == Ordered \in BOOLEAN

VARIABLES
    rx, wx,     \* RingLogic::rx, RingLogic::wx
    store,      \* Ring::store, as the reading thread sees it
    delayed,    \* elements written to the store and not yet visible
    putting,    \* the writing thread: its step in put() and its value
    getting,    \* the reading thread: its step in get() and its value
    taken,      \* what the last successful get() returned, as a 0/1-sequence
    accepted    \* what the last put() returned

vars == <<rx, wx, store, delayed, putting, getting, taken, accepted>>

Index == 0 .. sz - 1
Element == Values \cup {Blank}

\* Mutant of NextIx: compares with <= and steps past the end of the store.
NextIxPastEnd(ix) == IF ix + 1 <= sz THEN ix + 1 ELSE 0

NextIx(ix) == IF ix + 1 < sz THEN ix + 1 ELSE 0

\* RingLogic::read() and write() answer a position, or -1 when there is none.
CanRead == NextIx(rx) # wx

\* Mutant of CanWrite: the check for a full ring is missing.
CanWriteUnchecked == wx \in Index

CanWrite == NextIx(wx) # rx

Count == IF wx - rx - 1 < 0 THEN wx - rx - 1 + sz ELSE wx - rx - 1

Idle == [at |-> "idle", v |-> Blank]

Init ==
    /\ rx = 0
    /\ wx = 1
    /\ store = [i \in Index |-> Blank]
    /\ delayed = [i \in Index |-> Blank]
    /\ putting = Idle
    /\ getting = Idle
    /\ taken = <<>>
    /\ accepted = TRUE
-----------------------------------------------------------------------------
\* put(v): write() finds the slot ...
PutReserve(v) ==
    /\ putting.at = "idle"
    /\ CanWrite
    /\ putting' = [at |-> "store", v |-> v]
    /\ UNCHANGED <<rx, wx, store, delayed, getting, taken, accepted>>

\* ... or there is none and put() returns false ...
PutRefuse ==
    /\ putting.at = "idle"
    /\ ~CanWrite
    /\ accepted' = FALSE
    /\ UNCHANGED <<rx, wx, store, delayed, putting, getting, taken>>

\* ... *p = v ...
PutStore ==
    /\ putting.at = "store"
    /\ delayed' = [delayed EXCEPT ![wx] = putting.v]
    /\ putting' = [putting EXCEPT !.at = "push"]
    /\ UNCHANGED <<rx, wx, store, getting, taken, accepted>>

\* ... push() advances wx unless the ring is full, and put() returns true.  With
\* ordered stores the new wx is not seen before the element is.
PutPush ==
    /\ putting.at = "push"
    /\ Ordered => delayed[wx] = Blank
    /\ wx' = IF CanWrite THEN NextIx(wx) ELSE wx
    /\ putting' = Idle
    /\ accepted' = TRUE
    /\ UNCHANGED <<rx, store, delayed, getting, taken>>

\* A delayed element becomes visible to the reading thread.
StoreDrains(i) ==
    /\ delayed[i] # Blank
    /\ store' = [store EXCEPT ![i] = delayed[i]]
    /\ delayed' = [delayed EXCEPT ![i] = Blank]
    /\ UNCHANGED <<rx, wx, putting, getting, taken, accepted>>

\* get(v): read() finds a filled slot (an empty ring leaves everything alone) ...
GetReserve ==
    /\ getting.at = "idle"
    /\ CanRead
    /\ getting' = [at |-> "copy", v |-> Blank]
    /\ UNCHANGED <<rx, wx, store, delayed, putting, taken, accepted>>

\* Mutant of GetCopy: reads at rx, the slot of the previous element.
GetCopyBehind ==
    /\ getting.at = "copy"
    /\ getting' = [at |-> "pop", v |-> store[rx]]
    /\ UNCHANGED <<rx, wx, store, delayed, putting, taken, accepted>>

\* ... v = *p ...
GetCopy ==
    /\ getting.at = "copy"
    /\ getting' = [at |-> "pop", v |-> store[NextIx(rx)]]
    /\ UNCHANGED <<rx, wx, store, delayed, putting, taken, accepted>>

\* ... pop() advances rx unless the ring is empty, and v is returned.
GetPop ==
    /\ getting.at = "pop"
    /\ rx' = IF CanRead THEN NextIx(rx) ELSE rx
    /\ taken' = <<getting.v>>
    /\ getting' = Idle
    /\ UNCHANGED <<wx, store, delayed, putting, accepted>>

Next ==
    \/ \E v \in Values : PutReserve(v)
    \/ PutRefuse
    \/ PutStore
    \/ PutPush
    \/ \E i \in Index : StoreDrains(i)
    \/ GetReserve
    \/ GetCopy
    \/ GetPop

Spec == Init /\ [][Next]_vars
-----------------------------------------------------------------------------
\* The type invariant.
TypeOK ==
    /\ rx \in Index
    /\ wx \in Index
    /\ store \in [Index -> Element]
    /\ delayed \in [Index -> Element]
    /\ putting \in [at : {"idle", "store", "push"}, v : Element]
    /\ getting \in [at : {"idle", "copy", "pop"}, v : Element]
    /\ taken \in {<<>>} \cup {<<v>> : v \in Element}
    /\ accepted \in BOOLEAN

\* The i-th element after rx, wrapping at the end of the store.
Slot(i) == IF rx + i < sz THEN rx + i ELSE rx + i - sz

\* The slot put() is about to write is never the one get() is about to copy,
\* although each thread checked the indices at an earlier time and the other has
\* moved since (ring.h 94-113).
SlotsDisjoint ==
    putting.at = "store" /\ getting.at = "copy" => wx # NextIx(rx)

\* A ring of size sz is a first-in first-out queue of sz - 2 elements: put()
\* refuses only when that many are stored, and get() returns the elements in
\* the order they were put, each once and each as it was put (ring.h 94-113).
Fifo == INSTANCE BoundedFifo WITH
            Capacity <- sz - 2,
            queue <- [i \in 1 .. Count |-> store[Slot(i)]]

ImplementsFifo == Fifo!Spec
=============================================================================
