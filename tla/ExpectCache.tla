---------------------------- MODULE ExpectCache ----------------------------
(***************************************************************************)
(* The cache of expected flows of a packet thread (flow/expect_cache.cc on *)
(* hash/zhash.cc): a hash table of nodes in least recently used order, the *)
(* linked list of ExpectFlows of each node, and the free list of the pool  *)
(* they come from.                                                         *)
(*                                                                         *)
(* A key is the pair of the ports of two hosts, the lower address first; 0 *)
(* is a port that is not known.  All callers expect both directions, so    *)
(* nodes have no direction.  Clocks only matter by their distance: a node  *)
(* has the seconds that are left to it, or Expired.                        *)
(***************************************************************************)
EXTENDS Integers, Sequences, FiniteSets, Functions

CONSTANTS
    Pool,           \* the ExpectFlows
    None,           \* no ExpectFlow
    Ports,          \* ports of packets
    Callers,        \* sets of what callers ask for: an id of flow data and a
                    \* snort protocol id
    MaxNodes,       \* nodes of the hash table
    MaxList,        \* MAX_LIST
    MaxPrune,       \* MAX_PRUNE
    MaxWait         \* MAX_WAIT

ASSUME PoolSize == IsFiniteSet(Pool) /\ Cardinality(Pool) = MaxNodes * MaxList
ASSUME PortsKnown == Ports \subseteq Nat \ {0}
ASSUME Sizes == {MaxNodes, MaxList, MaxPrune} \subseteq Nat \ {0} /\ MaxWait \in Nat

VARIABLES
    requests,       \* what the callers of this behaviour ask for
    order,          \* keys in the hash table, the most recently used first
    node,           \* the ExpectNode of each key
    next, data,     \* of each ExpectFlow: its successor (None follows None) and the
                    \* ids of its data
    free_list,      \* the first free ExpectFlow
    packet_flows,   \* packet_expect_flows: what the packet's requests created
    arrived,        \* the keys of the new flow of the last step, if there was one
    given           \* the data it got

vars == <<requests, order, node, next, data, free_list, packet_flows, arrived, given>>

Keys == ((Ports \cup {0}) \X (Ports \cup {0})) \ {<<0, 0>>}
Unknown == "unknown"
Ids == {r[1] : r \in UNION Callers}
Expired == -1

\* The null pointer is no ExpectFlow and no key.
ASSUME NullPointer == None \notin Pool \cup Keys

NewNode == [left |-> Expired, count |-> 0, proto |-> Unknown, head |-> None, tail |-> None]

PoolMax == MaxNodes * MaxList
Position(list, f) == CHOOSE i \in DOMAIN list : list[i] = f

\* ExpectCache::ExpectCache() pushes all of the pool to the free list.
Init ==
    /\ requests \in Callers
    /\ order = <<>>
    /\ node = [k \in Keys |-> NewNode]
    /\ \E pool \in Bijection(1..PoolMax, Pool) :
         /\ next = [f \in Pool \cup {None} |->
                       IF f \in {None, pool[1]} THEN None ELSE pool[Position(pool, f) - 1]]
         /\ free_list = pool[PoolMax]
    /\ data = [f \in Pool |-> <<>>]
    /\ packet_flows = {}
    /\ arrived = <<>>
    /\ given = <<>>
-----------------------------------------------------------------------------
(***************************************************************************)
(* What the functions do to a record s of the variables they change.       *)
(***************************************************************************)
Cache == [order |-> order, node |-> node, next |-> next, data |-> data, free_list |-> free_list]

\* The list that starts with f, its ExpectFlows one after the other: one more than
\* there are ExpectFlows if it has no end.
Walk(nx, f) ==
    LET at[n \in 0..PoolMax] == IF n = 0 THEN f ELSE nx[at[n - 1]]
    IN  at
Ends(at, n) == (n > 0 => at[n - 1] # None) /\ (n <= PoolMax => at[n] = None)
ChainOf(at) == [i \in 1..(CHOOSE n \in 0..(PoolMax + 1) : Ends(at, n)) |-> at[i - 1]]
Chain(nx, f) == ChainOf(Walk(nx, f))

InTable(s, k) == \E i \in DOMAIN s.order : s.order[i] = k

\* The keys without k.
Without(keys, k) ==
    LET p == Position(keys, k)
    IN  IF \A i \in DOMAIN keys : keys[i] # k THEN keys
        ELSE [i \in 1..(Len(keys) - 1) |-> IF i < p THEN keys[i] ELSE keys[i + 1]]

WithNode(s, k, n) == [s EXCEPT !.node = [s.node EXCEPT ![k] = n]]

\* ZHash::move_to_front(), and glink_node() of a new node.
ToFront(s, k) == [s EXCEPT !.order = <<k>> \o Without(s.order, k)]

\* ZHash::remove().
RemoveNode(s, k) == [WithNode(s, k, NewNode) EXCEPT !.order = Without(s.order, k)]

\* ExpectNode::clear(): the flows go to the free list one by one.
EmptyNode(n) == [n EXCEPT !.head = None, !.tail = None, !.count = 0]
Cleared(s, list, gone) ==
    [f \in Pool \cup {None} |->
        IF f \notin gone THEN s.next[f]
        ELSE IF f = list[1] THEN s.free_list ELSE list[Position(list, f) - 1]]

\* Mutant of Clear: the data stay with the ExpectFlow.
ClearKeepsData(s, k) ==
    LET list == Chain(s.next, s.node[k].head)
        gone == Range(list)
    IN  [WithNode(s, k, EmptyNode(s.node[k])) EXCEPT
            !.next = Cleared(s, list, gone),
            !.free_list = IF list = <<>> THEN s.free_list ELSE list[Len(list)]]

Clear(s, k) ==
    LET list == Chain(s.next, s.node[k].head)
        gone == Range(list)
    IN  [WithNode(s, k, EmptyNode(s.node[k])) EXCEPT
            !.next = Cleared(s, list, gone),
            !.data = [f \in Pool |-> IF f \in gone THEN <<>> ELSE s.data[f]],
            !.free_list = IF list = <<>> THEN s.free_list ELSE list[Len(list)]]

\* The least recently used node is cleared and removed.
Oldest(s) == s.order[Len(s.order)]
PruneOldest(s) == RemoveNode(Clear(s, Oldest(s)), Oldest(s))

\* Mutant of Prune: the least recently used nodes go, expired or not.
PruneAny(s) ==
    LET after[i \in 0..MaxPrune] ==
          IF i = 0 THEN s
          ELSE LET t == after[i - 1] IN IF t.order = <<>> THEN t ELSE PruneOldest(t)
    IN  after[MaxPrune]

\* ExpectCache::prune(): at most MaxPrune nodes, up to the first that has time left.
Prunable(s) == s.order # <<>> /\ s.node[Oldest(s)].left = Expired
Prune(s) ==
    LET after[i \in 0..MaxPrune] ==
          IF i = 0 THEN s
          ELSE LET t == after[i - 1] IN IF Prunable(t) THEN PruneOldest(t) ELSE t
    IN  after[MaxPrune]

\* ZHash::get() finds a node, and has one for a new key if there is one free.
CanGet(s, k) == InTable(s, k) \/ Len(s.order) < MaxNodes
-----------------------------------------------------------------------------
(***************************************************************************)
(* add_flow().                                                             *)
(***************************************************************************)
\* The node add_flow() works on, after prune() if need be: found and not
\* expired, or new.  An expired one is cleared and used like a new one.
Begin(s, k) == IF CanGet(s, k) THEN s ELSE Prune(s)
Reuses(s, k) == InTable(s, k) /\ s.node[k].left # Expired

\* A request whose protocol differs from the one of the node is refused, unless
\* one of them is unknown.
Mismatch(n, proto) == n.proto # proto /\ n.proto # Unknown /\ proto # Unknown
Refuses(s, k, proto) == Reuses(s, k) /\ Mismatch(s.node[k], proto)

\* The node of a request that is not refused.
Obtain(s, k, proto) ==
    LET t == IF InTable(s, k) /\ ~Reuses(s, k) THEN Clear(s, k) ELSE s
        n == IF Reuses(s, k) THEN s.node[k] ELSE NewNode
    IN  ToFront(WithNode(t, k, [n EXCEPT !.proto = proto]), k)

\* The request goes with the last flow of the list.
Joins(s, k, id) == s.node[k].tail # None /\ id \notin Range(s.data[s.node[k].tail])

\* A flow from the free list becomes the last of the node.
Link(s, k) ==
    LET f == s.free_list
        t == s.node[k].tail
        n == s.node[k]
    IN  [WithNode(s, k, [n EXCEPT !.head = IF t = None THEN f ELSE n.head,
                                  !.tail = f, !.count = n.count + 1]) EXCEPT
            !.next = [g \in Pool \cup {None} |->
                         IF g = f THEN None ELSE IF g = t /\ t # None THEN f ELSE s.next[g]],
            !.free_list = s.next[f]]

\* The request's data go with the last flow, and the node has its time again.
Extend(s, k, id) ==
    LET f == s.node[k].tail
    IN  [WithNode(s, k, [s.node[k] EXCEPT !.left = MaxWait]) EXCEPT
            !.data = [s.data EXCEPT ![f] = Append(s.data[f], id)]]

Becomes(s) == \E t \in {s} :
    /\ order' = t.order /\ node' = t.node
    /\ next' = t.next /\ data' = t.data /\ free_list' = t.free_list
    /\ UNCHANGED requests

\* The table is full of nodes, or out of flows, also after prune().
AddOverflows(k) == \E s \in {Begin(Cache, k)} :
    /\ ~CanGet(Cache, k)
    /\ ~CanGet(s, k) \/ s.free_list = None
    /\ Becomes(IF CanGet(s, k) THEN ToFront(s, k) ELSE s)
    /\ arrived' = <<>> /\ given' = <<>>
    /\ UNCHANGED packet_flows

\* A request for k with a protocol and data of an id.
AddFlow(k, id, proto) == \E s \in {Begin(Cache, k)} :
    /\ CanGet(s, k)
    /\ CanGet(Cache, k) \/ s.free_list # None
    /\ arrived' = <<>> /\ given' = <<>>
    /\ \/ Refuses(s, k, proto) /\ Becomes(ToFront(s, k)) /\ UNCHANGED packet_flows
       \/ /\ ~Refuses(s, k, proto)
          /\ \E p \in {Obtain(s, k, proto)} :
               \/ /\ ~Joins(p, k, id) /\ p.node[k].count >= MaxList
                  /\ Becomes(p) /\ UNCHANGED packet_flows
               \/ /\ Joins(p, k, id)
                  /\ Becomes(Extend(p, k, id)) /\ UNCHANGED packet_flows
               \/ /\ ~Joins(p, k, id) /\ p.node[k].count < MaxList
                  /\ Becomes(Extend(Link(p, k), k, id))
                  /\ packet_flows' = packet_flows \cup {p.free_list}
-----------------------------------------------------------------------------
(***************************************************************************)
(* A packet arrives: Packet::reset() forgets what the last one created.    *)
(***************************************************************************)
\* Seconds later.
Aged(n, dt) == [n EXCEPT !.left = IF n.left < dt THEN Expired ELSE n.left - dt]
Later(s, dt) == [s EXCEPT !.node = [k \in Keys |-> Aged(s.node[k], dt)]]

\* find_node_by_packet() looks for the packet's ports, then without the source's,
\* then without the destination's; reversed: the source is the lower host.
LookupKeys(l, h, reversed) ==
    IF reversed THEN <<<<l, h>>, <<0, h>>, <<l, 0>>>> ELSE <<<<l, h>>, <<l, 0>>, <<0, h>>>>
Lookups == {LookupKeys(l, h, reversed) : l, h \in Ports, reversed \in BOOLEAN}

\* The first flow of a list is taken off it.
Taken(s, k) ==
    [s.node[k] EXCEPT !.count = s.node[k].count - 1, !.head = s.next[s.node[k].head]]

\* Mutant of ProcessExpected: the flow that was used is lost.
ProcessExpectedLeaks(s, k) ==
    LET f == s.node[k].head
        t == [WithNode(s, k, Taken(s, k)) EXCEPT !.data = [s.data EXCEPT ![f] = <<>>]]
    IN  IF Taken(s, k).count = 0 THEN RemoveNode(t, k) ELSE t

\* process_expected(): the first flow of the list gives its data to the packet's
\* flow and is free again; a node without flows is removed.
ProcessExpected(s, k) ==
    LET f == s.node[k].head
        t == [WithNode(s, k, Taken(s, k)) EXCEPT
                 !.next = [s.next EXCEPT ![f] = s.free_list],
                 !.data = [s.data EXCEPT ![f] = <<>>], !.free_list = f]
    IN  IF Taken(s, k).count = 0 THEN RemoveNode(t, k) ELSE t

\* A packet of a flow that is known already.
OtherPacket(dt) ==
    /\ Becomes(Later(Cache, dt))
    /\ packet_flows' = {}
    /\ arrived' = <<>> /\ given' = <<>>

\* Mutant of Usable: an expired node still gives its data.
UsableLate(n) == n.head # None

\* A node that find_node_by_packet() returns, and does not remove.
Usable(n) == n.head # None /\ n.left # Expired

\* check() for a packet of a new flow, with its keys.
Check(dt, keys) == \E s \in {Later(Cache, dt)} :
    /\ packet_flows' = {}
    /\ arrived' = keys
    /\ \/ /\ \A i \in DOMAIN keys : ~InTable(s, keys[i])
          /\ Becomes(s) /\ given' = <<>>
       \/ \E i \in DOMAIN keys : \E k \in {keys[i]} :
          /\ InTable(s, k) /\ \A j \in 1..(i - 1) : ~InTable(s, keys[j])
          /\ \/ /\ ~Usable(s.node[k])
                /\ Becomes(RemoveNode(Clear(ToFront(s, k), k), k)) /\ given' = <<>>
             \/ /\ Usable(s.node[k])
                /\ Becomes(ProcessExpected(ToFront(s, k), k)) /\ given' = s.data[s.node[k].head]

Next ==
    \/ \E k \in Keys : AddOverflows(k)
    \/ \E k \in Keys, r \in requests : AddFlow(k, r[1], r[2])
    \/ \E dt \in 0..(MaxWait + 1) : OtherPacket(dt)
    \/ \E dt \in 0..(MaxWait + 1), keys \in Lookups : Check(dt, keys)

Spec == Init /\ [][Next]_vars
-----------------------------------------------------------------------------
(***************************************************************************)
(* Properties.                                                             *)
(***************************************************************************)
List(k) == Chain(next, node[k].head)
Free == Chain(next, free_list)

\* The lists share the pool out: every ExpectFlow is once in the free list or in
\* the list of one node, whatever clear(), process_expected() and add_flow() did;
\* every node in the table has flows, as many as it counts, the last of them its
\* tail; and free flows hold no data, which their next user would get.
PoolShared ==
    LET lists == [o \in Range(order) \cup {None} |-> IF o = None THEN Free ELSE List(o)] IN
    /\ UNION {Range(lists[o]) : o \in DOMAIN lists} = Pool
    /\ \A o \in DOMAIN lists : IsInjective(lists[o])
    /\ \A o1, o2 \in DOMAIN lists : o1 # o2 => Range(lists[o1]) \cap Range(lists[o2]) = {}
    /\ \A k \in Range(order) : /\ lists[k] # <<>> /\ Len(lists[k]) = node[k].count
                               /\ lists[k][Len(lists[k])] = node[k].tail
    /\ \A f \in Range(Free) : data[f] = <<>>

\* "The flow free list should never be empty if there was a node to be (re-)used"
\* (add_flow()), although only one of its two paths checks that.
FreeWhenNeeded ==
    (Len(order) < MaxNodes \/ \E k \in Range(order) : node[k].count < MaxList) =>
        free_list # None

\* packet_expect_flows, which ExpectFlow::get_expect_flows() hands out, points to
\* flows that are still expected, although a later request of the same packet may
\* prune and clear nodes.
PacketFlowsExpected ==
    \A f \in packet_flows : \E k \in Range(order) : f \in Range(List(k))

\* The cache is the queues the header describes: a flow that was expected gets
\* the data that were requested first and together, under the first of its keys
\* that expects flows; nothing that expired is given, and nothing is dropped before
\* it expired, whatever prune(), clear() and process_expected() do to the lists.
Queue == [k \in Keys |-> LET at == Walk(next, node[k].head)
                         IN  [i \in 1..node[k].count |-> data[at[i - 1]]]]
Queues == INSTANCE ExpectQueues WITH queue <- Queue, left <- [k \in Keys |-> node[k].left]
ImplementsQueues == Queues!Spec
=============================================================================
