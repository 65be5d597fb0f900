----------------------------- MODULE FlowCache -----------------------------
(***************************************************************************)
(* The flow cache of one protocol in one packet thread: FlowCache, the     *)
(* ZHash it keeps its flows in, and the callers in FlowControl, Stream and *)
(* the HA client that find, create, prune, time out and delete flows.      *)
(*                                                                         *)
(* Everything here runs in one packet thread.  What makes it hard is the   *)
(* shared cursor of the hash table, which one call leaves behind for the   *)
(* next, the pruning loops, which reorder the list they walk, and pruning  *)
(* that memory pressure starts in the middle of a packet.                  *)
(*                                                                         *)
(* A flow is named by its key.  Flow records of absent keys are fresh:     *)
(* Flow::reset has cleared them before they go to the free list.           *)
(***************************************************************************)
EXTENDS Integers, Sequences, Functions

CONSTANTS
    Keys,             \* flow keys
    None,             \* a null pointer
    MaxSessions,      \* FlowConfig::max_sessions
    PruningTimeout,   \* FlowConfig::pruning_timeout
    NominalTimeout,   \* FlowConfig::nominal_timeout
    Features          \* the sets of features (below) a run starts with

(* max_sessions is at least 2, the timeouts at least 1 (stream_module.cc). *)
ASSUME FlowCacheConstants ==
    /\ None \notin Keys
    /\ MaxSessions \in Nat /\ MaxSessions >= 2
    /\ PruningTimeout \in Nat \ {0} /\ NominalTimeout \in Nat \ {0}
    /\ Features \subseteq SUBSET {"block", "offload", "standby", "lookup"}

VARIABLES
    cache,    \* the table: lists, cursor, flows, free nodes
    pc,       \* where the packet thread is
    work,     \* the locals of the call in progress
    may       \* the features in use: rules that block, regex offload, HA, and
              \* inspectors that look up other flows

vars == <<cache, pc, work, may>>

CleanupFlows == 1
MaxUni == (MaxSessions \div 4) + 1

(* Idle times from MaxAge on are alike: every timeout has passed. *)
MaxAge == IF NominalTimeout > PruningTimeout THEN NominalTimeout ELSE PruningTimeout + 1

Flow == [age : 0..MaxAge,                          \* packet_time - last_data_seen
         blocked : BOOLEAN,                        \* was_blocked
         offloaded : BOOLEAN,                      \* is_offloaded
         standby : BOOLEAN,                        \* in_standby
         seen : {"none", "one", "both"}]           \* sides: SSNFLAG_SEEN_*

Fresh == [age |-> 0, blocked |-> FALSE, offloaded |-> FALSE,
          standby |-> FALSE, seen |-> "none"]

(* lru runs from gtail (the least recently used) to ghead; uni from         *)
(* uni_tail->prev to uni_head->next; free counts the nodes of the free list *)
Cache == [lru : Seq(Keys), cursor : Keys \cup {None}, uni : Seq(Keys),
          flow : [Keys -> Flow], free : 0..MaxSessions]

(* peeked: the flows that inspectors looked up for the packet in progress   *)
Idle == [key |-> None, ha |-> FALSE, pruned |-> 0, blocks |-> 0, ignore |-> 0,
         peeked |-> {}]

Init ==
    /\ cache = [lru |-> <<>>, cursor |-> None, uni |-> <<>>,
                flow |-> [k \in Keys |-> Fresh], free |-> MaxSessions]
    /\ pc = "idle"
    /\ work = Idle
    /\ may \in Features

-----------------------------------------------------------------------------
(* The hash table.  Its rows only serve lookups, so membership stands for  *)
(* them.                                                                   *)

Oldest(c) == IF c.lru = <<>> THEN None ELSE Head(c.lru)

Newest(c) == IF c.lru = <<>> THEN None ELSE c.lru[Len(c.lru)]

(* where a key is in a list, and the list once the key was unlinked *)
Position(s, k) == CHOOSE i \in DOMAIN s : s[i] = k
Without(s, k) ==
    LET i == Position(s, k)
    IN  IF k \in Range(s) THEN SubSeq(s, 1, i - 1) \o SubSeq(s, i + 1, Len(s)) ELSE s

(* node->gprev: the next more recently used node *)
Newer(c, k) ==
    LET i == Position(c.lru, k)
    IN  IF i = Len(c.lru) THEN None ELSE c.lru[i + 1]

(* mutant: the cursor stays on the unlinked node *)
GunlinkKeepingCursor(c, k) == [c EXCEPT !.lru = Without(@, k)]

Gunlink(c, k) ==
    [c EXCEPT !.lru = Without(@, k),
              !.cursor = IF @ = k THEN Newer(c, k) ELSE @]

Glink(c, k) == [c EXCEPT !.lru = Append(@, k)]

(* mutant: finding a flow leaves the list alone *)
MoveToFrontNever(c, k) == c

MoveToFront(c, k) == IF k = Newest(c) THEN c ELSE Glink(Gunlink(c, k), k)

First(c) == [c EXCEPT !.cursor = Oldest(c)]

Touch(c) ==
    LET k == c.cursor
        d == [c EXCEPT !.cursor = Newer(c, k)]
    IN  IF k = Newest(c) THEN d ELSE Glink(Gunlink(d, k), k)

(* remove(key) finds the node, which moves it to the front, and unlinks it *)
RemoveNode(c, k) == [Gunlink(MoveToFront(c, k), k) EXCEPT !.free = @ + 1]

AddNode(c, k) == [Glink(c, k) EXCEPT !.free = @ - 1]

-----------------------------------------------------------------------------
(* The cache's own helpers.                                                *)

LinkUni(c, k) == [c EXCEPT !.uni = Append(@, k)]

UnlinkUni(c, k) == [c EXCEPT !.uni = Without(@, k)]

(* Flow::reset waits until the flow's offloads have come back *)
Release(c, k) == [RemoveNode(UnlinkUni(c, k), k) EXCEPT !.flow[k] = Fresh]

Find(c, k) == [MoveToFront(c, k) EXCEPT !.flow[k].age = 0]

InTable(k) == k \in Range(cache.lru)

(* where the thread goes with the flow it found or made *)
Found(w) == IF w.ha THEN "standby" ELSE "cleanup"

-----------------------------------------------------------------------------
(* FlowControl::process and the HA client look a flow up and get a new one *)
(* when there is none; a full cache is pruned first.                       *)

Lookup(k, ha) ==
    /\ pc = "idle"
    /\ ha => "standby" \in may
    /\ work' = [Idle EXCEPT !.key = k, !.ha = ha]
    /\ \/ /\ InTable(k)
          /\ cache' = Find(cache, k)
          /\ pc' = Found(work')
       \/ /\ ~InTable(k) /\ cache.free > 0
          /\ cache' = AddNode(cache, k)
          /\ pc' = Found(work')
       \/ /\ ~InTable(k) /\ cache.free = 0
          /\ cache' = First(cache)
          /\ pc' = "stale"
    /\ UNCHANGED may

(* mutant: the loop over stale flows has no limit *)
StaleUnlimited(k) ==
    /\ k # None
    /\ ~cache.flow[k].offloaded
    /\ cache.flow[k].age > PruningTimeout

Stale(k) ==
    /\ k # None
    /\ work.pruned <= CleanupFlows
    /\ ~cache.flow[k].offloaded
    /\ cache.flow[k].age > PruningTimeout

PruneStale ==
    /\ pc = "stale"
    /\ \/ /\ Stale(Oldest(cache))
          /\ cache' = First(Release(cache, Oldest(cache)))
          /\ work' = [work EXCEPT !.pruned = @ + 1]
          /\ UNCHANGED pc
       \/ /\ ~Stale(Oldest(cache))
          /\ pc' = IF work.pruned > 0 THEN "take" ELSE "unis"
          /\ UNCHANGED <<cache, work>>
    /\ UNCHANGED may

(* The walk from the oldest one-way flow skips blocked ones and stops at   *)
(* the first it releases.  When all are blocked it goes on to the list's   *)
(* sentinel, uni_head, and releases that: unlink_uni then follows its null *)
(* prev pointer.                                                           *)
PruneUnis ==
    /\ pc = "unis"
    /\ LET open == {i \in DOMAIN cache.uni : ~cache.flow[cache.uni[i]].blocked} IN
       \/ /\ Len(cache.uni) <= MaxUni
          /\ work' = [work EXCEPT !.ignore = Len(cache.lru)]
          /\ pc' = "excess"
          /\ UNCHANGED cache
       \/ /\ Len(cache.uni) > MaxUni
          /\ \E i \in open : /\ \A j \in open : i <= j
                            /\ cache' = Release(cache, cache.uni[i])
          /\ pc' = "take"
          /\ UNCHANGED work
       \/ /\ Len(cache.uni) > MaxUni /\ open = {}
          /\ pc' = "unihead"
          /\ UNCHANGED <<cache, work>>
    /\ UNCHANGED may

(* mutant: every flow passed over counts as blocked *)
PassedOverAll(k) == work.blocks + 1

(* the count of blocked flows after flow k was passed over *)
PassedOver(k) == work.blocks + (IF cache.flow[k].blocked THEN 1 ELSE 0)

PruneExcess ==
    /\ pc = "excess"
    /\ LET n == Len(cache.lru)
           k == Oldest(cache)
           more == n > MaxSessions - CleanupFlows /\ n > work.blocks
           skip == \/ cache.flow[k].blocked
                   \/ cache.flow[k].offloaded /\ work.ignore > 0
           w == [work EXCEPT !.ignore = IF @ > 0 THEN @ - 1 ELSE 0]
       IN  \/ /\ more /\ skip
              /\ cache' = Touch(First(cache))
              /\ work' = [w EXCEPT !.blocks = PassedOver(k)]
              /\ pc' = IF k = Newest(cache) THEN "take" ELSE pc
           \/ /\ more /\ ~skip
              /\ cache' = Release(First(cache), k)
              /\ work' = w
              /\ UNCHANGED pc
           \/ /\ ~more
              /\ pc' = "take"
              /\ UNCHANGED <<cache, work>>
    /\ UNCHANGED may

(* the second hash_table->get of FlowCache::get, and its assert(flow) *)
Take ==
    /\ pc = "take"
    /\ \/ /\ cache.free > 0
          /\ cache' = LinkUni(AddNode(cache, work.key), work.key)
          /\ pc' = Found(work)
       \/ /\ cache.free = 0
          /\ pc' = "noflow"
          /\ UNCHANGED cache
    /\ UNCHANGED <<work, may>>

-----------------------------------------------------------------------------
(* The packet thread with its flow.                                        *)

(* mutant: the only flow in the cache may be pruned too *)
PruneOneOfOne == cache.lru # <<>>

(* "so we don't prune the current flow (assume current == MRU)" *)
MayPruneOne == Len(cache.lru) > 1

(* preemptive_cleanup goes on while memory is over the threshold; the      *)
(* allocator prunes when an allocation meets the cap, which any code that  *)
(* handles the packet or the message can make it do.  When the oldest flow *)
(* is the one in hand, the thread goes on with a flow that was reset.      *)
PruneOne ==
    /\ pc \in {"cleanup", "inspect", "standby"}
    /\ MayPruneOne
    /\ cache' = Release(First(cache), Oldest(cache))
    /\ pc' = IF Oldest(cache) = work.key THEN "lost" ELSE pc
    /\ UNCHANGED <<work, may>>

(* the rest of FlowControl::process *)
Process ==
    /\ pc = "cleanup"
    /\ cache' = IF cache.flow[work.key].seen = "both"
                THEN UnlinkUni(cache, work.key) ELSE cache
    /\ pc' = "inspect"
    /\ UNCHANGED <<work, may>>

(* An inspector looks another flow up, which is a find like any other: SIP *)
(* a media session, FTP the control session of its data, ICMP the session  *)
(* that is unreachable, which it marks to be dropped.                      *)
Peek(k, block) ==
    /\ pc = "inspect"
    /\ "lookup" \in may
    /\ block => "block" \in may
    /\ InTable(k)
    /\ cache' = [Find(cache, k) EXCEPT !.flow[k].blocked = @ \/ block]
    /\ work' = [work EXCEPT !.peeked = @ \cup {k}]
    /\ UNCHANGED <<pc, may>>

(* Inspection and detection see the packet's side, which after the first   *)
(* packet may be the other one, may block the flow and may offload its     *)
(* search; a packet takes its flow out of standby.                         *)
Inspected(f, other, block, offload) ==
    [f EXCEPT !.seen = IF @ = "none" THEN "one" ELSE IF other THEN "both" ELSE @,
              !.blocked = @ \/ block, !.offloaded = @ \/ offload, !.standby = FALSE]

Inspect(other, block, offload) ==
    /\ pc = "inspect"
    /\ block => "block" \in may
    /\ offload => "offload" \in may
    /\ cache' = [cache EXCEPT !.flow[work.key] = Inspected(@, other, block, offload)]
    /\ pc' = "timeout"
    /\ work' = Idle
    /\ UNCHANGED may

(* Stream::check_flow_closed deletes the flow of a closed session *)
CloseFlow ==
    /\ pc = "inspect"
    /\ ~cache.flow[work.key].offloaded
    /\ cache' = Release(cache, work.key)
    /\ pc' = "timeout"
    /\ work' = Idle
    /\ UNCHANGED may

(* an offloaded search has come back; the session may have closed since *)
Onload(k, closed) ==
    /\ pc = "idle"
    /\ InTable(k)
    /\ cache.flow[k].offloaded
    /\ cache' = IF closed THEN Release(cache, k)
                ELSE [cache EXCEPT !.flow[k].offloaded = FALSE]
    /\ UNCHANGED <<pc, work, may>>

(* StreamHAClient::consume: the peer's state replaces the flow's *)
Consume(seen, block) ==
    /\ pc = "standby"
    /\ block => "block" \in may
    /\ cache' = [cache EXCEPT !.flow[work.key] =
           [@ EXCEPT !.seen = seen, !.blocked = block, !.standby = TRUE]]
    /\ pc' = "idle"
    /\ work' = Idle
    /\ UNCHANGED may

(* FlowControl::delete_flow(key), for the peer's deletion messages *)
HaDelete(k) ==
    /\ pc = "idle"
    /\ "standby" \in may
    /\ InTable(k)
    /\ cache' = Release(Find(cache, k), k)
    /\ UNCHANGED <<pc, work, may>>

-----------------------------------------------------------------------------
(* Time and the ends of flows.                                             *)

Expired(k) == cache.flow[k].age >= NominalTimeout

Skipped(k) == cache.flow[k].standby \/ cache.flow[k].offloaded

(* the place in the list where timeout starts: the cursor or the oldest *)
ScanFrom ==
    IF cache.cursor = None THEN 1
    ELSE Position(cache.lru, cache.cursor)

(* FlowCache::timeout(1, now), after every packet and whenever the thread  *)
(* is idle: pass over expired flows that must stay, retire the first that  *)
(* need not, stop at one that has not expired.                             *)
Timeout ==
    /\ pc \in {"idle", "timeout"}
    /\ pc' = "idle"
    /\ LET lru == cache.lru
           stops == {i \in ScanFrom..Len(lru) : ~(Expired(lru[i]) /\ Skipped(lru[i]))}
           at(k) == [cache EXCEPT !.cursor = k]
       IN  \/ /\ stops = {}
              /\ cache' = at(None)
           \/ \E i \in stops :
                 /\ \A j \in stops : i <= j
                 /\ cache' = IF Expired(lru[i]) THEN Release(at(lru[i]), lru[i])
                             ELSE at(lru[i])
    /\ UNCHANGED <<work, may>>

(* time goes on; idle times are counted up to MaxAge *)
Aged(f) == [f EXCEPT !.age = IF @ < MaxAge THEN @ + 1 ELSE @]

Tick ==
    /\ pc = "idle"
    /\ cache' = [cache EXCEPT !.flow = [k \in Keys |->
           IF InTable(k) THEN Aged(cache.flow[k]) ELSE cache.flow[k]]]
    /\ UNCHANGED <<pc, work, may>>

(* Stream::purge_flows when the thread ends: every flow, oldest first *)
Purge ==
    /\ pc = "idle"
    /\ cache' = [lru |-> <<>>, cursor |-> None, uni |-> <<>>,
                 flow |-> [k \in Keys |-> Fresh], free |-> cache.free + Len(cache.lru)]
    /\ pc' = "purged"
    /\ UNCHANGED <<work, may>>

Stopped ==
    /\ pc \in {"purged", "noflow", "unihead", "lost"}
    /\ UNCHANGED vars

(* what the thread does once it has taken up a packet or a message *)
Step ==
    \/ PruneStale \/ PruneUnis \/ PruneExcess \/ Take
    \/ PruneOne \/ Process \/ CloseFlow
    \/ \E other, block, offload \in BOOLEAN : Inspect(other, block, offload)
    \/ \E seen \in {"none", "one", "both"}, block \in BOOLEAN : Consume(seen, block)

Next ==
    \/ \E k \in Keys, ha \in BOOLEAN : Lookup(k, ha)
    \/ Step
    \/ \E k \in Keys, block \in BOOLEAN : Peek(k, block)
    \/ \E k \in Keys, closed \in BOOLEAN : Onload(k, closed)
    \/ \E k \in Keys : HaDelete(k)
    \/ Timeout
    \/ Tick
    \/ Purge
    \/ Stopped

Spec == Init /\ [][Next]_vars

(* The thread finishes what it took up (inspectors look up finitely many   *)
(* flows for a packet), and calls timeout_flows after every packet and     *)
(* each time its DAQ has no packet; time passes.                           *)
FairSpec == Spec /\ WF_vars(Step) /\ WF_vars(Timeout) /\ WF_vars(Tick)

-----------------------------------------------------------------------------
(* Properties.                                                             *)

(* Every variable has its type: in particular the lists hold keys, and the *)
(* free list and the counts of the pruning loops stay within max_sessions  *)
(* (flow_cache.cc, zhash.cc).                                              *)
TypeOK ==
    /\ cache \in Cache
    /\ pc \in {"idle", "stale", "unis", "excess", "take", "cleanup", "inspect",
               "standby", "timeout", "purged", "noflow", "unihead", "lost"}
    /\ work \in [key : Keys \cup {None}, ha : BOOLEAN, pruned : 0..CleanupFlows + 1,
                 blocks : 0..MaxSessions, ignore : 0..MaxSessions, peeked : SUBSET Keys]
    /\ may \in Features

(* The intrusive lists stay consistent through every release: no flow is   *)
(* linked twice, the one-way list and the cursor that calls leave behind   *)
(* point only at flows in the table (never at a node of the free list), and *)
(* every preallocated node is either in the table or free (zhash.cc         *)
(* gunlink_node, flow_cache.cc unlink_uni and remove).                      *)
ListsAgree ==
    /\ IsInjective(cache.lru) /\ IsInjective(cache.uni)
    /\ Range(cache.uni) \subseteq Range(cache.lru)
    /\ cache.cursor \in Range(cache.lru) \cup {None}
    /\ Len(cache.lru) + cache.free = MaxSessions

(* The flow of the packet or message in progress is in the table, and the  *)
(* flows used more recently are ones that inspectors looked up for that    *)
(* packet.  Memory pressure takes it away only when all the flows it left  *)
(* in the table, one at least, are such: without a lookup it is the newest *)
(* and stays, as prune_one assumes ("assume current == MRU",               *)
(* flow_cache.cc; Stream::get_flow moves what it finds to the front).      *)
CurrentKept ==
    /\ pc \in {"cleanup", "inspect", "standby"} =>
          /\ InTable(work.key)
          /\ \A i, j \in DOMAIN cache.lru :
                cache.lru[i] = work.key /\ i < j => cache.lru[j] \in work.peeked
    /\ pc = "lost" => cache.lru # <<>> /\ Range(cache.lru) \subseteq work.peeked

(* FlowCache::get finds no room (its assert(flow) fails) only when every   *)
(* flow in the cache is blocked: prune_excess says of offloaded flows that *)
(* it will "prune offloads at that point" (flow_cache.cc).                  *)
RoomUnlessBlocked == pc = "noflow" => \A k \in Range(cache.lru) : cache.flow[k].blocked

(* As RoomUnlessBlocked, where blocked and offloaded flows do not mix. *)
RoomUnlessMixed == {"block", "offload"} \subseteq may \/ RoomUnlessBlocked

(* Where no flow is ever passed over by timeout (no offload, no standby),  *)
(* none stays in the cache past its idle timeout for ever, however other   *)
(* flows' packets move the list and the cursor (FlowCache::timeout).       *)
IdleRetired ==
    may \cap {"offload", "standby"} = {} =>
        \A k \in Keys : []<>(\/ pc \in {"purged", "noflow", "unihead", "lost"}
                           \/ ~InTable(k) \/ ~Expired(k))

=============================================================================
