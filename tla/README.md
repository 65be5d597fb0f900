# A TLA+ verification of bvd-snort

bvd-snort is Snort++ 3.0.0-a4 with an additional search engine, `ac_gpu`, that runs the
Aho-Corasick automaton in an OpenCL kernel. This directory holds TLA+ models of the parts in
which several threads, callbacks or long sequences of calls meet, the TLC runs that check
them on small instances, and proofs, checked by TLAPS, for every size.

`PROJECT.json` lists the components, the runs, the source lines behind every definition, the
hazards, the findings and the theorems. Paths below are relative to the source tree's `src/`.

## 1. The system

The *main thread* reads the configuration, starts the *packet threads* and then serves pokes
from them, shells and signals. A packet thread acquires packets from a DAQ module, decodes
them, finds their flow, reassembles, inspects and runs detection; detection uses a search
engine that belongs to the configuration. Threads share little, and what they share is where
this project looks.

| Part | State | Operations | What is hard |
|---|---|---|---|
| Ring buffer (`helpers/ring.h`, `ring_logic.h`) | two indices, store | put, get | no lock, two threads |
| Main loop and pigs (`main.cc`) | pigs, poke ring, pending privileges, paused, reloading | handle, start, stop, prep, broadcast, reap | pokes lost or late, threads that die |
| Analyzer (`main/analyzer.cc`) | state, two command queues, DAQ | start, run, pause, resume, stop, handle_command | order of queue and state |
| Analyzer commands (`main/analyzer_command.cc`) | reference count, own flags | execute, get, put | one object, many threads |
| Swapper (`main/swapper.cc`) | old and new configuration and host table | apply, destructor | deletion while in use |
| Control connections (`main/control*.cc`, `request.cc`, `shell.cc`) | blocked, queued response | block, unblock, respond | failing connection, reused descriptor |
| Signals (`helpers/process.cc`) | ring of signals | handlers, get_pending_signal | ring at its limit |
| GPU search (`search_engines/acsmx3.cc`, `ac_gpu.cc`, `../ac_gpu.cl`) | patterns, state table, batch, counts | add, compile, search, dispatch, free | shared batch, failure links |
| Flow cache (`flow/flow_cache.cc`, `hash/zhash.cc`) | LRU list, one-way list, cursor, free nodes | get, find, release, three prunes, timeout, purge | cursor kept across calls, pruning mid-packet |
| Flow control (`flow/flow_control.cc`, `flow/flow.cc`, `stream/stream.cc`) | callers of the cache | process, consume, delete, onload | re-entry |
| Regex offload (`detection/regex_offload.cc`, `context_switcher.cc`, `detection_engine.cc`) | contexts, requests, workers | offload, onload, idle, stop | a search that outlives what it reads; calls nested in calls |
| High availability (`flow/ha.cc`, `stream/base/stream_ha.cc`) and its channel (`side_channel/`, `connectors/tcp_connector/`) | HA state of a flow at two peers, messages | update, delete, receive | late and lost messages, failover |
| Expected flows (`flow/expect_cache.cc`) | hash table, linked lists, pool | add_flow, check, prune | pointers shared between lists |
| TCP sessions (`stream/tcp/`) | as far as offload and HA need them | flush, clear, reset, close | re-entry through detection |
| TCP state machine, IP defragmentation, PAF, latency, filters, host cache, memory cap | see section 8 | | |
| Codecs, inspectors, rules, loggers, parser, utilities | sequential or per packet | | not modelled |

## 2. The modules

| Module | Models | Lines of code |
|---|---|---|
| `BoundedFifo` | what a ring promises: a bounded first-in first-out queue | the abstract specification |
| `Ring` | `Ring<T>` and `RingLogic` between one writer and one reader | `helpers/ring.h`, `ring_logic.h` |
| `RingProofs` | theorems about `Ring` | |
| `Drove` | main thread, packet threads, commands, configurations, shells, signals | `main.cc`, `main/*.cc`, `helpers/process.cc` |
| `DroveInv` | the inductive invariants of `Drove`, and the kinds of its steps | |
| `DroveThreads`, `DroveMain`, `DroveSteps`, `DroveProofs` | theorems about `Drove` | |
| `AcGpu` | the `ac_gpu` engine with its kernel | `search_engines/acsmx3.cc`, `../ac_gpu.cl` |
| `FlowCache` | the flow cache of one protocol in one packet thread, with its callers | `flow/flow_cache.cc`, `hash/zhash.cc`, `flow/flow_control.cc` |
| `FlowCacheProofs` | theorems about `FlowCache` | |
| `Offload` | regex offload with the TCP and flow code that calls it | `detection/*.cc`, `stream/tcp/*.cc`, `flow/flow.cc`, `main/snort.cc` |
| `FlowHA` | one flow at two HA peers, and the channel between them | `flow/ha.cc`, `stream/base/stream_ha.cc`, `connectors/tcp_connector/tcp_connector.cc` |
| `FlowHAProofs` | theorems about `FlowHA` | |
| `ExpectCache` | the cache of expected flows, as linked lists in a pool | `flow/expect_cache.cc`, `hash/zhash.cc` |
| `ExpectQueues` | what that cache promises: a queue of expected flows for each key | the abstract specification |
| `MCRing`, `MCDrove`, `MCAcGpu`, `MCFlowCache`, `MCOffload`, `MCFlowHA`, `MCExpectCache` | the instances TLC checks | |

### Ring

`put` is `PutReserve` (or `PutRefuse`), `PutStore`, `PutPush`; `get` is `GetReserve`,
`GetCopy`, `GetPop`: each is one access the other thread can observe. `delayed` holds elements
written but not yet visible (`StoreDrains` makes them so). With `Ordered` the new `wx` is not
seen before the element; without it, it may be, because the indices are volatile, the store is
not and there is no barrier. A ring of size `sz` holds `sz - 2` elements; the refinement maps
the slots between the indices to the abstract queue.

### Drove

`m` is the main thread and `main.cc`'s statics, `pig[i]` a pig with its analyzer and thread,
`poke` the ring of pokes (a bounded queue under `poke_mutex`, as `Ring` shows), `cmd` the
commands with their reference counts, `live` the configurations and host tables that exist,
`control` the connections. Actions `T...` are steps of a packet thread, `M...` of `main_loop`
and `handle`, `D...` of dispatching one command to the pigs one by one, `S...` of
`service_check`. A set-up (`Setup`) fixes what the command line and the environment would:
live or files, privileges to drop, a DAQ that may fail, `--pause`, which requests come from
users and which from signals. `Init` chooses it from `Setups`, so that one run covers several.
Commands that change nothing the drove depends on (statistics, rotation, DAQ swap) are one
kind, `STATS`.

### AcGpu

The trie, the failure links and the completed automaton are built by the steps of
`_acsmCompile`; one step handles one pattern or one state. `acsm3Search` is split where
another thread can interfere: copy, length, and the load and the store of
`packet_buffer_index++`. `Dispatch` is `cl_dispatch` with the kernel's work-items; `Free`
searches what is left and gives up references. Texts are assumed to be no longer than a slot.

### FlowCache

`cache` is the hash table with its lists and cursor. `Lookup` is `find` followed by `get`; a full
cache goes through `PruneStale`, `PruneUnis`, `PruneExcess` and `Take`, one step for each turn of
their loops. A packet then passes `cleanup` (`FlowControl::process`, in which the preemptive
cleanup may prune), `inspect` and `timeout`; `PruneOne` may happen at any point of it, since any
allocation can meet the memory cap. `Consume` and `HaDelete` are messages of an HA peer,
`Onload` is the return of an offloaded search. `Features` says which reasons to keep a flow
exist. Where the code would go wrong, `get` with no room (`noflow`) and `prune_unis` on the list's
sentinel (`unihead`), the model stops and the properties say when that may be.

### Offload

The packet thread is `todo`, the calls it has still to make, innermost first: a handler that calls
others replaces itself by them, so that one flush, onload or release nests in another as in the
code. A call is one step from one point where a worker could be observed to the next. `idle`,
`busy` and `hold` are the three places of `ContextSwitcher`, `req` and `at` the requests and worker
threads of `RegexOffload`, `flows` what the callers need of each flow: segments waiting, searches
pending, the session's state. `PacketCallback` starts a packet; `Prune` is the pruning of flows
before it, `Process` the TCP handlers (data, RST, last ACK), `TimeoutFlows` what follows. A worker
waits on its condition for a second at most (`Wait`, `Wake`) and searches (`Searched`); a notification
that meets no waiting worker is lost. `Setups` says which verdicts rules reach.

### FlowHA

`flow[p]` is the flow in the cache of peer `p` with its `FlowHAState`; `sock` is what was written to
the connection and `ring` what the receive thread has put in the connector's ring. A packet
(`PacketCallback`) is handled whole, since nothing else runs in the packet thread: inspection, which
may create, expire, block, close or reset the session, then `process_update`, with
`min_sync_interval` elapsed or not, then all messages in the ring. `OtherPacket` is a packet of
another flow or an idle moment, which may prune the flow. `ThreadTerm` shuts a peer down.
`TcpReceive` moves a message to the ring, or loses it when the ring is full. A key that is not in
the cache gets a `Flow` object that was never used (`fresh`), was released (`recycled`) or was pruned
just now (`pruned`): they differ in the HA state that is left in them. `told` is auxiliary.

### ExpectCache

The code's pointers: `next` of every `ExpectFlow`, `head` and `tail` of every node, `free_list`. The
operators take and return a record of these, as the functions of the code do, and the actions
compose them in the order of `add_flow` and `check`. `ImplementsQueues` follows the pointers to get
the queue of each key. `packet_flows` is what a packet's requests created.

## 3. The runs

| Run | Shows | States |
|---|---|---|
| `ring` | 4 slots, 2 values: types, disjoint slots, refinement of `BoundedFifo` | 4 135 |
| `drove` | 2 pigs; 3 set-ups with two threads and 3 with a shell | 737 765 |
| `drove_ends` | liveness, 1 pig: two files or live and paused, reload, quit, interrupt | 47 324 |
| `drove_lost_poke` (violation) | 2 pigs, 2 files: a death is never handled | |
| `drove_skipped_swap` (violation) | a thread uses a deleted configuration | |
| `acgpu` | all lists of up to 3 of 16 patterns; batches of 2, 3 searches | 301 794 |
| `flow_cache` | 3 sessions, 4 keys; blocked, offloaded or standby flows | 291 059 |
| `flow_cache_idle` | liveness, 2 sessions, 3 keys | 14 355 |
| `offload` | 2 flows, 1 worker, 8 contexts, with liveness | 169 772 |
| `offload_purged` (violation) | the next PDU of a flush has no segments left | |
| `ha` | 2 peers, UDP and TCP, a ring that overflows, failover | 169 213 |
| `expect` | 2 nodes of 2 flows, 3 keys: shared pool, refinement of `ExpectQueues` | 48 651 |

What the properties say:

- `SlotsDisjoint`, `ImplementsFifo`: the lock-free ring is correct if stores stay in order.
- `CommandsOwned`: a command's count is the number of pigs that hold it; none leaks, none is
  deleted early. `ConfigInUseExists`, `ReloadReachedAll`: reloads reach every thread, also one
  started meanwhile, before the old configuration goes. `AssertionsHold`: the code's own
  assertions about states. `PauseAgreed`: threads that are idle agree with main on the pause.
  `CommandBreaksAcquire`: no command waits behind a blocked acquire.
  `PrivilegesDroppedFirst`: packets wait for dropped privileges. `BlockedHasCommand`: no shell
  is left without its prompt.
- `DeathsHandled`, `ReloadEnds`, `QuitEnds`: what must happen, happens.
- `AutomatonExact`: after every text the automaton's state lists exactly the patterns that end
  there. `SearchedOnce`: every text is counted in exactly one batch. `UserDataCounted`:
  references equal match list entries, and all are given up.
- `ListsAgree`: cursor, one-way list, LRU list and free nodes agree. `CurrentKept`: the flow of
  the packet in progress is in the table as its newest, which `prune_one` relies on.
  `RoomUnlessMixed`: a full cache finds room unless all flows are blocked. `IdleRetired`: no
  flow stays for ever past its timeout.
- `ContextsInPlace`: the asserts of the context switcher, wherever calls nest. `OnloadComplete`: a
  flow's count of searches is the number of its suspended contexts and of its requests.
  `SearchUndisturbed`: what a worker reads stays as long as it searches. `PduKeepsFlow`: no flow is
  deleted under the PDU that is flushed. `OnePduAtATime`: the PDUs of a flow are inspected in order.
  `NothingOutBetweenPackets`: between packets no search is out, so a configuration may be swapped
  (the concern of the "reload issue" note at `detection/regex_offload.cc:112`). `PacketReturns`,
  `ThreadEnds`: lost notifications delay, but never block.
- `UdpCopiesAgree`: once messages have settled, the standby copy is the active one's state.
  `CriticalTold`: a block has been told to the partner or is owed to it. `FailoverKept`: a peer that
  ends deletes nothing of its partner.
- `PoolShared`: every `ExpectFlow` is in exactly one list, and free ones hold no data.
  `FreeWhenNeeded`: a flow is free wherever one is taken without a check. `PacketFlowsExpected`: what
  a packet hands out is still expected. `ImplementsQueues`: flows get the data that were requested
  first and together.

Each property of a passing run has a mutant, an operator named next to the definition it
replaces, that changes the code's behaviour as a plausible mistake would and violates it.

## 4. Bounds

- Ring: 4 slots hold two elements, so both indices wrap and the ring can be full, empty and in
  between; the theorems lift the bound.
- Drove: two pigs are enough for one thread to lag behind another in every broadcast and for
  the poke ring to fill. `MaxCommands` is never met as a limit (5 give the same states as 8);
  `MaxConfigs` allows a reload while an earlier configuration still exists; `requests` bounds
  what users and signals ask for. In read mode the number of files bounds restarts of a pig.
- AcGpu: three patterns of up to three bytes over two converted letters contain each other as
  prefix, infix and suffix and give failure links of depth two; a batch of two with three
  searches has a full batch, a reused slot and a rest. `MaxText` 4 exceeds every pattern.
- FlowCache: three sessions with four keys make the cache full; `MaxUni` is then 1, so the
  one-way list can exceed it. Idle times are counted up to where all timeouts have passed.
  With two sessions the liveness run still has a newer and an older flow. Key symmetry is used
  only for invariants.
- Offload: with two flows one is pruned or times out, and has its last data searched, inside the
  packet of the other. `Reserve` is the code's 5, so 8 contexts leave three beyond it. `maxSegs`
  bounds the PDUs that wait in a flow: two PDUs in one flush where no rule ends a session, one
  where any may (both together is `offload_purged`). Two workers pass as well (728 600 states, too
  long for a run).
- FlowHA: at most `MaxSent` messages are on their way in both directions together; two are enough
  for an update to cross a deletion, for two updates to be in one ring and for a ring of one to
  overflow. Peer symmetry. All set-ups with a ring of one, UDP with all kinds of objects together,
  and TCP in fresh objects pass too.
- ExpectCache: two nodes with two flows each and three keys make the table, a list and the pool
  full; `MaxPrune` 1 stops pruning before all expired nodes are gone. Pool symmetry.

## 5. Fairness

`Drove!Fairness` is weak fairness of the main thread and of each packet thread: both are
operating system threads that never block except in `join`, and a DAQ's `acquire` returns at
its timeout. Users, signals and the DAQ's answers are not fair. `FlowCache!FairSpec` is weak
fairness of the steps of a packet once taken up, of `timeout_flows`, which `packet_callback` and
`thread_idle` call on every packet and every idle period, and of time. Packets are not fair.
`Offload!Fairness` is weak fairness of the packet thread once a packet was taken up or the thread
ends, and of each worker, an operating system thread whose only wait ends after a second.

## 6. Proofs

`RingProofs` proves for every `sz >= 3` and every set of values:

- `RingTypeCorrect`: `Spec => []TypeOK`;
- `RingSlotsDisjoint`: `Spec => []SlotsDisjoint`, also when stores are delayed;
- `RingImplementsFifo`: `Spec => ImplementsFifo`, assuming `Ordered`.

`SlotsDisjoint` is not inductive: that `wx` is not the slot being copied depends on the check a
thread made earlier still being true. The inductive invariant `IndInv` adds that the indices
differ (`Apart`), that a slot a writer has reserved stays free (`StillRoom`: only the reader moves
`rx`, which makes room) and that an element the reader found stays there (`StillElement`: only the
writer moves `wx`). For the refinement `InFlight` adds that what a thread holds is what the store
holds, and `PushAppends`, `PopTakesHead` and `SameQueue` show the effect of each step on the
queue between the indices; `CountBounds` does the arithmetic once.

The assumptions are `RingSize` (`sz` is a number of at least 3: smaller rings hold nothing),
`BlankIsNoValue` and `OrderedType`.

`FlowCacheProofs` proves for every set of keys, every `max_sessions` from 2 on, all timeouts and
every set of features:

- `TypesKept`: `Spec => []TypeOK`;
- `ListsConsistent`: `Spec => []ListsAgree`;
- `CurrentStays`: `Spec => []CurrentKept`;
- `RoomMade`: `Spec => []RoomUnlessMixed`.

The lists are sequences, so the module first shows what unlinking and linking do to a sequence
without repetitions (`WithoutPresent`, `WithoutSet`, `AppendSet`, `AppendWithout`), then that each
operation of the hash table and of the cache keeps `CacheOK`, which is `ListsAgree` with the types of
any cache an operation passes through. Two facts carry it: `gunlink_node` moves the cursor off the
node before it goes (`GunlinkFields`), and `release` takes a flow off the one-way list before its node
is freed (`ReleaseOK`). None of the properties is inductive alone. The inductive invariant `IndInv`
adds that the key a full cache makes room for is not in the table yet, so that adding it links
nothing twice; that the flow in hand is the newest, so that `prune_one`, which takes the oldest of
two or more, cannot take it; and `Room`, which explains `prune_excess`. Without blocked flows it counts
none, and so goes on until offloads are pruned. Without offloaded flows it passes over blocked ones
only; each moves to the front, so those it has counted are the newest ones (`BlockedRotated`), and
when it gives up they are all there are. With both kinds neither argument holds, and the property
fails (section 7). The assumption is `FlowCacheConstants`, the limits of `stream_module.cc`.
The invariant was checked by TLC first, with all features together (981 658 states).

`DroveProofs` proves, for any number of pigs, users, commands, configurations and set-ups:

- `TypesKept`: `Spec => []TypeOK`;
- `CommandsAreOwned`: `Spec => []CommandsOwned`;
- `BlockedWaitsForCommand`: `Spec => []BlockedHasCommand`;
- `CommandReachesAcquire`: `Spec => []CommandBreaksAcquire`;
- `ReloadReachesAll` and `ConfigOutlivesUse`: `Spec => []ReloadReachedAll`, `Spec => []ConfigInUseExists`,
  both assuming `ReloadsAnswered`.

`CommandsOwned` counts the holders of a command, which a step that moves a command between two queues
must keep. The inductive invariant `IndInv` (in `DroveInv`) therefore adds for each pig that no
command is in two of its queues and that the place of its thread fits the state of its analyzer
(`PigOK`), that `swine` counts the analyzers (`ThreadsOK`), and that the command being broadcast is
held by none of the pigs that are still to get it (`JobOK`). `ReloadInv` is invariant only beside
`IndInv`: a reload is in progress exactly while one SWAP command exists, and each thread has the
configuration of the main thread or still the old one and the SWAP ahead of it (`Replaces`). That is
why the destructor may delete the old one: when it runs, nobody holds the command, so nobody has it ahead.
`ReloadsAnswered` says that in a set-up whose connections may fail the shell does not ask for reloads.
It cannot be dropped: `drove_skipped_swap` is the counterexample.

The proof has four modules. `DroveThreads` shows what each step of a packet thread does to its pig
(`Steps`) and which steps of the main thread touch no command (`Quiet`). `DroveMain` shows that every
other step of the main thread issues, delivers or reaps commands or prepares a thread, and that these
kinds of steps keep `BlockedHasCommand`, `CommandBreaksAcquire` and `ReloadInv`. `DroveSteps` shows that
all keep `IndInv`, and `DroveProofs` puts them together. So that the modules are checked
independently, `DroveSteps` takes two facts as hypotheses of its lemmas: `StepsAsSaid`, proved in
`DroveMain`, and `PigsCounted` (how subsets of the pigs are counted), proved in `DroveProofs`. No hypothesis is left in the theorems but `ReloadsAnswered`. The assumptions on constants are
`DroveConstants` and `NullPointer` (the null pointer is no user, command or configuration).

`FlowHAProofs` proves, for every set of set-ups, every capacity of the receive ring and any bound on
the messages on their way:

- `HATypesKept`: `Spec => []TypeOK`;
- `BlockedIsTold`: `Spec => []CriticalTold`;
- `UdpCopiesInSync`: `Spec => []UdpCopiesAgree`;
- `TermSendsNothing`: `Spec => FailoverKept`.

`UdpCopiesAgree` speaks of a moment when nothing is on its way. The inductive invariant `HAInv` says what
holds in between (`Synced`): when a peer marks no change, the last message it sent, wherever it is by
now, has the flags and state of its flow; and if none is left the standby copy has them, unless the
message was lost. It adds that an update is only sent of a session that has begun and what a flow is
between two packets (`FlowOK`). The handlers work on a record of the thread, so the lemmas follow them
from the inside out: what each function does to that record, then a whole packet, a deletion, a
message, and last the loop of `process_receive` over the ring. That loop is a recursive function over
the number of messages; `SuccessorsAll` and `FoldExists` do its induction from the principle that a
set of numbers has a least element, without the library's induction theorems. The assumptions are
`TwoPeers` and `SetupsTyped`.

Both invariants were checked by TLC first (`IndInv`, `ReloadInv`: 737 765 states; `HAInv` on the instance
of `ha`).

Only model-checked: `AcGpu`, `Offload` and `ExpectCache`; `AssertionsHold`, `PauseAgreed` and
`PrivilegesDroppedFirst` of `Drove`, which hold for the set-ups of the runs and not for all (section 7 has the
combinations that break them), so that each would need its own assumption on set-ups; and all
liveness (`IdleRetired` included), which the prover does not cover. What `AcGpu`'s automaton computes is
recursive over patterns and text and would need induction over data, out of the prover's reach.

## 7. Findings and known divergences

Runs that TLC refutes, each against a line of the repository quoted in `PROJECT.json`:
`drove_lost_poke`, `drove_skipped_swap`, `offload_purged`.

Refuted by TLC on instances that are not kept as runs:

- Ring: with stores that become visible late (`Ordered` FALSE) `ImplementsFifo` fails: the reader takes
  a slot before its element is there (`helpers/ring.h:110`), where
  `connectors/tcp_connector/dev_notes.txt:30` expects "whole side messages from the queue."
- Drove: with `--pause` and privileges to drop, all threads share one `ACRun`, whose flag the first
  thread clears; the others run (`main/analyzer_command.cc:45`, `main.cc:754`).
- AcGpu: with two packet threads `SearchedOnce` fails: `acsm3Search` increments the shared
  `packet_buffer_index` without synchronisation (`search_engines/acsmx3.cc:487`), where
  `doc/differences.txt:39` promises "multiple packet threads with one config".
- FlowCache: with blocked and offloaded flows in one cache `RoomUnlessBlocked` fails: `prune_excess`
  gives up once it passed over as many blocked flows as there are flows, before it prunes an
  offloaded one (`flow/flow_cache.cc:260`, against the comment at 246).

Met while modelling, present in the models, and without a run of their own:

- A pause that reaches main after the last file ended leaves it paused with no pigs;
  `exit_requested` is looked at only after a poke, so quit has no effect until a resume
  (`main.cc:856`; the option says "wait for resume/quit command", `main/snort_module.cc:391`).
- `thread_term` deletes the DAQ instance while the state is still `RUNNING`, and `execute` may call
  `break_loop` on it (`main/analyzer.cc:117`).
- The first command of a line to be destroyed shows the prompt (`main/control_mgmt.cc:308`).
- The second poke of an analyzer that failed to start counts as one that is ready
  (`main.cc:869`): with a DAQ that needs privileges to start, packets can be processed with them.
  The set-ups of `drove` have a failing DAQ only where it starts without privileges.
- The signal for the hosts file uses a Lua state that is not there (`main.cc:450`).
- `sig_ring(4)` holds two signals; a third is dropped (`helpers/process.cc:120`).
- `get` links a flow as one-way only when it had to prune first (`flow/flow_cache.cc:130`), and
  `prune_unis` can walk on to its sentinel (`flow/flow_cache.cc:220`).
- `timeout` may leave a flow it passed over behind its cursor for as long as other flows keep
  the cursor from running off the list (`flow/flow_cache.cc:310`); `IdleRetired` therefore excludes
  offloaded and standby flows.
- `acsm3Search` has no return statement (`search_engines/acsmx3.cc:473`).
- The vector of control connections is used by main and by packet threads without a lock
  (`main/control_mgmt.cc:75`); a deletion is one step of the model, so torn iterations are not seen.
- A cache full of blocked flows fails the assert of `get` (`flow/flow_cache.cc:140`). By
  `RoomUnlessMixed` only that does, unless there are offloaded flows too.
- The guard against allocation inside allocation is cleared by the inner call
  (`memory/memory_manager.cc:135`), so a release under memory pressure can prune again. `PruneOne` is
  one step; pruning inside the release of another flow is not modelled.
- The carry of microseconds leaves exactly one million in place (`flow/ha.cc:86`, `149`); the model
  lets the interval be elapsed or not at every packet.
- A UDP session in a reused `Flow` is not announced as new, since `FlowHAState::reset` leaves neither
  `NEW` nor `NEW_SESSION`, which the comment at `stream/base/stream_ha.cc:171` relies on.
- A TCP standby copy that was active is cleared after the partner's state was copied to it
  (`stream/base/stream_ha.cc:136`); agreement is therefore claimed for UDP.
- `process_update` never clears `DELETED`: after a block, which sends a deletion and then an update, the
  end of the session is not sent, and the partner's copy stays.
- In a full cache a pruned `Flow` is reset a second time when it is reused, and a deletion is sent
  for the new key (`flow/ha.cc:514`).
- A standby copy in a fresh `Flow` keeps `NEW_SESSION`, so a block on the first packet after failover
  is not critical and waits for the sync interval; `CriticalTold` says that it is still owed.
- The notes of `flow/expect_cache.h` say that the least recently used nodes are pruned; the code
  prunes only expired ones, and stops at the first that is not. `add_flow` with an unknown protocol
  overwrites the known one of the node. `ignore_flow` does not delete its flow data when `add_flow`
  fails.

## 8. Not modelled

- Offload: RST in SYN_SENT, memory pruning at arbitrary allocations (only at the start of a packet),
  callers of `detect` other than TCP reassembly, nesting through IP defragmentation,
  `ContextSwitcher::abort`, context data and the event queue.
- FlowHA: other HA clients, protocols other than TCP and UDP, layout and parsing of messages, the
  file connector, connecting and reconnecting. More than one flow: flows share only the channel.
- ExpectCache: directions, since all callers expect both; the DAQ's expected flows; `is_expected`,
  which has no caller.
- The TCP state machine and sequence numbers, IP defragmentation and PAF: per session algorithms
  over byte ranges, whose properties are about the data `Offload` abstracts from.
- Latency, event filters, memory accounting: counters over wall-clock time, each in one thread.
- The shared LRU cache: every operation holds one mutex.
- The other search engines, codecs, service inspectors and AppID, rule options, loggers, the
  parser, the profiler and the test harnesses, for the reasons `PROJECT.json` gives.

Next would be proofs of `Offload!OnloadComplete` and `SearchUndisturbed`, then a module for the TCP
state machine of both endpoints.
