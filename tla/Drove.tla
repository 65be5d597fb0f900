-------------------------------- MODULE Drove --------------------------------
(***************************************************************************)
(* The drove: the main thread (main.cc), the packet threads it spawns      *)
(* (main/analyzer.cc), the commands it sends them                          *)
(* (main/analyzer_command.cc), the configurations the commands swap        *)
(* (main/swapper.cc), and the shells and signals the commands come from    *)
(* (main/control_mgmt.cc, main/control.cc, helpers/process.cc).            *)
(*                                                                         *)
(* A pig is a slot for one analyzer and its thread.  An analyzer announces *)
(* each state change by a poke, put in a ring that the main loop drains.   *)
(* Every step is one access to data another thread can see; the work a     *)
(* thread does on its own in between is part of the step.                  *)
(***************************************************************************)
EXTENDS Integers, Sequences, FiniteSets, Functions

CONSTANTS
    MaxPigs,        \* max_pigs, the number of packet threads
    Setups,         \* the ways the program may have been configured and is used
    Users,          \* the control connections, by their file descriptor
    MaxCommands,    \* bound: analyzer commands in existence
    MaxConfigs,     \* bound: configurations, and host tables, in existence
    None            \* a null pointer

Requests == {"stats", "reload_config", "reload_policy", "reload_hosts",
             "pause", "resume", "quit"}

Setup == [readMode : BOOLEAN,           \* files, taken from the Trough one by one,
          sources : Nat,                \* and how many it holds
          changePrivileges : BOOLEAN,   \* a user, a group or a chroot is configured
          unprivStart : BOOLEAN,        \* the DAQ can start without privileges
          daqFaults : BOOLEAN,          \* a DAQ instance may fail to configure, start or acquire
          startPaused : BOOLEAN,        \* --pause
          pauseAfter : BOOLEAN,         \* --pause-after-n
          writeFaults : BOOLEAN,        \* a control connection may refuse what is written
          shell : SUBSET Requests,      \* what users ask for,
          signals : SUBSET (Requests \cup {"int"}),    \* what signals ask for,
          requests : Nat]               \* bound: and how often

ASSUME DroveConstants ==
    /\ MaxPigs \in Nat \ {0} /\ MaxCommands \in Nat \ {0} /\ MaxConfigs \in Nat \ {0}
    /\ \A s \in Setups : s \in Setup

VARIABLES
    m,          \* the main thread: its place in main_loop() and main.cc's statics
    pig,        \* the pigs, their analyzers and their threads
    poke,       \* pig_poke, a bounded queue under poke_mutex (see Ring)
    sigs,       \* sig_ring
    control,    \* the control connections
    cmd,        \* the analyzer commands in existence
    live,       \* the configurations and host tables in existence
    auto,       \* Snort::pause and Snort::was_paused
    budget      \* requests and signals still to come

vars == <<m, pig, poke, sigs, control, cmd, live, auto, budget>>

Pigs == 0 .. MaxPigs - 1
CmdId == 1 .. MaxCommands
Config == 0 .. MaxConfigs - 1
NullOr(S) == S \cup {None}
ConfPair == [conf : NullOr(Config), attr : NullOr(Config)]
NoConf == [conf |-> None, attr |-> None]

ControlType == [status : {"ready", "blocked", "closed"}, queued : BOOLEAN]
AnalyzerStates == {"NEW", "INITIALIZED", "STARTED", "RUNNING", "PAUSED", "STOPPED"}
Places == {"init", "loop", "complete", "acquire", "over", "poke", "exit"}

\* A null pointer is none of the things that can be pointed to or named.
ASSUME NullPointer ==
    /\ None \notin Users /\ None \notin CmdId /\ None \notin Config
    /\ None \notin AnalyzerStates /\ None \notin Places

\* A command that does not exist, and a pig without analyzer and thread.
FreeCmd == [kind |-> "free", refs |-> 0, paused |-> FALSE, fd |-> None,
            old |-> NoConf, new |-> NoConf]
LazyPig == [state |-> None, thr |-> None, ret |-> None, stopping |-> FALSE,
            daq |-> None, breaking |-> FALSE, work |-> None, pending |-> <<>>,
            completed |-> <<>>, conf |-> NoConf, awaiting |-> FALSE]
NoJob == [c |-> None, todo |-> <<>>, sent |-> 0, then |-> "loop", effect |-> "none"]

AllPigs == [i \in 1 .. MaxPigs |-> i - 1]
SigRingCapacity == 2        \* a Ring of size 4

Init ==
    \E s \in Setups :
    /\ m = [at |-> "loop", job |-> NoJob, target |-> 0, inputs |-> {}, served |-> FALSE,
            swine |-> IF s.readMode THEN 0 ELSE MaxPigs,
            pendingPriv |-> IF s.changePrivileges THEN MaxPigs ELSE 0,
            dropped |-> FALSE, quitting |-> FALSE, paused |-> s.startPaused,
            sources |-> IF s.readMode THEN s.sources ELSE 0, orphans |-> {},
            conf |-> [conf |-> 0, attr |-> 0], reloading |-> FALSE, setup |-> s]
    /\ pig = [i \in Pigs |->
                IF s.readMode THEN LazyPig ELSE [LazyPig EXCEPT !.state = "NEW"]]
    /\ poke = IF s.readMode THEN <<>> ELSE AllPigs
    /\ sigs = <<>>
    /\ control = [u \in Users |-> [status |-> "ready", queued |-> FALSE]]
    /\ cmd = [c \in CmdId |-> FreeCmd]
    /\ live = [conf |-> {0}, attr |-> {0}]
    /\ auto = IF s.pauseAfter THEN "armed" ELSE "used"
    /\ budget = s.requests

\* The set-up, which nothing changes.
ReadMode == m.setup.readMode
ChangePrivileges == m.setup.changePrivileges
UnprivStart == m.setup.unprivStart
DaqFaults == m.setup.daqFaults
PauseAfter == m.setup.pauseAfter
WriteFaults == m.setup.writeFaults
-----------------------------------------------------------------------------
\* main_poke(): the ring keeps at most max_pigs pokes, and what put() returns
\* is not looked at.
PokedAlways(i) == Append(poke, i)                   \* mutant: the ring has no limit
Poked(i) == IF Len(poke) < MaxPigs THEN Append(poke, i) ELSE poke

\* Deleting the commands in F.  ~ACSwap deletes what its Swapper replaced and
\* ends the reload; ~ACShellCmd unblocks the connection, whose prompt may fail.
StillReloadingEver(F) == m.reloading                \* mutant: the reload is never over
StillReloading(F) == m.reloading /\ \A c \in F : cmd[c].kind # "SWAP"
Surviving(F) == [conf |-> live.conf \ {cmd[c].old.conf : c \in F},
                 attr |-> live.attr \ {cmd[c].old.attr : c \in F}]
UnblockedNever(F) == {control}                      \* mutant: no unblock
Unblocked(F) ==
    {k \in [Users -> ControlType] :
        \A u \in Users :
            IF control[u].status # "closed" /\ \E c \in F : cmd[c].fd = u
            THEN \/ k[u] = [control[u] EXCEPT !.status = "ready"]
                 \/ WriteFaults /\ k[u] = [status |-> "closed", queued |-> FALSE]
            ELSE k[u] = control[u]}

\* put() for the commands R[i] reaped from each pig i, and the deletion of the
\* ones nobody refers to any more and of the orphans O.
Puts(R, c) == Cardinality({i \in Pigs : c \in R[i]})
DeletedEarly(R, O) == O \cup UNION {R[i] : i \in Pigs} \* mutant: the first put() deletes
Deleted(R, O) == O \cup {c \in CmdId : cmd[c].refs > 0 /\ cmd[c].refs = Puts(R, c)}
Reap(R, O) ==
    LET F == Deleted(R, O) IN
    /\ cmd' = [c \in CmdId |-> IF c \in F THEN FreeCmd
                               ELSE [cmd[c] EXCEPT !.refs = @ - Puts(R, c)]]
    /\ live' = Surviving(F)
    /\ control' \in Unblocked(F)

FreeIds == {c \in CmdId : cmd[c].kind = "free"}
NewId == CHOOSE c \in FreeIds : TRUE
NewCmd(kind) == [FreeCmd EXCEPT !.kind = kind]

\* queue_command() for the pigs in todo; then the caller's last assignment and
\* the place it returns to.
Dispatch(todo, effect, then) ==
    [c |-> NewId, todo |-> todo, sent |-> 0, then |-> then, effect |-> effect]
-----------------------------------------------------------------------------
(***************************************************************************)
(* The packet thread of pig i: Analyzer::operator() and analyze().         *)
(***************************************************************************)
At(i, place) == m.at # "crashed" /\ pig[i].thr = place

\* set_state(): the state first, the poke after it.
SetStateQuietly(i, s, then) ==  \* mutant: no poke for the last state
    [pig EXCEPT ![i].state = s, ![i].ret = then,
                ![i].thr = IF s = "STOPPED" THEN "exit" ELSE "poke"]
SetState(i, s, then) ==
    [pig EXCEPT ![i].state = s, ![i].thr = "poke", ![i].ret = then]

TInit(i) ==             \* thread_init_privileged() configures the DAQ instance ...
    /\ At(i, "init")
    /\ pig' = [SetState(i, "INITIALIZED", "loop") EXCEPT ![i].daq = "live"]
    /\ UNCHANGED <<m, poke, sigs, control, cmd, live, auto, budget>>

TInitFails(i) ==        \* ... or fails, and the thread is over
    /\ At(i, "init")
    /\ DaqFaults
    /\ pig' = SetState(i, "STOPPED", "exit")
    /\ UNCHANGED <<m, poke, sigs, control, cmd, live, auto, budget>>

TPoke(i) ==
    /\ At(i, "poke")
    /\ poke' = Poked(i)
    /\ pig' = [pig EXCEPT ![i].thr = pig[i].ret, ![i].ret = None]
    /\ UNCHANGED <<m, sigs, control, cmd, live, auto, budget>>

TAutoPause(i) ==        \* pause() and clear_pause()
    /\ At(i, "loop")
    /\ ~pig[i].stopping /\ auto = "set"
    /\ auto' = "used"
    /\ pig' = IF pig[i].state = "RUNNING" THEN SetState(i, "PAUSED", "loop") ELSE pig
    /\ UNCHANGED <<m, poke, sigs, control, cmd, live, budget>>

TAcquire(i) ==          \* no command, and running
    /\ At(i, "loop")
    /\ ~pig[i].stopping /\ auto # "set" /\ pig[i].pending = <<>>
    /\ pig[i].state = "RUNNING"
    /\ pig' = [pig EXCEPT ![i].thr = "acquire"]
    /\ UNCHANGED <<m, poke, sigs, control, cmd, live, auto, budget>>

TPacket(i) ==           \* packet_callback() for the packet that --pause-after-n names
    /\ At(i, "acquire")
    /\ auto = "armed"
    /\ auto' = "set"
    /\ pig' = [pig EXCEPT ![i].breaking = TRUE]
    /\ UNCHANGED <<m, poke, sigs, control, cmd, live, budget>>

TIdle(i) ==             \* acquire() returns: broken, timed out or no packets
    /\ At(i, "acquire")
    /\ pig' = [pig EXCEPT ![i].thr = "loop", ![i].breaking = FALSE]
    /\ UNCHANGED <<m, poke, sigs, control, cmd, live, auto, budget>>

\* The analysis is over, by an error, the end of the file or the packet limit's
\* break_loop(-1) in acquire() or by exit_requested: thread_term() deletes the
\* DAQ instance.
TTerm(i) ==
    /\ \/ At(i, "acquire") /\ (ReadMode \/ DaqFaults)
       \/ At(i, "loop") /\ pig[i].stopping
    /\ pig' = [pig EXCEPT ![i].daq = "deleted", ![i].thr = "over"]
    /\ UNCHANGED <<m, poke, sigs, control, cmd, live, auto, budget>>

TStopped(i) ==
    /\ At(i, "over")
    /\ pig' = SetState(i, "STOPPED", "exit")
    /\ UNCHANGED <<m, poke, sigs, control, cmd, live, auto, budget>>
-----------------------------------------------------------------------------
(***************************************************************************)
(* handle_command() takes the oldest command, executes it and hands it     *)
(* back; one that changes the state pokes before it is handed back.        *)
(***************************************************************************)
Executing(i) ==
    At(i, "loop") /\ ~pig[i].stopping /\ auto # "set" /\ pig[i].pending # <<>>
Work(i) == Head(pig[i].pending)
Kind(i) == cmd[Work(i)].kind

\* Handed back at once, or after set_state().
Handed(i) == [pig EXCEPT ![i].pending = Tail(@), ![i].completed = Append(@, Work(i))]
Changed(i, s) ==
    [SetState(i, s, "complete") EXCEPT ![i].pending = Tail(@), ![i].work = Work(i)]

TComplete(i) ==
    /\ At(i, "complete")
    /\ pig' = [pig EXCEPT ![i].completed = Append(@, pig[i].work), ![i].work = None,
                          ![i].thr = "loop"]
    /\ UNCHANGED <<m, poke, sigs, control, cmd, live, auto, budget>>

\* A command from a shell first sends the connection's queued response ...
Attached(i) == LET u == cmd[Work(i)].fd IN u # None /\ control[u].status # "closed"
Responds(i) ==
    control' = IF Attached(i) THEN [control EXCEPT ![cmd[Work(i)].fd].queued = FALSE]
               ELSE control

TResponseFails(i) ==    \* ... or deletes the connection and is not executed
    /\ Executing(i)
    /\ WriteFaults /\ Attached(i) /\ control[cmd[Work(i)].fd].queued
    /\ control' = [control EXCEPT ![cmd[Work(i)].fd] =
                                        [status |-> "closed", queued |-> FALSE]]
    /\ cmd' = [cmd EXCEPT ![Work(i)].fd = None]
    /\ pig' = Handed(i)
    /\ UNCHANGED <<m, poke, sigs, live, auto, budget>>

TStart(i) ==            \* START; a DAQ that fails to start ends the thread
    /\ Executing(i) /\ Kind(i) = "START"
    /\ \E failed \in IF DaqFaults THEN BOOLEAN ELSE {FALSE} :
          pig' = [Changed(i, "STARTED") EXCEPT ![i].stopping = failed]
    /\ Responds(i)
    /\ UNCHANGED <<m, poke, sigs, cmd, live, auto, budget>>

TRun(i) ==              \* RUN; the command then forgets that it was to pause
    /\ Executing(i) /\ Kind(i) = "RUN"
    /\ pig' = Changed(i, IF cmd[Work(i)].paused THEN "PAUSED" ELSE "RUNNING")
    /\ cmd' = [cmd EXCEPT ![Work(i)].paused = FALSE]
    /\ Responds(i)
    /\ UNCHANGED <<m, poke, sigs, live, auto, budget>>

TStopIgnored(i) ==      \* mutant: exit_requested is not set
    /\ Executing(i) /\ Kind(i) = "STOP"
    /\ pig' = Handed(i)
    /\ Responds(i)
    /\ UNCHANGED <<m, poke, sigs, cmd, live, auto, budget>>

TStop(i) ==             \* STOP
    /\ Executing(i) /\ Kind(i) = "STOP"
    /\ pig' = [Handed(i) EXCEPT ![i].stopping = TRUE]
    /\ Responds(i)
    /\ UNCHANGED <<m, poke, sigs, cmd, live, auto, budget>>

\* PAUSE and RESUME do nothing in another state than the one they leave.
TPauseResume(i, kind, from, to) ==
    /\ Executing(i) /\ Kind(i) = kind
    /\ pig' = IF pig[i].state = from THEN Changed(i, to) ELSE Handed(i)
    /\ Responds(i)
    /\ UNCHANGED <<m, poke, sigs, cmd, live, auto, budget>>

TPause(i) == TPauseResume(i, "PAUSE", "RUNNING", "PAUSED")
TResume(i) == TPauseResume(i, "RESUME", "PAUSED", "RUNNING")

\* Swapper::apply(): a null pointer leaves the thread's own alone.
Apply(old, new) == [conf |-> IF new.conf = None THEN old.conf ELSE new.conf,
                    attr |-> IF new.attr = None THEN old.attr ELSE new.attr]

TSwap(i) ==             \* SWAP
    /\ Executing(i) /\ Kind(i) = "SWAP"
    /\ pig' = [Handed(i) EXCEPT ![i].conf = Apply(@, cmd[Work(i)].new)]
    /\ Responds(i)
    /\ UNCHANGED <<m, poke, sigs, cmd, live, auto, budget>>

TStats(i) ==            \* GET_STATS, ROTATE, DAQ_SWAP: nothing the drove depends on
    /\ Executing(i) /\ Kind(i) = "STATS"
    /\ pig' = Handed(i)
    /\ Responds(i)
    /\ UNCHANGED <<m, poke, sigs, cmd, live, auto, budget>>

Thread(i) ==
    \/ TInit(i) \/ TInitFails(i) \/ TPoke(i) \/ TAutoPause(i)
    \/ TAcquire(i) \/ TPacket(i) \/ TIdle(i) \/ TTerm(i) \/ TStopped(i)
    \/ TComplete(i) \/ TResponseFails(i)
    \/ TStart(i) \/ TRun(i) \/ TStop(i) \/ TPause(i) \/ TResume(i) \/ TSwap(i) \/ TStats(i)
-----------------------------------------------------------------------------
(***************************************************************************)
(* The main thread: main_loop() and handle().                              *)
(***************************************************************************)
Looping == m.swine > 0 \/ m.paused \/ (m.sources > 0 /\ ~m.quitting)
CanPrep == ~m.quitting /\ m.swine < MaxPigs /\ m.sources > 0

\* main_loop() has just read a poke of pig i.
Read(i) ==
    /\ m.at = "loop" /\ Looping
    /\ poke # <<>> /\ i = Head(poke)
    /\ poke' = Tail(poke)

MEnd ==                 \* the loop is over
    /\ m.at = "loop" /\ ~Looping
    /\ m' = [m EXCEPT !.at = "done"]
    /\ UNCHANGED <<pig, poke, sigs, control, cmd, live, auto, budget>>

MGone(i) ==             \* a poke of a pig that has no analyzer any more
    /\ Read(i)
    /\ pig[i].state = None
    /\ m' = [m EXCEPT !.pendingPriv = IF @ > 0 THEN @ - 1 ELSE 0,
                      !.at = IF m.swine = 0 /\ m.quitting THEN "done" ELSE "loop"]
    /\ UNCHANGED <<pig, sigs, control, cmd, live, auto, budget>>

MStart(i) ==            \* Pig::start(): a thread that will have main's configuration
    /\ Read(i)
    /\ pig[i].state = "NEW"
    /\ pig' = [pig EXCEPT ![i].thr = "init", ![i].conf = m.conf]
    /\ UNCHANGED <<m, sigs, control, cmd, live, auto, budget>>

\* Is pig i to wait, in the state it is in, for all pigs to get there?
WaitsSwapped(i, privileged) ==  \* mutant: the two kinds of DAQ are mixed up
    UnprivStart # privileged /\ m.pendingPriv > 0 /\ ~m.dropped
Waits(i, privileged) == UnprivStart = privileged /\ m.pendingPriv > 0 /\ ~m.dropped
StillPending(i) == IF pig[i].awaiting THEN m.pendingPriv ELSE m.pendingPriv - 1

\* It waits: the analyzer stays where it is ...
Wait(i) ==
    /\ StillPending(i) > 0
    /\ m' = [m EXCEPT !.pendingPriv = StillPending(i)]
    /\ cmd' = cmd

\* ... until it is the last one: privileges are dropped, everyone may go on.
Release(i, command) ==
    /\ StillPending(i) = 0
    /\ FreeIds # {}
    /\ cmd' = [cmd EXCEPT ![NewId] = command]
    /\ m' = [m EXCEPT !.pendingPriv = 0, !.dropped = TRUE, !.at = "dispatch",
                      !.job = Dispatch(AllPigs, "none", "loop")]

GoOnAll(i, command) ==  \* mutant: a broadcast where one pig is meant
    /\ FreeIds # {}
    /\ cmd' = [cmd EXCEPT ![NewId] = command]
    /\ m' = [m EXCEPT !.at = "dispatch", !.job = Dispatch(AllPigs, "none", "loop")]
    /\ pig' = pig

GoOn(i, command) ==
    /\ FreeIds # {}
    /\ cmd' = [cmd EXCEPT ![NewId] = command]
    /\ m' = [m EXCEPT !.at = "dispatch", !.job = Dispatch(<<i>>, "none", "loop")]
    /\ pig' = pig

\* The two states in which handle() sends the next command, START or RUN.
Proceed(i, from, privileged, command) ==
    /\ Read(i)
    /\ pig[i].state = from
    /\ \/ /\ Waits(i, privileged)
          /\ pig' = [pig EXCEPT ![i].awaiting = TRUE]
          /\ Wait(i) \/ Release(i, command)
       \/ ~Waits(i, privileged) /\ GoOn(i, command)
    /\ UNCHANGED <<sigs, control, live, auto, budget>>

MInitialized(i) == Proceed(i, "INITIALIZED", TRUE, NewCmd("START"))
MStartedRunning(i) == Proceed(i, "STARTED", FALSE, NewCmd("RUN"))    \* mutant: paused ignored
MStarted(i) == Proceed(i, "STARTED", FALSE, [NewCmd("RUN") EXCEPT !.paused = m.paused])

MIgnore(i) ==
    /\ Read(i)
    /\ pig[i].state \in {"RUNNING", "PAUSED"}
    /\ UNCHANGED <<m, pig, sigs, control, cmd, live, auto, budget>>

MStopped(i) ==          \* Pig::stop() joins the thread ...
    /\ Read(i)
    /\ pig[i].state = "STOPPED"
    /\ m' = [m EXCEPT !.at = "join", !.target = i]
    /\ UNCHANGED <<pig, sigs, control, cmd, live, auto, budget>>

MJoin ==                \* ... and reaps its commands, completed or not
    LET i == m.target
        R == [j \in Pigs |-> IF j = i THEN Range(pig[j].completed) \cup Range(pig[j].pending)
                                      ELSE {}]
    IN
    /\ m.at = "join" /\ pig[i].thr = "exit"
    /\ Reap(R, {})
    /\ pig' = [pig EXCEPT ![i] = [LazyPig EXCEPT !.awaiting = pig[i].awaiting]]
    /\ m' = [m EXCEPT !.swine = @ - 1, !.target = 0,
                      !.reloading = StillReloading(Deleted(R, {})),
                      !.at = IF m.swine = 1 /\ m.quitting THEN "done" ELSE "loop"]
    /\ UNCHANGED <<poke, sigs, auto, budget>>

MPrep ==                \* Pig::prep() for the next source
    /\ m.at = "loop" /\ Looping /\ poke = <<>> /\ CanPrep
    /\ \E i \in Pigs :
          /\ pig[i].state = None /\ \A j \in Pigs : j < i => pig[j].state # None
          /\ pig' = [pig EXCEPT ![i].state = "NEW"]
          /\ poke' = Poked(i)
    /\ m' = [m EXCEPT !.swine = @ + 1, !.sources = @ - 1]
    /\ UNCHANGED <<sigs, control, cmd, live, auto, budget>>
-----------------------------------------------------------------------------
(***************************************************************************)
(* Dispatching a command: main_broadcast_command(), Pig::queue_command()   *)
(* and Analyzer::execute(), one pig at a time.                             *)
(***************************************************************************)
Target == Head(m.job.todo)
ReachableReady(i) == pig[i].state # None /\ pig[i].thr \notin {None, "init"}   \* mutant: not yet initialized
Reachable(i) == pig[i].state # None /\ pig[i].thr # None

DSkip ==
    /\ m.at = "dispatch" /\ m.job.todo # <<>> /\ ~Reachable(Target)
    /\ m' = [m EXCEPT !.job.todo = Tail(@)]
    /\ UNCHANGED <<pig, poke, sigs, control, cmd, live, auto, budget>>

DQueueUncounted ==      \* mutant: no get()
    /\ m.at = "dispatch" /\ m.job.todo # <<>> /\ Reachable(Target)
    /\ cmd' = cmd
    /\ pig' = [pig EXCEPT ![Target].pending = Append(@, m.job.c)]
    /\ m' = [m EXCEPT !.at = "break"]
    /\ UNCHANGED <<poke, sigs, control, live, auto, budget>>

DQueue ==               \* get() and push
    /\ m.at = "dispatch" /\ m.job.todo # <<>> /\ Reachable(Target)
    /\ cmd' = [cmd EXCEPT ![m.job.c].refs = @ + 1]
    /\ pig' = [pig EXCEPT ![Target].pending = Append(@, m.job.c)]
    /\ m' = [m EXCEPT !.at = "break"]
    /\ UNCHANGED <<poke, sigs, control, live, auto, budget>>

DBreakForgotten ==     \* mutant: no break_loop()
    /\ m.at = "break"
    /\ m' = [m EXCEPT !.at = "dispatch", !.job.todo = Tail(@), !.job.sent = @ + 1]
    /\ UNCHANGED <<pig, poke, sigs, control, cmd, live, auto, budget>>

DBreak ==               \* break_loop() if the analyzer is running
    /\ m.at = "break"
    /\ pig' = [pig EXCEPT ![Target].breaking = @ \/ pig[Target].state = "RUNNING"]
    /\ m' = [m EXCEPT !.at = "dispatch", !.job.todo = Tail(@), !.job.sent = @ + 1]
    /\ UNCHANGED <<poke, sigs, control, cmd, live, auto, budget>>

DDone ==                \* nobody took it: an orphan
    /\ m.at = "dispatch" /\ m.job.todo = <<>>
    /\ m' = [m EXCEPT !.at = m.job.then, !.job = NoJob,
                      !.orphans = IF m.job.sent = 0 THEN @ \cup {m.job.c} ELSE @,
                      !.paused = CASE m.job.effect = "pause" -> TRUE
                                   [] m.job.effect = "resume" -> FALSE
                                   [] OTHER -> @,
                      !.quitting = @ \/ m.job.effect = "quit"]
    /\ UNCHANGED <<pig, poke, sigs, control, cmd, live, auto, budget>>
-----------------------------------------------------------------------------
(***************************************************************************)
(* service_check(): the shells' requests, or else a signal and the reaping *)
(* of completed commands.                                                  *)
(***************************************************************************)
Serving == m.at = "loop" /\ Looping /\ poke = <<>> /\ ~CanPrep
Ready == {u \in Users : control[u].status = "ready"}

SAccept(u) ==           \* socket_conn(): a new connection reuses the descriptor
    /\ Serving
    /\ control[u].status = "closed"
    /\ control' = [control EXCEPT ![u].status = "ready"]
    /\ UNCHANGED <<m, pig, poke, sigs, cmd, live, auto, budget>>

SSelect ==              \* select() finds input on some connections
    /\ Serving /\ m.setup.shell # {} /\ budget > 0
    /\ \E S \in SUBSET Ready \ {{}} : m' = [m EXCEPT !.at = "users", !.inputs = S, !.served = FALSE]
    /\ UNCHANGED <<pig, poke, sigs, control, cmd, live, auto, budget>>

SHangUp(u) ==           \* the read fails
    /\ m.at = "users" /\ u \in m.inputs /\ control[u].status = "ready"
    /\ control' = [control EXCEPT ![u] = [status |-> "closed", queued |-> FALSE]]
    /\ m' = [m EXCEPT !.inputs = @ \ {u}, !.served = FALSE]
    /\ UNCHANGED <<pig, poke, sigs, cmd, live, auto, budget>>

SUsersDone ==
    /\ m.at = "users" /\ m.inputs = {}
    /\ m' = [m EXCEPT !.at = IF m.served THEN "loop" ELSE "signal"]
    /\ UNCHANGED <<pig, poke, sigs, control, cmd, live, auto, budget>>

\* A handler puts the signal in its ring, if it fits.
Signal(s) ==
    /\ m.at \notin {"done", "crashed"} /\ budget > 0
    /\ sigs' = IF Len(sigs) < SigRingCapacity THEN Append(sigs, s) ELSE sigs
    /\ budget' = budget - 1
    /\ UNCHANGED <<m, pig, poke, control, cmd, live, auto>>
-----------------------------------------------------------------------------
\* What a request replaces: a whole configuration, one without the host table,
\* or the host table alone.
Unused(S) == CHOOSE k \in Config \ S : TRUE
NewConf(r) ==
    [conf |-> IF r \in {"reload_config", "reload_policy"} THEN Unused(live.conf) ELSE None,
     attr |-> IF r \in {"reload_config", "reload_hosts"} THEN Unused(live.attr) ELSE None]
OldConf(new) ==
    [conf |-> IF new.conf = None THEN None ELSE m.conf.conf,
     attr |-> IF new.attr = None THEN None ELSE m.conf.attr]
IsReload(r) == r \in {"reload_config", "reload_policy", "reload_hosts"}

CommandFor(r) ==
    CASE IsReload(r) -> LET new == NewConf(r) IN
                            [NewCmd("SWAP") EXCEPT !.old = OldConf(new), !.new = new]
      [] r = "pause" -> NewCmd("PAUSE")
      [] r = "resume" -> NewCmd("RESUME")
      [] r = "quit" -> NewCmd("STOP")
      [] OTHER -> NewCmd("STATS")

\* Is there anything to broadcast?  A reload is refused while another one is in
\* progress.
Refused(r) == IsReload(r) /\ m.reloading

\* The request r, answered on control connection u (None: on no connection): the
\* new configuration is main's own at once and everyone else's by broadcast.
Broadcast(r, u, then, mm) ==
    LET ac == CommandFor(r) IN
    /\ ~Refused(r)
    /\ FreeIds # {} /\ (IsReload(r) => live.conf # Config /\ live.attr # Config)
    /\ cmd' = [cmd EXCEPT ![NewId] = [ac EXCEPT !.fd = u]]
    /\ live' = [conf |-> live.conf \cup ({ac.new.conf} \ {None}),
                attr |-> live.attr \cup ({ac.new.attr} \ {None})]
    /\ m' = [mm EXCEPT !.conf = Apply(@, ac.new), !.reloading = @ \/ IsReload(r),
                       !.at = "dispatch",
                       !.job = Dispatch(AllPigs, r, then)]

\* One call of a command in the line a user typed; the line may go on.
SRequest(u, r) ==
    /\ m.at = "users" /\ u \in m.inputs /\ budget > 0
    /\ budget' = budget - 1
    /\ LET open == control[u].status # "closed" IN
       /\ \E more \in BOOLEAN :
             Broadcast(r, IF open THEN u ELSE None, "users",
                       [m EXCEPT !.served = TRUE, !.inputs = IF more THEN @ ELSE @ \ {u}])
       /\ control' = IF open
                     THEN [control EXCEPT ![u] = [status |-> "blocked", queued |-> TRUE]]
                     ELSE control
    /\ UNCHANGED <<pig, poke, sigs, auto>>

\* A line that changes nothing: a reload that is refused or fails, the end of one.
SNoRequest(u) ==
    /\ m.at = "users" /\ u \in m.inputs
    /\ m' = [m EXCEPT !.inputs = @ \ {u}, !.served = TRUE]
    /\ UNCHANGED <<pig, poke, sigs, control, cmd, live, auto, budget>>

\* signal_check(): SIGINT resumes if paused; the handler of the host table's
\* signal calls main_reload_hosts() without the Lua state it dereferences.
Meaning(s) == IF s = "int" THEN (IF m.paused THEN "resume" ELSE "quit") ELSE s

SSignal ==
    /\ Serving \/ m.at = "signal"
    /\ sigs # <<>>
    /\ sigs' = Tail(sigs)
    /\ LET r == Meaning(Head(sigs)) IN
          \/ r # "reload_hosts" /\ Broadcast(r, None, "reap", m)
          \/ /\ IsReload(r) /\ (r = "reload_hosts" => m.reloading)
             /\ m' = [m EXCEPT !.at = "reap"]
             /\ UNCHANGED <<cmd, live>>
          \/ /\ r = "reload_hosts" /\ ~m.reloading
             /\ m' = [m EXCEPT !.at = "crashed"]
             /\ UNCHANGED <<cmd, live>>
    /\ UNCHANGED <<pig, poke, control, auto, budget>>
-----------------------------------------------------------------------------
\* reap_commands(): everything completed, of every pig, and the orphans.  This is
\* what an idle pass of the main loop consists of.
SReap ==
    LET R == [i \in Pigs |-> Range(pig[i].completed)] IN
    /\ m.at = "reap" \/ (sigs = <<>> /\ (Serving \/ m.at = "signal"))
    /\ Reap(R, m.orphans)
    /\ pig' = [i \in Pigs |-> [pig[i] EXCEPT !.completed = <<>>]]
    /\ m' = [m EXCEPT !.at = "loop", !.orphans = {},
                      !.reloading = StillReloading(Deleted(R, m.orphans))]
    /\ UNCHANGED <<poke, sigs, auto, budget>>

Main ==
    \/ MEnd \/ MJoin \/ MPrep
    \/ \E i \in Pigs : MGone(i) \/ MStart(i) \/ MInitialized(i) \/ MStarted(i)
                       \/ MIgnore(i) \/ MStopped(i)
    \/ DSkip \/ DQueue \/ DBreak \/ DDone
    \/ SSelect \/ SUsersDone \/ SSignal \/ SReap
    \/ \E u \in Users : SAccept(u) \/ SHangUp(u) \/ SNoRequest(u)
                        \/ \E r \in m.setup.shell : SRequest(u, r)

Finished == m.at \in {"done", "crashed"} /\ UNCHANGED vars

Next ==
    \/ Main
    \/ \E i \in Pigs : Thread(i)
    \/ \E s \in m.setup.signals : Signal(s)
    \/ Finished

Spec == Init /\ [][Next]_vars
-----------------------------------------------------------------------------
(***************************************************************************)
(* Properties.                                                             *)
(***************************************************************************)
Kinds == {"START", "RUN", "STOP", "PAUSE", "RESUME", "SWAP", "STATS"}

MainPlaces ==
    {"loop", "dispatch", "break", "join", "users", "signal", "reap", "done", "crashed"}
JobType == [c : NullOr(CmdId), todo : Seq(Pigs), sent : Nat, then : {"loop", "users", "reap"},
            effect : Requests \cup {"none"}]
MainType ==
    [at : MainPlaces,
     job : JobType, target : Pigs, inputs : SUBSET Users, served : BOOLEAN,
     swine : 0 .. MaxPigs, pendingPriv : 0 .. MaxPigs, dropped : BOOLEAN,
     quitting : BOOLEAN, paused : BOOLEAN, sources : Nat, orphans : SUBSET CmdId,
     conf : ConfPair, reloading : BOOLEAN, setup : Setups]
PigType ==
    [state : NullOr(AnalyzerStates), thr : NullOr(Places), ret : NullOr({"loop", "complete", "exit"}),
     stopping : BOOLEAN, daq : NullOr({"live", "deleted"}), breaking : BOOLEAN,
     work : NullOr(CmdId), pending : Seq(CmdId), completed : Seq(CmdId), conf : ConfPair,
     awaiting : BOOLEAN]
CmdType ==
    [kind : Kinds \cup {"free"}, refs : 0 .. MaxPigs, paused : BOOLEAN, fd : NullOr(Users),
     old : ConfPair, new : ConfPair]

\* The type invariant, with the capacities of the rings.
TypeOK ==
    /\ m \in MainType /\ m.sources <= m.setup.sources
    /\ pig \in [Pigs -> PigType]
    /\ poke \in Seq(Pigs) /\ Len(poke) <= MaxPigs
    /\ sigs \in Seq(Requests \cup {"int"}) /\ Len(sigs) <= SigRingCapacity
    /\ control \in [Users -> ControlType]
    /\ cmd \in [CmdId -> CmdType]
    /\ live \in [conf : SUBSET Config, attr : SUBSET Config]
    /\ auto \in {"armed", "set", "used"}
    /\ budget \in 0 .. m.setup.requests

Holders(c) == {i \in Pigs : \/ pig[i].work = c
                            \/ c \in Range(pig[i].pending) \cup Range(pig[i].completed)}

\* The reference count, kept by the main thread alone while commands travel
\* through two queues per thread, is the number of pigs that hold the command;
\* one that nobody holds is an orphan or on its way, and none is lost or deleted
\* while a queue still has it (main.cc 189-244, 275-290, 642-654).
CommandsOwned ==
    \A c \in CmdId :
        /\ cmd[c].refs = Cardinality(Holders(c))
        /\ cmd[c].kind = "free" => Holders(c) = {} /\ c \notin m.orphans
        /\ cmd[c].kind # "free" /\ Holders(c) = {} => c \in m.orphans \/ c = m.job.c
        /\ c \in m.orphans => Holders(c) = {}

InThread(i) == pig[i].thr \notin {None, "over", "exit"} /\ pig[i].state # "STOPPED"

\* No packet thread uses a configuration or a host table that was deleted when a
\* reload was over (swapper.cc 71-92, analyzer_command.cc 83-100).
ConfigInUseExists ==
    \A i \in Pigs : InThread(i) =>
        pig[i].conf.conf \in live.conf /\ pig[i].conf.attr \in live.attr

\* When no reload is in progress every packet thread, also one started during
\* the reload, has the configuration and the host table of the main thread
\* (main.cc 151-159, 308-349, 443-478).
ReloadReachedAll ==
    ~m.reloading => \A i \in Pigs : InThread(i) => pig[i].conf = m.conf

\* The assertions of Analyzer::start() and run() (analyzer.cc 179, 191), of
\* Pig::start() and stop() (main.cc 154, 164) and of get_lazy_pig() (main.cc 255).
AssertionsHold ==
    /\ \A i \in Pigs : Executing(i) =>
          /\ Kind(i) = "START" => pig[i].state = "INITIALIZED"
          /\ Kind(i) = "RUN" => pig[i].state = "STARTED"
    /\ m.at = "loop" /\ poke # <<>> =>
          /\ pig[Head(poke)].state = "NEW" => pig[Head(poke)].thr = None
          /\ pig[Head(poke)].state = "STOPPED" => pig[Head(poke)].thr # None
    /\ m.at = "loop" /\ m.swine < MaxPigs => \E i \in Pigs : pig[i].state = None

\* A thread that has nothing left to do agrees with the main thread on whether
\* packet processing is paused, unless --pause-after-n paused it
\* (main.cc 534-550, 820, 825; analyzer.cc 189-220).  Where privileges are dropped
\* after the DAQ started all threads have one RUN, and when the first has paused
\* the others do not (analyzer_command.cc 45): they may run, but none pauses that
\* should not.
Caught(i) == m.at = "loop" /\ pig[i].pending = <<>> /\ pig[i].thr \in {"loop", "acquire"}
RunShared == ChangePrivileges /\ ~UnprivStart
PauseAgreed ==
    \A i \in Pigs : Caught(i) /\ ~PauseAfter =>
                                 /\ pig[i].state = "RUNNING" => ~m.paused \/ RunShared
                                 /\ pig[i].state = "PAUSED" => m.paused

\* A thread in the DAQ's acquire loop with a command waiting was told to break
\* out, whatever the order of its state change, its check of the queue and the
\* main thread's push and check of the state (analyzer.cc 107-175).
CommandBreaksAcquire ==
    \A i \in Pigs :
        pig[i].thr = "acquire" /\ pig[i].pending # <<>> =>
            pig[i].breaking \/ (m.at = "break" /\ Target = i)

\* The pigs main no longer waits for are those that got as far as they may.  So
\* it is until it counts a poke of a pig whose analyzer is gone (main.cc 869).
Awaiting == {i \in Pigs : pig[i].awaiting}
ReadyCounted == m.pendingPriv + Cardinality(Awaiting) = MaxPigs

\* With privileges to drop, no analyzer processes packets before they are
\* dropped, and none whose DAQ can start without them starts it before
\* (main.cc 779-827, main/dev_notes.txt 20-24), unless one was counted that had
\* failed: then the others may go on, and privileges are never dropped.
PrivilegesDroppedFirst ==
    ChangePrivileges /\ ~m.dropped /\ ReadyCounted => \A i \in Pigs :
        /\ pig[i].state \notin {"RUNNING", "PAUSED"}
        /\ UnprivStart => pig[i].state # "STARTED"

\* A blocked control connection waits for some command (control_mgmt.cc 274-309):
\* none is left without its prompt.
BlockedHasCommand ==
    \A u \in Users : control[u].status = "blocked" =>
        \E c \in CmdId : cmd[c].kind # "free" /\ cmd[c].fd = u
-----------------------------------------------------------------------------
(***************************************************************************)
(* Fairness.  A thread that can take a step takes one: the main thread     *)
(* never blocks except to join a thread, and a packet thread's acquire()   *)
(* returns.  Nothing is assumed of users, signals or the DAQ's answers.    *)
(***************************************************************************)
Fairness == WF_vars(Main) /\ \A i \in Pigs : WF_vars(Thread(i))

FairSpec == Spec /\ Fairness

\* The death of every analyzer is handled (main.cc 853).
DeathsHandled == \A i \in Pigs : pig[i].state = "STOPPED" ~> pig[i].state = None

\* A reload ends, so that another one is possible.
ReloadEnds == m.reloading ~> ~m.reloading

\* Once a user has asked to quit the main loop ends.
QuitEnds == m.quitting ~> m.at = "done"
=============================================================================
