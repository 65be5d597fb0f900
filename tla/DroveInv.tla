------------------------------ MODULE DroveInv ------------------------------
(***************************************************************************)
(* What the proofs about Drove say of its states and steps: the inductive  *)
(* invariants, and the few kinds of steps they are proved for.             *)
(***************************************************************************)
EXTENDS Drove
-----------------------------------------------------------------------------
(* The analyzers in existence.                                             *)
Analyzers == {i \in Pigs : pig[i].state # None}

(* A pig by itself.  The place of the thread fits the state of the         *)
(* analyzer; a command is in the thread's hands exactly while its state    *)
(* change is being announced; no command is in two of the pig's queues.    *)
PigOK(p) ==
    /\ p.state = None => p.thr = None
    /\ p.state = "NEW" => p.thr \in {None, "init"}
    /\ p.state = "STOPPED" => p.thr = "exit" \/ (p.thr = "poke" /\ p.ret = "exit")
    /\ p.thr = "acquire" => p.state = "RUNNING"
    /\ p.work # None <=> p.thr = "complete" \/ (p.thr = "poke" /\ p.ret = "complete")
    /\ IsInjective(p.pending)
    /\ Range(p.pending) \cap Range(p.completed) = {}
    /\ p.work \notin Range(p.pending) \cup Range(p.completed)

(* The commands a pig holds.                                               *)
Held(p) == Range(p.pending) \cup Range(p.completed) \cup ({p.work} \ {None})

(* A thread that still uses the configuration it has.                      *)
Inside(p) == p.thr \notin {None, "over", "exit"} /\ p.state # "STOPPED"

(* What a step of its thread does to a pig: it keeps its commands; a       *)
(* thread that is in acquire() with a command waiting was there before;    *)
(* the configuration changes when a SWAP command is taken, unless the      *)
(* command's control connection fails first.                               *)
Steps(p, q) ==
    /\ q \in PigType /\ PigOK(q)
    /\ p.state # None /\ q.state # None
    /\ Held(q) = Held(p)
    /\ q.thr = "acquire" /\ q.pending # <<>> =>
          p.thr = "acquire" /\ q.pending = p.pending /\ (p.breaking => q.breaking)
    /\ Inside(q) => Inside(p)
    /\ \/ q.pending = p.pending /\ q.conf = p.conf
       \/ /\ p.pending # <<>> /\ q.pending = Tail(p.pending)
          /\ LET c == cmd[Head(p.pending)] IN
             \/ q.conf = p.conf /\ (c.kind = "SWAP" => WriteFaults /\ c.fd # None)
             \/ q.conf = Apply(p.conf, c.new) /\ c.kind = "SWAP"

(* The main thread is queuing a command.                                   *)
Sending == m.at \in {"dispatch", "break"}

(* The threads fit their analyzers, and swine counts the analyzers.        *)
ThreadsOK ==
    /\ m.swine = Cardinality(Analyzers)
    /\ m.at = "join" => pig[m.target].state # None
    /\ \A i \in Pigs : PigOK(pig[i])

(* What a step of the main thread that queues and reaps no command does to *)
(* a pig.                                                                  *)
Kept(p, q) ==
    /\ q \in PigType /\ PigOK(q)
    /\ Held(q) = Held(p) /\ q.pending = p.pending
    /\ q.thr = "acquire" => p.thr = "acquire" /\ q.breaking = p.breaking
    /\ Inside(q) => q.conf = m.conf \/ (Inside(p) /\ q.conf = p.conf)

(* A step of the main thread, or of a signal handler, that issues, queues, *)
(* reaps and deletes nothing.                                              *)
Quiet ==
    /\ m' \in MainType
    /\ m'.job = m.job /\ m'.orphans = m.orphans /\ m'.swine = m.swine /\ m'.setup = m.setup
    /\ m'.sources = m.sources /\ m'.conf = m.conf /\ m'.reloading = m.reloading
    /\ m'.at = "join" => pig'[m'.target].state # None
    /\ Sending \/ Sending' => m'.at = m.at
    /\ pig' \in [Pigs -> PigType]
    /\ \A j \in Pigs : Kept(pig[j], pig'[j]) /\ (pig'[j].state = None <=> pig[j].state = None)
    /\ cmd' = cmd /\ live' = live /\ auto' = auto
    /\ poke' \in Seq(Pigs) /\ Len(poke') <= MaxPigs
    /\ sigs' \in Seq(Requests \cup {"int"}) /\ Len(sigs') <= SigRingCapacity
    /\ control' \in [Users -> ControlType]
    /\ \A u \in Users : control'[u].status = "blocked" => control[u].status = "blocked"
    /\ budget' \in 0 .. m.setup.requests

(* Issuing a command: it takes a free place and is to be queued for the    *)
(* pigs in todo.                                                           *)
IssuesTo(todo) ==
    LET c == m'.job.c IN
    /\ ~Sending /\ m.at # "join"
    /\ m' \in MainType
    /\ m'.at = "dispatch" /\ m'.job.todo = todo /\ m'.job.sent = 0
    /\ m'.orphans = m.orphans /\ m'.swine = m.swine /\ m'.setup = m.setup
    /\ m'.sources = m.sources
    /\ c \in CmdId /\ cmd[c].kind = "free"
    /\ cmd' \in [CmdId -> CmdType]
    /\ cmd'[c].kind # "free" /\ cmd'[c].refs = 0
    /\ \A d \in CmdId \ {c} : cmd'[d] = cmd[d]
    /\ pig' \in [Pigs -> PigType]
    /\ \A j \in Pigs : Kept(pig[j], pig'[j]) /\ (pig'[j].state = None <=> pig[j].state = None)
    /\ live' \in [conf : SUBSET Config, attr : SUBSET Config]
    /\ auto' = auto
    /\ poke' \in Seq(Pigs) /\ Len(poke') <= MaxPigs
    /\ sigs' \in Seq(Requests \cup {"int"}) /\ Len(sigs') <= SigRingCapacity
    /\ control' \in [Users -> ControlType]
    /\ \A u \in Users : control'[u].status = "blocked" =>
                             control[u].status = "blocked" \/ cmd'[c].fd = u
    /\ budget' \in 0 .. m.setup.requests

(* The command is a SWAP when a reload begins, and only then.              *)
Reloads ==
    LET c == m'.job.c IN
    IF cmd'[c].kind = "SWAP"
    THEN /\ ~m.reloading /\ m'.reloading
         /\ m'.job.todo = AllPigs /\ pig' = pig
         /\ \E r \in Requests :
               /\ IsReload(r) /\ live.conf # Config /\ live.attr # Config
               /\ cmd'[c].new = NewConf(r) /\ cmd'[c].old = OldConf(NewConf(r))
               /\ m'.conf = Apply(m.conf, NewConf(r))
               /\ live' = [conf |-> live.conf \cup ({NewConf(r).conf} \ {None}),
                           attr |-> live.attr \cup ({NewConf(r).attr} \ {None})]
               /\ cmd'[c].fd # None => r \in m.setup.shell
    ELSE /\ cmd'[c].old = NoConf
         /\ m'.reloading = m.reloading /\ m'.conf = m.conf /\ live' = live

(* A command is created, to be queued for some pigs.                       *)
Issues == \E todo \in Seq(Pigs) : IssuesTo(todo) /\ IsInjective(todo) /\ Reloads

(* What a step that reaps commands does to a pig that gives up the         *)
(* commands S.                                                             *)
GivesUp(p, q, S) ==
    /\ q \in PigType /\ PigOK(q)
    /\ S \subseteq Held(p) /\ Held(q) = Held(p) \ S
    /\ Inside(q) => /\ Inside(p) /\ q.conf = p.conf /\ q.pending = p.pending
                    /\ q.thr = p.thr /\ q.breaking = p.breaking

(* A step of the main thread that reaps commands, the commands R[i] from   *)
(* pig i and the orphans O.                                                *)
Reaps(R, O) ==
    /\ R \in [Pigs -> SUBSET CmdId] /\ O \in SUBSET m.orphans /\ Reap(R, O)
    /\ ~Sending /\ ~Sending' /\ m'.at # "join"
    /\ m' \in MainType
    /\ m'.job = m.job /\ m'.orphans = m.orphans \ O /\ m'.conf = m.conf
    /\ m'.reloading = StillReloading(Deleted(R, O)) /\ m'.setup = m.setup /\ m'.sources = m.sources
    /\ pig' \in [Pigs -> PigType]
    /\ \A i \in Pigs : GivesUp(pig[i], pig'[i], R[i])
    /\ UNCHANGED <<poke, sigs, auto, budget>>

(* The pigs that are still to get the command that is being queued.        *)
ToCome == IF m.at = "break" THEN Range(Tail(m.job.todo)) ELSE Range(m.job.todo)

(* The command that is being queued is on its way to pigs that do not hold *)
(* it yet, and sent tells whether one got it.                              *)
JobOK ==
    /\ ~Sending => m.job = NoJob
    /\ Sending =>
         /\ m.job.c \in CmdId /\ m.job.c \notin m.orphans /\ cmd[m.job.c].kind # "free"
         /\ IsInjective(m.job.todo)
         /\ Holders(m.job.c) \cap ToCome = {}
         /\ m.at = "break" => m.job.todo # <<>> /\ Holders(m.job.c) # {}
         /\ m.at = "dispatch" => (m.job.sent = 0 <=> Holders(m.job.c) = {})

(* The inductive invariant of the reference counts.                        *)
IndInv == TypeOK /\ ThreadsOK /\ CommandsOwned /\ JobOK

(* How the pigs are counted: what the library proves of the subsets of an  *)
(* interval.  It is a hypothesis of the lemmas, and proved where they are  *)
(* put together (DroveProofs).                                             *)
PigsCounted ==
    /\ Cardinality({}) = 0 /\ Cardinality(Pigs) = MaxPigs
    /\ \A H \in SUBSET Pigs :
         /\ Cardinality(H) \in 0 .. MaxPigs
         /\ Cardinality(H) = 0 => H = {}
         /\ \A i \in Pigs \ H : Cardinality(H \cup {i}) = Cardinality(H) + 1
         /\ \A P \in SUBSET H : /\ Cardinality(P) <= Cardinality(H)
                               /\ Cardinality(H \ P) = Cardinality(H) - Cardinality(P)
         /\ \A i \in H : Cardinality(H \ {i}) = Cardinality(H) - 1

(* A pig that has the command c waiting, or is going to get it.            *)
Told(i, c) == c \in Range(pig[i].pending) \/ (c = m.job.c /\ i \in ToCome)

(* What the steps of queueing a command leave alone.                       *)
Delivers ==
    /\ m'.conf = m.conf /\ m'.reloading = m.reloading /\ m'.setup = m.setup
    /\ live' = live /\ control' = control
    /\ \A c \in CmdId : /\ cmd'[c].kind = cmd[c].kind /\ cmd'[c].fd = cmd[c].fd
                        /\ cmd'[c].old = cmd[c].old /\ cmd'[c].new = cmd[c].new
    /\ \A j \in Pigs : /\ pig'[j].state = pig[j].state /\ pig'[j].thr = pig[j].thr
                       /\ pig'[j].conf = pig[j].conf
                       /\ \A c \in CmdId : Inside(pig[j]) /\ Told(j, c) => Told(j, c)'
    /\ CommandBreaksAcquire => CommandBreaksAcquire'

(* The SWAP commands in existence.                                         *)
Swaps == {c \in CmdId : cmd[c].kind = "SWAP"}

(* What a SWAP command c is about: a thread has the configuration of the   *)
(* main thread, or the one that c replaces and is going to take c.  The    *)
(* replaced one is still there, and is not the new one.                    *)
Replaces(c) ==
    LET old == cmd[c].old
        new == cmd[c].new
    IN
    /\ (old.conf = None <=> new.conf = None) /\ (old.attr = None <=> new.attr = None)
    /\ new.conf \in {None, m.conf.conf} /\ new.attr \in {None, m.conf.attr}
    /\ old.conf # m.conf.conf /\ old.attr # m.conf.attr
    /\ old.conf \in live.conf \cup {None} /\ old.attr \in live.attr \cup {None}
    /\ WriteFaults => cmd[c].fd = None
    /\ \A i \in Pigs : Inside(pig[i]) =>
          pig[i].conf = m.conf \/ (pig[i].conf = Apply(m.conf, old) /\ Told(i, c))

(* A reload is in progress exactly while its SWAP command exists.          *)
ReloadInv ==
    /\ m.conf.conf \in live.conf /\ m.conf.attr \in live.attr
    /\ ~m.reloading => Swaps = {} /\ \A i \in Pigs : Inside(pig[i]) => pig[i].conf = m.conf
    /\ m.reloading => \E c \in CmdId : Swaps = {c} /\ Replaces(c)
    /\ \A c \in CmdId \ Swaps : cmd[c].old = NoConf

(* Control connections that fail are not the ones that ask for a reload:   *)
(* a SWAP command whose connection fails is not executed.                  *)
ReloadsAnswered == \A s \in Setups : s.writeFaults => \A r \in s.shell : ~IsReload(r)

(* What a step of a packet thread does: to its pig, and to the rest.       *)
ThreadDoes(i) ==
    /\ \E q : pig' = [pig EXCEPT ![i] = q] /\ Steps(pig[i], q)
    /\ m' = m /\ live' = live /\ sigs' = sigs /\ budget' = budget
    /\ poke' \in {poke, Poked(i)}
    /\ auto' \in {auto, "set", "used"}
    /\ cmd' \in [CmdId -> CmdType]
    /\ control' \in [Users -> ControlType]
    /\ \A c \in CmdId :
          /\ cmd'[c].kind = cmd[c].kind /\ cmd'[c].refs = cmd[c].refs
          /\ cmd'[c].old = cmd[c].old /\ cmd'[c].new = cmd[c].new
          /\ \/ cmd'[c].fd = cmd[c].fd
             \/ /\ cmd'[c].fd = None
                /\ \A u \in Users : cmd[c].fd = u => control'[u].status = "closed"
    /\ \A u \in Users : control'[u].status \in {control[u].status, "closed"}

(* Every step that is neither the thread's nor the dispatcher's nor reaps. *)
OtherStep ==
    \/ MEnd \/ SSelect \/ SUsersDone \/ SSignal
    \/ \E i \in Pigs : MGone(i) \/ MStart(i) \/ MInitialized(i) \/ MStarted(i)
                        \/ MIgnore(i) \/ MStopped(i)
    \/ \E u \in Users : SAccept(u) \/ SHangUp(u) \/ SNoRequest(u)
                         \/ \E r \in m.setup.shell : SRequest(u, r)
    \/ \E s \in m.setup.signals : Signal(s)

(* What DroveMain proves of the steps, and DroveSteps assumes of them.     *)
StepsAsSaid ==
    /\ \A i \in Pigs : TypeOK /\ PigOK(pig[i]) /\ Thread(i) => ThreadDoes(i)
    /\ TypeOK /\ ThreadsOK /\ OtherStep => Quiet \/ Issues
    /\ TypeOK /\ ThreadsOK /\ SReap =>
          /\ \E R, O : Reaps(R, O)
          /\ m'.swine = m.swine /\ \A i \in Pigs : pig'[i].state = pig[i].state
    /\ TypeOK /\ ThreadsOK /\ m.swine > 0 /\ MJoin =>
          /\ \E R, O : Reaps(R, O)
          /\ m.at = "join" /\ m'.swine = m.swine - 1 /\ pig'[m.target].state = None
          /\ \A i \in Pigs \ {m.target} : pig'[i] = pig[i]
=============================================================================
