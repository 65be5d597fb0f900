------------------------------ MODULE DroveMain -----------------------------
(***************************************************************************)
(* Proofs about Drove, 2: what a step of the main thread does.  It is      *)
(* Quiet, or Issues a command, or Delivers one to a pig, or Reaps          *)
(* commands, or prepares a thread.                                         *)
(*                                                                         *)
(* On these kinds of steps rest the step lemmas of BlockedHasCommand, of   *)
(* CommandBreaksAcquire and of ReloadInv, which ties the configurations in *)
(* use to the SWAP command in existence.                                   *)
(***************************************************************************)
EXTENDS DroveThreads
-----------------------------------------------------------------------------
(* A command for one pig.                                                  *)
LEMMA Single ==
    ASSUME NEW i \in Pigs
    PROVE  <<i>> \in Seq(Pigs) /\ IsInjective(<<i>>)
  BY DEF IsInjective

(* The command that is created was free.                                   *)
LEMMA NewIdFree ==
    ASSUME FreeIds # {}
    PROVE  NewId \in CmdId /\ cmd[NewId].kind = "free"
  BY Zenon DEF NewId, FreeIds

(* A new command in a free place.                                          *)
LEMMA Placed ==
    ASSUME TypeOK, FreeIds # {}, NEW ac \in CmdType, cmd' = [cmd EXCEPT ![NewId] = ac]
    PROVE  /\ cmd' \in [CmdId -> CmdType] /\ cmd'[NewId] = ac
           /\ \A d \in CmdId \ {NewId} : cmd'[d] = cmd[d]
  BY NewIdFree, Zenon DEF TypeOK

(* What a new command is.                                                  *)
LEMMA NewCmdType ==
    ASSUME NEW kind \in Kinds
    PROVE  /\ NewCmd(kind) \in CmdType /\ NewCmd(kind).kind = kind /\ NewCmd(kind).refs = 0
           /\ NewCmd(kind).old = NoConf /\ NewCmd(kind).fd = None
<1>1. FreeCmd \in CmdType
  BY DroveConstants DEF FreeCmd, CmdType, NoConf, ConfPair, NullOr
<1>2. kind \in Kinds \cup {"free"}
  OBVIOUS
<1> QED
  BY <1>1, <1>2, Zenon DEF NewCmd, CmdType, FreeCmd

(* What there is to do for it.                                             *)
LEMMA DispatchJob ==
    ASSUME FreeIds # {}, NEW todo \in Seq(Pigs), NEW effect \in Requests \cup {"none"},
           NEW then \in {"loop", "users", "reap"}
    PROVE  /\ Dispatch(todo, effect, then) \in JobType
           /\ Dispatch(todo, effect, then).c = NewId
           /\ Dispatch(todo, effect, then).todo = todo
           /\ Dispatch(todo, effect, then).sent = 0
<1>1. NewId \in NullOr(CmdId)
  BY NewIdFree, Zenon DEF NullOr
<1> QED
  BY <1>1, Zenon DEF Dispatch, JobType

(* handle() in the two states in which the next command is due.            *)
LEMMA ProceedSteps ==
    ASSUME TypeOK, ThreadsOK, NEW i \in Pigs, NEW from, NEW privileged, NEW ac \in CmdType,
           ac.kind \notin {"free", "SWAP"}, ac.refs = 0, ac.old = NoConf, ac.fd = None,
           Proceed(i, from, privileged, ac)
    PROVE  Quiet \/ Issues
<1>1. /\ poke' \in Seq(Pigs) /\ Len(poke') <= MaxPigs /\ m.at = "loop"
      /\ Read(i) /\ UNCHANGED <<sigs, control, live, auto, budget>>
  BY ReadPoke, Zenon DEF Proceed
<1>2. CASE Waits(i, privileged) /\ pig' = [pig EXCEPT ![i].awaiting = TRUE] /\ Wait(i)
  BY <1>1, <1>2, WaitQuiet, Zenon
<1>3. ASSUME NEW todo \in Seq(Pigs), IsInjective(todo), FreeIds # {},
             cmd' = [cmd EXCEPT ![NewId] = ac],
             pig' \in [Pigs -> PigType],
             \A j \in Pigs : Kept(pig[j], pig'[j]) /\ (pig'[j].state = None <=> pig[j].state = None),
             NEW job, job = Dispatch(todo, "none", "loop"),
             \/ m' = [m EXCEPT !.pendingPriv = 0, !.dropped = TRUE, !.at = "dispatch", !.job = job]
             \/ m' = [m EXCEPT !.at = "dispatch", !.job = job]
      PROVE  Issues
  <2>1. job \in JobType /\ job.c = NewId /\ job.todo = todo /\ job.sent = 0
    BY <1>3, DispatchJob
  <2>2. 0 \in 0 .. MaxPigs
    BY DroveConstants
  <2>3. m' \in MainType
    <3>1. /\ [m EXCEPT !.pendingPriv = 0, !.dropped = TRUE, !.at = "dispatch", !.job = job] \in MainType
          /\ [m EXCEPT !.at = "dispatch", !.job = job] \in MainType
      BY <2>1, <2>2, MainNames, Zenon DEF TypeOK, MainType
    <3> QED
      BY <1>3, <3>1, Zenon
  <2>4. /\ m'.job = job /\ m'.orphans = m.orphans /\ m'.swine = m.swine /\ m'.setup = m.setup
        /\ m'.sources = m.sources /\ m'.conf = m.conf /\ m'.reloading = m.reloading
        /\ m'.at = "dispatch"
    BY <1>3, Zenon DEF TypeOK, MainType
  <2>5. /\ cmd' \in [CmdId -> CmdType] /\ cmd'[NewId] = ac
        /\ \A d \in CmdId \ {NewId} : cmd'[d] = cmd[d]
        /\ NewId \in CmdId /\ cmd[NewId].kind = "free"
    BY <1>3, Placed, NewIdFree, Zenon
  <2>6. IssuesTo(todo)
    BY <1>1, <1>3, <2>1, <2>3, <2>4, <2>5, Zenon DEF IssuesTo, TypeOK, Sending
  <2>7. Reloads
    BY <1>1, <2>1, <2>4, <2>5, Zenon DEF Reloads
  <2> QED
    BY <1>3, <2>6, <2>7, Zenon DEF Issues
<1>4. CASE pig' = [pig EXCEPT ![i].awaiting = TRUE] /\ Release(i, ac)
  BY <1>3, <1>4, Marked, AllPigsOnce, Zenon DEF Release
<1>5. CASE GoOn(i, ac)
  BY <1>3, <1>5, KeptSame, Single, Zenon DEF GoOn
<1> QED
  BY <1>2, <1>4, <1>5, Zenon DEF Proceed

(* The main thread answers INITIALIZED with a start, or waits.             *)
LEMMA MInitializedSteps ==
    ASSUME TypeOK, ThreadsOK, NEW i \in Pigs, MInitialized(i)
    PROVE  Quiet \/ Issues
<1>1. "START" \in Kinds
  BY Zenon DEF Kinds
<1>2. LET ac == NewCmd("START") IN
      /\ ac \in CmdType /\ ac.kind = "START" /\ ac.refs = 0 /\ ac.old = NoConf /\ ac.fd = None
  BY <1>1, NewCmdType, Zenon
<1> QED
  BY <1>2, ProceedSteps, Zenon DEF MInitialized

(* It answers STARTED with a run, or waits.                                *)
LEMMA MStartedSteps ==
    ASSUME TypeOK, ThreadsOK, NEW i \in Pigs, MStarted(i)
    PROVE  Quiet \/ Issues
<1> DEFINE ac == [NewCmd("RUN") EXCEPT !.paused = m.paused]
<1>1. "RUN" \in Kinds /\ m.paused \in BOOLEAN
  BY Zenon DEF Kinds, TypeOK, MainType
<1>2. /\ NewCmd("RUN") \in CmdType /\ NewCmd("RUN").kind = "RUN" /\ NewCmd("RUN").refs = 0
      /\ NewCmd("RUN").old = NoConf /\ NewCmd("RUN").fd = None
  BY <1>1, NewCmdType, Zenon
<1>3. ac \in CmdType
  BY <1>1, <1>2, Zenon DEF CmdType
<1>4. ac.kind = "RUN" /\ ac.refs = 0 /\ ac.old = NoConf /\ ac.fd = None
  BY <1>2, Zenon DEF CmdType
<1> HIDE DEF ac
<1>5. Proceed(i, "STARTED", FALSE, ac)
  BY Zenon DEF MStarted, ac
<1> QED
  BY <1>3, <1>4, <1>5, ProceedSteps, Zenon

(* Each request has its command.                                           *)
LEMMA CommandForType ==
    ASSUME TypeOK, NEW r \in Requests, IsReload(r) => live.conf # Config /\ live.attr # Config
    PROVE  LET ac == CommandFor(r) IN
           /\ ac \in CmdType /\ ac.kind # "free" /\ ac.refs = 0
           /\ ac.kind = "SWAP" <=> IsReload(r)
           /\ IsReload(r) => ac.new = NewConf(r) /\ ac.old = OldConf(NewConf(r))
           /\ ~IsReload(r) => ac.new = NoConf /\ ac.old = NoConf
<1>1. \A k \in Kinds : /\ NewCmd(k) \in CmdType /\ NewCmd(k).kind = k /\ NewCmd(k).refs = 0
                        /\ NewCmd(k).old = NoConf
  BY NewCmdType, Zenon
<1>2. \A k \in Kinds : NewCmd(k).new = NoConf
  BY Zenon DEF NewCmd, FreeCmd
<1>3. "SWAP" \in Kinds /\ "PAUSE" \in Kinds /\ "RESUME" \in Kinds /\ "STOP" \in Kinds /\ "STATS" \in Kinds
  BY Zenon DEF Kinds
<1>4. CASE IsReload(r)
  <2> DEFINE new == NewConf(r)
             old == OldConf(new)
             ac == [NewCmd("SWAP") EXCEPT !.old = old, !.new = new]
  <2>1. CommandFor(r) = ac
    BY <1>4, Zenon DEF CommandFor, IsReload
  <2>2. new \in ConfPair /\ old \in ConfPair
    BY <1>4, NewConfType, Zenon
  <2>3. NewCmd("SWAP") \in CmdType /\ NewCmd("SWAP").kind = "SWAP" /\ NewCmd("SWAP").refs = 0
    BY <1>1, <1>3, Zenon
  <2> HIDE DEF new, old
  <2>4. ac \in CmdType
    BY <2>2, <2>3, Zenon DEF CmdType
  <2>5. ac.kind = "SWAP" /\ ac.refs = 0 /\ ac.new = new /\ ac.old = old
    BY <2>3, Zenon DEF CmdType
  <2> QED
    BY <1>4, <2>1, <2>4, <2>5, Zenon DEF new, old
<1>5. CASE ~IsReload(r)
  <2>1. \E k \in {"PAUSE", "RESUME", "STOP", "STATS"} : CommandFor(r) = NewCmd(k)
    BY <1>5, Zenon DEF CommandFor
  <2> QED
    BY <1>1, <1>2, <1>3, <1>5, <2>1, Zenon
<1> QED
  BY <1>4, <1>5, Zenon

(* A request that is broadcast.                                            *)
LEMMA BroadcastIssues ==
    ASSUME TypeOK, ThreadsOK, ~Sending, m.at # "join", NEW r \in Requests, NEW u \in NullOr(Users),
           NEW then \in {"loop", "users", "reap"}, NEW mm \in MainType,
           mm.orphans = m.orphans /\ mm.swine = m.swine /\ mm.setup = m.setup,
           mm.sources = m.sources /\ mm.conf = m.conf /\ mm.reloading = m.reloading,
           Broadcast(r, u, then, mm), pig' = pig, poke' = poke, auto' = auto,
           sigs' \in Seq(Requests \cup {"int"}) /\ Len(sigs') <= SigRingCapacity,
           control' \in [Users -> ControlType],
           \A v \in Users : control'[v].status = "blocked" => control[v].status = "blocked" \/ u = v,
           budget' \in 0 .. m.setup.requests,
           u # None => r \in m.setup.shell
    PROVE  Issues
<1> DEFINE cf == CommandFor(r)
           ac == [cf EXCEPT !.fd = u]
           job == Dispatch(AllPigs, r, then)
<1>1. /\ FreeIds # {} /\ (IsReload(r) => live.conf # Config /\ live.attr # Config /\ ~m.reloading)
      /\ cmd' = [cmd EXCEPT ![NewId] = ac]
      /\ live' = [conf |-> live.conf \cup ({cf.new.conf} \ {None}),
                  attr |-> live.attr \cup ({cf.new.attr} \ {None})]
      /\ m' = [mm EXCEPT !.conf = Apply(mm.conf, cf.new), !.reloading = mm.reloading \/ IsReload(r),
                         !.at = "dispatch", !.job = job]
  BY Zenon DEF Broadcast, Refused
<1>2. /\ cf \in CmdType /\ cf.kind # "free" /\ cf.refs = 0 /\ (cf.kind = "SWAP" <=> IsReload(r))
      /\ IsReload(r) => cf.new = NewConf(r) /\ cf.old = OldConf(NewConf(r))
      /\ ~IsReload(r) => cf.new = NoConf /\ cf.old = NoConf
  BY <1>1, CommandForType, Zenon
<1> HIDE DEF cf
<1>3. ac \in CmdType
  BY <1>2, Zenon DEF CmdType
<1>4. /\ ac.kind = cf.kind /\ ac.refs = 0 /\ ac.old = cf.old /\ ac.new = cf.new /\ ac.fd = u
  BY <1>2, Zenon DEF CmdType
<1> HIDE DEF ac
<1>5. /\ cmd' \in [CmdId -> CmdType] /\ cmd'[NewId] = ac
      /\ \A d \in CmdId \ {NewId} : cmd'[d] = cmd[d]
      /\ NewId \in CmdId /\ cmd[NewId].kind = "free"
  BY <1>1, <1>3, Placed, NewIdFree, Zenon
<1>6. /\ job \in JobType /\ job.c = NewId /\ job.todo = AllPigs /\ job.sent = 0
  BY <1>1, AllPigsOnce, DispatchJob, Zenon
<1> HIDE DEF job
<1>7. cf.new \in ConfPair /\ mm.conf \in ConfPair /\ mm.reloading \in BOOLEAN
  BY <1>2, Zenon DEF CmdType, MainType
<1>8. Apply(mm.conf, cf.new) \in ConfPair /\ (mm.reloading \/ IsReload(r)) \in BOOLEAN
  BY <1>7, ApplyType, Zenon DEF IsReload
<1>9. m' \in MainType
  BY <1>1, <1>6, <1>8, MainNames, Zenon DEF MainType
<1>10. /\ m'.job = job /\ m'.orphans = m.orphans /\ m'.swine = m.swine /\ m'.setup = m.setup
       /\ m'.sources = m.sources /\ m'.conf = Apply(m.conf, cf.new)
       /\ m'.reloading = (m.reloading \/ IsReload(r)) /\ m'.at = "dispatch"
  BY <1>1, Zenon DEF MainType
<1>11. live' \in [conf : SUBSET Config, attr : SUBSET Config]
  <2>1. live.conf \subseteq Config /\ live.attr \subseteq Config
    BY Zenon DEF TypeOK
  <2>2. {cf.new.conf} \ {None} \subseteq Config /\ {cf.new.attr} \ {None} \subseteq Config
    BY <1>7, Zenon DEF ConfPair, NullOr
  <2> QED
    BY <1>1, <2>1, <2>2, Zenon
<1>12. IssuesTo(AllPigs)
  BY <1>2, <1>4, <1>5, <1>6, <1>9, <1>10, <1>11, KeptSame, Zenon DEF IssuesTo, TypeOK
<1>13. CASE IsReload(r)
  <2>1. cmd'[NewId].kind = "SWAP" /\ m'.job.c = NewId /\ m'.job.todo = AllPigs
    BY <1>2, <1>4, <1>5, <1>6, <1>10, <1>13, Zenon
  <2>2. /\ cmd'[NewId].new = NewConf(r) /\ cmd'[NewId].old = OldConf(NewConf(r))
        /\ cmd'[NewId].fd = u /\ m'.conf = Apply(m.conf, NewConf(r)) /\ m'.reloading
        /\ live' = [conf |-> live.conf \cup ({NewConf(r).conf} \ {None}),
                    attr |-> live.attr \cup ({NewConf(r).attr} \ {None})]
    BY <1>1, <1>2, <1>4, <1>5, <1>10, <1>13, Zenon
  <2>3. Reloads
    BY <1>1, <1>13, <2>1, <2>2, Zenon DEF Reloads
  <2> QED
    BY <1>12, <2>3, AllPigsOnce, Zenon DEF Issues
<1>14. CASE ~IsReload(r)
  <2>1. m'.conf = m.conf /\ live' = live
    <3>1. m.conf \in ConfPair /\ live \in [conf : SUBSET Config, attr : SUBSET Config]
      BY Zenon DEF TypeOK, MainType
    <3> QED
      BY <1>1, <1>2, <1>10, <1>14, <3>1 DEF Apply, NoConf, ConfPair
  <2>2. /\ cmd'[NewId].kind # "SWAP" /\ m'.job.c = NewId /\ cmd'[NewId].old = NoConf
        /\ m'.reloading = m.reloading
    <3>1. m.reloading \in BOOLEAN
      BY Zenon DEF TypeOK, MainType
    <3> QED
      BY <1>2, <1>4, <1>5, <1>6, <1>10, <1>14, <3>1, Zenon
  <2>3. Reloads
    BY <2>1, <2>2, Zenon DEF Reloads
  <2> QED
    BY <1>12, <2>3, AllPigsOnce, Zenon DEF Issues
<1> QED
  BY <1>13, <1>14, Zenon

(* A request of a user becomes a command.                                  *)
LEMMA SRequestIssues ==
    ASSUME TypeOK, ThreadsOK, NEW u \in Users, NEW r \in m.setup.shell, SRequest(u, r)
    PROVE  Issues
<1> DEFINE open == control[u].status # "closed"
           uu == IF open THEN u ELSE None
<1>0. m.setup \in Setup
  BY DroveConstants, Zenon DEF TypeOK, MainType
<1>1. r \in Requests /\ m.setup.requests \in Nat
  BY <1>0, Zenon DEF Setup
<1>2. PICK more \in BOOLEAN :
        Broadcast(r, uu, "users", [m EXCEPT !.served = TRUE, !.inputs = IF more THEN @ ELSE @ \ {u}])
  BY Zenon DEF SRequest
<1> DEFINE mm == [m EXCEPT !.served = TRUE, !.inputs = IF more THEN m.inputs ELSE m.inputs \ {u}]
<1>3. Broadcast(r, uu, "users", mm)
  BY <1>2, Zenon
<1>4. mm \in MainType
  <2>1. (IF more THEN m.inputs ELSE m.inputs \ {u}) \in SUBSET Users
    BY Zenon DEF TypeOK, MainType
  <2> QED
    BY <2>1, MainNames, Zenon DEF TypeOK, MainType
<1>5. /\ mm.orphans = m.orphans /\ mm.swine = m.swine /\ mm.setup = m.setup
      /\ mm.sources = m.sources /\ mm.conf = m.conf /\ mm.reloading = m.reloading
  BY Zenon DEF TypeOK, MainType
<1> HIDE DEF mm
<1>6. /\ control' \in [Users -> ControlType]
      /\ \A v \in Users : control'[v].status = "blocked" => control[v].status = "blocked" \/ uu = v
  BY Zenon DEF SRequest, TypeOK, ControlType
<1>7. uu \in NullOr(Users) /\ ~Sending /\ m.at # "join"
  BY Zenon DEF NullOr, SRequest, Sending
<1>8. budget' \in 0 .. m.setup.requests
  BY <1>1 DEF SRequest, TypeOK
<1> HIDE DEF open, uu
<1> QED
  BY <1>1, <1>3, <1>4, <1>5, <1>6, <1>7, <1>8, BroadcastIssues, Zenon DEF SRequest, TypeOK

(* A signal becomes a command, or has another effect.                      *)
LEMMA SSignalSteps ==
    ASSUME TypeOK, ThreadsOK, SSignal
    PROVE  Quiet \/ Issues
<1> DEFINE r == Meaning(Head(sigs))
<1>1. sigs \in Seq(Requests \cup {"int"}) /\ sigs # <<>> /\ sigs' = Tail(sigs)
  BY Zenon DEF TypeOK, SSignal
<1>2. r \in Requests
  BY <1>1, Taken DEF Meaning, Requests
<1>3. sigs' \in Seq(Requests \cup {"int"}) /\ Len(sigs') <= SigRingCapacity
  BY <1>1 DEF TypeOK, SigRingCapacity
<1>4. ~Sending /\ m.at # "join"
  BY Zenon DEF SSignal, Serving, Sending
<1>5. CASE Broadcast(r, None, "reap", m)
  <2>1. Issues
    BY <1>2, <1>3, <1>4, <1>5, Names, BroadcastIssues, Zenon DEF SSignal, TypeOK
  <2> QED
    BY <2>1, Zenon
<1>6. CASE m' \in {[m EXCEPT !.at = "reap"], [m EXCEPT !.at = "crashed"]} /\ UNCHANGED <<cmd, live>>
  BY <1>6, NoSignalQuiet, Zenon
<1> QED
  BY <1>5, <1>6, Zenon DEF SSignal

(* Every step that is neither the thread's nor the dispatcher's nor reaps. *)
LEMMA MainSteps ==
    ASSUME TypeOK, ThreadsOK,
           \/ MEnd \/ SSelect \/ SUsersDone \/ SSignal
           \/ \E i \in Pigs : MGone(i) \/ MStart(i) \/ MInitialized(i) \/ MStarted(i)
                               \/ MIgnore(i) \/ MStopped(i)
           \/ \E u \in Users : SAccept(u) \/ SHangUp(u) \/ SNoRequest(u)
                                \/ \E r \in m.setup.shell : SRequest(u, r)
           \/ \E s \in m.setup.signals : Signal(s)
    PROVE  Quiet \/ Issues
  BY MEndQuiet, SSelectQuiet, SUsersDoneQuiet, SSignalSteps, MGoneQuiet, MStartQuiet,
     MInitializedSteps, MStartedSteps, MIgnoreQuiet, MStoppedQuiet, SAcceptQuiet, SHangUpQuiet,
     SNoRequestQuiet, SRequestIssues, SignalQuiet, Zenon

(* reap_commands() for the completed commands of all pigs and the orphans. *)
LEMMA SReapDoes ==
    ASSUME TypeOK, ThreadsOK, SReap
    PROVE  /\ \E R, O : Reaps(R, O)
           /\ m'.swine = m.swine /\ \A i \in Pigs : pig'[i].state = pig[i].state
<1> DEFINE R == [i \in Pigs |-> Range(pig[i].completed)]
           O == m.orphans
<1>1. \A i \in Pigs : pig[i] \in PigType /\ PigOK(pig[i])
  BY Zenon DEF TypeOK, ThreadsOK
<1>2. ASSUME NEW i \in Pigs
      PROVE  GivesUp(pig[i], pig'[i], R[i]) /\ R[i] \in SUBSET CmdId /\ pig'[i].state = pig[i].state
  <2> DEFINE p == pig[i]
             q == [p EXCEPT !.completed = <<>>]
  <2>1. pig'[i] = q /\ R[i] = Range(p.completed)
    BY Zenon DEF SReap
  <2>2. p \in PigType /\ PigOK(p) /\ p.completed \in Seq(CmdId)
    BY <1>1, Zenon DEF PigType
  <2>3. q \in PigType
    BY <2>2, Emptied, Zenon DEF PigType
  <2>4. /\ q.state = p.state /\ q.thr = p.thr /\ q.ret = p.ret /\ q.work = p.work
        /\ q.pending = p.pending /\ q.completed = <<>> /\ q.conf = p.conf /\ q.breaking = p.breaking
    BY <2>2, Zenon DEF PigType
  <2> HIDE DEF q
  <2>5. PigOK(q)
    BY <2>2, <2>4, Emptied, Zenon DEF PigOK
  <2>6. Range(p.completed) \subseteq Held(p) /\ Held(q) = Held(p) \ Range(p.completed)
    BY <2>2, <2>4, Emptied, Zenon DEF PigOK, Held
  <2>7. Inside(q) => Inside(p)
    BY <2>4, Zenon DEF Inside
  <2>8. R[i] \in SUBSET CmdId
    BY <2>1, <2>2, Members, Zenon
  <2> QED
    BY <2>1, <2>3, <2>4, <2>5, <2>6, <2>7, <2>8, Zenon DEF GivesUp
<1>3. R \in [Pigs -> SUBSET CmdId] /\ O \in SUBSET m.orphans /\ Reap(R, O)
  BY <1>2, Zenon DEF SReap
<1>4. pig' \in [Pigs -> PigType]
  BY <1>2, Zenon DEF SReap, GivesUp
<1>5. StillReloading(Deleted(R, O)) \in BOOLEAN /\ {} \in SUBSET CmdId
  BY Zenon DEF StillReloading, TypeOK, MainType
<1>6. m' = [m EXCEPT !.at = "loop", !.orphans = {}, !.reloading = StillReloading(Deleted(R, O))]
  BY Zenon DEF SReap
<1>7. m.at \in {"loop", "reap", "signal"}
  BY Zenon DEF SReap, Serving
<1> HIDE DEF R
<1>8. m' \in MainType
  BY <1>5, <1>6, MainNames, Zenon DEF TypeOK, MainType
<1>9. /\ m'.at = "loop" /\ m'.orphans = {} /\ m'.reloading = StillReloading(Deleted(R, O))
      /\ m'.job = m.job /\ m'.conf = m.conf /\ m'.setup = m.setup /\ m'.swine = m.swine
      /\ m'.sources = m.sources
  BY <1>6, Zenon DEF TypeOK, MainType
<1>10. Reaps(R, O)
  BY <1>2, <1>3, <1>4, <1>7, <1>8, <1>9, Zenon DEF Reaps, Sending, SReap
<1> QED
  BY <1>2, <1>9, <1>10, Zenon

(* A pig without an analyzer.                                              *)
LEMMA JoinedPig ==
    ASSUME NEW b \in BOOLEAN
    PROVE  LET q == [LazyPig EXCEPT !.awaiting = b] IN
           /\ q \in PigType /\ q.state = None /\ q.thr = None /\ q.work = None
           /\ q.pending = <<>> /\ q.completed = <<>>
<1>1. [LazyPig EXCEPT !.awaiting = b] \in PigType
  BY LazyPigType, Zenon DEF PigType
<1> QED
  BY <1>1, LazyPigType, Zenon DEF PigType

(* Joining a thread: its analyzer goes, with the commands it still has.    *)
LEMMA MJoinDoes ==
    ASSUME TypeOK, ThreadsOK, m.swine > 0, MJoin
    PROVE  /\ \E R, O : Reaps(R, O)
           /\ m.at = "join" /\ m'.swine = m.swine - 1 /\ pig'[m.target].state = None
           /\ \A i \in Pigs \ {m.target} : pig'[i] = pig[i]
<1>0. PICK t \in Pigs : t = m.target
  BY Zenon DEF TypeOK, MainType
<1> DEFINE R == [j \in Pigs |-> IF j = t THEN Range(pig[j].completed) \cup Range(pig[j].pending) ELSE {}]
           p == pig[t]
           q == [LazyPig EXCEPT !.awaiting = p.awaiting]
<1>1. /\ pig \in [Pigs -> PigType] /\ \A i \in Pigs : pig[i] \in PigType /\ PigOK(pig[i])
      /\ p.awaiting \in BOOLEAN /\ p.pending \in Seq(CmdId) /\ p.completed \in Seq(CmdId)
  BY Zenon DEF TypeOK, ThreadsOK, PigType
<1>2. /\ m.at = "join" /\ p.thr = "exit" /\ pig' = [pig EXCEPT ![t] = q] /\ Reap(R, {})
  BY <1>0, Zenon DEF MJoin
<1>3. /\ q \in PigType /\ q.state = None /\ q.thr = None /\ q.work = None
      /\ q.pending = <<>> /\ q.completed = <<>>
  BY <1>1, JoinedPig, Zenon
<1> HIDE DEF q
<1>4. PigOK(q) /\ Held(q) = {} /\ ~Inside(q)
  BY <1>3, Names, Emptied, Zenon DEF PigOK, Held, Inside, AnalyzerStates, Places
<1>5. p.work = None
  BY <1>1, <1>2, Zenon DEF PigOK
<1>6. R[t] = Range(p.completed) \cup Range(p.pending) /\ Held(p) = R[t] /\ R[t] \subseteq CmdId
  BY <1>1, <1>5, Members, Zenon DEF Held
<1>7. pig' \in [Pigs -> PigType] /\ pig'[t] = q /\ \A i \in Pigs \ {t} : pig'[i] = pig[i]
  BY <1>1, <1>2, <1>3, Zenon
<1>8. \A i \in Pigs \ {t} : R[i] = {}
  OBVIOUS
<1>9. R \in [Pigs -> SUBSET CmdId]
  BY <1>6, Zenon
<1> HIDE DEF R
<1>10. \A i \in Pigs : GivesUp(pig[i], pig'[i], R[i])
  BY <1>1, <1>3, <1>4, <1>6, <1>7, <1>8, Zenon DEF GivesUp
<1>11. StillReloading(Deleted(R, {})) \in BOOLEAN
  BY Zenon DEF StillReloading, TypeOK, MainType
<1>12. m' = [m EXCEPT !.swine = m.swine - 1, !.target = 0,
                      !.reloading = StillReloading(Deleted(R, {})),
                      !.at = IF m.swine = 1 /\ m.quitting THEN "done" ELSE "loop"]
  BY <1>0, Zenon DEF MJoin, R
<1>13. /\ m.swine - 1 \in 0 .. MaxPigs /\ 0 \in Pigs
       /\ (IF m.swine = 1 /\ m.quitting THEN "done" ELSE "loop") \in MainPlaces
  BY DroveConstants, MainNames DEF TypeOK, MainType, Pigs
<1>14. m' \in MainType
  BY <1>11, <1>12, <1>13, Zenon DEF TypeOK, MainType
<1>15. /\ m'.at \in {"done", "loop"} /\ m'.reloading = StillReloading(Deleted(R, {}))
       /\ m'.orphans = m.orphans \ {} /\ m'.job = m.job /\ m'.conf = m.conf
       /\ m'.setup = m.setup /\ m'.swine = m.swine - 1 /\ m'.sources = m.sources
  BY <1>12, Zenon DEF TypeOK, MainType
<1>16. Reaps(R, {})
  BY <1>2, <1>7, <1>9, <1>10, <1>14, <1>15, Zenon DEF Reaps, Sending, MJoin
<1> QED
  BY <1>0, <1>2, <1>3, <1>7, <1>15, <1>16, Zenon

(* The steps are as said.                                                  *)
LEMMA StepsAreAsSaid == StepsAsSaid
<1>1. ASSUME TypeOK, NEW i \in Pigs, PigOK(pig[i]), Thread(i)
      PROVE  ThreadDoes(i)
  <2>1. \E q : pig' = [pig EXCEPT ![i] = q] /\ Steps(pig[i], q)
    BY <1>1, TSteps, Zenon
  <2> QED
    BY <1>1, <2>1, TLeaves, Zenon DEF ThreadDoes
<1>2. ASSUME TypeOK, ThreadsOK, OtherStep
      PROVE  Quiet \/ Issues
  BY <1>2, MainSteps, Zenon DEF OtherStep
<1>3. TypeOK /\ ThreadsOK /\ SReap =>
          /\ \E R, O : Reaps(R, O)
          /\ m'.swine = m.swine /\ \A i \in Pigs : pig'[i].state = pig[i].state
  BY SReapDoes, Zenon
<1>4. TypeOK /\ ThreadsOK /\ m.swine > 0 /\ MJoin =>
          /\ \E R, O : Reaps(R, O)
          /\ m.at = "join" /\ m'.swine = m.swine - 1 /\ pig'[m.target].state = None
          /\ \A i \in Pigs \ {m.target} : pig'[i] = pig[i]
  BY MJoinDoes, Zenon
<1> QED
  BY <1>1, <1>2, <1>3, <1>4, Zenon DEF StepsAsSaid

(* The steps of broadcast() deliver.  A pig that does not run is skipped   *)
(* ...                                                                     *)
LEMMA DSkipDelivers ==
    ASSUME IndInv, DSkip
    PROVE  Delivers
<1>1. /\ m.at = "dispatch" /\ m.job.todo # <<>> /\ m.job \in JobType /\ m.job.todo \in Seq(Pigs)
      /\ pig' = pig /\ cmd' = cmd /\ live' = live /\ control' = control
  BY Zenon DEF IndInv, DSkip, TypeOK, MainType, JobType
<1>2. PICK i \in Pigs : i = Target /\ Range(m.job.todo) = {i} \cup Range(Tail(m.job.todo))
  BY <1>1, Taken DEF Target
<1> DEFINE job == [m.job EXCEPT !.todo = Tail(m.job.todo)]
<1>3. m' = [m EXCEPT !.job = job] /\ job.c = m.job.c /\ job.todo = Tail(m.job.todo)
  <2>1. m' = [m EXCEPT !.job = job]
    BY Zenon DEF IndInv, DSkip, TypeOK, MainType
  <2> QED
    BY <1>1, <2>1, Zenon DEF JobType
<1> HIDE DEF job
<1>4. /\ m'.at = "dispatch" /\ m'.job = job /\ m'.conf = m.conf /\ m'.reloading = m.reloading
      /\ m'.setup = m.setup
  BY <1>1, <1>3, Zenon DEF IndInv, TypeOK, MainType
<1>5. ~Inside(pig[i])
  <2>1. ~Reachable(i) /\ PigOK(pig[i])
    BY <1>2, Zenon DEF DSkip, IndInv, ThreadsOK
  <2> QED
    BY <2>1, Zenon DEF Inside, Reachable, PigOK
<1>6. ASSUME NEW j \in Pigs, NEW c \in CmdId, Inside(pig[j]), Told(j, c)
      PROVE  Told(j, c)'
  <2>1. ToCome = Range(m.job.todo) /\ ToCome' = Range(Tail(m.job.todo)) /\ j # i
    BY <1>1, <1>3, <1>4, <1>5, <1>6, Zenon DEF ToCome
  <2> QED
    BY <1>1, <1>2, <1>3, <1>4, <1>6, <2>1, Zenon DEF Told
<1>7. CommandBreaksAcquire => CommandBreaksAcquire'
  BY <1>1, Zenon DEF CommandBreaksAcquire
<1> QED
  BY <1>1, <1>4, <1>6, <1>7, Zenon DEF Delivers

(* ... all pigs have been served ...                                       *)
LEMMA DDoneDelivers ==
    ASSUME IndInv, DDone
    PROVE  Delivers
<1>1. /\ m.at = "dispatch" /\ m.job.todo = <<>>
      /\ pig' = pig /\ cmd' = cmd /\ live' = live /\ control' = control
  BY Zenon DEF DDone
<1>2. m'.conf = m.conf /\ m'.reloading = m.reloading /\ m'.setup = m.setup
  BY Zenon DEF IndInv, DDone, TypeOK, MainType
<1>3. ASSUME NEW j \in Pigs, NEW c \in CmdId, Told(j, c)
      PROVE  Told(j, c)'
  BY <1>1, <1>3, Emptied, Zenon DEF Told, ToCome
<1>4. CommandBreaksAcquire => CommandBreaksAcquire'
  BY <1>1, Zenon DEF CommandBreaksAcquire
<1> QED
  BY <1>1, <1>2, <1>3, <1>4, Zenon DEF Delivers

(* ... the command is queued ...                                           *)
LEMMA DQueueDelivers ==
    ASSUME IndInv, DQueue
    PROVE  Delivers
<1>1. /\ m.at = "dispatch" /\ m.job.todo # <<>> /\ m.job \in JobType /\ m.job.todo \in Seq(Pigs)
      /\ pig \in [Pigs -> PigType] /\ cmd \in [CmdId -> CmdType] /\ live' = live /\ control' = control
  BY Zenon DEF IndInv, DQueue, TypeOK, MainType, JobType
<1>2. PICK i \in Pigs : i = Target /\ Range(m.job.todo) = {i} \cup Range(Tail(m.job.todo))
  BY <1>1, Taken DEF Target
<1>3. PICK d \in CmdId : d = m.job.c
  BY <1>1, Zenon DEF IndInv, JobOK, Sending
<1> DEFINE p == pig[i]
           q == [p EXCEPT !.pending = Append(p.pending, d)]
<1>4. pig' = [pig EXCEPT ![i] = q]
  BY <1>1, <1>2, <1>3, Zenon DEF DQueue
<1>5. p \in PigType /\ p.pending \in Seq(CmdId)
  BY <1>1, <1>2, Zenon DEF PigType
<1>6. /\ q.state = p.state /\ q.thr = p.thr /\ q.conf = p.conf /\ q.pending = Append(p.pending, d)
      /\ q.breaking = p.breaking
  BY <1>5, Zenon DEF PigType
<1>7. Range(q.pending) = Range(p.pending) \cup {d}
  BY <1>5, <1>6, Added
<1> HIDE DEF q
<1>8. pig'[i] = q /\ \A j \in Pigs \ {i} : pig'[j] = pig[j]
  BY <1>1, <1>2, <1>4, Zenon
<1>9. /\ m'.at = "break" /\ m'.job = m.job /\ m'.conf = m.conf /\ m'.reloading = m.reloading
      /\ m'.setup = m.setup
  BY Zenon DEF IndInv, DQueue, TypeOK, MainType
<1>10. ASSUME NEW c \in CmdId
       PROVE  /\ cmd'[c].kind = cmd[c].kind /\ cmd'[c].fd = cmd[c].fd
              /\ cmd'[c].old = cmd[c].old /\ cmd'[c].new = cmd[c].new
  <2> DEFINE r == cmd[d].refs + 1
  <2>1. cmd' = [cmd EXCEPT ![d] = [cmd[d] EXCEPT !.refs = r]]
    BY <1>1, <1>3, Zenon DEF DQueue
  <2> HIDE DEF r
  <2>2. cmd[d] \in CmdType
    BY <1>1, Zenon
  <2>3. /\ [cmd[d] EXCEPT !.refs = r].kind = cmd[d].kind /\ [cmd[d] EXCEPT !.refs = r].fd = cmd[d].fd
        /\ [cmd[d] EXCEPT !.refs = r].old = cmd[d].old /\ [cmd[d] EXCEPT !.refs = r].new = cmd[d].new
    BY <2>2, Zenon DEF CmdType
  <2>4. cmd'[c] = cmd[c] \/ (c = d /\ cmd'[c] = [cmd[d] EXCEPT !.refs = r])
    BY <1>1, <2>1, Zenon
  <2> QED
    BY <2>3, <2>4, Zenon
<1>11. ASSUME NEW j \in Pigs, NEW c \in CmdId, Told(j, c)
       PROVE  Told(j, c)'
  <2>1. ToCome = Range(m.job.todo) /\ ToCome' = Range(Tail(m.job.todo))
    BY <1>1, <1>9, Zenon DEF ToCome
  <2> QED
    BY <1>2, <1>3, <1>7, <1>8, <1>9, <1>11, <2>1, Zenon DEF Told
<1>12. CommandBreaksAcquire => CommandBreaksAcquire'
  <2>1. m'.at = "break" /\ Target' = i /\ m.at # "break"
    BY <1>1, <1>2, <1>9, Zenon DEF Target
  <2> QED
    BY <1>8, <2>1, Zenon DEF CommandBreaksAcquire
<1> QED
  BY <1>1, <1>6, <1>8, <1>9, <1>10, <1>11, <1>12, Zenon DEF Delivers

(* ... and acquire() is broken.                                            *)
LEMMA DBreakDelivers ==
    ASSUME IndInv, DBreak
    PROVE  Delivers
<1>1. /\ m.at = "break" /\ m.job.todo # <<>> /\ m.job \in JobType /\ m.job.todo \in Seq(Pigs)
      /\ pig \in [Pigs -> PigType] /\ cmd' = cmd /\ live' = live /\ control' = control
  BY Zenon DEF IndInv, JobOK, Sending, DBreak, TypeOK, MainType, JobType
<1>2. PICK i \in Pigs : i = Target /\ Range(m.job.todo) = {i} \cup Range(Tail(m.job.todo))
  BY <1>1, Taken DEF Target
<1> DEFINE p == pig[i]
           q == [p EXCEPT !.breaking = p.breaking \/ p.state = "RUNNING"]
<1>3. pig' = [pig EXCEPT ![i] = q]
  BY <1>1, <1>2, Zenon DEF DBreak
<1>4. p \in PigType /\ PigOK(p)
  BY <1>1, <1>2, Zenon DEF IndInv, ThreadsOK
<1>5. /\ q.state = p.state /\ q.thr = p.thr /\ q.conf = p.conf /\ q.pending = p.pending
      /\ q.breaking = (p.breaking \/ p.state = "RUNNING")
  BY <1>4, Zenon DEF PigType
<1> HIDE DEF q
<1>6. pig'[i] = q /\ \A j \in Pigs \ {i} : pig'[j] = pig[j]
  BY <1>1, <1>2, <1>3, Zenon
<1> DEFINE job == [m.job EXCEPT !.todo = Tail(m.job.todo), !.sent = m.job.sent + 1]
<1>7. m' = [m EXCEPT !.at = "dispatch", !.job = job]
  BY <1>1, Zenon DEF DBreak, IndInv, TypeOK, MainType
<1>8. job.c = m.job.c /\ job.todo = Tail(m.job.todo)
  BY <1>1, Zenon DEF JobType
<1> HIDE DEF job
<1>9. /\ m'.at = "dispatch" /\ m'.job = job /\ m'.conf = m.conf /\ m'.reloading = m.reloading
      /\ m'.setup = m.setup
  BY <1>7, Zenon DEF IndInv, TypeOK, MainType
<1>10. ASSUME NEW j \in Pigs, NEW c \in CmdId, Told(j, c)
       PROVE  Told(j, c)'
  <2>1. ToCome = Range(Tail(m.job.todo)) /\ ToCome' = Range(Tail(m.job.todo))
    BY <1>1, <1>8, <1>9, Zenon DEF ToCome
  <2> QED
    BY <1>5, <1>6, <1>8, <1>9, <1>10, <2>1, Zenon DEF Told
<1>11. q.thr = "acquire" => q.breaking
  BY <1>4, <1>5, Zenon DEF PigOK
<1>12. CommandBreaksAcquire => CommandBreaksAcquire'
  BY <1>1, <1>2, <1>5, <1>6, <1>9, <1>11 DEF CommandBreaksAcquire
<1> QED
  BY <1>1, <1>5, <1>6, <1>9, <1>10, <1>12, Zenon DEF Delivers

(* A new analyzer has no thread yet.                                       *)
LEMMA MPrepLeaves ==
    ASSUME IndInv, MPrep
    PROVE  /\ m'.at = m.at /\ m'.job = m.job /\ m'.conf = m.conf /\ m'.reloading = m.reloading
           /\ m'.setup = m.setup /\ cmd' = cmd /\ control' = control /\ live' = live
           /\ \A j \in Pigs :
                 /\ pig'[j].thr = pig[j].thr /\ pig'[j].conf = pig[j].conf
                 /\ pig'[j].pending = pig[j].pending /\ pig'[j].breaking = pig[j].breaking
                 /\ Inside(pig'[j]) => Inside(pig[j])
<1>1. PICK i \in Pigs : pig[i].state = None /\ pig' = [pig EXCEPT ![i].state = "NEW"]
  BY Zenon DEF MPrep
<1>2. pig \in [Pigs -> PigType] /\ pig[i] \in PigType /\ pig[i].thr = None
  BY <1>1, Zenon DEF IndInv, TypeOK, ThreadsOK, PigOK
<1> DEFINE q == [pig[i] EXCEPT !.state = "NEW"]
<1>3. pig' = [pig EXCEPT ![i] = q]
  BY <1>1, <1>2, Zenon
<1>4. /\ q.thr = pig[i].thr /\ q.conf = pig[i].conf /\ q.pending = pig[i].pending
      /\ q.breaking = pig[i].breaking
  BY <1>2, Zenon DEF PigType
<1> HIDE DEF q
<1>5. pig'[i] = q /\ \A j \in Pigs \ {i} : pig'[j] = pig[j]
  BY <1>2, <1>3, Zenon
<1>6. ~Inside(q)
  BY <1>2, <1>4, Zenon DEF Inside
<1>7. m' = [m EXCEPT !.swine = m.swine + 1, !.sources = m.sources - 1]
  BY Zenon DEF MPrep
<1>8. /\ m'.at = m.at /\ m'.job = m.job /\ m'.conf = m.conf /\ m'.reloading = m.reloading
      /\ m'.setup = m.setup
  BY <1>7, Zenon DEF IndInv, TypeOK, MainType
<1> QED
  BY <1>4, <1>5, <1>6, <1>8, Zenon DEF MPrep

-----------------------------------------------------------------------------
(* Every step is of one of these kinds.                                    *)
LEMMA StepKinds ==
    ASSUME PigsCounted, IndInv, [Next]_vars
    PROVE  \/ \E i \in Pigs : Thread(i)
           \/ Quiet \/ Issues \/ MPrep \/ Delivers
           \/ \E R, O : Reaps(R, O)
           \/ UNCHANGED vars
<1>0. TypeOK /\ ThreadsOK
  BY Zenon DEF IndInv
<1>1. CASE Main
  <2>1. CASE MJoin
    <3>1. m.swine > 0
      BY <2>1, JoinedSwine, Zenon DEF MJoin
    <3> QED
      BY <1>0, <2>1, <3>1, MJoinDoes, Zenon
  <2>2. CASE MPrep \/ SReap
    BY <1>0, <2>2, SReapDoes, Zenon
  <2>3. CASE DSkip \/ DQueue \/ DBreak \/ DDone
    BY <2>3, DSkipDelivers, DQueueDelivers, DBreakDelivers, DDoneDelivers, Zenon
  <2>4. CASE \/ MEnd \/ SSelect \/ SUsersDone \/ SSignal
             \/ \E i \in Pigs : MGone(i) \/ MStart(i) \/ MInitialized(i) \/ MStarted(i)
                                 \/ MIgnore(i) \/ MStopped(i)
             \/ \E u \in Users : SAccept(u) \/ SHangUp(u) \/ SNoRequest(u)
                                  \/ \E r \in m.setup.shell : SRequest(u, r)
    BY <1>0, <2>4, MainSteps, Zenon
  <2> QED
    BY <1>1, <2>1, <2>2, <2>3, <2>4, Zenon DEF Main
<1>2. CASE \E s \in m.setup.signals : Signal(s)
  BY <1>0, <1>2, MainSteps, Zenon
<1>3. CASE Finished
  BY <1>3, Zenon DEF Finished
<1> QED
  BY <1>1, <1>2, <1>3, Zenon DEF Next

(* One step: a connection that is blocked keeps the command it waits for.  *)
LEMMA BlockedStep ==
    ASSUME PigsCounted, IndInv, BlockedHasCommand, [Next]_vars
    PROVE  BlockedHasCommand'
<1>0. /\ TypeOK /\ ThreadsOK
      /\ \A u \in Users : control[u].status = "blocked" =>
             \E c \in CmdId : cmd[c].kind # "free" /\ cmd[c].fd = u
  BY Zenon DEF IndInv, BlockedHasCommand
<1>1. ASSUME NEW i \in Pigs, Thread(i)
      PROVE  BlockedHasCommand'
  <2>1. /\ \A c \in CmdId :
              /\ cmd'[c].kind = cmd[c].kind
              /\ \/ cmd'[c].fd = cmd[c].fd
                 \/ \A u \in Users : cmd[c].fd = u => control'[u].status = "closed"
        /\ \A u \in Users : control'[u].status \in {control[u].status, "closed"}
    BY <1>0, <1>1, TLeaves, Zenon DEF ThreadsOK
  <2> QED
    BY <1>0, <2>1 DEF BlockedHasCommand
<1>2. CASE Quiet
  BY <1>0, <1>2, Zenon DEF Quiet, BlockedHasCommand
<1>3. CASE Issues
  <2>1. PICK c \in CmdId : /\ cmd[c].kind = "free" /\ cmd'[c].kind # "free"
                           /\ \A d \in CmdId \ {c} : cmd'[d] = cmd[d]
                           /\ \A u \in Users : control'[u].status = "blocked" =>
                                   control[u].status = "blocked" \/ cmd'[c].fd = u
    BY <1>3, Zenon DEF Issues, IssuesTo
  <2> QED
    BY <1>0, <2>1 DEF BlockedHasCommand
<1>4. CASE MPrep
  BY <1>0, <1>4, Zenon DEF MPrep, BlockedHasCommand
<1>5. CASE Delivers
  BY <1>0, <1>5 DEF Delivers, BlockedHasCommand
<1>6. ASSUME NEW R, NEW O, Reaps(R, O)
      PROVE  BlockedHasCommand'
  <2> DEFINE F == Deleted(R, O)
  <2>1. /\ cmd' = [c \in CmdId |-> IF c \in F THEN FreeCmd
                                   ELSE [cmd[c] EXCEPT !.refs = cmd[c].refs - Puts(R, c)]]
        /\ control' \in Unblocked(F)
    BY <1>6, Zenon DEF Reaps, Reap
  <2> HIDE DEF F
  <2> SUFFICES ASSUME NEW u \in Users, control'[u].status = "blocked"
               PROVE  \E c \in CmdId : cmd'[c].kind # "free" /\ cmd'[c].fd = u
    BY Zenon DEF BlockedHasCommand
  <2>2. control[u] \in ControlType
    BY <1>0, Zenon DEF TypeOK
  <2>3. [control[u] EXCEPT !.status = "ready"].status = "ready"
    BY <2>2, Zenon DEF ControlType
  <2>4. /\ control'[u] = control[u]
        /\ control[u].status # "closed" => \A c \in F : cmd[c].fd # u
    <3>1. IF control[u].status # "closed" /\ \E c \in F : cmd[c].fd = u
          THEN \/ control'[u] = [control[u] EXCEPT !.status = "ready"]
               \/ WriteFaults /\ control'[u] = [status |-> "closed", queued |-> FALSE]
          ELSE control'[u] = control[u]
      BY <2>1, Zenon DEF Unblocked
    <3>2. [status |-> "closed", queued |-> FALSE].status = "closed"
      OBVIOUS
    <3> QED
      BY <2>3, <3>1, <3>2, Zenon
  <2>5. PICK c \in CmdId : cmd[c].kind # "free" /\ cmd[c].fd = u /\ c \notin F
    BY <1>0, <2>4, Zenon
  <2>6. cmd'[c] = [cmd[c] EXCEPT !.refs = cmd[c].refs - Puts(R, c)]
    BY <2>1, <2>5, Zenon
  <2>7. cmd[c] \in CmdType
    BY <1>0, Zenon DEF TypeOK
  <2>8. cmd'[c].kind = cmd[c].kind /\ cmd'[c].fd = cmd[c].fd
    BY <2>6, <2>7, Zenon DEF CmdType
  <2> QED
    BY <2>5, <2>8, Zenon
<1>7. CASE UNCHANGED vars
  BY <1>0, <1>7, Zenon DEF vars, BlockedHasCommand
<1> QED
  BY <1>1, <1>2, <1>3, <1>4, <1>5, <1>6, <1>7, StepKinds, Zenon

(* One step: a thread that is in acquire() with a command waiting has been *)
(* told to break out of it.                                                *)
LEMMA BreakStep ==
    ASSUME PigsCounted, IndInv, CommandBreaksAcquire, [Next]_vars
    PROVE  CommandBreaksAcquire'
<1>0. /\ TypeOK /\ ThreadsOK /\ pig \in [Pigs -> PigType]
      /\ \A i \in Pigs : pig[i].thr = "acquire" /\ pig[i].pending # <<>> =>
            pig[i].breaking \/ (m.at = "break" /\ Target = i)
  BY Zenon DEF IndInv, TypeOK, CommandBreaksAcquire
<1>1. ASSUME NEW i \in Pigs, Thread(i)
      PROVE  CommandBreaksAcquire'
  <2>1. PICK q : pig' = [pig EXCEPT ![i] = q] /\ Steps(pig[i], q)
    BY <1>0, <1>1, TSteps, Zenon DEF ThreadsOK
  <2>2. q.thr = "acquire" /\ q.pending # <<>> =>
          pig[i].thr = "acquire" /\ q.pending = pig[i].pending /\ (pig[i].breaking => q.breaking)
    BY <2>1, Zenon DEF Steps
  <2>3. pig'[i] = q /\ \A j \in Pigs \ {i} : pig'[j] = pig[j]
    BY <1>0, <2>1, Zenon
  <2>4. m' = m /\ Target' = Target
    BY <1>0, <1>1, TLeaves, Zenon DEF Target, ThreadsOK
  <2> QED
    BY <1>0, <2>2, <2>3, <2>4, Zenon DEF CommandBreaksAcquire
<1>2. CASE Quiet
  <2>1. \A j \in Pigs : /\ pig'[j].pending = pig[j].pending
                        /\ pig'[j].thr = "acquire" =>
                              pig[j].thr = "acquire" /\ pig'[j].breaking = pig[j].breaking
    BY <1>2, Zenon DEF Quiet, Kept
  <2>2. Target' = Target /\ (m.at = "break" => m'.at = "break")
    BY <1>2, Zenon DEF Quiet, Target, Sending
  <2> QED
    BY <1>0, <2>1, <2>2, Zenon DEF CommandBreaksAcquire
<1>3. CASE Issues
  <2>1. /\ \A j \in Pigs : Kept(pig[j], pig'[j])
        /\ m.at # "break"
    BY <1>3, Zenon DEF Issues, IssuesTo, Sending
  <2>2. \A j \in Pigs : /\ pig'[j].pending = pig[j].pending
                        /\ pig'[j].thr = "acquire" =>
                              pig[j].thr = "acquire" /\ pig'[j].breaking = pig[j].breaking
    BY <2>1, Zenon DEF Kept
  <2> QED
    BY <1>0, <2>1, <2>2, Zenon DEF CommandBreaksAcquire
<1>4. CASE MPrep
  <2>1. m.at # "break"
    BY <1>4, Zenon DEF MPrep
  <2> QED
    BY <1>0, <1>4, <2>1, MPrepLeaves, Zenon DEF CommandBreaksAcquire
<1>5. CASE Delivers
  BY <1>5, Zenon DEF Delivers
<1>6. ASSUME NEW R, NEW O, Reaps(R, O)
      PROVE  CommandBreaksAcquire'
  <2>1. m.at # "break" /\ \A j \in Pigs : GivesUp(pig[j], pig'[j], R[j])
    BY <1>6, Zenon DEF Reaps, Sending
  <2>2. ASSUME NEW j \in Pigs, pig'[j].thr = "acquire"
        PROVE  /\ pig[j].thr = "acquire" /\ pig'[j].breaking = pig[j].breaking
               /\ pig'[j].pending = pig[j].pending
    <3>1. PigOK(pig'[j]) /\ pig'[j].state = "RUNNING"
      BY <2>1, <2>2, Zenon DEF GivesUp, PigOK
    <3>2. Inside(pig'[j])
      BY <2>2, <3>1, Names, Zenon DEF Inside, Places
    <3> QED
      BY <2>1, <2>2, <3>2, Zenon DEF GivesUp
  <2> QED
    BY <1>0, <2>1, <2>2, Zenon DEF CommandBreaksAcquire
<1>7. CASE UNCHANGED vars
  BY <1>0, <1>7, Zenon DEF vars, CommandBreaksAcquire, Target
<1> QED
  BY <1>1, <1>2, <1>3, <1>4, <1>5, <1>6, <1>7, StepKinds, Zenon

(* The configuration of a thread that takes the SWAP command.              *)
LEMMA SwapDone ==
    \A M, old, new \in ConfPair :
        /\ (old.conf = None <=> new.conf = None) /\ (old.attr = None <=> new.attr = None)
        /\ new.conf \in {None, M.conf} /\ new.attr \in {None, M.attr}
        => Apply(M, new) = M /\ Apply(Apply(M, old), new) = M
<1>1. \A M \in ConfPair : M = [conf |-> M.conf, attr |-> M.attr]
  BY DEF ConfPair
<1> QED
  BY <1>1 DEF Apply

(* The configuration of a thread when a reload begins.                     *)
LEMMA SwapBegins ==
    \A M, new \in ConfPair :
        LET old == [conf |-> IF new.conf = None THEN None ELSE M.conf,
                    attr |-> IF new.attr = None THEN None ELSE M.attr]
        IN  M.conf # None /\ M.attr # None => Apply(Apply(M, new), old) = M
<1>1. \A M \in ConfPair : M = [conf |-> M.conf, attr |-> M.attr]
  BY DEF ConfPair
<1> QED
  BY <1>1, Zenon DEF Apply

(* A step that keeps the SWAP commands and the main thread's               *)
(* configuration, and that gives no thread another configuration than the  *)
(* main thread's.                                                          *)
LEMMA ReloadKept ==
    ASSUME IndInv, ReloadInv,
           m'.conf = m.conf, m'.reloading = m.reloading, m'.setup = m.setup, live' = live,
           \A c \in CmdId : /\ cmd'[c].kind = cmd[c].kind
                            /\ cmd'[c].old = cmd[c].old /\ cmd'[c].new = cmd[c].new
                            /\ cmd'[c].fd \in {cmd[c].fd, None},
           \A j \in Pigs : Inside(pig'[j]) =>
              \/ pig'[j].conf = m.conf
              \/ /\ Inside(pig[j]) /\ pig'[j].conf = pig[j].conf
                 /\ \A c \in Swaps : Told(j, c) => Told(j, c)'
    PROVE  ReloadInv'
<1>1. Swaps' = Swaps
  BY Zenon DEF Swaps
<1>2. ASSUME NEW c \in CmdId, Swaps = {c}, Replaces(c)
      PROVE  Replaces(c)'
  <2>1. \A i \in Pigs : Inside(pig'[i]) =>
          pig'[i].conf = m.conf \/ (pig'[i].conf = Apply(m.conf, cmd[c].old) /\ Told(i, c)')
    BY <1>2, Zenon DEF Replaces
  <2>2. cmd'[c].old = cmd[c].old /\ cmd'[c].new = cmd[c].new /\ cmd'[c].fd \in {cmd[c].fd, None}
    OBVIOUS
  <2> QED
    BY <1>2, <2>1, <2>2, Zenon DEF Replaces, WriteFaults
<1>3. CASE ~m.reloading
  BY <1>1, <1>3, Zenon DEF ReloadInv
<1>4. CASE m.reloading
  BY <1>1, <1>2, <1>4, Zenon DEF ReloadInv
<1> QED
  BY <1>3, <1>4, Zenon

(* A packet thread takes the new configuration with the SWAP command.      *)
LEMMA ThreadReload ==
    ASSUME IndInv, ReloadInv, NEW i \in Pigs, Thread(i)
    PROVE  ReloadInv'
<1>1. /\ TypeOK /\ ThreadsOK /\ pig \in [Pigs -> PigType] /\ PigOK(pig[i]) /\ m.conf \in ConfPair
      /\ pig[i].pending \in Seq(CmdId)
  BY Zenon DEF IndInv, TypeOK, ThreadsOK, MainType, PigType
<1>2. PICK q : pig' = [pig EXCEPT ![i] = q] /\ Steps(pig[i], q)
  BY <1>1, TSteps, Zenon
<1>3. pig'[i] = q /\ \A j \in Pigs \ {i} : pig'[j] = pig[j]
  BY <1>1, <1>2, Zenon
<1>4. /\ m' = m /\ live' = live
      /\ \A c \in CmdId : /\ cmd'[c].kind = cmd[c].kind
                          /\ cmd'[c].old = cmd[c].old /\ cmd'[c].new = cmd[c].new
                          /\ cmd'[c].fd \in {cmd[c].fd, None}
  BY <1>1, TLeaves, Zenon
<1>5. ToCome' = ToCome
  BY <1>4, Zenon DEF ToCome
<1>6. \A j \in Pigs \ {i}, c \in CmdId : Told(j, c) => Told(j, c)'
  BY <1>3, <1>4, <1>5, Zenon DEF Told
<1>7. ASSUME Inside(q)
      PROVE  \/ q.conf = m.conf
             \/ /\ Inside(pig[i]) /\ q.conf = pig[i].conf
                /\ \A c \in Swaps : Told(i, c) => Told(i, c)'
  <2>1. Inside(pig[i])
    BY <1>2, <1>7, Zenon DEF Steps
  <2>2. CASE q.pending = pig[i].pending /\ q.conf = pig[i].conf
    BY <1>3, <1>4, <1>5, <2>1, <2>2, Zenon DEF Told
  <2>3. CASE /\ pig[i].pending # <<>> /\ q.pending = Tail(pig[i].pending)
             /\ LET c == cmd[Head(pig[i].pending)] IN
                \/ q.conf = pig[i].conf /\ (c.kind = "SWAP" => WriteFaults /\ c.fd # None)
                \/ q.conf = Apply(pig[i].conf, c.new) /\ c.kind = "SWAP"
    <3> DEFINE h == Head(pig[i].pending)
    <3>1. h \in CmdId /\ Range(pig[i].pending) = {h} \cup Range(Tail(pig[i].pending))
      BY <1>1, <2>3, Taken, Zenon
    <3>2. CASE h \notin Swaps
      <4>1. cmd[h].kind # "SWAP"
        BY <3>1, <3>2, Zenon DEF Swaps
      <4>2. q.conf = pig[i].conf
        BY <2>3, <4>1, Zenon
      <4>3. ASSUME NEW c \in Swaps, Told(i, c)
            PROVE  Told(i, c)'
        <5>1. c # h
          BY <3>2, Zenon
        <5> QED
          BY <1>3, <1>4, <1>5, <2>3, <3>1, <4>3, <5>1, Zenon DEF Told
      <4> QED
        BY <2>1, <4>2, <4>3, Zenon
    <3>3. CASE h \in Swaps
      <4>1. Swaps = {h} /\ Replaces(h) /\ cmd[h].kind = "SWAP"
        BY <3>1, <3>3, Zenon DEF ReloadInv, Swaps
      <4>2. q.conf = Apply(pig[i].conf, cmd[h].new)
        <5>1. WriteFaults => cmd[h].fd = None
          BY <4>1, Zenon DEF Replaces
        <5> QED
          BY <2>3, <4>1, <5>1, Zenon
      <4>3. cmd[h] \in CmdType /\ cmd[h].old \in ConfPair /\ cmd[h].new \in ConfPair
        BY <1>1, <3>1, Zenon DEF TypeOK, CmdType
      <4>4. /\ Apply(m.conf, cmd[h].new) = m.conf
            /\ Apply(Apply(m.conf, cmd[h].old), cmd[h].new) = m.conf
        <5>1. /\ (cmd[h].old.conf = None <=> cmd[h].new.conf = None)
              /\ (cmd[h].old.attr = None <=> cmd[h].new.attr = None)
              /\ cmd[h].new.conf \in {None, m.conf.conf} /\ cmd[h].new.attr \in {None, m.conf.attr}
          BY <4>1, Zenon DEF Replaces
        <5> QED
          BY <1>1, <4>3, <5>1, SwapDone
      <4> QED
        BY <2>1, <4>1, <4>2, <4>4, Zenon DEF Replaces
    <3> QED
      BY <3>2, <3>3, Zenon
  <2> QED
    BY <1>2, <2>2, <2>3, Zenon DEF Steps
<1>8. \A j \in Pigs : Inside(pig'[j]) =>
        \/ pig'[j].conf = m.conf
        \/ /\ Inside(pig[j]) /\ pig'[j].conf = pig[j].conf
           /\ \A c \in Swaps : Told(j, c) => Told(j, c)'
  BY <1>3, <1>6, <1>7, Zenon DEF Swaps
<1> QED
  BY <1>4, <1>8, ReloadKept, Zenon

(* A Quiet step does not touch configurations.                             *)
LEMMA QuietReload ==
    ASSUME IndInv, ReloadInv, Quiet
    PROVE  ReloadInv'
<1>1. \A j \in Pigs, c \in CmdId : Told(j, c) => Told(j, c)'
  <2>1. ToCome' = ToCome
    <3>1. m'.at = "break" <=> m.at = "break"
      BY Zenon DEF Quiet, Sending
    <3> QED
      BY <3>1, Zenon DEF Quiet, ToCome
  <2>2. \A j \in Pigs : pig'[j].pending = pig[j].pending
    BY Zenon DEF Quiet, Kept
  <2>3. m'.job = m.job
    BY Zenon DEF Quiet
  <2> QED
    BY <2>1, <2>2, <2>3, Zenon DEF Told
<1>2. \A j \in Pigs : Inside(pig'[j]) =>
        \/ pig'[j].conf = m.conf
        \/ Inside(pig[j]) /\ pig'[j].conf = pig[j].conf
  BY Zenon DEF Quiet, Kept
<1>3. \A j \in Pigs : Inside(pig'[j]) =>
        \/ pig'[j].conf = m.conf
        \/ /\ Inside(pig[j]) /\ pig'[j].conf = pig[j].conf
           /\ \A c \in Swaps : Told(j, c) => Told(j, c)'
  BY <1>1, <1>2, Zenon DEF Swaps
<1>4. /\ m'.conf = m.conf /\ m'.reloading = m.reloading /\ m'.setup = m.setup /\ live' = live
      /\ cmd' = cmd
  BY Zenon DEF Quiet
<1> QED
  BY <1>3, <1>4, ReloadKept, Zenon

(* A pig that is prepared gets the present configuration.                  *)
LEMMA MPrepReload ==
    ASSUME IndInv, ReloadInv, MPrep
    PROVE  ReloadInv'
<1>1. ToCome' = ToCome
  BY MPrepLeaves, Zenon DEF ToCome
<1>2. \A j \in Pigs : Inside(pig'[j]) =>
        \/ pig'[j].conf = m.conf
        \/ /\ Inside(pig[j]) /\ pig'[j].conf = pig[j].conf
           /\ \A c \in Swaps : Told(j, c) => Told(j, c)'
  BY <1>1, MPrepLeaves, Zenon DEF Told
<1> QED
  BY <1>2, MPrepLeaves, ReloadKept, Zenon

(* The delivery of a command replaces no configuration.                    *)
LEMMA DeliversReload ==
    ASSUME IndInv, ReloadInv, Delivers
    PROVE  ReloadInv'
<1>1. \A j \in Pigs : Inside(pig'[j]) =>
        \/ pig'[j].conf = m.conf
        \/ /\ Inside(pig[j]) /\ pig'[j].conf = pig[j].conf
           /\ \A c \in Swaps : Told(j, c) => Told(j, c)'
  BY Zenon DEF Delivers, Inside, Swaps
<1>2. /\ m'.conf = m.conf /\ m'.reloading = m.reloading /\ m'.setup = m.setup /\ live' = live
      /\ \A c \in CmdId : /\ cmd'[c].kind = cmd[c].kind /\ cmd'[c].fd = cmd[c].fd
                          /\ cmd'[c].old = cmd[c].old /\ cmd'[c].new = cmd[c].new
  BY Zenon DEF Delivers
<1> QED
  BY <1>1, <1>2, ReloadKept, Zenon

(* A command that is no SWAP: nobody was waiting for its identifier.       *)
LEMMA OtherIssueReload ==
    ASSUME IndInv, ReloadInv, NEW c \in CmdId, ~Sending, cmd[c].kind = "free",
           cmd'[c].kind # "SWAP", cmd'[c].old = NoConf,
           \A d \in CmdId \ {c} : cmd'[d] = cmd[d],
           \A j \in Pigs : Kept(pig[j], pig'[j]),
           m'.reloading = m.reloading, m'.conf = m.conf, live' = live, m'.setup = m.setup
    PROVE  ReloadInv'
<1>1. Swaps' = Swaps /\ c \notin Swaps
  BY Zenon DEF Swaps
<1>2. m.job.c = None
  BY DEF IndInv, JobOK, NoJob
<1>3. ASSUME NEW j \in Pigs, Inside(pig'[j])
      PROVE  \/ pig'[j].conf = m.conf
             \/ Inside(pig[j]) /\ pig'[j].conf = pig[j].conf /\ pig'[j].pending = pig[j].pending
  BY <1>3, Zenon DEF Kept
<1>4. ASSUME NEW d \in CmdId, Swaps = {d}, Replaces(d)
      PROVE  Replaces(d)'
  <2>1. cmd'[d] = cmd[d]
    BY <1>1, <1>4, Zenon
  <2>2. ASSUME NEW j \in Pigs, Inside(pig'[j])
        PROVE  pig'[j].conf = m.conf \/ (pig'[j].conf = Apply(m.conf, cmd[d].old) /\ Told(j, d)')
    <3>1. CASE pig'[j].conf = m.conf
      BY <3>1, Zenon
    <3>2. CASE Inside(pig[j]) /\ pig'[j].conf = pig[j].conf /\ pig'[j].pending = pig[j].pending
      <4>1. pig[j].conf = m.conf \/ (pig[j].conf = Apply(m.conf, cmd[d].old) /\ Told(j, d))
        BY <1>4, <3>2, Zenon DEF Replaces
      <4>2. Told(j, d) => Told(j, d)'
        BY <1>2, <3>2, Names, Zenon DEF Told
      <4> QED
        BY <3>2, <4>1, <4>2, Zenon
    <3> QED
      BY <1>3, <2>2, <3>1, <3>2, Zenon
  <2> QED
    BY <1>4, <2>1, <2>2, Zenon DEF Replaces, WriteFaults
<1>5. \A d \in CmdId \ Swaps' : cmd'[d].old = NoConf
  BY <1>1, Zenon DEF ReloadInv
<1>6. CASE ~m.reloading
  <2>1. Swaps = {} /\ \A i \in Pigs : Inside(pig[i]) => pig[i].conf = m.conf
    BY <1>6, Zenon DEF ReloadInv
  <2> QED
    BY <1>1, <1>3, <1>5, <1>6, <2>1, Zenon DEF ReloadInv
<1>7. CASE m.reloading
  BY <1>1, <1>4, <1>5, <1>7, Zenon DEF ReloadInv
<1> QED
  BY <1>6, <1>7, Zenon

(* A reload begins: every thread is to get the SWAP command.               *)
LEMMA ReloadBegins ==
    ASSUME IndInv, ReloadInv, ReloadsAnswered, Issues, cmd'[m'.job.c].kind = "SWAP"
    PROVE  ReloadInv'
<1>1. PICK c \in CmdId : /\ c = m'.job.c /\ cmd[c].kind = "free" /\ cmd'[c].kind = "SWAP"
                         /\ \A d \in CmdId \ {c} : cmd'[d] = cmd[d]
                         /\ m'.setup = m.setup /\ m'.at = "dispatch"
  BY Zenon DEF Issues, IssuesTo
<1>2. Reloads
  BY Zenon DEF Issues
<1>3. PICK r \in Requests :
        /\ IsReload(r) /\ live.conf # Config /\ live.attr # Config
        /\ cmd'[c].new = NewConf(r) /\ cmd'[c].old = OldConf(NewConf(r))
        /\ m'.conf = Apply(m.conf, NewConf(r))
        /\ live' = [conf |-> live.conf \cup ({NewConf(r).conf} \ {None}),
                    attr |-> live.attr \cup ({NewConf(r).attr} \ {None})]
        /\ cmd'[c].fd # None => r \in m.setup.shell
  BY <1>1, <1>2, Zenon DEF Reloads
<1>4. ~m.reloading /\ m'.reloading /\ m'.job.todo = AllPigs /\ pig' = pig
  BY <1>1, <1>2, Zenon DEF Reloads
<1>5. /\ TypeOK /\ m.conf \in ConfPair /\ m.setup \in Setups
      /\ live.conf \subseteq Config /\ live.attr \subseteq Config
      /\ m.conf.conf \in live.conf /\ m.conf.attr \in live.attr
  BY Zenon DEF IndInv, TypeOK, MainType, ReloadInv
<1> DEFINE new == NewConf(r)
           old == OldConf(NewConf(r))
<1>6. /\ new \in ConfPair /\ old \in ConfPair
      /\ new.conf # None => new.conf \in Config \ live.conf
      /\ new.attr # None => new.attr \in Config \ live.attr
  BY <1>3, <1>5, NewConfType, Zenon
<1>7. /\ old = [conf |-> IF new.conf = None THEN None ELSE m.conf.conf,
                attr |-> IF new.attr = None THEN None ELSE m.conf.attr]
      /\ m.conf.conf # None /\ m.conf.attr # None
  BY <1>5, Names, Zenon DEF OldConf
<1>8. m'.conf = Apply(m.conf, new) /\ m.conf = Apply(m'.conf, old)
  BY <1>3, <1>5, <1>6, <1>7, SwapBegins
<1>9. cmd'[c].new = new /\ cmd'[c].old = old
  BY <1>3, Zenon
<1> HIDE DEF new, old
<1>10. /\ m'.conf.conf = (IF new.conf = None THEN m.conf.conf ELSE new.conf)
       /\ m'.conf.attr = (IF new.attr = None THEN m.conf.attr ELSE new.attr)
  BY <1>8 DEF Apply
<1>11. /\ old.conf = (IF new.conf = None THEN None ELSE m.conf.conf)
       /\ old.attr = (IF new.attr = None THEN None ELSE m.conf.attr)
  BY <1>7, Zenon
<1>12. /\ live'.conf = live.conf \cup ({new.conf} \ {None})
       /\ live'.attr = live.attr \cup ({new.attr} \ {None})
  BY <1>3, Zenon DEF new
<1>13. Swaps = {} /\ \A i \in Pigs : Inside(pig[i]) => pig[i].conf = m.conf
  BY <1>4, Zenon DEF ReloadInv
<1>14. Swaps' = {c}
  BY <1>1, <1>13 DEF Swaps
<1>15. \A i \in Pigs : Told(i, c)'
  <2>1. ToCome' = Pigs
    BY <1>1, <1>4, AllPigsOnce, Zenon DEF ToCome
  <2> QED
    BY <1>1, <2>1, Zenon DEF Told
<1>16. WriteFaults' => cmd'[c].fd = None
  BY <1>1, <1>3, <1>5, Zenon DEF WriteFaults, ReloadsAnswered
<1>17. Replaces(c)'
  <2>1. (old.conf = None <=> new.conf = None) /\ (old.attr = None <=> new.attr = None)
    BY <1>7, <1>11, Zenon
  <2>2. new.conf \in {None, m'.conf.conf} /\ new.attr \in {None, m'.conf.attr}
    BY <1>10, Zenon
  <2>3. old.conf # m'.conf.conf /\ old.attr # m'.conf.attr
    BY <1>5, <1>6, <1>7, <1>10, <1>11, Zenon
  <2>4. old.conf \in live'.conf \cup {None} /\ old.attr \in live'.attr \cup {None}
    BY <1>5, <1>11, <1>12, Zenon
  <2>5. \A i \in Pigs : Inside(pig'[i]) => pig'[i].conf = Apply(m'.conf, old) /\ Told(i, c)'
    BY <1>4, <1>8, <1>13, <1>15, Zenon
  <2> QED
    BY <1>9, <1>16, <2>1, <2>2, <2>3, <2>4, <2>5, Zenon DEF Replaces
<1>18. m'.conf.conf \in live'.conf /\ m'.conf.attr \in live'.attr
  BY <1>5, <1>10, <1>12, Zenon
<1>19. \A d \in CmdId \ Swaps' : cmd'[d].old = NoConf
  BY <1>1, <1>13, <1>14 DEF ReloadInv
<1> QED
  BY <1>4, <1>14, <1>17, <1>18, <1>19, Zenon DEF ReloadInv

(* Reaping: the reload is over when its SWAP command is deleted, and no    *)
(* thread was going to take it any more.                                   *)
LEMMA ReapsReload ==
    ASSUME IndInv, ReloadInv, IndInv', NEW R, NEW O, Reaps(R, O)
    PROVE  ReloadInv'
<1> DEFINE F == Deleted(R, O)
<1>1. /\ cmd' = [c \in CmdId |-> IF c \in F THEN FreeCmd
                                 ELSE [cmd[c] EXCEPT !.refs = cmd[c].refs - Puts(R, c)]]
      /\ live' = Surviving(F) /\ m'.reloading = StillReloading(F)
      /\ m'.conf = m.conf /\ m'.job = m.job /\ m'.setup = m.setup /\ m.job.c = None
  <2>1. m.job = NoJob
    BY Zenon DEF Reaps, IndInv, JobOK
  <2>2. m.job.c = None
    BY <2>1 DEF NoJob
  <2> QED
    BY <2>2, Zenon DEF Reaps, Reap
<1>2. F \subseteq CmdId
  BY Zenon DEF Deleted, Reaps, IndInv, TypeOK, MainType
<1> HIDE DEF F
<1>3. /\ TypeOK /\ cmd \in [CmdId -> CmdType] /\ m.conf \in ConfPair /\ live.conf \subseteq Config
      /\ live.attr \subseteq Config /\ m.conf.conf \in live.conf /\ m.conf.attr \in live.attr
      /\ m.reloading \in BOOLEAN
  BY Zenon DEF IndInv, TypeOK, MainType, ReloadInv
<1>4. ASSUME NEW c \in CmdId
      PROVE  /\ c \in F => cmd'[c].kind = "free" /\ cmd'[c].old = NoConf
             /\ c \notin F => /\ cmd'[c].kind = cmd[c].kind /\ cmd'[c].fd = cmd[c].fd
                              /\ cmd'[c].old = cmd[c].old /\ cmd'[c].new = cmd[c].new
  <2>1. CASE c \in F
    BY <1>1, <2>1, Zenon DEF FreeCmd
  <2>2. CASE c \notin F
    <3>1. cmd'[c] = [cmd[c] EXCEPT !.refs = cmd[c].refs - Puts(R, c)] /\ cmd[c] \in CmdType
      BY <1>1, <1>3, <2>2, Zenon
    <3> QED
      BY <2>2, <3>1, Zenon DEF CmdType
  <2> QED
    BY <2>1, <2>2, Zenon
<1>5. Swaps' = Swaps \ F
  BY <1>4, Zenon DEF Swaps
<1>6. \A c \in CmdId \ Swaps' : cmd'[c].old = NoConf
  BY <1>4, <1>5, Zenon DEF ReloadInv
<1>7. ASSUME NEW j \in Pigs, Inside(pig'[j])
      PROVE  Inside(pig[j]) /\ pig'[j].conf = pig[j].conf /\ pig'[j].pending = pig[j].pending
  BY <1>7, Zenon DEF Reaps, GivesUp
<1>8. ASSUME NEW j \in Pigs, NEW c \in CmdId, Inside(pig'[j]), Told(j, c)
      PROVE  Told(j, c)' /\ c \notin F
  <2>1. c \in Range(pig'[j].pending)
    BY <1>1, <1>7, <1>8, Names, Zenon DEF Told
  <2>2. Holders(c)' # {}
    BY <2>1, Zenon DEF Holders
  <2>3. cmd'[c].kind # "free"
    BY <2>2, Zenon DEF IndInv, CommandsOwned
  <2> QED
    BY <1>4, <2>1, <2>3, Zenon DEF Told
<1>9. m'.reloading <=> m.reloading /\ Swaps \cap F = {}
  BY <1>1, <1>2, Zenon DEF StillReloading, Swaps
<1>10. /\ live'.conf = live.conf \ {cmd[c].old.conf : c \in F}
       /\ live'.attr = live.attr \ {cmd[c].old.attr : c \in F}
  BY <1>1, Zenon DEF Surviving
<1>11. \A c \in F \ Swaps : cmd[c].old.conf = None /\ cmd[c].old.attr = None
  BY <1>2 DEF ReloadInv, NoConf
<1>12. CASE Swaps \cap F = {}
  <2>1. live'.conf = live.conf /\ live'.attr = live.attr
    BY <1>3, <1>10, <1>11, <1>12, Names
  <2>2. Swaps' = Swaps /\ m'.reloading = m.reloading
    BY <1>3, <1>1, <1>5, <1>9, <1>12, Zenon DEF StillReloading
  <2>3. ASSUME NEW c \in CmdId, Swaps = {c}, Replaces(c)
        PROVE  Replaces(c)'
    <3>1. cmd'[c].old = cmd[c].old /\ cmd'[c].new = cmd[c].new /\ cmd'[c].fd = cmd[c].fd
      BY <1>4, <1>12, <2>3, Zenon
    <3>2. \A i \in Pigs : Inside(pig'[i]) =>
            pig'[i].conf = m.conf \/ (pig'[i].conf = Apply(m.conf, cmd[c].old) /\ Told(i, c)')
      BY <1>7, <1>8, <2>3, Zenon DEF Replaces
    <3> QED
      BY <1>1, <2>1, <2>3, <3>1, <3>2, Zenon DEF Replaces, WriteFaults
  <2>4. CASE ~m.reloading
    <3>1. Swaps = {} /\ \A i \in Pigs : Inside(pig[i]) => pig[i].conf = m.conf
      BY <2>4, Zenon DEF ReloadInv
    <3> QED
      BY <1>1, <1>3, <1>6, <1>7, <2>1, <2>2, <2>4, <3>1, Zenon DEF ReloadInv
  <2>5. CASE m.reloading
    <3>1. PICK c \in CmdId : Swaps = {c} /\ Replaces(c)
      BY <2>5, Zenon DEF ReloadInv
    <3> QED
      BY <1>1, <1>3, <1>6, <2>1, <2>2, <2>3, <2>5, <3>1, Zenon DEF ReloadInv
  <2> QED
    BY <2>4, <2>5, Zenon
<1>13. CASE Swaps \cap F # {}
  <2>1. m.reloading
    BY <1>13, Zenon DEF ReloadInv
  <2>2. PICK c \in CmdId : Swaps = {c} /\ Replaces(c)
    BY <2>1, Zenon DEF ReloadInv
  <2>3. c \in F /\ Swaps' = {} /\ ~m'.reloading
    BY <1>5, <1>9, <1>13, <2>2, Zenon
  <2>4. \A i \in Pigs : Inside(pig'[i]) => pig'[i].conf = m.conf
    BY <1>7, <1>8, <2>2, <2>3, Zenon DEF Replaces
  <2>5. cmd[c].old.conf # m.conf.conf /\ cmd[c].old.attr # m.conf.attr
    BY <2>2, Zenon DEF Replaces
  <2>6. m.conf.conf \in live'.conf /\ m.conf.attr \in live'.attr
    BY <1>3, <1>10, <1>11, <2>2, <2>5, Names
  <2> QED
    BY <1>1, <1>6, <2>3, <2>4, <2>6, Zenon DEF ReloadInv
<1> QED
  BY <1>12, <1>13, Zenon

(* Every step keeps ReloadInv.                                             *)
LEMMA ReloadStep ==
    ASSUME PigsCounted, ReloadsAnswered, IndInv, IndInv', ReloadInv, [Next]_vars
    PROVE  ReloadInv'
<1>1. ASSUME NEW i \in Pigs, Thread(i)
      PROVE  ReloadInv'
  BY <1>1, ThreadReload, Zenon
<1>2. CASE Issues
  <2>1. CASE cmd'[m'.job.c].kind = "SWAP"
    BY <1>2, <2>1, ReloadBegins, Zenon
  <2>2. CASE cmd'[m'.job.c].kind # "SWAP"
    <3>1. PICK c \in CmdId : /\ c = m'.job.c /\ ~Sending /\ cmd[c].kind = "free"
                             /\ \A d \in CmdId \ {c} : cmd'[d] = cmd[d]
                             /\ \A j \in Pigs : Kept(pig[j], pig'[j])
                             /\ m'.setup = m.setup
      BY <1>2, Zenon DEF Issues, IssuesTo
    <3>2. Reloads
      BY <1>2, Zenon DEF Issues
    <3>3. /\ cmd'[c].old = NoConf /\ cmd'[c].kind # "SWAP"
          /\ m'.reloading = m.reloading /\ m'.conf = m.conf /\ live' = live
      BY <2>2, <3>1, <3>2, Zenon DEF Reloads
    <3> QED
      BY <3>1, <3>3, OtherIssueReload, Zenon
  <2> QED
    BY <2>1, <2>2, Zenon
<1>3. CASE Quiet \/ MPrep \/ Delivers
  BY <1>3, QuietReload, MPrepReload, DeliversReload, Zenon
<1>4. ASSUME NEW R, NEW O, Reaps(R, O)
      PROVE  ReloadInv'
  BY <1>4, ReapsReload, Zenon
<1>5. CASE UNCHANGED vars
  BY <1>5, Zenon DEF vars, ReloadInv, Replaces, Swaps, Told, ToCome, WriteFaults
<1> QED
  BY <1>1, <1>2, <1>3, <1>4, <1>5, StepKinds, Zenon

(* Initially there is one configuration, and no SWAP.                      *)
LEMMA ReloadInit ==
    ASSUME Init
    PROVE  ReloadInv
<1>1. PICK s \in Setups : pig = [i \in Pigs |-> IF s.readMode THEN LazyPig
                                                ELSE [LazyPig EXCEPT !.state = "NEW"]]
  BY Zenon DEF Init
<1>2. LazyPig.thr = None /\ [LazyPig EXCEPT !.state = "NEW"].thr = None
  BY LazyPigType, Zenon DEF PigType
<1>3. \A i \in Pigs : ~Inside(pig[i])
  BY <1>1, <1>2, Zenon DEF Inside
<1>4. \A c \in CmdId : cmd[c].kind = "free" /\ cmd[c].old = NoConf
  BY DEF Init, FreeCmd
<1>5. m.conf.conf \in live.conf /\ m.conf.attr \in live.attr /\ ~m.reloading
  BY DEF Init
<1> QED
  BY <1>3, <1>4, <1>5, Zenon DEF ReloadInv, Swaps
=============================================================================
