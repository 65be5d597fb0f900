-------------------------- MODULE DrovePrivileges ---------------------------
(***************************************************************************)
(* Proofs about Drove, 5: the privileges.                                  *)
(***************************************************************************)
EXTENDS DroveProofs
-----------------------------------------------------------------------------
(* While main still waits for a pig, no command that lets one go on has    *)
(* been created, and no analyzer has gone on.                              *)
GoesOn(kind) == kind = "RUN" \/ (UnprivStart /\ kind = "START")
WentOn(state) == state \in {"RUNNING", "PAUSED"} \/ (UnprivStart /\ state = "STARTED")
HeldBack ==
    /\ m.pendingPriv > 0
    /\ \A c \in CmdId : ~GoesOn(cmd[c].kind)
    /\ \A i \in Pigs : ~WentOn(pig[i].state)

(* A pig may be counted twice, but main never waits for one that it has    *)
(* counted.                                                                *)
PrivInv ==
    /\ m.pendingPriv + Cardinality(Awaiting) <= MaxPigs
    /\ ChangePrivileges /\ ~m.dropped /\ ReadyCounted => HeldBack

(* A step that has nothing to do with privileges: what main counts stays   *)
(* as it is, no command is created that lets an analyzer go on, and none   *)
(* goes on that has no such command and had not gone on.                   *)
SameCount ==
    /\ m'.setup = m.setup /\ m'.dropped = m.dropped /\ m'.pendingPriv = m.pendingPriv
    /\ \A i \in Pigs : pig'[i].awaiting = pig[i].awaiting
NoneSent ==
    \A c \in CmdId : cmd'[c].kind = cmd[c].kind \/ cmd'[c].kind \notin {"START", "RUN"}
NoneGoesOn ==
    \A i \in Pigs :
        \/ pig'[i].state = pig[i].state
        \/ pig'[i].state \notin {"STARTED", "RUNNING", "PAUSED"}
        \/ pig'[i].state = "STARTED" /\ \E c \in CmdId : cmd[c].kind = "START"
        \/ /\ pig'[i].state \in {"RUNNING", "PAUSED"}
           /\ \/ pig[i].state \in {"RUNNING", "PAUSED"}
              \/ \E c \in CmdId : cmd[c].kind = "RUN"
Aside == SameCount /\ NoneSent /\ NoneGoesOn
-----------------------------------------------------------------------------
(* A step of one pig, after which its analyzer is in state s.              *)
Turns(i, s) ==
    /\ m' = m
    /\ \A j \in Pigs : pig'[j].awaiting = pig[j].awaiting
    /\ \A j \in Pigs : j # i => pig'[j].state = pig[j].state
    /\ pig'[i].state = s

LEMMA TurnsAside ==
    ASSUME NEW i \in Pigs, NEW s, Turns(i, s),
           \A c \in CmdId : cmd'[c].kind = cmd[c].kind,
           \/ s = pig[i].state \/ s \notin {"STARTED", "RUNNING", "PAUSED"}
           \/ s = "STARTED" /\ \E c \in CmdId : cmd[c].kind = "START"
           \/ s \in {"RUNNING", "PAUSED"} /\ \E c \in CmdId : cmd[c].kind = "RUN"
           \/ s \in {"RUNNING", "PAUSED"} /\ pig[i].state \in {"RUNNING", "PAUSED"}
    PROVE  Aside
<1>1. SameCount /\ NoneSent
  BY DEF Turns, SameCount, NoneSent
<1>2. NoneGoesOn
  BY DEF Turns, NoneGoesOn
<1> QED
  BY <1>1, <1>2 DEF Aside

(* The state a pig has after set_state(), and after a command.             *)
LEMMA SetTurns ==
    ASSUME TypeOK, NEW i \in Pigs, NEW s, m' = m
    PROVE  /\ \A then : pig' = SetState(i, s, then) => Turns(i, s)
           /\ pig' = Changed(i, s) => Turns(i, s)
           /\ pig' = Handed(i) => Turns(i, pig[i].state)
<1>1. pig \in [Pigs -> PigType]
  BY DEF TypeOK
<1>2. ASSUME NEW then, pig' = SetState(i, s, then) PROVE Turns(i, s)
  BY <1>1, <1>2 DEF SetState, PigType, Turns
<1>3. ASSUME pig' = Changed(i, s) PROVE Turns(i, s)
  BY <1>1, <1>3 DEF Changed, SetState, PigType, Turns
<1>4. ASSUME pig' = Handed(i) PROVE Turns(i, pig[i].state)
  BY <1>1, <1>4 DEF Handed, PigType, Turns
<1> QED
  BY <1>2, <1>3, <1>4

(* The command at the head of a queue is one of the commands.              *)
LEMMA WorkExists ==
    ASSUME TypeOK, NEW i \in Pigs, Executing(i)
    PROVE  Work(i) \in CmdId
<1>1. pig[i].pending \in Seq(CmdId) /\ pig[i].pending # <<>>
  BY DEF TypeOK, PigType, Executing
<1> QED
  BY <1>1 DEF Work

(* The steps of a thread.                                                  *)
LEMMA ThreadAside ==
    ASSUME TypeOK, NEW i \in Pigs, Thread(i)
    PROVE  Aside
<1>p. pig \in [Pigs -> PigType]
  BY DEF TypeOK
<1>1. CASE TInit(i)
  <2>1. Turns(i, "INITIALIZED") /\ cmd' = cmd
    BY <1>1, <1>p DEF TInit, SetState, PigType, Turns
  <2> QED
    BY <2>1, TurnsAside
<1>2. CASE TInitFails(i) \/ TStopped(i)
  <2>1. Turns(i, "STOPPED") /\ cmd' = cmd
    BY <1>2, SetTurns DEF TInitFails, TStopped
  <2> QED
    BY <2>1, TurnsAside
<1>3. CASE TPoke(i) \/ TAcquire(i) \/ TPacket(i) \/ TIdle(i) \/ TTerm(i) \/ TComplete(i)
  <2>1. Turns(i, pig[i].state) /\ cmd' = cmd
    <3>1. CASE TPoke(i)
      BY <3>1, <1>p DEF TPoke, PigType, Turns
    <3>2. CASE TAcquire(i)
      BY <3>2, <1>p DEF TAcquire, PigType, Turns
    <3>3. CASE TPacket(i)
      BY <3>3, <1>p DEF TPacket, PigType, Turns
    <3>4. CASE TIdle(i)
      BY <3>4, <1>p DEF TIdle, PigType, Turns
    <3>5. CASE TTerm(i)
      BY <3>5, <1>p DEF TTerm, PigType, Turns
    <3>6. CASE TComplete(i)
      BY <3>6, <1>p DEF TComplete, PigType, Turns
    <3> QED
      BY <1>3, <3>1, <3>2, <3>3, <3>4, <3>5, <3>6
  <2> QED
    BY <2>1, TurnsAside
<1>4. CASE TAutoPause(i)
  <2>1. cmd' = cmd /\ m' = m
    BY <1>4 DEF TAutoPause
  <2>2. CASE pig[i].state = "RUNNING"
    <3>1. Turns(i, "PAUSED")
      BY <1>4, <2>1, <2>2, SetTurns DEF TAutoPause
    <3> QED
      BY <2>1, <2>2, <3>1, TurnsAside
  <2>3. CASE pig[i].state # "RUNNING"
    <3>1. Turns(i, pig[i].state)
      BY <1>4, <2>1, <2>3 DEF TAutoPause, Turns
    <3> QED
      BY <2>1, <3>1, TurnsAside
  <2> QED
    BY <2>2, <2>3
<1>5. CASE TStop(i) \/ TSwap(i) \/ TStats(i)
  <2>1. Turns(i, pig[i].state) /\ cmd' = cmd
    BY <1>5, <1>p DEF TStop, TSwap, TStats, Handed, PigType, Turns
  <2> QED
    BY <2>1, TurnsAside
<1>6. CASE TResponseFails(i)
  <2>1. Turns(i, pig[i].state)
    BY <1>6, <1>p DEF TResponseFails, Handed, PigType, Turns
  <2>2. \A c \in CmdId : cmd'[c].kind = cmd[c].kind
    BY <1>6, WorkExists DEF TResponseFails, TypeOK, CmdType
  <2> QED
    BY <2>1, <2>2, TurnsAside
<1>7. CASE TStart(i)
  <2>1. Turns(i, "STARTED") /\ cmd' = cmd
    BY <1>7, <1>p DEF TStart, Changed, SetState, PigType, Turns
  <2>2. \E c \in CmdId : cmd[c].kind = "START"
    BY <1>7, WorkExists DEF TStart, Kind
  <2> QED
    BY <2>1, <2>2, TurnsAside
<1>8. CASE TRun(i)
  <2>1. Turns(i, "PAUSED") \/ Turns(i, "RUNNING")
    BY <1>8, SetTurns DEF TRun
  <2>2. \E c \in CmdId : cmd[c].kind = "RUN"
    BY <1>8, WorkExists DEF TRun, Kind
  <2>3. \A c \in CmdId : cmd'[c].kind = cmd[c].kind
    BY <1>8, WorkExists DEF TRun, TypeOK, CmdType
  <2> QED
    BY <2>1, <2>2, <2>3, TurnsAside
<1>9. CASE TPause(i) \/ TResume(i)
  <2>1. cmd' = cmd /\ \/ Turns(i, pig[i].state)
                      \/ pig[i].state = "RUNNING" /\ Turns(i, "PAUSED")
                      \/ pig[i].state = "PAUSED" /\ Turns(i, "RUNNING")
    BY <1>9, SetTurns DEF TPause, TResume, TPauseResume
  <2> QED
    BY <2>1, TurnsAside
<1> QED
  BY <1>1, <1>2, <1>3, <1>4, <1>5, <1>6, <1>7, <1>8, <1>9 DEF Thread
-----------------------------------------------------------------------------
(* The broadcasts of a request.                                            *)
LEMMA BroadcastAside ==
    ASSUME TypeOK, NEW r, NEW u, NEW then, NEW mm, mm \in MainType,
           Broadcast(r, u, then, mm), pig' = pig,
           mm.setup = m.setup, mm.dropped = m.dropped, mm.pendingPriv = m.pendingPriv
    PROVE  Aside
<1>1. SameCount
  BY DEF Broadcast, MainType, SameCount
<1>2. CommandFor(r).kind \notin {"START", "RUN"} /\ [CommandFor(r) EXCEPT !.fd = u].kind = CommandFor(r).kind
  BY DEF CommandFor, NewCmd, FreeCmd
<1>3. NoneSent
  <2>1. cmd \in [CmdId -> CmdType]
    BY DEF TypeOK
  <2>2. cmd' = [cmd EXCEPT ![NewId] = [CommandFor(r) EXCEPT !.fd = u]]
    BY DEF Broadcast
  <2> QED
    BY <1>2, <2>1, <2>2 DEF NoneSent
<1>4. NoneGoesOn
  BY DEF NoneGoesOn
<1> QED
  BY <1>1, <1>3, <1>4 DEF Aside

(* What is reaped becomes free.                                            *)
LEMMA ReapAside ==
    ASSUME TypeOK, NEW R, NEW O, Reap(R, O)
    PROVE  NoneSent
<1>1. cmd \in [CmdId -> CmdType]
  BY DEF TypeOK
<1>2. \A c \in CmdId : \/ cmd'[c] = FreeCmd
                       \/ cmd'[c] = [cmd[c] EXCEPT !.refs = @ - Puts(R, c)]
  BY DEF Reap
<1>3. FreeCmd.kind = "free"
  BY DEF FreeCmd
<1> QED
  BY <1>1, <1>2, <1>3 DEF NoneSent, CmdType

(* The steps of the main thread and of the signal handlers, but for the    *)
(* pokes of analyzers that wait and of those that are gone.                *)
Counts == \E i \in Pigs : MGone(i) \/ MInitialized(i) \/ MStarted(i)

LEMMA MainAside ==
    ASSUME TypeOK, Main, ~Counts
    PROVE  Aside
<1>m. m \in MainType /\ pig \in [Pigs -> PigType] /\ cmd \in [CmdId -> CmdType]
  BY DEF TypeOK
<1> USE DEF Aside
<1>1. CASE MEnd \/ DSkip \/ DDone \/ SSelect \/ SUsersDone
  BY <1>1, <1>m DEF MEnd, DSkip, DDone, SSelect, SUsersDone, MainType, SameCount, NoneSent, NoneGoesOn
<1>2. CASE \E i \in Pigs : MStart(i) \/ MIgnore(i) \/ MStopped(i)
  <2> PICK i \in Pigs : MStart(i) \/ MIgnore(i) \/ MStopped(i)
    BY <1>2
  <2>1. CASE MStart(i)
    BY <2>1, <1>m DEF MStart, PigType, SameCount, NoneSent, NoneGoesOn
  <2>2. CASE MIgnore(i)
    BY <2>2 DEF MIgnore, SameCount, NoneSent, NoneGoesOn
  <2>3. CASE MStopped(i)
    BY <2>3, <1>m DEF MStopped, MainType, SameCount, NoneSent, NoneGoesOn
  <2> QED
    BY <2>1, <2>2, <2>3
<1>3. CASE MPrep
  BY <1>3, <1>m DEF MPrep, MainType, PigType, SameCount, NoneSent, NoneGoesOn
<1>4. CASE MJoin
  <2>1. NoneSent
    BY <1>4, ReapAside DEF MJoin
  <2>2. m.target \in Pigs /\ pig' = [pig EXCEPT ![m.target] = [LazyPig EXCEPT !.awaiting = pig[m.target].awaiting]]
    BY <1>4, <1>m DEF MJoin, MainType
  <2>3. [LazyPig EXCEPT !.awaiting = pig[m.target].awaiting].awaiting = pig[m.target].awaiting
        /\ [LazyPig EXCEPT !.awaiting = pig[m.target].awaiting].state = None
    BY DEF LazyPig
  <2>4. m'.setup = m.setup /\ m'.dropped = m.dropped /\ m'.pendingPriv = m.pendingPriv
    BY <1>4, <1>m DEF MJoin, MainType
  <2> QED
    BY <1>m, <2>1, <2>2, <2>3, <2>4, NullPointer DEF SameCount, NoneGoesOn, AnalyzerStates
<1>5. CASE DQueue
  <2>1. NoneSent
    BY <1>5, <1>m DEF DQueue, CmdType, NoneSent
  <2>2. SameCount /\ NoneGoesOn
    BY <1>5, <1>m DEF DQueue, MainType, PigType, SameCount, NoneGoesOn
  <2> QED
    BY <2>1, <2>2
<1>6. CASE DBreak
  BY <1>6, <1>m DEF DBreak, MainType, PigType, SameCount, NoneSent, NoneGoesOn
<1>7. CASE SSignal
  <2>1. CASE Broadcast(Meaning(Head(sigs)), None, "reap", m)
    BY <1>7, <1>m, <2>1, BroadcastAside DEF SSignal
  <2>2. CASE cmd' = cmd /\ \E at \in {"reap", "crashed"} : m' = [m EXCEPT !.at = at]
    BY <1>7, <1>m, <2>2 DEF SSignal, MainType, SameCount, NoneSent, NoneGoesOn
  <2> QED
    BY <1>7, <2>1, <2>2 DEF SSignal
<1>8. CASE SReap
  <2>1. NoneSent
    BY <1>8, ReapAside DEF SReap
  <2>2. SameCount /\ NoneGoesOn
    BY <1>8, <1>m DEF SReap, MainType, PigType, SameCount, NoneGoesOn
  <2> QED
    BY <2>1, <2>2
<1>9. CASE \E u \in Users : SAccept(u) \/ SHangUp(u) \/ SNoRequest(u)
  BY <1>9, <1>m DEF SAccept, SHangUp, SNoRequest, MainType, SameCount, NoneSent, NoneGoesOn
<1>10. CASE \E u \in Users, r \in m.setup.shell : SRequest(u, r)
  <2>1. PICK u \in Users, r \in m.setup.shell : SRequest(u, r)
    BY <1>10
  <2>2. PICK more \in BOOLEAN :
          Broadcast(r, IF control[u].status # "closed" THEN u ELSE None, "users",
                    [m EXCEPT !.served = TRUE, !.inputs = IF more THEN @ ELSE @ \ {u}])
    BY <2>1 DEF SRequest
  <2> DEFINE mm == [m EXCEPT !.served = TRUE, !.inputs = IF more THEN @ ELSE @ \ {u}]
  <2>3. mm \in MainType /\ mm.setup = m.setup /\ mm.dropped = m.dropped /\ mm.pendingPriv = m.pendingPriv
    BY <1>m DEF MainType
  <2>4. pig' = pig
    BY <2>1 DEF SRequest
  <2> QED
    BY <2>2, <2>3, <2>4, BroadcastAside
<1> QED
  BY <1>1, <1>2, <1>3, <1>4, <1>5, <1>6, <1>7, <1>8, <1>9, <1>10 DEF Main, Counts
-----------------------------------------------------------------------------
(* A step that counts nobody keeps the invariant.                          *)
LEMMA AsideKeeps ==
    ASSUME TypeOK, PrivInv, Aside
    PROVE  PrivInv'
<1>1. Awaiting' = Awaiting
  BY DEF Aside, SameCount, Awaiting
<1>2. m'.pendingPriv = m.pendingPriv /\ m'.dropped = m.dropped /\ m'.setup = m.setup
  BY DEF Aside, SameCount
<1>3. ReadyCounted' <=> ReadyCounted
  BY <1>1, <1>2 DEF ReadyCounted
<1>4. HeldBack => HeldBack'
  BY <1>2 DEF Aside, NoneSent, NoneGoesOn, HeldBack, GoesOn, WentOn, UnprivStart
<1> QED
  BY <1>1, <1>2, <1>3, <1>4 DEF PrivInv, ChangePrivileges

(* Nor does one of an analyzer that is gone: it is one count too many.     *)
LEMMA GoneKeeps ==
    ASSUME TypeOK, PrivInv, NEW i \in Pigs, MGone(i)
    PROVE  PrivInv'
<1>1. Awaiting' = Awaiting /\ Cardinality(Awaiting) \in Nat
  BY PigsAreCounted DEF MGone, Awaiting, PigsCounted
<1>2. m.pendingPriv \in 0 .. MaxPigs /\ m'.dropped = m.dropped /\ m'.setup = m.setup
      /\ m'.pendingPriv = IF m.pendingPriv > 0 THEN m.pendingPriv - 1 ELSE 0
  BY DEF TypeOK, MainType, MGone
<1>3. CASE m.pendingPriv > 0
  <2>1. ~ReadyCounted'
    BY <1>1, <1>2, <1>3, DroveConstants DEF PrivInv, ReadyCounted
  <2> QED
    BY <1>1, <1>2, <1>3, <2>1, DroveConstants DEF PrivInv
<1>4. CASE m.pendingPriv = 0
  <2>1. ReadyCounted' <=> ReadyCounted
    BY <1>1, <1>2, <1>4 DEF ReadyCounted
  <2> QED
    BY <1>1, <1>2, <1>4, <2>1 DEF PrivInv, HeldBack, ChangePrivileges
<1> QED
  BY <1>2, <1>3, <1>4

(* An analyzer that waits is counted once, and the last one has privileges *)
(* dropped; one that need not wait is sent nothing that lets it go on.     *)
LEMMA ProceedKeeps ==
    ASSUME TypeOK, PrivInv, NEW i \in Pigs, NEW from, NEW privileged \in BOOLEAN, NEW command,
           Proceed(i, from, privileged, command),
           \/ from = "INITIALIZED" /\ privileged /\ command.kind = "START"
           \/ from = "STARTED" /\ ~privileged /\ command.kind = "RUN"
    PROVE  PrivInv'
<1>t. /\ m \in MainType /\ pig \in [Pigs -> PigType] /\ cmd \in [CmdId -> CmdType]
      /\ m.pendingPriv \in 0 .. MaxPigs /\ MaxPigs \in Nat
      /\ Cardinality(Awaiting) \in Nat
  BY PigsAreCounted, DroveConstants DEF TypeOK, MainType, PigsCounted, Awaiting
<1>u. UnprivStart \in BOOLEAN
  BY <1>t, DroveConstants DEF MainType, UnprivStart, Setup
<1>1. CASE Waits(i, privileged) /\ pig' = [pig EXCEPT ![i].awaiting = TRUE]
  <2>1. m.pendingPriv > 0 /\ ~m.dropped
    BY <1>1 DEF Waits
  <2>2. /\ Awaiting' = Awaiting \cup {i}
        /\ \A j \in Pigs : pig'[j].state = pig[j].state
    BY <1>1, <1>t DEF Awaiting, PigType
  <2>3. Cardinality(Awaiting') = Cardinality(Awaiting) + (IF pig[i].awaiting THEN 0 ELSE 1)
    <3>1. CASE pig[i].awaiting
      <4>1. Awaiting \cup {i} = Awaiting
        BY <3>1 DEF Awaiting
      <4>2. Cardinality(Awaiting') = Cardinality(Awaiting)
        BY <2>2, <4>1, Zenon
      <4> QED
        BY <1>t, <3>1, <4>2
    <3>2. CASE ~pig[i].awaiting
      <4>1. i \in Pigs \ Awaiting /\ Awaiting \in SUBSET Pigs
        BY <3>2 DEF Awaiting
      <4>2. Cardinality(Awaiting \cup {i}) = Cardinality(Awaiting) + 1
        BY <4>1, PigsAreCounted, Zenon DEF PigsCounted
      <4> QED
        BY <2>2, <3>2, <4>2
    <3> QED
      BY <3>1, <3>2
  <2>4. StillPending(i) + Cardinality(Awaiting') = m.pendingPriv + Cardinality(Awaiting)
    BY <1>t, <2>3 DEF StillPending
  <2>5. CASE Wait(i)
    <3>1. m'.pendingPriv = StillPending(i) /\ m'.dropped = m.dropped /\ m'.setup = m.setup
          /\ StillPending(i) > 0
      BY <1>t, <2>5 DEF Wait, MainType
    <3>2. ReadyCounted' <=> ReadyCounted
      BY <2>4, <3>1 DEF ReadyCounted
    <3>3. HeldBack => HeldBack'
      BY <2>2, <2>5, <3>1 DEF Wait, HeldBack, GoesOn, WentOn, UnprivStart
    <3> QED
      BY <2>4, <3>1, <3>2, <3>3 DEF PrivInv, ChangePrivileges
  <2>6. CASE Release(i, command)
    <3>1. m'.pendingPriv = StillPending(i) /\ m'.dropped
      BY <1>t, <2>6 DEF Release, MainType
    <3> QED
      BY <2>4, <3>1 DEF PrivInv
  <2> QED
    BY <1>1, <2>5, <2>6 DEF Proceed, Waits
<1>2. CASE ~Waits(i, privileged) /\ GoOn(i, command)
  <2>1. /\ m'.pendingPriv = m.pendingPriv /\ m'.dropped = m.dropped /\ m'.setup = m.setup
        /\ pig' = pig /\ cmd' = [cmd EXCEPT ![NewId] = command]
    BY <1>2, <1>t DEF GoOn, MainType
  <2>2. Awaiting' = Awaiting /\ (ReadyCounted' <=> ReadyCounted)
    BY <2>1 DEF Awaiting, ReadyCounted
  <2>3. ASSUME HeldBack, ~m.dropped
        PROVE  HeldBack'
    <3>1. UnprivStart # privileged
      BY <1>2, <1>t, <2>3 DEF Waits, HeldBack
    <3>2. pig[i].state = from
      BY DEF Proceed
    <3>3. ~UnprivStart /\ command.kind = "START"
      BY <1>u, <2>3, <3>1, <3>2 DEF HeldBack, WentOn
    <3> QED
      BY <1>t, <2>1, <2>3, <3>3 DEF HeldBack, GoesOn, WentOn, UnprivStart
  <2> QED
    BY <2>1, <2>2, <2>3 DEF PrivInv, ChangePrivileges
<1> QED
  BY <1>1, <1>2 DEF Proceed
-----------------------------------------------------------------------------
(* Every step keeps it.                                                    *)
LEMMA PrivStep ==
    ASSUME TypeOK, PrivInv, [Next]_vars
    PROVE  PrivInv'
<1>1. CASE UNCHANGED vars
  <2>1. Aside
    BY <1>1 DEF vars, Aside, SameCount, NoneSent, NoneGoesOn
  <2> QED
    BY <2>1, AsideKeeps
<1>2. CASE Main
  <2>1. CASE ~Counts
    BY <1>2, <2>1, MainAside, AsideKeeps
  <2>2. CASE \E i \in Pigs : MGone(i)
    BY <2>2, GoneKeeps
  <2>3. ASSUME NEW i \in Pigs, MInitialized(i)
        PROVE  PrivInv'
    <3>1. NewCmd("START").kind = "START"
      BY DEF NewCmd, FreeCmd
    <3> QED
      BY <2>3, <3>1, ProceedKeeps DEF MInitialized
  <2>4. ASSUME NEW i \in Pigs, MStarted(i)
        PROVE  PrivInv'
    <3>1. [NewCmd("RUN") EXCEPT !.paused = m.paused].kind = "RUN"
      BY DEF NewCmd, FreeCmd
    <3> QED
      BY <2>4, <3>1, ProceedKeeps DEF MStarted
  <2> QED
    BY <2>1, <2>2, <2>3, <2>4 DEF Counts
<1>3. CASE \E i \in Pigs : Thread(i)
  BY <1>3, ThreadAside, AsideKeeps
<1>4. CASE \E s \in m.setup.signals : Signal(s)
  <2>1. Aside
    BY <1>4 DEF Signal, Aside, SameCount, NoneSent, NoneGoesOn
  <2> QED
    BY <2>1, AsideKeeps
<1> QED
  BY <1>1, <1>2, <1>3, <1>4 DEF Next, Finished

(* Nobody has been counted and nobody has gone on when main_loop() begins. *)
LEMMA PrivInit ==
    ASSUME Init
    PROVE  PrivInv
<1>1. PICK s \in Setups :
        /\ m.pendingPriv = IF s.changePrivileges THEN MaxPigs ELSE 0
        /\ m.setup = s
        /\ pig = [i \in Pigs |-> IF s.readMode THEN LazyPig ELSE [LazyPig EXCEPT !.state = "NEW"]]
        /\ cmd = [c \in CmdId |-> FreeCmd]
  BY DEF Init
<1>2. /\ ~LazyPig.awaiting /\ ~[LazyPig EXCEPT !.state = "NEW"].awaiting
      /\ LazyPig.state = None /\ [LazyPig EXCEPT !.state = "NEW"].state = "NEW"
      /\ FreeCmd.kind = "free"
  BY DEF LazyPig, FreeCmd
<1>3. Awaiting = {} /\ Cardinality(Awaiting) = 0
  <2>1. Awaiting = {}
    BY <1>1, <1>2 DEF Awaiting
  <2> QED
    BY <2>1, FS_EmptySet
<1>4. \A i \in Pigs : ~WentOn(pig[i].state)
  BY <1>1, <1>2, NullPointer DEF WentOn, AnalyzerStates
<1>5. \A c \in CmdId : ~GoesOn(cmd[c].kind)
  BY <1>1, <1>2 DEF GoesOn
<1> QED
  BY <1>1, <1>3, <1>4, <1>5, DroveConstants DEF PrivInv, HeldBack, ChangePrivileges

(* PrivilegesDroppedFirst: for any number of threads and any set-up, no    *)
(* analyzer goes past the state in which handle() lets it wait before the  *)
(* last one got there and main dropped privileges, as long as no poke of   *)
(* an analyzer that was gone was counted in its place (main.cc 869).       *)
THEOREM PrivilegesAreDroppedFirst == Spec => []PrivilegesDroppedFirst
<1>1. Init => PrivInv
  BY PrivInit
<1>2. IndInv /\ PrivInv /\ [Next]_vars => PrivInv'
  BY PrivStep DEF IndInv
<1>3. PrivInv => PrivilegesDroppedFirst
  BY DEF PrivInv, HeldBack, WentOn, PrivilegesDroppedFirst
<1> QED
  BY <1>1, <1>2, <1>3, Inductive, PTL DEF Spec
=============================================================================
