----------------------------- MODULE DroveSteps -----------------------------
(***************************************************************************)
(* Proofs about Drove, 3: every step keeps IndInv, which ties the          *)
(* reference count of a command to the pigs that hold it.                  *)
(*                                                                         *)
(* The lemmas assume StepsAsSaid, which DroveMain proves, and PigsCounted, *)
(* which DroveProofs proves, so that each of these modules can be checked  *)
(* without the others.                                                     *)
(***************************************************************************)
EXTENDS DroveThreads
-----------------------------------------------------------------------------
(* What DroveMain shows, in the form it is used in here.                   *)
LEMMA ThreadSteps ==
    ASSUME StepsAsSaid, TypeOK, NEW i \in Pigs, PigOK(pig[i]), Thread(i)
    PROVE  \E q : pig' = [pig EXCEPT ![i] = q] /\ Steps(pig[i], q)
<1>1. ThreadDoes(i)
  BY Zenon DEF StepsAsSaid
<1> QED
  BY <1>1, Zenon DEF ThreadDoes

(* The rest of what a thread changes.                                      *)
LEMMA ThreadLeaves ==
    ASSUME StepsAsSaid, TypeOK, NEW i \in Pigs, PigOK(pig[i]), Thread(i)
    PROVE  /\ m' = m /\ live' = live /\ sigs' = sigs /\ budget' = budget
           /\ poke' \in {poke, Poked(i)}
           /\ auto' \in {auto, "set", "used"}
           /\ cmd' \in [CmdId -> CmdType]
           /\ control' \in [Users -> ControlType]
           /\ \A c \in CmdId :
                 /\ cmd'[c].kind = cmd[c].kind /\ cmd'[c].refs = cmd[c].refs
                 /\ cmd'[c].old = cmd[c].old /\ cmd'[c].new = cmd[c].new
                 /\ \/ cmd'[c].fd = cmd[c].fd
                    \/ /\ cmd'[c].fd = None
                       /\ \A u \in Users : cmd[c].fd = u => control'[u].status = "closed"
           /\ \A u \in Users : control'[u].status \in {control[u].status, "closed"}
<1>1. ThreadDoes(i)
  BY Zenon DEF StepsAsSaid
<1> QED
  BY <1>1, Zenon DEF ThreadDoes

(* The steps of the main thread that need no more than this.               *)
LEMMA OtherSteps ==
    ASSUME StepsAsSaid, TypeOK, ThreadsOK, OtherStep
    PROVE  Quiet \/ Issues
  BY Zenon DEF StepsAsSaid

(* reap_commands() for the completed commands of all pigs and the orphans. *)
LEMMA SReapReaps ==
    ASSUME StepsAsSaid, TypeOK, ThreadsOK, SReap
    PROVE  /\ \E R, O : Reaps(R, O)
           /\ m'.swine = m.swine /\ \A i \in Pigs : pig'[i].state = pig[i].state
  BY Zenon DEF StepsAsSaid

(* Joining a thread: its analyzer goes, with the commands it still has.    *)
LEMMA MJoinReaps ==
    ASSUME StepsAsSaid, TypeOK, ThreadsOK, m.swine > 0, MJoin
    PROVE  /\ \E R, O : Reaps(R, O)
           /\ m.at = "join" /\ m'.swine = m.swine - 1 /\ pig'[m.target].state = None
           /\ \A i \in Pigs \ {m.target} : pig'[i] = pig[i]
  BY Zenon DEF StepsAsSaid

(* Who holds a command, by what each pig holds.                            *)
LEMMA HoldersHeld ==
    ASSUME NEW c \in CmdId
    PROVE  /\ Holders(c) = {i \in Pigs : c \in Held(pig[i])}
           /\ Holders(c)' = {i \in Pigs : c \in Held(pig'[i])}
  BY Names, Zenon DEF Holders, Held

(* A step that moves no command from one pig to another.                   *)
LEMMA HeldKept ==
    ASSUME IndInv,
           \A j \in Pigs : Held(pig'[j]) = Held(pig[j]),
           \A c \in CmdId : cmd'[c].kind = cmd[c].kind /\ cmd'[c].refs = cmd[c].refs,
           m'.orphans = m.orphans, m'.job = m.job, Sending \/ Sending' => m'.at = m.at
    PROVE  CommandsOwned' /\ JobOK'
<1>1. \A c \in CmdId : Holders(c)' = Holders(c)
  BY HoldersHeld, Zenon
<1>2. CommandsOwned'
  BY <1>1, Zenon DEF CommandsOwned, IndInv
<1>3. CASE ~Sending
  <2>1. ~Sending'
    BY <1>3, Zenon DEF Sending
  <2> QED
    BY <1>2, <1>3, <2>1, Zenon DEF JobOK, IndInv
<1>4. CASE Sending
  <2>1. Sending' /\ m'.at = m.at /\ ToCome' = ToCome
    BY <1>4, Zenon DEF Sending, ToCome
  <2> QED
    BY <1>1, <1>2, <1>4, <2>1, Zenon DEF JobOK, IndInv
<1> QED
  BY <1>3, <1>4, Zenon

(* The analyzers in existence.                                             *)
LEMMA AnalyzersKept ==
    ASSUME \A j \in Pigs : pig'[j].state = None <=> pig[j].state = None
    PROVE  Analyzers' = Analyzers
  BY Zenon DEF Analyzers

(* The announcement ring keeps its type and capacity.                      *)
LEMMA PokedType ==
    ASSUME TypeOK, NEW i \in Pigs
    PROVE  Poked(i) \in Seq(Pigs) /\ Len(Poked(i)) <= MaxPigs
<1>1. poke \in Seq(Pigs) /\ Len(poke) <= MaxPigs /\ MaxPigs \in Nat /\ Len(poke) \in Nat
  BY DroveConstants DEF TypeOK
<1>2. Append(poke, i) \in Seq(Pigs) /\ Len(Append(poke, i)) = Len(poke) + 1
  BY <1>1
<1> QED
  BY <1>1, <1>2 DEF Poked

(* A step of a packet thread keeps the inductive invariant: commands move  *)
(* between the queues of one pig only.                                     *)
LEMMA ThreadInv ==
    ASSUME StepsAsSaid, IndInv, NEW i \in Pigs, Thread(i)
    PROVE  IndInv'
<1>1. TypeOK /\ ThreadsOK /\ pig \in [Pigs -> PigType] /\ PigOK(pig[i])
  BY Zenon DEF IndInv, TypeOK, ThreadsOK
<1>2. PICK q : pig' = [pig EXCEPT ![i] = q] /\ Steps(pig[i], q)
  BY <1>1, ThreadSteps, Zenon
<1>3. /\ q \in PigType /\ PigOK(q) /\ Held(q) = Held(pig[i]) /\ q.state # None /\ pig[i].state # None
  BY <1>2, Zenon DEF Steps
<1>4. /\ pig' \in [Pigs -> PigType] /\ pig'[i] = q /\ \A j \in Pigs \ {i} : pig'[j] = pig[j]
  BY <1>1, <1>2, <1>3, Zenon
<1>5. /\ m' = m /\ live' = live /\ sigs' = sigs /\ budget' = budget
      /\ poke' \in {poke, Poked(i)} /\ auto' \in {auto, "set", "used"}
      /\ cmd' \in [CmdId -> CmdType] /\ control' \in [Users -> ControlType]
      /\ \A c \in CmdId : cmd'[c].kind = cmd[c].kind /\ cmd'[c].refs = cmd[c].refs
  BY <1>1, ThreadLeaves, Zenon
<1>6. TypeOK'
  BY <1>1, <1>4, <1>5, PokedType, Zenon DEF TypeOK
<1>7. \A j \in Pigs : Held(pig'[j]) = Held(pig[j]) /\ (pig'[j].state = None <=> pig[j].state = None)
  BY <1>3, <1>4, Zenon
<1>8. CommandsOwned' /\ JobOK'
  BY <1>5, <1>7, HeldKept, Zenon
<1>9. Analyzers' = Analyzers
  BY <1>7, AnalyzersKept, Zenon
<1>10. ThreadsOK'
  <2>1. m.target \in Pigs
    BY <1>1, Zenon DEF TypeOK, MainType
  <2>2. \A j \in Pigs : PigOK(pig'[j])
    BY <1>1, <1>3, <1>4, Zenon DEF ThreadsOK
  <2> QED
    BY <1>1, <1>5, <1>7, <1>9, <2>1, <2>2, Zenon DEF ThreadsOK
<1> QED
  BY <1>6, <1>8, <1>10, Zenon DEF IndInv

(* So does a Quiet step of the main thread.                                *)
LEMMA QuietInv ==
    ASSUME IndInv, Quiet
    PROVE  IndInv'
<1>1. TypeOK'
  BY Zenon DEF Quiet, TypeOK, IndInv
<1>2. \A j \in Pigs : /\ Held(pig'[j]) = Held(pig[j]) /\ PigOK(pig'[j])
                      /\ (pig'[j].state = None <=> pig[j].state = None)
  BY Zenon DEF Quiet, Kept
<1>3. CommandsOwned' /\ JobOK'
  BY <1>2, HeldKept, Zenon DEF Quiet
<1>4. Analyzers' = Analyzers
  BY <1>2, AnalyzersKept, Zenon
<1>5. ThreadsOK'
  BY <1>2, <1>4, Zenon DEF ThreadsOK, IndInv, Quiet
<1> QED
  BY <1>1, <1>3, <1>5, Zenon DEF IndInv

(* So does the creation of a command: no pig holds it yet.                 *)
LEMMA IssuesInv ==
    ASSUME PigsCounted, IndInv, Issues
    PROVE  IndInv'
<1> DEFINE c == m'.job.c
<1>0. PICK todo \in Seq(Pigs) : IssuesTo(todo) /\ IsInjective(todo)
  BY Zenon DEF Issues
<1>1. TypeOK'
  BY <1>0, Zenon DEF IssuesTo, TypeOK, IndInv
<1>2. \A j \in Pigs : /\ Held(pig'[j]) = Held(pig[j]) /\ PigOK(pig'[j])
                      /\ (pig'[j].state = None <=> pig[j].state = None)
  BY <1>0, Zenon DEF IssuesTo, Kept
<1>3. Analyzers' = Analyzers
  BY <1>2, AnalyzersKept, Zenon
<1>4. ThreadsOK'
  BY <1>0, <1>2, <1>3, Zenon DEF ThreadsOK, IndInv, IssuesTo
<1>5. \A d \in CmdId : Holders(d)' = Holders(d)
  BY <1>2, HoldersHeld, Zenon
<1>6. /\ c \in CmdId /\ cmd[c].kind = "free" /\ cmd'[c].kind # "free" /\ cmd'[c].refs = 0
      /\ \A d \in CmdId \ {c} : cmd'[d] = cmd[d]
  BY <1>0, Zenon DEF IssuesTo
<1>free. \A d \in CmdId : cmd[d].kind = "free" => Holders(d)' = {} /\ d \notin m.orphans
  BY <1>5, Zenon DEF IndInv, CommandsOwned
<1>7. /\ m.job = NoJob /\ m'.orphans = m.orphans /\ Sending' /\ m'.at = "dispatch"
      /\ m'.job.todo = todo /\ m'.job.sent = 0
  BY <1>0, Zenon DEF IssuesTo, IndInv, JobOK, Sending
<1>8. m.job.c = None
  BY <1>7 DEF NoJob
<1> HIDE DEF c
<1>9. CommandsOwned'
  <2> SUFFICES ASSUME NEW d \in CmdId
               PROVE  /\ cmd'[d].refs = Cardinality(Holders(d)')
                      /\ cmd'[d].kind = "free" => Holders(d)' = {} /\ d \notin m'.orphans
                      /\ cmd'[d].kind # "free" /\ Holders(d)' = {} => d \in m'.orphans \/ d = m'.job.c
                      /\ d \in m'.orphans => Holders(d)' = {}
    BY Zenon DEF CommandsOwned
  <2>1. CASE d = c
    <3>1. cmd[d].kind = "free" /\ cmd'[d].kind # "free" /\ cmd'[d].refs = 0 /\ d = m'.job.c
      BY <2>1, <1>6, Zenon DEF c
    <3>2. Holders(d)' = {} /\ d \notin m'.orphans
      BY <3>1, <1>free, <1>7, Zenon
    <3>3. Cardinality(Holders(d)') = 0
      BY <3>2, Zenon DEF PigsCounted
    <3> QED
      BY <3>1, <3>2, <3>3, Zenon
  <2>2. CASE d # c
    <3>1. cmd'[d] = cmd[d] /\ d # m.job.c
      BY <2>2, <1>6, <1>8, Names, Zenon
    <3> QED
      BY <3>1, <1>5, <1>7, Zenon DEF IndInv, CommandsOwned
  <2> QED
    BY <2>1, <2>2, Zenon
<1>10. JobOK'
  <2>1. /\ m'.job.c \in CmdId /\ cmd'[m'.job.c].kind # "free" /\ m'.job.c \notin m'.orphans
    BY <1>6, <1>7, <1>free, Zenon DEF c
  <2>2. Holders(m.job.c)' = {}
    <3>1. \A i \in Pigs : m'.job.c \notin Held(pig'[i])
      BY <1>6, <1>free, HoldersHeld, Zenon DEF c
    <3> QED
      BY <2>1, <3>1, Names, Zenon DEF Holders, Held
  <2> QED
    BY <1>0, <1>7, <2>1, <2>2, Zenon DEF JobOK
<1> QED
  BY <1>1, <1>4, <1>9, <1>10, Zenon DEF IndInv

(* prep(): one more analyzer, one more pig counted.                        *)
LEMMA MPrepInv ==
    ASSUME PigsCounted, IndInv, MPrep
    PROVE  IndInv'
<1>1. PICK i \in Pigs : /\ pig[i].state = None /\ pig' = [pig EXCEPT ![i].state = "NEW"]
                        /\ poke' = Poked(i)
  BY Zenon DEF MPrep
<1>2. TypeOK /\ ThreadsOK /\ m.at = "loop" /\ m.sources > 0
  BY Zenon DEF IndInv, MPrep, CanPrep
<1> DEFINE p == pig[i]
           q == [p EXCEPT !.state = "NEW"]
<1>3. pig' = [pig EXCEPT ![i] = q]
  BY <1>1, <1>2, Zenon DEF TypeOK
<1>4. p \in PigType /\ PigOK(p) /\ p.state = None
  BY <1>1, <1>2, Zenon DEF TypeOK, ThreadsOK
<1>5. q \in PigType
  BY <1>4, Literals, Zenon DEF PigType
<1>6. /\ q.state = "NEW" /\ q.thr = p.thr /\ q.work = p.work /\ q.ret = p.ret
      /\ q.pending = p.pending /\ q.completed = p.completed
  BY <1>4, Zenon DEF PigType
<1> HIDE DEF q
<1>7. PigOK(q) /\ Held(q) = Held(p)
  BY <1>4, <1>6, Names, Zenon DEF PigOK, Held, Places
<1>8. pig' \in [Pigs -> PigType] /\ pig'[i] = q /\ \A j \in Pigs \ {i} : pig'[j] = pig[j]
  BY <1>2, <1>3, <1>5, Zenon DEF TypeOK
<1>9. \A j \in Pigs : PigOK(pig'[j]) /\ Held(pig'[j]) = Held(pig[j])
  BY <1>2, <1>7, <1>8, Zenon DEF ThreadsOK
<1>10. Analyzers' = Analyzers \cup {i} /\ i \notin Analyzers
  BY <1>1, <1>6, <1>8, Names, Zenon DEF Analyzers, AnalyzerStates
<1>11. /\ m.swine = Cardinality(Analyzers) /\ Cardinality(Analyzers') = Cardinality(Analyzers) + 1
       /\ Cardinality(Analyzers') \in 0 .. MaxPigs
  <2>1. Analyzers \in SUBSET Pigs /\ Analyzers \cup {i} \in SUBSET Pigs /\ i \in Pigs \ Analyzers
    BY <1>10, Zenon DEF Analyzers
  <2>2. m.swine = Cardinality(Analyzers)
    BY <1>2, Zenon DEF ThreadsOK
  <2> QED
    BY <1>10, <2>1, <2>2, Zenon DEF PigsCounted
<1>12. m' = [m EXCEPT !.swine = m.swine + 1, !.sources = m.sources - 1]
  BY Zenon DEF MPrep
<1>13. m.swine + 1 \in 0 .. MaxPigs /\ m.sources - 1 \in Nat
  BY <1>2, <1>11 DEF TypeOK, MainType
<1>14. m' \in MainType
  BY <1>2, <1>12, <1>13, Zenon DEF TypeOK, MainType
<1>15. /\ m'.at = "loop" /\ m'.swine = m.swine + 1 /\ m'.job = m.job /\ m'.orphans = m.orphans
       /\ m'.setup = m.setup /\ m'.sources = m.sources - 1
  BY <1>2, <1>12, Zenon DEF TypeOK, MainType
<1>16. TypeOK'
  <2>1. m.setup \in Setup /\ m.sources \in Nat
    BY <1>2, DroveConstants, Zenon DEF TypeOK, MainType
  <2>2. m'.sources <= m'.setup.sources
    BY <1>2, <1>15, <2>1 DEF TypeOK, Setup
  <2> QED
    BY <1>1, <1>2, <1>8, <1>14, <1>15, <2>2, PokedType, Zenon DEF MPrep, TypeOK
<1>17. ThreadsOK'
  BY <1>9, <1>11, <1>15, Zenon DEF ThreadsOK
<1>18. CommandsOwned' /\ JobOK'
  BY <1>2, <1>9, <1>15, HeldKept, Zenon DEF MPrep, Sending
<1> QED
  BY <1>16, <1>17, <1>18, Zenon DEF IndInv

(* The job after one pig was passed by.                                    *)
LEMMA DSkipInv ==
    ASSUME IndInv, DSkip
    PROVE  IndInv'
<1>1. TypeOK /\ m.at = "dispatch" /\ m.job.todo # <<>> /\ m.job \in JobType
      /\ m.job.todo \in Seq(Pigs)
  BY Zenon DEF IndInv, DSkip, TypeOK, MainType, JobType
<1>2. /\ Tail(m.job.todo) \in Seq(Pigs) /\ Range(Tail(m.job.todo)) \subseteq Range(m.job.todo)
      /\ IsInjective(m.job.todo) => IsInjective(Tail(m.job.todo))
  BY <1>1, Taken
<1> DEFINE job == [m.job EXCEPT !.todo = Tail(m.job.todo)]
<1>3. m' = [m EXCEPT !.job = job]
  BY <1>1, Zenon DEF DSkip, TypeOK, MainType
<1>4. job \in JobType
  BY <1>1, <1>2, Zenon DEF JobType
<1>5. job.c = m.job.c /\ job.todo = Tail(m.job.todo) /\ job.sent = m.job.sent
  BY <1>1, Zenon DEF JobType
<1> HIDE DEF job
<1>6. m' \in MainType
  BY <1>1, <1>3, <1>4, Zenon DEF TypeOK, MainType
<1>7. /\ m'.at = "dispatch" /\ m'.job = job /\ m'.swine = m.swine /\ m'.orphans = m.orphans
      /\ m'.setup = m.setup /\ m'.sources = m.sources
  BY <1>1, <1>3, Zenon DEF TypeOK, MainType
<1>8. TypeOK'
  BY <1>1, <1>6, <1>7, Zenon DEF DSkip, TypeOK
<1>9. ThreadsOK'
  BY <1>7, Zenon DEF IndInv, ThreadsOK, DSkip, Analyzers
<1>10. CommandsOwned'
  BY <1>5, <1>7, Zenon DEF IndInv, CommandsOwned, DSkip, Holders
<1>11. Holders(m.job.c)' = Holders(m.job.c) /\ ToCome' \subseteq ToCome
  BY <1>1, <1>2, <1>5, <1>7, Zenon DEF Holders, DSkip, ToCome
<1>12. JobOK'
  BY <1>1, <1>2, <1>5, <1>7, <1>11, Zenon DEF IndInv, JobOK, Sending, DSkip
<1> QED
  BY <1>8, <1>9, <1>10, <1>12, Zenon DEF IndInv

(* get() and push: one more pig holds the command.                         *)
LEMMA DQueueInv ==
    ASSUME PigsCounted, IndInv, DQueue
    PROVE  IndInv'
<1>0. /\ TypeOK /\ ThreadsOK /\ CommandsOwned /\ m.at = "dispatch" /\ m.job.todo # <<>>
      /\ m.job.c \in CmdId /\ IsInjective(m.job.todo)
  BY Zenon DEF IndInv, DQueue, JobOK, Sending
<1>c. PICK c \in CmdId : c = m.job.c
  BY <1>0, Zenon
<1>1. /\ TypeOK /\ ThreadsOK /\ CommandsOwned /\ m.at = "dispatch" /\ m.job.todo # <<>>
      /\ c \notin m.orphans /\ cmd[c].kind # "free"
      /\ IsInjective(m.job.todo) /\ Holders(c) \cap Range(m.job.todo) = {}
  BY <1>0, <1>c, Zenon DEF IndInv, JobOK, Sending, ToCome
<1>2. PICK i \in Pigs : /\ i = Target
                        /\ Range(m.job.todo) = {i} \cup Range(Tail(m.job.todo))
                        /\ i \notin Range(Tail(m.job.todo))
  <2>1. m.job.todo \in Seq(Pigs)
    BY <1>1, Zenon DEF TypeOK, MainType, JobType
  <2> QED
    BY <1>1, <2>1, Taken DEF Target
<1> DEFINE p == pig[i]
           q == [p EXCEPT !.pending = Append(p.pending, c)]
<1>3. pig' = [pig EXCEPT ![i] = q]
  BY <1>1, <1>2, <1>c, Zenon DEF DQueue, TypeOK
<1>4. p \in PigType /\ PigOK(p) /\ p.pending \in Seq(CmdId) /\ c \notin Held(p)
  <2>1. p \in PigType /\ PigOK(p)
    BY <1>1, <1>2, Zenon DEF TypeOK, ThreadsOK
  <2>2. i \notin Holders(c)
    BY <1>1, <1>2, Zenon
  <2> QED
    BY <1>1, <1>2, <2>1, <2>2, HoldersHeld, Zenon DEF PigType
<1>5. /\ Append(p.pending, c) \in Seq(CmdId)
      /\ Range(Append(p.pending, c)) = Range(p.pending) \cup {c}
      /\ IsInjective(p.pending) /\ c \notin Range(p.pending) => IsInjective(Append(p.pending, c))
  BY <1>1, <1>4, Added
<1>6. q \in PigType
  BY <1>4, <1>5, Zenon DEF PigType
<1>7. /\ q.state = p.state /\ q.thr = p.thr /\ q.work = p.work /\ q.ret = p.ret
      /\ q.pending = Append(p.pending, c) /\ q.completed = p.completed
  BY <1>4, Zenon DEF PigType
<1> HIDE DEF q
<1>8. PigOK(q)
  BY <1>1, <1>4, <1>5, <1>7, Names DEF PigOK, Held
<1>9. Held(q) = Held(p) \cup {c}
  BY <1>5, <1>7, Zenon DEF Held
<1>10. pig' \in [Pigs -> PigType] /\ pig'[i] = q /\ \A j \in Pigs \ {i} : pig'[j] = pig[j]
  BY <1>1, <1>2, <1>3, <1>6, Zenon DEF TypeOK
<1>11. /\ Holders(c)' = Holders(c) \cup {i} /\ i \notin Holders(c)
       /\ \A d \in CmdId \ {c} : Holders(d)' = Holders(d)
  <2>1. \A j \in Pigs : j # i => Held(pig'[j]) = Held(pig[j])
    BY <1>10, Zenon
  <2>2. Held(pig'[i]) = Held(pig[i]) \cup {c}
    BY <1>9, <1>10, Zenon
  <2>3. \A d \in CmdId : /\ Holders(d) = {j \in Pigs : d \in Held(pig[j])}
                          /\ Holders(d)' = {j \in Pigs : d \in Held(pig'[j])}
    BY HoldersHeld, Zenon
  <2>4. ASSUME NEW d \in CmdId, NEW j
        PROVE  j \in Holders(d)' <=> j \in Holders(d) \/ (j = i /\ d = c)
    BY <1>2, <2>1, <2>2, <2>3
  <2>5. i \notin Holders(c)
    BY <1>1, <1>4, <2>3, Zenon
  <2>6. Holders(c)' = Holders(c) \cup {i}
    BY <1>1, <2>4, Zenon
  <2>7. \A d \in CmdId \ {c} : Holders(d)' = Holders(d)
    BY <2>4, Zenon
  <2> QED
    BY <2>5, <2>6, <2>7, Zenon
<1>12. /\ cmd' = [cmd EXCEPT ![c].refs = cmd[c].refs + 1]
       /\ cmd \in [CmdId -> CmdType]
  BY <1>1, <1>c, Zenon DEF DQueue, TypeOK
<1>13. /\ \A d \in CmdId \ {c} : cmd'[d] = cmd[d]
       /\ cmd'[c].refs = cmd[c].refs + 1 /\ cmd'[c].kind = cmd[c].kind
  BY <1>1, <1>12, Zenon DEF CmdType
<1>14. /\ cmd[c].refs = Cardinality(Holders(c))
       /\ Cardinality(Holders(c)') = Cardinality(Holders(c)) + 1
       /\ Cardinality(Holders(c)') \in 0 .. MaxPigs
  <2>1. Holders(c) \in SUBSET Pigs /\ Holders(c)' \in SUBSET Pigs
    BY Zenon DEF Holders
  <2> QED
    BY <1>1, <1>11, <2>1 DEF CommandsOwned, PigsCounted
<1>15. cmd' \in [CmdId -> CmdType]
  <2>1. cmd[c].refs + 1 \in 0 .. MaxPigs
    BY <1>14, Zenon
  <2>2. [cmd[c] EXCEPT !.refs = cmd[c].refs + 1] \in CmdType
    BY <1>1, <1>12, <2>1, Zenon DEF CmdType
  <2>3. cmd' = [cmd EXCEPT ![c] = [cmd[c] EXCEPT !.refs = cmd[c].refs + 1]]
    BY <1>12, Zenon
  <2> QED
    BY <1>12, <2>2, <2>3, Zenon
<1>16. m' \in MainType
  BY <1>1, MainNames, Zenon DEF DQueue, TypeOK, MainType
<1>17. /\ m'.at = "break" /\ m'.job = m.job /\ m'.swine = m.swine /\ m'.orphans = m.orphans
       /\ m'.setup = m.setup /\ m'.sources = m.sources
  BY <1>1, Zenon DEF DQueue, TypeOK, MainType
<1>18. TypeOK'
  BY <1>1, <1>10, <1>15, <1>16, <1>17, Zenon DEF DQueue, TypeOK
<1>19. ThreadsOK'
  <2>1. \A j \in Pigs : PigOK(pig'[j]) /\ (pig'[j].state = None <=> pig[j].state = None)
    BY <1>1, <1>7, <1>8, <1>10, Zenon DEF ThreadsOK
  <2>2. Analyzers' = Analyzers
    BY <2>1, AnalyzersKept, Zenon
  <2> QED
    BY <1>1, <1>17, <2>1, <2>2, Zenon DEF ThreadsOK
<1>20. CommandsOwned'
  <2> SUFFICES ASSUME NEW d \in CmdId
               PROVE  /\ cmd'[d].refs = Cardinality(Holders(d)')
                      /\ cmd'[d].kind = "free" => Holders(d)' = {} /\ d \notin m'.orphans
                      /\ cmd'[d].kind # "free" /\ Holders(d)' = {} => d \in m'.orphans \/ d = m'.job.c
                      /\ d \in m'.orphans => Holders(d)' = {}
    BY Zenon DEF CommandsOwned
  <2>0. /\ cmd'[c].refs = Cardinality(Holders(c)') /\ cmd'[c].kind # "free"
        /\ Holders(c)' # {} /\ c \notin m'.orphans
    BY <1>1, <1>11, <1>13, <1>14, <1>17, Zenon
  <2>1. CASE d = c
    BY <2>0, <2>1, Zenon
  <2>2. CASE d # c
    BY <2>2, <1>1, <1>11, <1>13, <1>17 DEF CommandsOwned
  <2> QED
    BY <2>1, <2>2, Zenon
<1>21. JobOK'
  <2>1. m'.job.c = c /\ Holders(m.job.c)' = Holders(c)'
    BY <1>17, <1>c, Zenon DEF Holders
  <2>2. ToCome' = Range(Tail(m.job.todo)) /\ Sending'
    BY <1>17, Zenon DEF ToCome, Sending
  <2> QED
    BY <1>1, <1>2, <1>11, <1>13, <1>17, <2>1, <2>2, Zenon DEF JobOK
<1> QED
  BY <1>18, <1>19, <1>20, <1>21, Zenon DEF IndInv

(* break_loop(): the command has arrived at one more pig.                  *)
LEMMA DBreakInv ==
    ASSUME IndInv, DBreak
    PROVE  IndInv'
<1>0. /\ TypeOK /\ ThreadsOK /\ CommandsOwned /\ m.at = "break" /\ m.job.todo # <<>>
      /\ m.job.c \in CmdId /\ m.job \in JobType /\ m.job.todo \in Seq(Pigs) /\ m.job.sent \in Nat
  BY Zenon DEF IndInv, DBreak, JobOK, Sending, TypeOK, MainType, JobType
<1>1. /\ Tail(m.job.todo) \in Seq(Pigs)
      /\ IsInjective(m.job.todo) => IsInjective(Tail(m.job.todo))
  BY <1>0, Taken
<1>2. PICK i \in Pigs : i = Target
  BY <1>0, Taken, Zenon DEF Target
<1> DEFINE p == pig[i]
           q == [p EXCEPT !.breaking = p.breaking \/ p.state = "RUNNING"]
<1>3. pig' = [pig EXCEPT ![i] = q]
  BY <1>0, <1>2, Zenon DEF DBreak, TypeOK
<1>4. p \in PigType /\ PigOK(p)
  BY <1>0, Zenon DEF TypeOK, ThreadsOK
<1>5. q \in PigType
  <2>1. (p.breaking \/ p.state = "RUNNING") \in BOOLEAN
    OBVIOUS
  <2> QED
    BY <1>4, <2>1, Zenon DEF PigType
<1>6. /\ q.state = p.state /\ q.thr = p.thr /\ q.ret = p.ret /\ q.work = p.work
      /\ q.pending = p.pending /\ q.completed = p.completed
  BY <1>4, Zenon DEF PigType
<1> HIDE DEF q
<1>7. PigOK(q) /\ Held(q) = Held(p)
  BY <1>4, <1>6, Zenon DEF PigOK, Held
<1>8. pig' \in [Pigs -> PigType] /\ pig'[i] = q /\ \A j \in Pigs \ {i} : pig'[j] = pig[j]
  BY <1>0, <1>3, <1>5, Zenon DEF TypeOK
<1>9. \A j \in Pigs : /\ PigOK(pig'[j]) /\ Held(pig'[j]) = Held(pig[j])
                      /\ (pig'[j].state = None <=> pig[j].state = None)
  BY <1>0, <1>6, <1>7, <1>8, Zenon DEF ThreadsOK
<1> DEFINE job == [m.job EXCEPT !.todo = Tail(m.job.todo), !.sent = m.job.sent + 1]
<1>10. m' = [m EXCEPT !.at = "dispatch", !.job = job]
  BY <1>0, Zenon DEF DBreak, TypeOK, MainType
<1>11. job \in JobType
  <2>1. m.job.sent + 1 \in Nat
    BY <1>0
  <2> QED
    BY <1>0, <1>1, <2>1, Zenon DEF JobType
<1>12. job.c = m.job.c /\ job.todo = Tail(m.job.todo) /\ job.sent = m.job.sent + 1 /\ job.sent # 0
  BY <1>0 DEF JobType
<1> HIDE DEF job
<1>13. m' \in MainType
  BY <1>0, <1>10, <1>11, MainNames, Zenon DEF TypeOK, MainType
<1>14. /\ m'.at = "dispatch" /\ m'.job = job /\ m'.swine = m.swine /\ m'.orphans = m.orphans
       /\ m'.setup = m.setup /\ m'.sources = m.sources
  BY <1>0, <1>10, Zenon DEF TypeOK, MainType
<1>15. TypeOK'
  BY <1>0, <1>8, <1>13, <1>14, Zenon DEF DBreak, TypeOK
<1>16. Analyzers' = Analyzers
  BY <1>9, AnalyzersKept, Zenon
<1>17. ThreadsOK'
  BY <1>0, <1>9, <1>14, <1>16, Zenon DEF ThreadsOK
<1>18. \A c \in CmdId : Holders(c)' = Holders(c)
  BY <1>9, HoldersHeld, Zenon
<1>19. CommandsOwned'
  BY <1>0, <1>12, <1>14, <1>18, Zenon DEF CommandsOwned, DBreak
<1>20. PICK c \in CmdId : c = m.job.c
  BY <1>0, Zenon
<1>21. Holders(m.job.c)' = Holders(c)' /\ m'.job.c = c
  BY <1>12, <1>14, <1>20, Zenon DEF Holders
<1>22. Holders(c) \cap Range(Tail(m.job.todo)) = {} /\ Holders(c) # {}
  BY <1>0, <1>20, Zenon DEF IndInv, JobOK, Sending, ToCome
<1>23. ToCome' = Range(Tail(m.job.todo)) /\ Sending'
  BY <1>12, <1>14, Zenon DEF ToCome, Sending
<1>24. c \notin m'.orphans /\ cmd'[c].kind # "free" /\ IsInjective(Tail(m.job.todo))
  BY <1>0, <1>1, <1>14, <1>20, Zenon DEF IndInv, JobOK, Sending, DBreak
<1>25. JobOK'
  BY <1>12, <1>14, <1>18, <1>21, <1>22, <1>23, <1>24, Zenon DEF JobOK
<1> QED
  BY <1>15, <1>17, <1>19, <1>25, Zenon DEF IndInv

(* No command is being queued.                                             *)
LEMMA NoJobType == NoJob \in JobType
<1>1. /\ None \in NullOr(CmdId) /\ <<>> \in Seq(Pigs) /\ 0 \in Nat
      /\ "loop" \in {"loop", "users", "reap"} /\ "none" \in Requests \cup {"none"}
  BY DEF NullOr
<1> QED
  BY <1>1, Zenon DEF NoJob, JobType

(* The command has been queued; one that nobody took is an orphan.         *)
LEMMA DDoneInv ==
    ASSUME IndInv, DDone
    PROVE  IndInv'
<1>0. /\ TypeOK /\ ThreadsOK /\ CommandsOwned /\ m.at = "dispatch" /\ m.job \in JobType
      /\ m.job.c \in CmdId /\ m.orphans \subseteq CmdId /\ m.job.then \in {"loop", "users", "reap"}
  BY Zenon DEF IndInv, DDone, JobOK, Sending, TypeOK, MainType, JobType
<1>1. PICK c \in CmdId : c = m.job.c
  BY <1>0, Zenon
<1>2. (m.job.sent = 0 <=> Holders(c) = {}) /\ c \notin m.orphans /\ cmd[c].kind # "free"
  BY <1>0, <1>1, Zenon DEF IndInv, JobOK, Sending
<1> DEFINE orphans == IF m.job.sent = 0 THEN m.orphans \cup {c} ELSE m.orphans
           paused == CASE m.job.effect = "pause" -> TRUE
                       [] m.job.effect = "resume" -> FALSE
                       [] OTHER -> m.paused
           quitting == m.quitting \/ m.job.effect = "quit"
<1>3. m' = [m EXCEPT !.at = m.job.then, !.job = NoJob, !.orphans = orphans, !.paused = paused,
                     !.quitting = quitting]
  BY <1>1, Zenon DEF DDone
<1>4. orphans \in SUBSET CmdId /\ paused \in BOOLEAN /\ quitting \in BOOLEAN /\ NoJob \in JobType
      /\ m.job.then \in MainPlaces
  <2>1. orphans \in SUBSET CmdId
    BY <1>0, Zenon
  <2>2. m.paused \in BOOLEAN /\ m.quitting \in BOOLEAN
    BY <1>0, Zenon DEF TypeOK, MainType
  <2>3. paused \in BOOLEAN /\ quitting \in BOOLEAN
    BY <2>2, Zenon
  <2> QED
    BY <1>0, <2>1, <2>3, NoJobType, Zenon DEF MainPlaces
<1> HIDE DEF paused, quitting, orphans
<1>5. m' \in MainType
  BY <1>0, <1>3, <1>4, Zenon DEF TypeOK, MainType
<1>6. /\ m'.at = m.job.then /\ m'.job = NoJob /\ m'.swine = m.swine /\ m'.orphans = orphans
      /\ m'.setup = m.setup /\ m'.sources = m.sources
  BY <1>0, <1>3, Zenon DEF TypeOK, MainType
<1>7. TypeOK'
  BY <1>0, <1>5, <1>6, Zenon DEF DDone, TypeOK
<1>8. Analyzers' = Analyzers /\ \A d \in CmdId : Holders(d)' = Holders(d)
  BY Zenon DEF DDone, Analyzers, Holders
<1>9. ThreadsOK'
  BY <1>0, <1>6, <1>8, Zenon DEF ThreadsOK, DDone
<1>10. CommandsOwned'
  <2> SUFFICES ASSUME NEW d \in CmdId
               PROVE  /\ cmd'[d].refs = Cardinality(Holders(d)')
                      /\ cmd'[d].kind = "free" => Holders(d)' = {} /\ d \notin m'.orphans
                      /\ cmd'[d].kind # "free" /\ Holders(d)' = {} => d \in m'.orphans \/ d = m'.job.c
                      /\ d \in m'.orphans => Holders(d)' = {}
    BY Zenon DEF CommandsOwned
  <2>1. cmd' = cmd /\ Holders(d)' = Holders(d)
    BY <1>8, Zenon DEF DDone
  <2>2. /\ cmd[d].refs = Cardinality(Holders(d))
        /\ cmd[d].kind = "free" => Holders(d) = {} /\ d \notin m.orphans
        /\ cmd[d].kind # "free" /\ Holders(d) = {} => d \in m.orphans \/ d = m.job.c
        /\ d \in m.orphans => Holders(d) = {}
    BY <1>0, Zenon DEF CommandsOwned
  <2> QED
    BY <1>1, <1>2, <1>6, <2>1, <2>2, Zenon DEF orphans
<1>11. JobOK'
  BY <1>0, <1>6, Zenon DEF JobOK, Sending
<1> QED
  BY <1>7, <1>9, <1>10, <1>11, Zenon DEF IndInv

(* A command that does not exist.                                          *)
LEMMA FreeCmdType == FreeCmd \in CmdType
<1>1. /\ "free" \in Kinds \cup {"free"} /\ 0 \in 0 .. MaxPigs /\ FALSE \in BOOLEAN
      /\ None \in NullOr(Users) /\ None \in NullOr(Config)
  BY DroveConstants DEF NullOr
<1>2. NoConf \in ConfPair
  BY <1>1, Zenon DEF NoConf, ConfPair
<1> QED
  BY <1>1, <1>2, Zenon DEF FreeCmd, CmdType

(* One command, when the pigs of P give it up: the count and the deletion. *)
LEMMA PutCommand ==
    ASSUME PigsCounted, NEW H \in SUBSET Pigs, NEW P \in SUBSET H
    PROVE  /\ Cardinality(H) \in Nat /\ Cardinality(P) \in 0 .. Cardinality(H)
           /\ Cardinality(H \ P) = Cardinality(H) - Cardinality(P)
           /\ Cardinality(H) = Cardinality(P) <=> H \ P = {}
           /\ Cardinality(H) = 0 <=> H = {}
<1>1. P \in SUBSET Pigs /\ H \ P \in SUBSET Pigs
  OBVIOUS
<1>2. MaxPigs \in Nat
  BY DroveConstants, Zenon
<1>3. /\ Cardinality(H) \in Nat /\ Cardinality(P) \in Nat /\ Cardinality(P) <= Cardinality(H)
      /\ Cardinality(H \ P) = Cardinality(H) - Cardinality(P)
  BY <1>1, <1>2 DEF PigsCounted
<1>4. (Cardinality(H \ P) = 0 <=> H \ P = {}) /\ (Cardinality(H) = 0 <=> H = {})
  BY <1>1, Zenon DEF PigsCounted
<1> QED
  BY <1>3, <1>4

(* reap_commands(): the pigs give up the commands R, the main thread the   *)
(* orphans O.                                                              *)
LEMMA ReapOwned ==
    ASSUME PigsCounted, IndInv, NEW R \in [Pigs -> SUBSET CmdId], NEW O \in SUBSET m.orphans, Reap(R, O),
           \A i \in Pigs : R[i] \subseteq Held(pig[i]) /\ Held(pig'[i]) = Held(pig[i]) \ R[i],
           m'.orphans = m.orphans \ O, m'.job = m.job, ~Sending, ~Sending'
    PROVE  cmd' \in [CmdId -> CmdType] /\ CommandsOwned' /\ JobOK'
<1>1. TypeOK /\ CommandsOwned /\ m.job.c = None
  BY DEF IndInv, JobOK, NoJob
<1>2. ASSUME NEW c \in CmdId
      PROVE  /\ cmd'[c] \in CmdType
             /\ cmd'[c].refs = Cardinality(Holders(c)')
             /\ cmd'[c].kind = "free" => Holders(c)' = {} /\ c \notin m'.orphans
             /\ cmd'[c].kind # "free" /\ Holders(c)' = {} => c \in m'.orphans
             /\ c \in m'.orphans => Holders(c)' = {}
  <2> DEFINE H == Holders(c)
             P == {i \in Pigs : c \in R[i]}
  <2>1. H \in SUBSET Pigs /\ P \in SUBSET H /\ Holders(c)' = H \ P
    BY HoldersHeld, Zenon
  <2>2. /\ cmd[c].refs = Cardinality(H)
        /\ cmd[c].kind = "free" => H = {} /\ c \notin m.orphans
        /\ cmd[c].kind # "free" /\ H = {} => c \in m.orphans
        /\ c \in m.orphans => H = {}
    BY <1>1, Names, Zenon DEF CommandsOwned
  <2>3. Puts(R, c) = Cardinality(P)
    BY Zenon DEF Puts
  <2> HIDE DEF H, P
  <2>4. /\ Cardinality(H) \in Nat /\ Cardinality(P) \in 0 .. Cardinality(H)
        /\ Cardinality(H \ P) = Cardinality(H) - Cardinality(P)
        /\ Cardinality(H) = Cardinality(P) <=> H \ P = {}
        /\ Cardinality(H) = 0 <=> H = {}
    BY <2>1, PutCommand, Zenon
  <2>5. c \in Deleted(R, O) <=> c \in O \/ (Cardinality(H) > 0 /\ Cardinality(H) = Cardinality(P))
    BY <2>2, <2>3, Zenon DEF Deleted
  <2>6. cmd'[c] = IF c \in Deleted(R, O) THEN FreeCmd
                  ELSE [cmd[c] EXCEPT !.refs = cmd[c].refs - Puts(R, c)]
    BY Zenon DEF Reap
  <2>7. CASE c \in Deleted(R, O)
    <3>1. cmd'[c] = FreeCmd /\ FreeCmd \in CmdType /\ FreeCmd.refs = 0 /\ FreeCmd.kind = "free"
      BY <2>6, <2>7, FreeCmdType, Zenon DEF FreeCmd
    <3>2. H \ P = {} /\ c \notin m'.orphans
      BY <2>2, <2>4, <2>5, <2>7
    <3>3. Cardinality(H \ P) = 0
      BY <3>2, Zenon DEF PigsCounted
    <3> QED
      BY <2>1, <3>1, <3>2, <3>3, Zenon
  <2>8. CASE c \notin Deleted(R, O)
    <3> DEFINE r == cmd[c].refs - Puts(R, c)
    <3>1. cmd[c] \in CmdType /\ MaxPigs \in Nat
      BY <1>1, DroveConstants, Zenon DEF TypeOK
    <3>2. cmd[c].refs \in 0 .. MaxPigs
      BY <3>1, Zenon DEF CmdType
    <3>3. r \in 0 .. MaxPigs /\ r = Cardinality(H \ P)
      BY <2>2, <2>3, <2>4, <3>1, <3>2
    <3>4. cmd'[c] = [cmd[c] EXCEPT !.refs = r]
      BY <2>6, <2>8, Zenon
    <3> HIDE DEF r
    <3>5. cmd'[c] \in CmdType
      BY <3>1, <3>3, <3>4, Zenon DEF CmdType
    <3>6. cmd'[c].refs = r /\ cmd'[c].kind = cmd[c].kind
      BY <3>1, <3>4, Zenon DEF CmdType
    <3>7. c \in m'.orphans <=> c \in m.orphans
      BY <2>5, <2>8, Zenon
    <3>8. H \ P = {} => H = {}
      BY <2>4, <2>5, <2>8
    <3> QED
      BY <2>1, <2>2, <3>3, <3>5, <3>6, <3>7, <3>8, Zenon
  <2> QED
    BY <2>7, <2>8, Zenon
<1>3. DOMAIN cmd' = CmdId /\ cmd' = [c \in CmdId |-> cmd'[c]]
  BY Zenon DEF Reap
<1>4. cmd' \in [CmdId -> CmdType]
  BY <1>2, <1>3, Zenon
<1>5. CommandsOwned'
  BY <1>2, Zenon DEF CommandsOwned
<1>6. JobOK'
  BY Zenon DEF IndInv, JobOK
<1> QED
  BY <1>4, <1>5, <1>6, Zenon

(* A step that reaps commands keeps the invariant, if swine is right.      *)
LEMMA ReapsInv ==
    ASSUME PigsCounted, IndInv, NEW R, NEW O, Reaps(R, O), m'.swine = Cardinality(Analyzers')
    PROVE  IndInv'
<1>1. /\ TypeOK /\ \A i \in Pigs : GivesUp(pig[i], pig'[i], R[i])
  BY Zenon DEF IndInv, Reaps
<1>2. \A i \in Pigs : /\ PigOK(pig'[i])
                      /\ R[i] \subseteq Held(pig[i]) /\ Held(pig'[i]) = Held(pig[i]) \ R[i]
  BY <1>1, Zenon DEF GivesUp
<1>3. cmd' \in [CmdId -> CmdType] /\ CommandsOwned' /\ JobOK'
  BY <1>2, ReapOwned, Zenon DEF Reaps
<1>4. control' \in [Users -> ControlType]
  BY Zenon DEF Reaps, Reap, Unblocked
<1>5. live' \in [conf : SUBSET Config, attr : SUBSET Config]
  BY <1>1, Zenon DEF TypeOK, Reaps, Reap, Surviving
<1>6. TypeOK'
  BY <1>1, <1>3, <1>4, <1>5, Zenon DEF TypeOK, Reaps
<1>7. ThreadsOK'
  BY <1>2, Zenon DEF ThreadsOK, Reaps
<1> QED
  BY <1>3, <1>6, <1>7, Zenon DEF IndInv

(* So does the reaping of commands in service_check().                     *)
LEMMA SReapInv ==
    ASSUME StepsAsSaid, PigsCounted, IndInv, SReap
    PROVE  IndInv'
<1>1. PICK R, O : Reaps(R, O)
  BY SReapReaps, Zenon DEF IndInv
<1>2. Analyzers' = Analyzers /\ m'.swine = m.swine
  BY SReapReaps, AnalyzersKept, Zenon DEF IndInv
<1>3. m'.swine = Cardinality(Analyzers')
  BY <1>2, Zenon DEF IndInv, ThreadsOK
<1> QED
  BY <1>1, <1>3, ReapsInv, Zenon

(* So does the end of a pig, whose commands become orphans.                *)
LEMMA MJoinInv ==
    ASSUME StepsAsSaid, PigsCounted, IndInv, MJoin
    PROVE  IndInv'
<1>1. m.at = "join" /\ m.swine > 0 /\ Cardinality(Analyzers \ {m.target}) = m.swine - 1
  BY JoinedSwine, Zenon DEF MJoin
<1>2. /\ \E R, O : Reaps(R, O)
      /\ m'.swine = m.swine - 1 /\ pig'[m.target].state = None
      /\ \A i \in Pigs \ {m.target} : pig'[i] = pig[i]
  BY <1>1, MJoinReaps, Zenon DEF IndInv
<1>3. Analyzers' = Analyzers \ {m.target}
  BY <1>2, Zenon DEF Analyzers
<1> QED
  BY <1>1, <1>2, <1>3, ReapsInv, Zenon

(* Initially nothing is queued.                                            *)
LEMMA InitInv ==
    ASSUME PigsCounted, Init
    PROVE  IndInv
<1>1. PICK s \in Setups :
        /\ m = [at |-> "loop", job |-> NoJob, target |-> 0, inputs |-> {}, served |-> FALSE,
                swine |-> IF s.readMode THEN 0 ELSE MaxPigs,
                pendingPriv |-> IF s.changePrivileges THEN MaxPigs ELSE 0,
                dropped |-> FALSE, quitting |-> FALSE, paused |-> s.startPaused,
                sources |-> IF s.readMode THEN s.sources ELSE 0, orphans |-> {},
                conf |-> [conf |-> 0, attr |-> 0], reloading |-> FALSE, setup |-> s]
        /\ pig = [i \in Pigs |-> IF s.readMode THEN LazyPig ELSE [LazyPig EXCEPT !.state = "NEW"]]
        /\ poke = IF s.readMode THEN <<>> ELSE AllPigs
        /\ auto = IF s.pauseAfter THEN "armed" ELSE "used"
        /\ budget = s.requests
  BY Zenon DEF Init
<1>2. s \in Setup /\ MaxPigs \in Nat /\ MaxPigs > 0 /\ MaxConfigs > 0
  BY DroveConstants
<1>3. /\ s.readMode \in BOOLEAN /\ s.changePrivileges \in BOOLEAN /\ s.startPaused \in BOOLEAN
      /\ s.sources \in Nat /\ s.requests \in Nat
  BY <1>2, Zenon DEF Setup
<1>4. m \in MainType
  <2>1. /\ 0 \in Pigs /\ {} \in SUBSET Users /\ {} \in SUBSET CmdId
        /\ (IF s.readMode THEN 0 ELSE MaxPigs) \in 0 .. MaxPigs
        /\ (IF s.changePrivileges THEN MaxPigs ELSE 0) \in 0 .. MaxPigs
        /\ (IF s.readMode THEN s.sources ELSE 0) \in Nat
        /\ 0 \in NullOr(Config)
    BY <1>2, <1>3, DroveConstants DEF Pigs, NullOr, Config
  <2>2. [conf |-> 0, attr |-> 0] \in ConfPair
    BY <2>1, Zenon DEF ConfPair
  <2> QED
    BY <1>1, <1>3, <2>1, <2>2, NoJobType, MainNames, Zenon DEF MainType
<1>5. /\ m.at = "loop" /\ m.job = NoJob /\ m.orphans = {} /\ m.setup = s
      /\ m.swine = (IF s.readMode THEN 0 ELSE MaxPigs) /\ m.sources <= s.sources
  BY <1>1, <1>3
<1>6. LazyPig \in PigType
  BY LazyPigType, Zenon
<1>7. /\ LazyPig.state = None /\ LazyPig.thr = None /\ LazyPig.work = None
      /\ LazyPig.pending = <<>> /\ LazyPig.completed = <<>>
  BY LazyPigType, Zenon
<1> DEFINE q == IF s.readMode THEN LazyPig ELSE [LazyPig EXCEPT !.state = "NEW"]
<1>8. q \in PigType
  <2>1. [LazyPig EXCEPT !.state = "NEW"] \in PigType
    BY <1>6, Literals, Zenon DEF PigType
  <2> QED
    BY <1>6, <2>1, Zenon
<1>9. /\ q.state = (IF s.readMode THEN None ELSE "NEW") /\ q.thr = None /\ q.work = None
      /\ q.pending = <<>> /\ q.completed = <<>>
  BY <1>6, <1>7, Zenon DEF PigType
<1>10. \A i \in Pigs : pig[i] = q
  BY <1>1, Zenon
<1>11. pig \in [Pigs -> PigType]
  BY <1>1, <1>8, Zenon
<1> HIDE DEF q
<1>12. PigOK(q) /\ Held(q) = {}
  BY <1>9, Names, Emptied, Zenon DEF PigOK, Held, AnalyzerStates, Places
<1>13. Analyzers = IF s.readMode THEN {} ELSE Pigs
  BY <1>9, <1>10, Names, Zenon DEF Analyzers, AnalyzerStates
<1>14. ThreadsOK
  <2>1. m.swine = Cardinality(Analyzers)
    BY <1>5, <1>13, Zenon DEF PigsCounted
  <2> QED
    BY <1>5, <1>10, <1>12, <2>1, Zenon DEF ThreadsOK
<1>15. TypeOK
  <2>1. poke \in Seq(Pigs) /\ Len(poke) <= MaxPigs
    BY <1>1, <1>2, AllPigsOnce
  <2>2. sigs \in Seq(Requests \cup {"int"}) /\ Len(sigs) <= SigRingCapacity
    BY DEF Init, SigRingCapacity
  <2>3. control \in [Users -> ControlType]
    BY DEF Init, ControlType
  <2>4. cmd \in [CmdId -> CmdType]
    BY FreeCmdType, Zenon DEF Init
  <2>5. live \in [conf : SUBSET Config, attr : SUBSET Config]
    BY <1>2, DroveConstants DEF Init, Config
  <2>6. auto \in {"armed", "set", "used"} /\ budget \in 0 .. m.setup.requests
    BY <1>1, <1>3, <1>5
  <2> QED
    BY <1>4, <1>5, <1>11, <2>1, <2>2, <2>3, <2>4, <2>5, <2>6, Zenon DEF TypeOK
<1>16. ASSUME NEW c \in CmdId
       PROVE  Holders(c) = {} /\ cmd[c].refs = 0 /\ cmd[c].kind = "free"
  <2>1. cmd[c] = FreeCmd
    BY Zenon DEF Init
  <2> QED
    BY <1>10, <1>12, <2>1, HoldersHeld DEF FreeCmd
<1>17. CommandsOwned
  BY <1>5, <1>16, Zenon DEF CommandsOwned, PigsCounted
<1>18. JobOK
  BY <1>5, Zenon DEF JobOK, Sending
<1> QED
  BY <1>14, <1>15, <1>17, <1>18, Zenon DEF IndInv

(* The inductive invariant: each step keeps it.                            *)
LEMMA NextInv ==
    ASSUME StepsAsSaid, PigsCounted, IndInv, [Next]_vars
    PROVE  IndInv'
<1>1. CASE Main
  <2>1. CASE MJoin \/ MPrep \/ SReap
    BY <2>1, MJoinInv, MPrepInv, SReapInv, Zenon
  <2>2. CASE DSkip \/ DQueue \/ DBreak \/ DDone
    BY <2>2, DSkipInv, DQueueInv, DBreakInv, DDoneInv, Zenon
  <2>3. CASE \/ MEnd \/ SSelect \/ SUsersDone \/ SSignal
             \/ \E i \in Pigs : MGone(i) \/ MStart(i) \/ MInitialized(i) \/ MStarted(i)
                                 \/ MIgnore(i) \/ MStopped(i)
             \/ \E u \in Users : SAccept(u) \/ SHangUp(u) \/ SNoRequest(u)
                                  \/ \E r \in m.setup.shell : SRequest(u, r)
    <3>1. TypeOK /\ ThreadsOK
      BY Zenon DEF IndInv
    <3>2. Quiet \/ Issues
      BY <2>3, <3>1, OtherSteps, Zenon DEF OtherStep
    <3> QED
      BY <3>2, QuietInv, IssuesInv, Zenon
  <2> QED
    BY <1>1, <2>1, <2>2, <2>3, Zenon DEF Main
<1>2. CASE \E i \in Pigs : Thread(i)
  BY <1>2, ThreadInv, Zenon
<1>3. CASE \E s \in m.setup.signals : Signal(s)
  <2>1. TypeOK /\ ThreadsOK
    BY Zenon DEF IndInv
  <2>2. Quiet \/ Issues
    BY <1>3, <2>1, OtherSteps, Zenon DEF OtherStep
  <2> QED
    BY <2>2, QuietInv, IssuesInv, Zenon
<1>4. CASE Finished \/ UNCHANGED vars
  <2>1. UNCHANGED vars
    BY <1>4, Zenon DEF Finished
  <2>2. TypeOK' /\ ThreadsOK'
    BY <2>1, Zenon DEF vars, IndInv, TypeOK, ThreadsOK, Analyzers
  <2>3. CommandsOwned' /\ JobOK'
    BY <2>1, HeldKept, Zenon DEF vars
  <2> QED
    BY <2>2, <2>3, Zenon DEF IndInv
<1> QED
  BY <1>1, <1>2, <1>3, <1>4, Zenon DEF Next
=============================================================================
