----------------------------- MODULE DroveProofs ----------------------------
(***************************************************************************)
(* Proofs about Drove, 4: the theorems.                                    *)
(***************************************************************************)
EXTENDS DroveMain, DroveSteps, FiniteSetTheorems
-----------------------------------------------------------------------------
(* The subsets of the pigs are finite, and counted as they should be.      *)
LEMMA PigsAreCounted == PigsCounted
<1>1. MaxPigs \in Nat /\ MaxPigs > 0
  BY DroveConstants
<1>2. IsFiniteSet(Pigs) /\ Cardinality(Pigs) = MaxPigs
  BY <1>1, FS_Interval DEF Pigs
<1>3. Cardinality({}) = 0
  BY FS_EmptySet
<1>4. ASSUME NEW H \in SUBSET Pigs
      PROVE  /\ Cardinality(H) \in 0 .. MaxPigs
             /\ Cardinality(H) = 0 => H = {}
             /\ \A i \in Pigs \ H : Cardinality(H \cup {i}) = Cardinality(H) + 1
             /\ \A P \in SUBSET H : /\ Cardinality(P) <= Cardinality(H)
                                   /\ Cardinality(H \ P) = Cardinality(H) - Cardinality(P)
             /\ \A i \in H : Cardinality(H \ {i}) = Cardinality(H) - 1
  <2>1. IsFiniteSet(H) /\ Cardinality(H) <= MaxPigs
    BY <1>2, FS_Subset
  <2>2. Cardinality(H) \in 0 .. MaxPigs /\ (Cardinality(H) = 0 => H = {})
    BY <1>1, <2>1, FS_CardinalityType, FS_EmptySet
  <2>3. \A i \in Pigs \ H : Cardinality(H \cup {i}) = Cardinality(H) + 1
    BY <2>1, FS_AddElement, Zenon
  <2>4. ASSUME NEW P \in SUBSET H
        PROVE  Cardinality(P) <= Cardinality(H) /\ Cardinality(H \ P) = Cardinality(H) - Cardinality(P)
    <3>1. Cardinality(P) <= Cardinality(H) /\ H \cap P = P
      BY <2>1, FS_Subset
    <3>2. Cardinality(H \ P) = Cardinality(H) - Cardinality(H \cap P)
      BY <2>1, FS_Difference
    <3> QED
      BY <3>1, <3>2
  <2>5. \A i \in H : Cardinality(H \ {i}) = Cardinality(H) - 1
    BY <2>1, FS_RemoveElement
  <2> QED
    BY <2>2, <2>3, <2>4, <2>5
<1> QED
  BY <1>2, <1>3, <1>4, Zenon DEF PigsCounted

(* The reference counts of the commands are right, and the threads,        *)
(* analyzers and queues of every pig fit together.                         *)
THEOREM Inductive == Spec => []IndInv
<1>1. Init => IndInv
  BY InitInv, PigsAreCounted
<1>2. IndInv /\ [Next]_vars => IndInv'
  BY NextInv, StepsAreAsSaid, PigsAreCounted
<1> QED
  BY <1>1, <1>2, PTL DEF Spec

(* Every variable keeps its type, and the rings their capacity.            *)
THEOREM TypesKept == Spec => []TypeOK
<1>1. IndInv => TypeOK
  BY DEF IndInv
<1> QED
  BY <1>1, Inductive, PTL

(* CommandsOwned: for any number of pigs, commands and set-ups the         *)
(* reference count that broadcast, dispatch and reap_commands() keep in    *)
(* the main thread is the number of pigs that hold the command, so none is *)
(* deleted while a queue has it and none is lost.                          *)
THEOREM CommandsAreOwned == Spec => []CommandsOwned
<1>1. IndInv => CommandsOwned
  BY DEF IndInv
<1> QED
  BY <1>1, Inductive, PTL

(* BlockedHasCommand: for any number of users a control connection that a  *)
(* command blocked is unblocked at the latest when its last command is     *)
(* deleted.                                                                *)
THEOREM BlockedWaitsForCommand == Spec => []BlockedHasCommand
<1>1. Init => BlockedHasCommand
  BY DEF Init, BlockedHasCommand
<1>2. IndInv /\ BlockedHasCommand /\ [Next]_vars => BlockedHasCommand'
  BY BlockedStep, PigsAreCounted
<1> QED
  BY <1>1, <1>2, Inductive, PTL DEF Spec

(* CommandBreaksAcquire: a thread never stays in acquire with a command in *)
(* its queue and no break_loop, however Analyzer::execute() of the main    *)
(* thread and the thread's own check of the queue interleave.              *)
THEOREM CommandReachesAcquire == Spec => []CommandBreaksAcquire
<1>1. ASSUME Init
      PROVE  CommandBreaksAcquire
  <2>1. PICK s \in Setups :
          pig = [i \in Pigs |-> IF s.readMode THEN LazyPig ELSE [LazyPig EXCEPT !.state = "NEW"]]
    BY <1>1, Zenon DEF Init
  <2>2. LazyPig.pending = <<>> /\ [LazyPig EXCEPT !.state = "NEW"].pending = <<>>
    BY LazyPigType DEF PigType
  <2> QED
    BY <2>1, <2>2 DEF CommandBreaksAcquire
<1>2. IndInv /\ CommandBreaksAcquire /\ [Next]_vars => CommandBreaksAcquire'
  BY BreakStep, PigsAreCounted
<1> QED
  BY <1>1, <1>2, Inductive, PTL DEF Spec

(* A reload is in progress exactly while one SWAP command exists, and each *)
(* thread has the new configuration or is going to take that command.      *)
THEOREM ReloadsAreOrderly ==
    ASSUME ReloadsAnswered
    PROVE  Spec => []ReloadInv
<1>1. Init => ReloadInv
  BY ReloadInit
<1>2. IndInv /\ IndInv' /\ ReloadInv /\ [Next]_vars => ReloadInv'
  BY ReloadStep, PigsAreCounted
<1> QED
  BY <1>1, <1>2, Inductive, PTL DEF Spec

(* ReloadReachedAll: when reload_config() or reload_hosts() may run again, *)
(* no thread works with the configuration that was replaced.               *)
(* ReloadsAnswered excludes what the run of MCDroveSkippedSwap shows: a    *)
(* thread whose response cannot be written does not execute the SWAP.      *)
THEOREM ReloadReachesAll ==
    ASSUME ReloadsAnswered
    PROVE  Spec => []ReloadReachedAll
<1>1. ReloadInv => ReloadReachedAll
  BY DEF ReloadInv, ReloadReachedAll, InThread, Inside
<1> QED
  BY <1>1, ReloadsAreOrderly, PTL

(* ConfigInUseExists: when the destructor of the SWAP command deletes the  *)
(* old configuration and host table no thread uses them any more.          *)
THEOREM ConfigOutlivesUse ==
    ASSUME ReloadsAnswered
    PROVE  Spec => []ConfigInUseExists
<1>1. ASSUME IndInv, ReloadInv
      PROVE  ConfigInUseExists
  <2> SUFFICES ASSUME NEW i \in Pigs, Inside(pig[i])
               PROVE  pig[i].conf.conf \in live.conf /\ pig[i].conf.attr \in live.attr
    BY DEF ConfigInUseExists, InThread, Inside
  <2>1. m.conf.conf \in live.conf /\ m.conf.attr \in live.attr
    BY <1>1 DEF ReloadInv
  <2>2. CASE pig[i].conf = m.conf
    BY <2>1, <2>2
  <2>3. CASE pig[i].conf # m.conf
    <3>1. PICK c \in CmdId : Replaces(c)
      BY <1>1, <2>3 DEF ReloadInv
    <3>2. /\ pig[i].conf = Apply(m.conf, cmd[c].old)
          /\ cmd[c].old.conf \in live.conf \cup {None} /\ cmd[c].old.attr \in live.attr \cup {None}
      BY <2>3, <3>1 DEF Replaces
    <3> QED
      BY <2>1, <3>2 DEF Apply
  <2> QED
    BY <2>2, <2>3
<1>2. IndInv /\ ReloadInv => ConfigInUseExists
  BY <1>1
<1> QED
  BY <1>2, Inductive, ReloadsAreOrderly, PTL
=============================================================================
