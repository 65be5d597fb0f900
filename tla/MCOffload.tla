----------------------------- MODULE MCOffload ------------------------------
(***************************************************************************)
(* Instances of Offload for TLC.                                           *)
(***************************************************************************)
EXTENDS Offload

\* Several PDUs per flush when no rule ends a session, one when any may.
Quiet == [verdicts |-> {"pass"}, maxSegs |-> 2]
Ending == [verdicts |-> Verdicts, maxSegs |-> 1]
MCSetups == {Quiet, Ending}

\* Both at once.
EndingInFlush == {[verdicts |-> Verdicts, maxSegs |-> 2]}
=============================================================================
