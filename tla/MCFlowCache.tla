---------------------------- MODULE MCFlowCache ----------------------------
(***************************************************************************)
(* FlowCache for TLC: the features its runs choose from.                   *)
(***************************************************************************)
EXTENDS FlowCache, TLC

\* One reason at a time to keep a flow, and lookups of other flows with it.
Apart == {{"block", "lookup"}, {"offload"}, {"standby"}}

\* No flow that timeout passes over.
Unskipped == {{"block", "lookup"}}

KeySymmetry == Permutations(Keys)
=============================================================================
