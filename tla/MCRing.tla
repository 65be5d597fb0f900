------------------------------- MODULE MCRing -------------------------------
(***************************************************************************)
(* Ring for TLC: a ring of four slots, so that two elements fit and both   *)
(* indices wrap, and two elements to tell apart.                           *)
(***************************************************************************)
EXTENDS Ring
=============================================================================
