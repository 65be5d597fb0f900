--------------------------- MODULE MCExpectCache ---------------------------
(***************************************************************************)
(* ExpectCache for TLC: one known port per host, so three keys for the two *)
(* nodes that init_exp() provides at least.                                *)
(***************************************************************************)
EXTENDS ExpectCache, TLC

\* Two inspectors with data of one protocol, whose requests go together; one inspector
\* with data of one protocol or another, which also asks for flows to be ignored.
MCCallers == {{<<"ftp", "p">>, <<"appid", "p">>},
              {<<"ftp", "p">>, <<"ftp", "q">>, <<"ftp", Unknown>>}}

PoolSymmetry == Permutations(Pool)
=============================================================================
