------------------------------ MODULE MCAcGpu ------------------------------
(***************************************************************************)
(* AcGpu for TLC: three bytes, two of which differ in case only, every     *)
(* list of up to three patterns, and texts in which patterns overlap.      *)
(***************************************************************************)
EXTENDS AcGpu

MCBytes == {"a", "A", "b"}
MCUpper == [c \in MCBytes |-> IF c = "a" THEN "A" ELSE c]

\* Every word of up to three converted bytes, and two that conversion changes.
ManyWords == (SeqOf({"A", "b"}, 3) \ {<<>>}) \cup {<<"a">>, <<"a", "b">>}
FewTexts == {<<"a", "b", "A">>, <<"A", "A", "b", "a", "b">>}
=============================================================================
