------------------------- MODULE MCToolCorrelation -------------------------
(* Instances of ToolCorrelation for TLC. *)
EXTENDS ToolCorrelation, TLC

CONSTANTS c1, c2, a1, bash, edit

MCToolOf == [c \in Calls |-> IF c = a1 THEN edit ELSE bash]

Symmetry == Permutations({c1, c2})

=============================================================================
