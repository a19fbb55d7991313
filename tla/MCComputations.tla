--------------------------- MODULE MCComputations ---------------------------
(* Instances of Computations for TLC. *)
EXTENDS Computations

=============================================================================
