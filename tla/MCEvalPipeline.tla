--------------------------- MODULE MCEvalPipeline ---------------------------
(* Instances of EvalPipeline for TLC. *)
EXTENDS EvalPipeline, TLC

CONSTANTS t1, t2, t3, s1, s2

\* Session s1 was resumed: it has two transcripts.
MCSessionOf == [t \in Transcripts |-> IF t = t2 THEN s2 ELSE s1]

Symmetry == Permutations(Runners) \cup Permutations({t1, t3} \cap Transcripts)

=============================================================================
