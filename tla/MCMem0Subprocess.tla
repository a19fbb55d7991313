-------------------------- MODULE MCMem0Subprocess --------------------------
(* Instances of Mem0Subprocess for TLC. *)
EXTENDS Mem0Subprocess, TLC

CONSTANT Home   \* the scope all callers share

MCHomeScope == [c \in Callers |-> Home]

Symmetry == Permutations(Callers) \cup Permutations(Facts)

\* Health records are written and never read by a step, and with timeouts of
\* zero the clocks stand still: states that differ in nothing else have the
\* same behaviours, as far as calls, locks and store can tell.
ProtocolView ==
    <<pc, call, [c \in Callers |-> [worker[c] EXCEPT !.h = FreshHealth]],
      lock, folder, store, result>>

=============================================================================
