------------------------------- MODULE MCGCMP -------------------------------
(* Instances of GCMP for TLC. *)
EXTENDS GCMP

CONSTANTS m1, m2

\* m1 has a durable tag and evidence enough for promotion, m2 is well supported
\* and disputed.
MCProfile ==
    [m \in Memories |->
        IF m = m1 THEN [durable |-> TRUE, support |-> 2, conflicts |-> 1, delta |-> 5]
        ELSE [durable |-> FALSE, support |-> 3, conflicts |-> 2, delta |-> 5]]

Default == [enabled |-> TRUE, visibility |-> "same_parent_branch", boost |-> TRUE]

MCPolicies == {Default, [Default EXCEPT !.visibility = "all", !.boost = FALSE],
               [Default EXCEPT !.enabled = FALSE]}

=============================================================================
