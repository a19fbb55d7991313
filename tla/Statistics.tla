----------------------------- MODULE Statistics -----------------------------
(***************************************************************************)
(* How the statistics of the evaluation choose and compare observations    *)
(* (eval/stats.py).  A sample is the sequence of one arm's observations,   *)
(* task by task; NaN marks a task without one.  The numbers scipy makes of *)
(* the pairs are not modelled.                                             *)
(***************************************************************************)
EXTENDS Integers, Sequences, FiniteSets, FiniteSetsExt

CONSTANTS
    Values,  \* bound: what can be observed, integers
    NaN,     \* no observation
    MinPairs \* pairs below which no test is made (5)

ASSUME SampleAssumption ==
    /\ Values \subseteq Int
    /\ NaN \notin Int
    /\ MinPairs \in Nat \ {0, 1}

Observations == Values \cup {NaN}

\* The tasks both samples have, numbered from the start of the shorter.
Common(a, b) == DOMAIN a \cap DOMAIN b

Known(a) == {i \in DOMAIN a : a[i] # NaN}

-----------------------------------------------------------------------------

\* Mutant: each arm drops its own gaps before the arms are matched.
MaskSeparately(a, b) ==
    1..Min({Cardinality(Known(a)), Cardinality(Known(b))})

\* pairwise_wilcoxon: the pairs left when those with a NaN are masked.
Mask(a, b) == {i \in Common(a, b) : ~(a[i] = NaN \/ b[i] = NaN)}

\* What the test can report of two arms: no p-value below the minimum, and none
\* but an error where scipy raises.
PairwiseWilcoxon(a, b) ==
    LET n == Cardinality(Mask(a, b))
    IN  {[n_pairs |-> n, p_value |-> "nan", error |-> n >= MinPairs]}
            \cup IF n < MinPairs THEN {}
                 ELSE {[n_pairs |-> n, p_value |-> v, error |-> FALSE] : v \in {"nan", "number"}}

\* cohens_d, paired: the differences, of which those that are NaN are dropped.
Differences(a, b) ==
    [i \in Common(a, b) |-> IF NaN \in {a[i], b[i]} THEN NaN ELSE a[i] - b[i]]

PairedDifferences(a, b) ==
    LET d == Differences(a, b)
    IN  [i \in {j \in DOMAIN d : d[j] # NaN} |-> d[i]]

\* At least two differences.  When they are all equal their deviation is 0, and
\* the division by it is not guarded: an infinity, or a NaN.
CohensD(a, b) ==
    LET d == PairedDifferences(a, b)
        equal == \A i, j \in DOMAIN d : d[i] = d[j]
    IN  IF Cardinality(DOMAIN d) < 2 THEN "nan"
        ELSE IF ~equal THEN "finite"
        ELSE IF \E i \in DOMAIN d : d[i] # 0 THEN "infinite"
        ELSE "nan"

Greater(a, b) == Cardinality({p \in Known(a) \X Known(b) : a[p[1]] > b[p[2]]})

\* cliff_delta as a fraction, <<0, 0>> for its NaN.
CliffDelta(a, b) ==
    <<Greater(a, b) - Greater(b, a), Cardinality(Known(a)) * Cardinality(Known(b))>>

=============================================================================
