---------------------------- MODULE Computations ----------------------------
(***************************************************************************)
(* The pure algorithms, each on an input that grows by one piece per step: *)
(* an answer of the CLI, or the samples of two arms.                       *)
(***************************************************************************)
EXTENDS JsonExtraction, Statistics

CONSTANTS
    MaxProse,  \* bound: symbols on either side of the object
    MaxTasks   \* bound: observations of one arm

VARIABLES
    prose,    \* the text before the object, in an answer
    object,   \* the object itself
    trailer,  \* the text after it
    a, b      \* the samples of two arms

vars == <<prose, object, trailer, a, b>>

\* Init picks the algorithm: with no object, the samples grow.
Init ==
    /\ object \in Objects \cup {<<>>}
    /\ prose = <<>>
    /\ trailer = <<>>
    /\ a = <<>>
    /\ b = <<>>

\* Prose before the object has any symbol but a brace that opens.
AddProse(c) ==
    /\ object # <<>>
    /\ trailer = <<>>
    /\ Len(prose) < MaxProse
    /\ c # "open"
    /\ prose' = Append(prose, c)
    /\ UNCHANGED <<object, trailer, a, b>>

AddTrailer(c) ==
    /\ object # <<>>
    /\ Len(trailer) < MaxProse
    /\ trailer' = Append(trailer, c)
    /\ UNCHANGED <<prose, object, a, b>>

\* One arm is observed on its next task, or is not.
Observe(x) ==
    /\ object = <<>>
    /\ \/ Len(a) < MaxTasks /\ a' = Append(a, x) /\ UNCHANGED b
       \/ Len(b) < MaxTasks /\ b' = Append(b, x) /\ UNCHANGED a
    /\ UNCHANGED <<prose, object, trailer>>

Next ==
    \/ \E c \in Symbols : AddProse(c) \/ AddTrailer(c)
    \/ \E x \in Observations : Observe(x)

Spec == Init /\ [][Next]_vars

-----------------------------------------------------------------------------
(* Properties.                                                             *)

(***************************************************************************)
(* Whatever prose precedes and follows it, braces and quotes in its own    *)
(* strings included, an answer's JSON object is found whole, if no brace   *)
(* opens before it.                                                        *)
(***************************************************************************)
ExtractsTheObject ==
    object # <<>> => StripCodeFences(prose \o object \o trailer) = object

(***************************************************************************)
(* What is reported of two arms side by side fits together.  The test and  *)
(* Cohen's d speak of the same pairs of tasks, and a p-value comes with    *)
(* both effect sizes, but for the unguarded division.  Cliff's delta is of *)
(* all that is known of each arm: it speaks of the tasks of the test when  *)
(* the arms lack the same ones, and only then.  It is antisymmetric, and 1 *)
(* exactly when all of one arm is above all of the other.                  *)
(***************************************************************************)
EffectSizesAgree ==
    LET delta == CliffDelta(a, b)
        d == PairedDifferences(a, b)
    IN  /\ DOMAIN d = Mask(a, b)
        /\ \A test \in PairwiseWilcoxon(a, b) :
              test.p_value = "number" =>
                 /\ delta[2] > 0
                 /\ CohensD(a, b) = "nan" => \A i \in Mask(a, b) : a[i] = b[i]
                 /\ delta[2] = test.n_pairs * test.n_pairs <=> Known(a) = Known(b)
        /\ CliffDelta(b, a) = <<-delta[1], delta[2]>>
        /\ delta[1] = delta[2] <=> \A i \in Known(a), j \in Known(b) : a[i] > b[j]

=============================================================================
