-------------------------------- MODULE GCMP --------------------------------
(***************************************************************************)
(* Governed sharing of memories between git worktrees                      *)
(* (governance/cross_worktree.py) over the backend its tests run it on,    *)
(* memory/random_backend.py.                                               *)
(*                                                                         *)
(* The backend keeps Memory objects in a list and hands out the objects    *)
(* themselves: every search changes their hit_count, and what a fork, a    *)
(* query or a promotion writes into the metadata of a result stays there   *)
(* for everyone.  It ignores the scope of a search, as base.py allows.     *)
(* Scores are random, so any k results may come out on top.  The manager's *)
(* register of worktrees is left out: only a summary counts it.            *)
(***************************************************************************)
EXTENDS BackendHealth, SequencesExt

CONSTANTS
    Worktrees,    \* worktree ids
    Roots,        \* worktrees whose views are made directly, not by a fork
    Memories,     \* memory ids (uuids: none is used twice)
    Profile,      \* the evidence a memory was given (support_count, metadata, ...)
    Policies,     \* configurations of CrossQueryPolicy
    MinSupport, MinHitRate, MaxConflicts, MinDelta,    \* PromotionPolicy, in %
    MaxInherit,   \* InheritancePolicy
    K,            \* how many results a query asks for
    None,
    MaxAdds, MaxSearches,   \* bounds
    MaxViews                \* bound: views there may be at once

ASSUME PolicyAssumption ==
    /\ IsFiniteSet(Worktrees)
    /\ Roots \subseteq Worktrees
    /\ None \notin Worktrees
    /\ Policies \subseteq [enabled: BOOLEAN,
                           visibility: {"all", "same_parent_branch", "none"},
                           boost: BOOLEAN]
    /\ {MinSupport, MinHitRate, MaxConflicts, MinDelta, MaxInherit, K, MaxAdds,
        MaxSearches, MaxViews} \subseteq Nat
    /\ \A m \in Memories : Profile[m] \in [durable: BOOLEAN, support: Nat,
                                           conflicts: Nat, delta: Int]

VARIABLES
    policy,    \* the manager's cross_query_policy
    stored,    \* the backend's _memories
    used,      \* ids handed out so far
    memory,    \* the Memory objects
    views,     \* the WorktreeMemoryViews made so far: two may be of one worktree
    health     \* the backend's health record

vars == <<policy, stored, used, memory, views, health>>

\* hits is hit_count; source, from and promotion are source_worktree,
\* inherited_from and promotion_source in the metadata (None: absent).
\* Its scope is not modelled: nothing reads it.
Memory == [hits: Nat, source: Worktrees \cup {None}, from: Worktrees \cup {None},
           promotion: Worktrees \cup {None}]

NewMemory == [hits |-> 0, source |-> None, from |-> None, promotion |-> None]

\* parent is parent_branch; inherited and from are what a fork sets.
View == [worktree: Worktrees, parent: Worktrees \cup {None},
         inherited: SUBSET Memories, from: Worktrees \cup {None}]

NoInheritance(w, parent) ==
    [worktree |-> w, parent |-> parent, inherited |-> {}, from |-> None]

TypeOK ==
    /\ policy \in Policies
    /\ stored \subseteq used
    /\ used \subseteq Memories
    /\ memory \in [Memories -> Memory]
    /\ views \subseteq View
    /\ health \in Health

Init ==
    /\ policy \in Policies
    /\ stored = {}
    /\ used = {}
    /\ memory = [m \in Memories |-> NewMemory]
    /\ views = {NoInheritance(w, None) : w \in Roots}
    /\ health = [FreshHealth EXCEPT !.healthy = TRUE]

-----------------------------------------------------------------------------
(* RandomBackend.                                                          *)

Lesser(a, b) == IF a < b THEN a ELSE b

\* What one search for k results may return.
Samples(k) ==
    {S \in SUBSET stored : Cardinality(S) = Lesser(k, Cardinality(stored))}

\* The searches that returned memory m.
Finds(m, samples) == {i \in DOMAIN samples : m \in samples[i]}

\* Mutant: several searches for one request are counted as one.
SearchedOnce(samples) ==
    health' = [health EXCEPT !.n_searches = @ + 1]

\* The searches made one after the other: each is counted, and each hit is.
Searched(samples) ==
    health' = [health EXCEPT !.n_searches = @ + Len(samples)]

Hits(m, samples) == memory[m].hits + Cardinality(Finds(m, samples))

MaySearch(n) == health.n_searches + n <= MaxSearches

-----------------------------------------------------------------------------
(* WorktreeMemoryView.                                                     *)

\* A view made directly, as the tests do for sibling worktrees.
OpenView(w, parent) ==
    /\ Cardinality(views) < MaxViews
    /\ views' = views \cup {NoInheritance(w, parent)}
    /\ UNCHANGED <<policy, stored, used, memory, health>>

\* Mutant: ids come from the text, not from uuid4.
AddWithoutId ==
    /\ views # {}
    /\ health.n_adds < MaxAdds
    /\ \E m \in Memories :
          /\ stored' = stored \cup {m}
          /\ memory' = [memory EXCEPT ![m] = NewMemory]
    /\ health' = [RecordOp(health, "add", FALSE) EXCEPT !.n_memories = Cardinality(stored')]
    /\ UNCHANGED <<policy, used, views>>

\* Through any view: the backend is the same.
Add ==
    /\ views # {}
    /\ health.n_adds < MaxAdds
    /\ \E m \in Memories \ used :
          /\ stored' = stored \cup {m}
          /\ used' = used \cup {m}
          /\ memory' = [memory EXCEPT ![m] = NewMemory]
    /\ health' = [RecordOp(health, "add", FALSE) EXCEPT !.n_memories = Cardinality(stored')]
    /\ UNCHANGED <<policy, views>>

\* Nothing substantive in the turns.
AddNothing ==
    /\ views # {}
    /\ health.n_adds < MaxAdds
    /\ health' = RecordOp(health, "add", FALSE)
    /\ UNCHANGED <<policy, stored, used, memory, views>>

Search ==
    /\ views # {}
    /\ MaySearch(1)
    /\ \E sample \in Samples(K) :
          /\ memory' = [m \in Memories |-> [memory[m] EXCEPT !.hits = Hits(m, <<sample>>)]]
          /\ Searched(<<sample>>)
    /\ UNCHANGED <<policy, stored, used, views>>

\* The results handed out earlier keep the objects, the backend forgets them.
Clear ==
    /\ stored # {}
    /\ stored' = {}
    /\ health' = [health EXCEPT !.n_memories = 0]
    /\ UNCHANGED <<policy, used, memory, views>>

-----------------------------------------------------------------------------
(* GCMPManager.                                                            *)

\* The default predicate: a durable tag, or support enough.
Inheritable(m) == Profile[m].durable \/ Profile[m].support >= 3

\* InheritancePolicy.apply on a list in any order.  The cap is looked at after
\* a memory was appended, so a cap of 0 lets one through.
Inherits(candidates) ==
    LET cap   == IF MaxInherit = 0 THEN 1 ELSE MaxInherit
        fits  == {m \in candidates : Inheritable(m)}
    IN  {S \in SUBSET fits : Cardinality(S) = Lesser(cap, Cardinality(fits))}

Forked(p, w, inherited) ==
    [worktree |-> w, parent |-> p.worktree, inherited |-> inherited, from |-> p.worktree]

\* Mutant: the candidates are stamped, not those the policy let through.
ForkStampsAll(p, w) ==
    /\ p \in views /\ Cardinality(views) < MaxViews
    /\ MaySearch(1)
    /\ \E inherited \in Inherits(stored) :
          /\ views' = views \cup {Forked(p, w, inherited)}
          /\ memory' = [m \in Memories |->
                          [memory[m] EXCEPT !.hits = Hits(m, <<stored>>),
                                            !.from = IF m \in stored THEN p.worktree ELSE @]]
    /\ Searched(<<stored>>)
    /\ UNCHANGED <<policy, stored, used>>

\* fork_worktree lists the memories of the parent view by searching for 200 of
\* them, and makes a view of w, whether or not there is one.
Fork(p, w) ==
    /\ p \in views /\ Cardinality(views) < MaxViews
    /\ MaySearch(1)
    /\ \E inherited \in Inherits(stored) :
          /\ views' = views \cup {Forked(p, w, inherited)}
          /\ memory' = [m \in Memories |->
                          [memory[m] EXCEPT !.hits = Hits(m, <<stored>>),
                                            !.from = IF m \in inherited THEN p.worktree ELSE @]]
    /\ Searched(<<stored>>)
    /\ UNCHANGED <<policy, stored, used>>

\* The child views passed to the manager: any of the views in S, in any order.
Passed(S) == SetToAllKPermutations(S)

\* The views a query of p may look into.
Siblings(p) ==
    {c \in views : /\ policy.enabled
                   /\ \/ policy.visibility = "all"
                      \/ policy.visibility = "same_parent_branch" /\ c.parent = p.worktree}

\* What the query returns is left out; what it writes into the objects it was
\* handed, returned or not, stays there.
CrossQuery(p, siblings) ==
    /\ p \in views
    /\ siblings \in Passed(Siblings(p))
    /\ MaySearch(Len(siblings) + 1)
    /\ \E samples \in [1..(Len(siblings) + 1) -> Samples(K)] :
          LET boosted(m) == {i \in Finds(m, samples) : i > 1 /\ policy.boost} IN
          /\ memory' = [m \in Memories |->
                [memory[m] EXCEPT
                    !.hits = Hits(m, samples),
                    !.source = IF boosted(m) = {} THEN @
                               ELSE siblings[Max(boosted(m)) - 1].worktree]]
          /\ Searched(samples)
    /\ UNCHANGED <<policy, stored, used, views>>

\* is_eligible. The cooldown looks for last_promotion_attempt_utc, which nothing
\* writes (promote_eligible writes promotion_attempt_utc), so it never applies.
Eligible(m, hits) ==
    /\ Profile[m].support >= MinSupport
    /\ 100 * hits >= MinHitRate * (IF Profile[m].support = 0 THEN 1 ELSE Profile[m].support)
    /\ Profile[m].conflicts <= MaxConflicts
    /\ Profile[m].delta >= MinDelta

\* The children in whose listing memory m passes: each listing is a hit.
Judged(m, own) ==
    {i \in DOMAIN own : m \in stored /\ Eligible(m, memory[m].hits + i)}

\* promote_eligible lists the memories of each child by searching for 500, and
\* judges them after the hits of that search.
PromoteEligible(p, own) ==
    /\ p \in views
    /\ own \in Passed({c \in views : c.parent = p.worktree})
    /\ own # <<>>
    /\ MaySearch(Len(own))
    /\ LET listings == [i \in 1..Len(own) |-> stored]
       IN  /\ Searched(listings)
           /\ memory' = [m \in Memories |->
                 [memory[m] EXCEPT
                     !.hits = Hits(m, listings),
                     !.promotion = IF Judged(m, own) = {} THEN @
                                   ELSE own[Max(Judged(m, own))].worktree]]
    /\ UNCHANGED <<policy, stored, used, views>>

Next ==
    \/ Add \/ AddNothing \/ Search \/ Clear
    \/ \E w \in Worktrees : \/ \E parent \in Worktrees : OpenView(w, parent)
                            \/ \E p \in views : Fork(p, w)
    \/ \E p \in views, children \in Passed(views) :
          CrossQuery(p, children) \/ PromoteEligible(p, children)

Spec == Init /\ [][Next]_vars

-----------------------------------------------------------------------------
(* Properties.                                                             *)

(***************************************************************************)
(* Promotion is earned ("all conditions must be satisfied jointly"): a     *)
(* memory that was ever promoted met every threshold and meets them still, *)
(* and hit_count, the numerator of the rate it was judged by, is never     *)
(* more than the searches the backend counted, although forks, cross       *)
(* queries and promotion scans search too, several times each, and         *)
(* everybody holds the same object.                                        *)
(***************************************************************************)
PromotionEarned ==
    \A m \in Memories :
        /\ memory[m].hits <= health.n_searches
        /\ memory[m].promotion # None => Eligible(m, memory[m].hits)

(***************************************************************************)
(* The inherited_from mark of a memory can be traced: it names the parent  *)
(* of a view that was forked with that memory, of another worktree or of   *)
(* the same again.  (The other way round does not hold: the mark of a      *)
(* later fork replaces that of an earlier one.)                            *)
(***************************************************************************)
InheritanceTraceable ==
    \A m \in Memories : memory[m].from # None =>
        \E v \in views : m \in v.inherited /\ v.from = memory[m].from

=============================================================================
