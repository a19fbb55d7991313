----------------------------- MODULE GCMPProofs -----------------------------
(***************************************************************************)
(* Proofs about GCMP, for any finite set of worktrees, any memories and    *)
(* evidence, any policies and any bounds.                                  *)
(***************************************************************************)
EXTENDS GCMP, SequenceTheorems, FiniteSetTheorems, WellFoundedInduction, TLAPS

Fields == {"hits", "source", "from", "promotion"}

\* The objects are objects, the backend counts, and it holds finitely many.
Shaped ==
    /\ health \in Health
    /\ IsFiniteSet(used) /\ stored \subseteq used
    /\ IsFiniteSet(views)
    /\ memory = [m \in Memories |-> memory[m]]
    /\ \A m \in Memories : DOMAIN memory[m] = Fields /\ memory[m].hits \in Nat

(* More hits never make a memory less eligible.                            *)
LEMMA EligibleMonotone ==
    ASSUME NEW m \in Memories, NEW h \in Nat, NEW i \in Nat, h <= i, Eligible(m, h)
    PROVE  Eligible(m, i)
<1> DEFINE q == MinHitRate * (IF Profile[m].support = 0 THEN 1 ELSE Profile[m].support)
<1>1. q \in Nat
  BY PolicyAssumption
<1>2. 100 * h >= q
  BY DEF Eligible
<1> HIDE DEF q
<1>3. 100 * i >= q
  BY <1>1, <1>2
<1>4. QED
  BY <1>3 DEF Eligible, q

(* What may be passed to the manager is a sequence.                        *)
LEMMA PassedSeq ==
    ASSUME NEW S, IsFiniteSet(S), NEW s \in Passed(S)
    PROVE  s \in Seq(S) /\ Len(s) \in Nat /\ DOMAIN s = 1..Len(s)
<1>1. PICK T \in SUBSET S : s \in SetToSeqs(T)
  BY DEF Passed, SetToAllKPermutations
<1>2. IsFiniteSet(T)
  BY FS_Subset
<1>3. Cardinality(T) \in Nat
  BY <1>2, FS_CardinalityType
<1>4. s \in [1..Cardinality(T) -> S]
  BY <1>1 DEF SetToSeqs
<1>5. s \in Seq(S)
  BY <1>3, <1>4
<1>6. QED
  BY <1>5, LenProperties

(* A memory is found by no more searches than there were.                  *)
LEMMA FoundAtMost ==
    ASSUME NEW n \in Nat, NEW samples, DOMAIN samples = 1..n, NEW m
    PROVE  Cardinality(Finds(m, samples)) \in Nat /\ Cardinality(Finds(m, samples)) <= n
<1>1. IsFiniteSet(1..n) /\ Cardinality(1..n) = n
  BY FS_Interval
<1>2. Finds(m, samples) \subseteq 1..n
  BY DEF Finds
<1>3. QED
  BY <1>1, <1>2, FS_Subset, FS_CardinalityType

\* A step that makes n searches: each memory gains at most n hits, and what was
\* promoted before stays so, or is judged by hits no more than those it has now.
Searching(n) ==
    /\ health' = [health EXCEPT !.n_searches = health.n_searches + n]
    /\ UNCHANGED <<stored, used>>
    /\ IsFiniteSet(views')
    /\ memory' = [m \in Memories |-> memory'[m]]
    /\ \A m \in Memories :
          /\ DOMAIN memory'[m] = Fields
          /\ memory'[m].hits \in Nat
          /\ memory[m].hits <= memory'[m].hits
          /\ memory'[m].hits <= memory[m].hits + n
          /\ \/ memory'[m].promotion = memory[m].promotion
             \/ \E h \in Nat : h <= memory'[m].hits /\ Eligible(m, h)

PInv == Shaped /\ PromotionEarned

LEMMA SearchingKeeps ==
    ASSUME PInv, NEW n \in Nat, Searching(n)
    PROVE  PInv'
<1>1. health.n_searches \in Nat /\ health' \in Health /\ health'.n_searches = health.n_searches + n
  BY DEF PInv, Shaped, Searching, Health
<1>2. Shaped'
  <2>1. IsFiniteSet(used') /\ stored' \subseteq used' /\ IsFiniteSet(views')
    BY DEF PInv, Shaped, Searching
  <2>2. memory' = [m \in Memories |-> memory'[m]]
        /\ \A m \in Memories : DOMAIN memory'[m] = Fields /\ memory'[m].hits \in Nat
    BY DEF Searching
  <2>3. QED
    BY <1>1, <2>1, <2>2 DEF Shaped
<1>3. ASSUME NEW m \in Memories
      PROVE  /\ memory'[m].hits <= health'.n_searches
             /\ memory'[m].promotion # None => Eligible(m, memory'[m].hits)
  <2>1. /\ memory[m].hits \in Nat /\ memory'[m].hits \in Nat
        /\ memory[m].hits <= health.n_searches
        /\ memory[m].hits <= memory'[m].hits /\ memory'[m].hits <= memory[m].hits + n
        /\ memory[m].promotion # None => Eligible(m, memory[m].hits)
    BY DEF PInv, Shaped, PromotionEarned, Searching
  <2>2. memory'[m].hits <= health'.n_searches
    BY <1>1, <2>1
  <2>3. ASSUME memory'[m].promotion # None PROVE Eligible(m, memory'[m].hits)
    <3>1. CASE memory'[m].promotion = memory[m].promotion
      BY <2>1, <2>3, <3>1, EligibleMonotone
    <3>2. CASE \E h \in Nat : h <= memory'[m].hits /\ Eligible(m, h)
      BY <2>1, <3>2, EligibleMonotone
    <3>3. QED
      BY <3>1, <3>2 DEF Searching
  <2>4. QED
    BY <2>2, <2>3
<1>4. PromotionEarned'
  BY <1>3 DEF PromotionEarned, Eligible
<1>5. QED
  BY <1>2, <1>4 DEF PInv

(* What a memory looks like after searches that found it. *)
LEMMA HitsFacts ==
    ASSUME PInv, NEW n \in Nat, NEW samples, DOMAIN samples = 1..n, NEW m \in Memories
    PROVE  /\ Hits(m, samples) \in Nat
           /\ memory[m].hits <= Hits(m, samples)
           /\ Hits(m, samples) <= memory[m].hits + n
<1>1. Cardinality(Finds(m, samples)) \in Nat /\ Cardinality(Finds(m, samples)) <= n
  BY FoundAtMost
<1>2. memory[m].hits \in Nat
  BY DEF PInv, Shaped
<1>3. QED
  BY <1>1, <1>2 DEF Hits

(* The steps that search.                                                  *)
LEMMA SearchSearches ==
    ASSUME PInv, Search
    PROVE  Searching(1)
<1>1. PICK sample \in Samples(K) :
        /\ memory' = [m \in Memories |-> [memory[m] EXCEPT !.hits = Hits(m, <<sample>>)]]
        /\ Searched(<<sample>>)
        /\ UNCHANGED <<stored, used, views>>
  BY DEF Search
<1>2. DOMAIN <<sample>> = 1..1 /\ Len(<<sample>>) = 1
  OBVIOUS
<1>3. ASSUME NEW m \in Memories
      PROVE  /\ DOMAIN memory'[m] = Fields
             /\ memory'[m].hits = Hits(m, <<sample>>)
             /\ memory'[m].promotion = memory[m].promotion
  BY <1>1 DEF PInv, Shaped, Fields
<1>4. ASSUME NEW m \in Memories
      PROVE  /\ Hits(m, <<sample>>) \in Nat
             /\ memory[m].hits <= Hits(m, <<sample>>)
             /\ Hits(m, <<sample>>) <= memory[m].hits + 1
  BY <1>2, HitsFacts
<1>5. memory' = [m \in Memories |-> memory'[m]]
  BY <1>1
<1>6. health' = [health EXCEPT !.n_searches = health.n_searches + 1]
  BY <1>1, <1>2 DEF Searched
<1>7. QED
  BY <1>1, <1>3, <1>4, <1>5, <1>6 DEF Searching, PInv, Shaped

LEMMA ForkSearches ==
    ASSUME PInv, NEW p, NEW w, Fork(p, w)
    PROVE  Searching(1)
<1>1. PICK inherited \in Inherits(stored) :
        memory' = [m \in Memories |->
                     [memory[m] EXCEPT !.hits = Hits(m, <<stored>>),
                                       !.from = IF m \in inherited THEN p.worktree ELSE @]]
  BY DEF Fork
<1>2. Searched(<<stored>>) /\ UNCHANGED <<stored, used>>
  BY DEF Fork
<1>3. DOMAIN <<stored>> = 1..1 /\ Len(<<stored>>) = 1
  OBVIOUS
<1>4. ASSUME NEW m \in Memories
      PROVE  /\ DOMAIN memory'[m] = Fields
             /\ memory'[m].hits = Hits(m, <<stored>>)
             /\ memory'[m].promotion = memory[m].promotion
  BY <1>1 DEF PInv, Shaped, Fields
<1>5. ASSUME NEW m \in Memories
      PROVE  /\ Hits(m, <<stored>>) \in Nat
             /\ memory[m].hits <= Hits(m, <<stored>>)
             /\ Hits(m, <<stored>>) <= memory[m].hits + 1
  BY <1>3, HitsFacts
<1>6. memory' = [m \in Memories |-> memory'[m]]
  BY <1>1
<1>7. health' = [health EXCEPT !.n_searches = health.n_searches + 1]
  BY <1>2, <1>3 DEF Searched
<1>8. IsFiniteSet(views')
  <2>1. \E kept : views' = views \cup {Forked(p, w, kept)}
    BY DEF Fork
  <2>2. QED
    BY <2>1, FS_AddElement DEF PInv, Shaped
<1>9. QED
  BY <1>2, <1>4, <1>5, <1>6, <1>7, <1>8 DEF Searching

(* The views a query or a promotion is passed are finitely many.           *)
LEMMA FewViews ==
    ASSUME PInv, NEW S \in SUBSET views
    PROVE  IsFiniteSet(S)
  BY FS_Subset DEF PInv, Shaped

LEMMA CrossQuerySearches ==
    ASSUME PInv, NEW p, NEW siblings, CrossQuery(p, siblings)
    PROVE  \E n \in Nat : Searching(n)
<1> DEFINE n == Len(siblings) + 1
<1>1. siblings \in Passed(Siblings(p)) /\ UNCHANGED <<stored, used, views>>
  BY DEF CrossQuery
<1>2. n \in Nat
  <2>1. IsFiniteSet(Siblings(p))
    BY FewViews DEF Siblings
  <2>2. QED
    BY <1>1, <2>1, PassedSeq
<1>3. PICK samples \in [1..n -> Samples(K)] :
        LET boosted(m) == {i \in Finds(m, samples) : i > 1 /\ policy.boost} IN
        /\ memory' = [m \in Memories |->
              [memory[m] EXCEPT
                  !.hits = Hits(m, samples),
                  !.source = IF boosted(m) = {} THEN @
                             ELSE siblings[Max(boosted(m)) - 1].worktree]]
        /\ Searched(samples)
  BY DEF CrossQuery
<1> HIDE DEF n
<1>4. DOMAIN samples = 1..n /\ Len(samples) = n
  <2>1. samples \in [1..n -> Samples(K)]
    BY <1>3
  <2>2. samples \in Seq(Samples(K))
    BY <1>2, <2>1
  <2>3. QED
    BY <1>2, <2>1, <2>2, LenProperties
<1>5. ASSUME NEW m \in Memories
      PROVE  /\ DOMAIN memory'[m] = Fields
             /\ memory'[m].hits = Hits(m, samples)
             /\ memory'[m].promotion = memory[m].promotion
  BY <1>3 DEF PInv, Shaped, Fields
<1>6. ASSUME NEW m \in Memories
      PROVE  /\ Hits(m, samples) \in Nat
             /\ memory[m].hits <= Hits(m, samples)
             /\ Hits(m, samples) <= memory[m].hits + n
  BY <1>2, <1>4, HitsFacts
<1>7. memory' = [m \in Memories |-> memory'[m]]
  BY <1>3
<1>8. health' = [health EXCEPT !.n_searches = health.n_searches + n]
  BY <1>3, <1>4 DEF Searched
<1>9. QED
  BY <1>1, <1>2, <1>5, <1>6, <1>7, <1>8 DEF Searching, PInv, Shaped

(* A memory is promoted by the hits of the listing that judged it, and the *)
(* listings after that one can only have added to them.                    *)
LEMMA PromoteEligibleSearches ==
    ASSUME PInv, NEW p, NEW own, PromoteEligible(p, own)
    PROVE  \E n \in Nat : Searching(n)
<1> DEFINE n == Len(own)
<1> DEFINE listings == [i \in 1..n |-> stored]
<1>1. own \in Passed({c \in views : c.parent = p.worktree}) /\ UNCHANGED <<stored, used, views>>
  BY DEF PromoteEligible
<1>2. n \in Nat /\ DOMAIN own = 1..n
  <2>1. IsFiniteSet({c \in views : c.parent = p.worktree})
    BY FewViews
  <2>2. QED
    BY <1>1, <2>1, PassedSeq
<1>3. /\ Searched(listings)
      /\ memory' = [m \in Memories |->
              [memory[m] EXCEPT
                  !.hits = Hits(m, listings),
                  !.promotion = IF Judged(m, own) = {} THEN @
                                ELSE own[Max(Judged(m, own))].worktree]]
  BY DEF PromoteEligible
<1>4. DOMAIN listings = 1..n /\ \A i \in 1..n : listings[i] = stored
  OBVIOUS
<1>5. Len(listings) = n
  <2>1. listings \in Seq({stored})
    BY <1>2, <1>4
  <2>2. QED
    BY <1>2, <1>4, <2>1, LenProperties
<1> HIDE DEF n, listings
<1>6. ASSUME NEW m \in Memories
      PROVE  /\ DOMAIN memory'[m] = Fields
             /\ memory'[m].hits = Hits(m, listings)
             /\ Judged(m, own) = {} => memory'[m].promotion = memory[m].promotion
  BY <1>3 DEF PInv, Shaped, Fields
<1>7. ASSUME NEW m \in Memories
      PROVE  /\ Hits(m, listings) \in Nat
             /\ memory[m].hits <= Hits(m, listings)
             /\ Hits(m, listings) <= memory[m].hits + n
  BY <1>2, <1>4, HitsFacts
<1>8. ASSUME NEW m \in Memories, Judged(m, own) # {}
      PROVE  \E h \in Nat : h <= memory'[m].hits /\ Eligible(m, h)
  <2>1. PICK i \in 1..n : m \in stored /\ Eligible(m, memory[m].hits + i)
    BY <1>2, <1>8 DEF Judged
  <2>2. Finds(m, listings) = 1..n
    BY <1>4, <2>1 DEF Finds
  <2>3. Cardinality(1..n) = n
    BY <1>2, FS_Interval
  <2>4. memory'[m].hits = memory[m].hits + n
    BY <1>6, <2>2, <2>3 DEF Hits
  <2>5. memory[m].hits \in Nat
    BY DEF PInv, Shaped
  <2>6. memory[m].hits + i \in Nat /\ memory[m].hits + i <= memory'[m].hits
    BY <1>2, <2>4, <2>5
  <2>7. QED
    BY <2>1, <2>6
<1>9. memory' = [m \in Memories |-> memory'[m]]
  BY <1>3
<1>10. health' = [health EXCEPT !.n_searches = health.n_searches + n]
  BY <1>3, <1>5 DEF Searched
<1>11. QED
  BY <1>1, <1>2, <1>6, <1>7, <1>8, <1>9, <1>10 DEF Searching, PInv, Shaped

LEMMA AddCounted ==
    ASSUME NEW h \in Health
    PROVE  /\ RecordOp(h, "add", FALSE) \in Health
           /\ RecordOp(h, "add", FALSE).n_searches = h.n_searches
<1>1. RecordOp(h, "add", FALSE) = [h EXCEPT !.n_adds = h.n_adds + 1]
  <2>1. PICK no \in BOOLEAN : no = FALSE
    OBVIOUS
  <2>2. RecordOp(h, "add", no) = [h EXCEPT !.n_adds = h.n_adds + 1]
    BY <2>1 DEF RecordOp, Health
  <2>3. QED
    BY <2>1, <2>2
<1>2. h.n_adds + 1 \in Nat
  BY DEF Health
<1>3. [h EXCEPT !.n_adds = h.n_adds + 1] \in Health
  BY <1>2 DEF Health
<1>4. [h EXCEPT !.n_adds = h.n_adds + 1].n_searches = h.n_searches
  BY DEF Health
<1>5. QED
  BY <1>1, <1>3, <1>4

(* The steps that search nothing.                                          *)
LEMMA OthersKeep ==
    ASSUME PInv,
           \/ AddNothing \/ Clear
           \/ \E w \in Worktrees, parent \in Worktrees : OpenView(w, parent)
           \/ UNCHANGED vars
    PROVE  PInv'
<1>1. memory' = memory /\ used' = used /\ stored' \subseteq used
  BY DEF AddNothing, OpenView, Clear, vars, PInv, Shaped
<1>2. health' \in Health /\ health'.n_searches = health.n_searches
  <2>1. health \in Health
    BY DEF PInv, Shaped
  <2>2. CASE AddNothing
    BY <2>1, <2>2, AddCounted DEF AddNothing
  <2>3. CASE Clear
    BY <2>1, <2>3 DEF Clear, Health
  <2>4. CASE UNCHANGED health
    BY <2>1, <2>4
  <2>5. QED
    BY <2>2, <2>3, <2>4 DEF OpenView, vars
<1>3. IsFiniteSet(views')
  <2>1. views' = views \/ \E v : views' = views \cup {v}
    BY DEF AddNothing, Clear, OpenView, vars
  <2>2. QED
    BY <2>1, FS_AddElement DEF PInv, Shaped
<1>4. QED
  BY <1>1, <1>2, <1>3 DEF PInv, Shaped, PromotionEarned, Eligible

LEMMA AddKeeps ==
    ASSUME PInv, Add
    PROVE  PInv'
<1>1. PICK m \in Memories \ used :
        /\ stored' = stored \cup {m}
        /\ used' = used \cup {m}
        /\ memory' = [memory EXCEPT ![m] = NewMemory]
        /\ health' = [RecordOp(health, "add", FALSE) EXCEPT !.n_memories = Cardinality(stored')]
  BY DEF Add
<1>2. IsFiniteSet(used') /\ stored' \subseteq used' /\ views' = views
  BY <1>1, FS_AddElement DEF PInv, Shaped, Add
<1>3. Cardinality(stored') \in Nat
  BY <1>2, FS_Subset, FS_CardinalityType
<1>4. health' \in Health /\ health'.n_searches = health.n_searches
  <2>1. RecordOp(health, "add", FALSE) \in Health
        /\ RecordOp(health, "add", FALSE).n_searches = health.n_searches
    BY AddCounted DEF PInv, Shaped
  <2>2. QED
    BY <1>1, <1>3, <2>1 DEF Health
<1>5. memory' = [k \in Memories |-> IF k = m THEN NewMemory ELSE memory[k]]
  BY <1>1 DEF PInv, Shaped
<1>6. DOMAIN NewMemory = Fields /\ NewMemory.hits = 0 /\ NewMemory.promotion = None
  BY DEF NewMemory, Fields
<1>7. Shaped'
  BY <1>2, <1>4, <1>5, <1>6 DEF PInv, Shaped
<1>8. health.n_searches \in Nat
  BY DEF PInv, Shaped, Health
<1>9. ASSUME NEW k \in Memories
      PROVE  /\ memory'[k].hits <= health'.n_searches
             /\ memory'[k].promotion # None => Eligible(k, memory'[k].hits)
  <2>1. CASE k = m
    BY <1>4, <1>5, <1>6, <1>8, <2>1
  <2>2. CASE k # m
    BY <1>4, <1>5, <2>2 DEF PInv, PromotionEarned
  <2>3. QED
    BY <2>1, <2>2
<1>10. PromotionEarned'
  BY <1>9 DEF PromotionEarned, Eligible
<1>11. QED
  BY <1>7, <1>10 DEF PInv

LEMMA PInvInit == Init => PInv
<1> SUFFICES ASSUME Init PROVE PInv
  OBVIOUS
<1>1. IsFiniteSet(used) /\ stored \subseteq used /\ IsFiniteSet(views)
  <2>1. IsFiniteSet(Roots)
    BY PolicyAssumption, FS_Subset
  <2>2. IsFiniteSet({NoInheritance(w, None) : w \in Roots})
    <3> DEFINE f == [w \in Roots |-> NoInheritance(w, None)]
    <3>1. f \in Surjection(Roots, {NoInheritance(w, None) : w \in Roots})
      BY DEF Surjection
    <3>2. QED
      BY <2>1, <3>1, FS_Surjection
  <2>3. QED
    BY <2>2, FS_EmptySet DEF Init
<1>2. health \in Health /\ health.n_searches = 0
  BY DEF Init, Health, FreshHealth
<1>3. memory = [m \in Memories |-> NewMemory]
  BY DEF Init
<1>4. DOMAIN NewMemory = Fields /\ NewMemory.hits = 0 /\ NewMemory.promotion = None
  BY DEF NewMemory, Fields
<1>5. QED
  BY <1>1, <1>2, <1>3, <1>4 DEF PInv, Shaped, PromotionEarned

LEMMA PInvNext == PInv /\ [Next]_vars => PInv'
<1> SUFFICES ASSUME PInv, [Next]_vars PROVE PInv'
  OBVIOUS
<1>1. CASE Add
  BY <1>1, AddKeeps
<1>2. CASE Search
  BY <1>2, SearchSearches, SearchingKeeps
<1>3. ASSUME NEW w \in Worktrees, NEW p \in views, Fork(p, w) PROVE PInv'
  BY <1>3, ForkSearches, SearchingKeeps
<1>4. ASSUME NEW p \in views, NEW children, CrossQuery(p, children) PROVE PInv'
  BY <1>4, CrossQuerySearches, SearchingKeeps
<1>5. ASSUME NEW p \in views, NEW children, PromoteEligible(p, children) PROVE PInv'
  BY <1>5, PromoteEligibleSearches, SearchingKeeps
<1>6. CASE \/ AddNothing \/ Clear
           \/ \E w \in Worktrees, parent \in Worktrees : OpenView(w, parent)
           \/ UNCHANGED vars
  BY <1>6, OthersKeep
<1>7. QED
  BY <1>1, <1>2, <1>3, <1>4, <1>5, <1>6 DEF Next

(***************************************************************************)
(* Promotion is earned, by searches the backend counted, however many      *)
(* worktrees fork, query and promote the same objects.                     *)
(***************************************************************************)
THEOREM PromotionsAreEarned == Spec => []PromotionEarned
<1>1. PInv => PromotionEarned
  BY DEF PInv
<1>2. QED
  BY PInvInit, PInvNext, <1>1, PTL DEF Spec

(***************************************************************************)
(* The trace of a mark.                                                    *)
(***************************************************************************)
TInv ==
    /\ memory = [m \in Memories |-> memory[m]]
    /\ \A m \in Memories : DOMAIN memory[m] = Fields
    /\ stored \subseteq Memories
    /\ views \subseteq View
    /\ InheritanceTraceable

\* Nothing is marked that was not: a mark stays as it is or is taken off.
Unmarked ==
    /\ memory' = [m \in Memories |-> memory'[m]]
    /\ \A m \in Memories : /\ DOMAIN memory'[m] = Fields
                           /\ memory'[m].from \in {None, memory[m].from}
    /\ stored' \subseteq Memories

(* Views are never closed or changed, so a step that marks nothing leaves  *)
(* every mark traceable.                                                   *)
LEMMA UnmarkedKeeps ==
    ASSUME TInv, Unmarked, views' \subseteq View, views \subseteq views'
    PROVE  TInv'
<1>1. ASSUME NEW m \in Memories, memory'[m].from # None
      PROVE  \E v \in views' : m \in v.inherited /\ v.from = memory'[m].from
  <2>1. memory'[m].from = memory[m].from
    BY <1>1 DEF Unmarked
  <2>2. QED
    BY <1>1, <2>1 DEF TInv, InheritanceTraceable
<1>2. InheritanceTraceable'
  BY <1>1 DEF InheritanceTraceable
<1>3. QED
  BY <1>2 DEF TInv, Unmarked

(* A fork marks the memories it hands to the view it makes.                *)
LEMMA ForkKeeps ==
    ASSUME TInv, NEW w \in Worktrees, NEW p \in views, Fork(p, w)
    PROVE  TInv'
<1>1. PICK inherited \in Inherits(stored) :
        /\ views' = views \cup {Forked(p, w, inherited)}
        /\ memory' = [m \in Memories |->
                        [memory[m] EXCEPT !.hits = Hits(m, <<stored>>),
                                          !.from = IF m \in inherited THEN p.worktree ELSE @]]
  BY DEF Fork
<1>2. stored' = stored
  BY DEF Fork
<1>3. inherited \subseteq Memories /\ p.worktree \in Worktrees
  BY DEF Inherits, TInv, View
<1> DEFINE fork == Forked(p, w, inherited)
<1>4. fork \in View /\ fork.inherited = inherited /\ fork.from = p.worktree
  BY <1>3 DEF Forked, View
<1>5. fork \in views' /\ views \subseteq views' /\ views' \subseteq View
  BY <1>1, <1>4 DEF TInv
<1>6. memory' = [m \in Memories |-> memory'[m]]
  BY <1>1
<1>7. ASSUME NEW m \in Memories
      PROVE  /\ DOMAIN memory'[m] = Fields
             /\ memory'[m].from = IF m \in inherited THEN p.worktree ELSE memory[m].from
  BY <1>1 DEF TInv, Fields
<1> HIDE DEF fork
<1>8. ASSUME NEW m \in Memories, memory'[m].from # None
      PROVE  \E v \in views' : m \in v.inherited /\ v.from = memory'[m].from
  <2>1. CASE m \in inherited
    BY <1>4, <1>5, <1>7, <2>1
  <2>2. CASE m \notin inherited
    BY <1>5, <1>7, <1>8, <2>2 DEF TInv, InheritanceTraceable
  <2>3. QED
    BY <2>1, <2>2
<1>9. InheritanceTraceable'
  BY <1>8 DEF InheritanceTraceable
<1>10. QED
  BY <1>2, <1>5, <1>6, <1>7, <1>9 DEF TInv

(* No other step marks anything.                                           *)
LEMMA SearchUnmarked ==
    ASSUME TInv, Search
    PROVE  Unmarked /\ views' = views
<1>1. PICK sample \in Samples(K) :
        memory' = [m \in Memories |-> [memory[m] EXCEPT !.hits = Hits(m, <<sample>>)]]
  BY DEF Search
<1>2. views' = views /\ stored' = stored
  BY DEF Search
<1>3. ASSUME NEW m \in Memories
      PROVE  DOMAIN memory'[m] = Fields /\ memory'[m].from = memory[m].from
  BY <1>1 DEF TInv, Fields
<1>4. memory' = [m \in Memories |-> memory'[m]]
  BY <1>1
<1>5. QED
  BY <1>2, <1>3, <1>4 DEF Unmarked, TInv

LEMMA CrossQueryUnmarked ==
    ASSUME TInv, NEW p, NEW siblings, CrossQuery(p, siblings)
    PROVE  Unmarked /\ views' = views
<1>1. PICK samples \in [1..(Len(siblings) + 1) -> Samples(K)] :
        LET boosted(m) == {i \in Finds(m, samples) : i > 1 /\ policy.boost} IN
        memory' = [m \in Memories |->
              [memory[m] EXCEPT
                  !.hits = Hits(m, samples),
                  !.source = IF boosted(m) = {} THEN @
                             ELSE siblings[Max(boosted(m)) - 1].worktree]]
  BY DEF CrossQuery
<1>2. views' = views /\ stored' = stored
  BY DEF CrossQuery
<1>3. ASSUME NEW m \in Memories
      PROVE  DOMAIN memory'[m] = Fields /\ memory'[m].from = memory[m].from
  BY <1>1 DEF TInv, Fields
<1>4. memory' = [m \in Memories |-> memory'[m]]
  BY <1>1
<1>5. QED
  BY <1>2, <1>3, <1>4 DEF Unmarked, TInv

LEMMA PromoteEligibleUnmarked ==
    ASSUME TInv, NEW p, NEW own, PromoteEligible(p, own)
    PROVE  Unmarked /\ views' = views
<1>1. LET listings == [i \in 1..Len(own) |-> stored]
      IN  memory' = [m \in Memories |->
             [memory[m] EXCEPT
                 !.hits = Hits(m, listings),
                 !.promotion = IF Judged(m, own) = {} THEN @
                               ELSE own[Max(Judged(m, own))].worktree]]
  BY DEF PromoteEligible
<1>2. views' = views /\ stored' = stored
  BY DEF PromoteEligible
<1>3. ASSUME NEW m \in Memories
      PROVE  DOMAIN memory'[m] = Fields /\ memory'[m].from = memory[m].from
  BY <1>1 DEF TInv, Fields
<1>4. memory' = [m \in Memories |-> memory'[m]]
  BY <1>1
<1>5. QED
  BY <1>2, <1>3, <1>4 DEF Unmarked, TInv

LEMMA AddUnmarked ==
    ASSUME TInv, Add
    PROVE  Unmarked /\ views' = views
<1>1. PICK m \in Memories \ used :
        stored' = stored \cup {m} /\ memory' = [memory EXCEPT ![m] = NewMemory]
  BY DEF Add
<1>2. views' = views /\ stored' \subseteq Memories
  BY <1>1 DEF Add, TInv
<1>3. memory' = [k \in Memories |-> IF k = m THEN NewMemory ELSE memory[k]]
  BY <1>1 DEF TInv
<1>4. DOMAIN NewMemory = Fields /\ NewMemory.from = None
  BY DEF NewMemory, Fields
<1>5. ASSUME NEW k \in Memories
      PROVE  DOMAIN memory'[k] = Fields /\ memory'[k].from \in {None, memory[k].from}
  BY <1>3, <1>4 DEF TInv
<1>6. memory' = [k \in Memories |-> memory'[k]]
  BY <1>3
<1>7. QED
  BY <1>2, <1>5, <1>6 DEF Unmarked

LEMMA OpenViewKeeps ==
    ASSUME TInv, NEW w \in Worktrees, NEW parent \in Worktrees, OpenView(w, parent)
    PROVE  TInv'
<1>1. Unmarked
  BY DEF OpenView, Unmarked, TInv
<1>2. NoInheritance(w, parent) \in View
  BY DEF NoInheritance, View
<1>3. QED
  BY <1>1, <1>2, UnmarkedKeeps DEF OpenView, TInv

LEMMA TInvInit == Init => TInv
<1> SUFFICES ASSUME Init PROVE TInv
  OBVIOUS
<1>1. memory = [m \in Memories |-> NewMemory] /\ stored = {}
  BY DEF Init
<1>2. DOMAIN NewMemory = Fields /\ NewMemory.from = None
  BY DEF NewMemory, Fields
<1>3. \A w \in Worktrees : NoInheritance(w, None) \in View
  BY DEF NoInheritance, View
<1>4. views \subseteq View
  BY <1>3, PolicyAssumption DEF Init
<1>5. QED
  BY <1>1, <1>2, <1>4 DEF TInv, InheritanceTraceable

LEMMA TInvNext == TInv /\ [Next]_vars => TInv'
<1> SUFFICES ASSUME TInv, [Next]_vars PROVE TInv'
  OBVIOUS
<1>1. ASSUME Unmarked, views' = views PROVE TInv'
  BY <1>1, UnmarkedKeeps DEF TInv
<1>2. CASE Add
  BY <1>1, <1>2, AddUnmarked
<1>3. CASE Search
  BY <1>1, <1>3, SearchUnmarked
<1>4. ASSUME NEW w \in Worktrees, NEW parent \in Worktrees, OpenView(w, parent) PROVE TInv'
  BY <1>4, OpenViewKeeps
<1>5. ASSUME NEW w \in Worktrees, NEW p \in views, Fork(p, w) PROVE TInv'
  BY <1>5, ForkKeeps
<1>6. ASSUME NEW p \in views, NEW children, CrossQuery(p, children) PROVE TInv'
  BY <1>1, <1>6, CrossQueryUnmarked
<1>7. ASSUME NEW p \in views, NEW children, PromoteEligible(p, children) PROVE TInv'
  BY <1>1, <1>7, PromoteEligibleUnmarked
<1>8. CASE AddNothing \/ Clear \/ UNCHANGED vars
  <2>1. memory' = memory /\ views' = views /\ stored' \in {stored, {}}
    BY <1>8 DEF AddNothing, Clear, vars
  <2>2. Unmarked
    BY <2>1 DEF Unmarked, TInv
  <2>3. QED
    BY <1>1, <2>1, <2>2
<1>9. QED
  BY <1>2, <1>3, <1>4, <1>5, <1>6, <1>7, <1>8 DEF Next

(***************************************************************************)
(* Every mark of inheritance names the parent of a view forked with that   *)
(* memory: forks are the only steps that mark, and views stay as made.     *)
(***************************************************************************)
THEOREM MarksAreTraceable == Spec => []InheritanceTraceable
<1>1. TInv => InheritanceTraceable
  BY DEF TInv
<1>2. QED
  BY TInvInit, TInvNext, <1>1, PTL DEF Spec

(***************************************************************************)
(* Types.                                                                  *)
(***************************************************************************)

(* A finite, non-empty set of integers has a largest element.  Induction   *)
(* is out of reach; among the sets of what is larger than some element, one *)
(* has no proper subset among them, and that one is empty.                 *)
LEMMA MaxIsThere ==
    ASSUME NEW S \in SUBSET Int, IsFiniteSet(S), S # {}
    PROVE  Max(S) \in S
<1> DEFINE Above(x) == {y \in S : y > x}
<1> DEFINE T == {Above(x) : x \in S}
<1>1. IsWellFoundedOn(StrictSubsetOrdering(S), SUBSET S)
  BY FS_StrictSubsetOrderingWellFounded, FS_FiniteSubsetsOfFinite
<1>2. T \subseteq SUBSET S /\ T # {}
  OBVIOUS
<1>3. \E A \in T : \A B \in T : <<B, A>> \notin StrictSubsetOrdering(S)
  <2> HIDE DEF T
  <2>1. QED
    BY <1>1, <1>2, WFMin
<1>4. PICK x \in S : \A y \in S : <<Above(y), Above(x)>> \notin StrictSubsetOrdering(S)
  BY <1>3
<1>5. ASSUME NEW y \in S, y > x PROVE FALSE
  <2>1. Above(y) \subseteq Above(x)
    <3>1. ASSUME NEW z \in S, z > y PROVE z > x
      <4>1. x \in Int /\ y \in Int /\ z \in Int
        OBVIOUS
      <4>2. QED
        BY <1>5, <3>1, <4>1
    <3>2. QED
      BY <3>1
  <2>2. y \in Above(x) /\ y \notin Above(y)
    BY <1>5
  <2>3. Above(y) \in SUBSET S /\ Above(x) \in SUBSET S
    OBVIOUS
  <2> HIDE DEF Above
  <2>4. <<Above(y), Above(x)>> \in StrictSubsetOrdering(S)
    BY <2>1, <2>2, <2>3 DEF StrictSubsetOrdering
  <2>5. QED
    BY <1>4, <2>4
<1>6. \A y \in S : x >= y
  BY <1>5
<1>7. QED
  BY <1>6 DEF Max

(* What the steps that search write into the objects.                      *)
LEMMA MemoryTyped ==
    ASSUME TypeOK, NEW m \in Memories,
           NEW hits \in Nat, NEW w \in Worktrees \cup {None},
           memory'[m] \in {[memory[m] EXCEPT !.hits = hits],
                           [memory[m] EXCEPT !.hits = hits, !.source = w],
                           [memory[m] EXCEPT !.hits = hits, !.from = w],
                           [memory[m] EXCEPT !.hits = hits, !.promotion = w]}
    PROVE  memory'[m] \in Memory
<1>1. memory[m] \in Memory
  BY DEF TypeOK
<1>2. QED
  BY <1>1 DEF Memory

LEMMA SearchTyped ==
    ASSUME TypeOK, PInv, Search
    PROVE  memory' \in [Memories -> Memory]
<1>1. PICK sample \in Samples(K) :
        memory' = [m \in Memories |-> [memory[m] EXCEPT !.hits = Hits(m, <<sample>>)]]
  BY DEF Search
<1>2. ASSUME NEW m \in Memories PROVE memory'[m] \in Memory
  <2>1. DOMAIN <<sample>> = 1..1
    OBVIOUS
  <2>2. Hits(m, <<sample>>) \in Nat
    BY <2>1, HitsFacts
  <2>3. memory'[m] = [memory[m] EXCEPT !.hits = Hits(m, <<sample>>)]
    BY <1>1
  <2>4. QED
    BY <2>2, <2>3, MemoryTyped
<1>3. QED
  BY <1>1, <1>2

LEMMA ForkTyped ==
    ASSUME TypeOK, PInv, NEW p \in views, NEW w, Fork(p, w)
    PROVE  memory' \in [Memories -> Memory]
<1>1. PICK inherited \in Inherits(stored) :
        memory' = [m \in Memories |->
                     [memory[m] EXCEPT !.hits = Hits(m, <<stored>>),
                                       !.from = IF m \in inherited THEN p.worktree ELSE @]]
  BY DEF Fork
<1>2. ASSUME NEW m \in Memories PROVE memory'[m] \in Memory
  <2>1. DOMAIN <<stored>> = 1..1
    OBVIOUS
  <2>2. Hits(m, <<stored>>) \in Nat
    BY <2>1, HitsFacts
  <2>3. memory[m].from \in Worktrees \cup {None} /\ p.worktree \in Worktrees
    BY DEF TypeOK, Memory, View
  <2>4. memory'[m] = [memory[m] EXCEPT !.hits = Hits(m, <<stored>>),
                                       !.from = IF m \in inherited THEN p.worktree ELSE memory[m].from]
    BY <1>1
  <2>5. QED
    BY <2>2, <2>3, <2>4, MemoryTyped
<1>3. QED
  BY <1>1, <1>2

LEMMA CrossQueryTyped ==
    ASSUME TypeOK, PInv, NEW p, NEW siblings, CrossQuery(p, siblings)
    PROVE  memory' \in [Memories -> Memory]
<1> DEFINE n == Len(siblings) + 1
<1>1. siblings \in Seq(View) /\ Len(siblings) \in Nat /\ DOMAIN siblings = 1..Len(siblings)
  <2>1. siblings \in Passed(Siblings(p)) /\ Siblings(p) \in SUBSET View /\ IsFiniteSet(Siblings(p))
    BY FewViews DEF CrossQuery, Siblings, TypeOK
  <2>2. siblings \in Seq(Siblings(p)) /\ Len(siblings) \in Nat /\ DOMAIN siblings = 1..Len(siblings)
    BY <2>1, PassedSeq
  <2>3. QED
    BY <2>1, <2>2
<1> DEFINE boosted(samples, m) == {i \in Finds(m, samples) : i > 1 /\ policy.boost}
<1>2. PICK samples \in [1..n -> Samples(K)] :
        memory' = [m \in Memories |->
              [memory[m] EXCEPT
                  !.hits = Hits(m, samples),
                  !.source = IF boosted(samples, m) = {} THEN @
                             ELSE siblings[Max(boosted(samples, m)) - 1].worktree]]
  BY DEF CrossQuery
<1>3. n \in Nat /\ DOMAIN samples = 1..n
  <2>1. n \in Nat
    BY <1>1
  <2>2. samples \in [1..n -> Samples(K)]
    BY <1>2
  <2> HIDE DEF n
  <2>3. QED
    BY <2>1, <2>2
<1>4. ASSUME NEW m \in Memories PROVE memory'[m] \in Memory
  <2> DEFINE b == boosted(samples, m)
  <2> DEFINE source == IF b = {} THEN memory[m].source ELSE siblings[Max(b) - 1].worktree
  <2>1. Hits(m, samples) \in Nat
    BY <1>3, HitsFacts
  <2>2. b \subseteq 2..n
    BY <1>1, <1>3 DEF Finds
  <2>3. memory'[m] = [memory[m] EXCEPT !.hits = Hits(m, samples), !.source = source]
    BY <1>2
  <2> HIDE DEF boosted
  <2>4. b # {} => siblings[Max(b) - 1].worktree \in Worktrees
    <3>1. IsFiniteSet(b) /\ b \in SUBSET Int
      <4>1. IsFiniteSet(2..n)
        BY <1>3, FS_Interval
      <4>2. 2..n \subseteq Int
        OBVIOUS
      <4> HIDE DEF n
      <4>3. QED
        BY <2>2, <4>1, <4>2, FS_Subset
    <3>2. b # {} => Max(b) \in 2..n
      BY <2>2, <3>1, MaxIsThere
    <3>3. b # {} => Max(b) - 1 \in DOMAIN siblings
      BY <1>1, <3>2
    <3>4. b # {} => siblings[Max(b) - 1] \in View
      BY <1>1, <3>3
    <3>5. QED
      BY <3>4 DEF View
  <2>5. memory[m].source \in Worktrees \cup {None}
    BY DEF TypeOK, Memory
  <2>6. source \in Worktrees \cup {None}
    BY <2>4, <2>5
  <2> HIDE DEF source
  <2>7. QED
    BY <2>1, <2>3, <2>6, MemoryTyped
<1>5. QED
  BY <1>2, <1>4

LEMMA PromoteEligibleTyped ==
    ASSUME TypeOK, PInv, NEW p, NEW own, PromoteEligible(p, own)
    PROVE  memory' \in [Memories -> Memory]
<1> DEFINE n == Len(own)
<1> DEFINE listings == [i \in 1..n |-> stored]
<1>1. own \in Seq(View) /\ n \in Nat /\ DOMAIN own = 1..n
  <2> DEFINE S == {c \in views : c.parent = p.worktree}
  <2>1. own \in Passed(S) /\ S \in SUBSET View /\ IsFiniteSet(S)
    BY FewViews DEF PromoteEligible, TypeOK
  <2> HIDE DEF S
  <2>2. own \in Seq(S) /\ n \in Nat /\ DOMAIN own = 1..n
    BY <2>1, PassedSeq
  <2>3. QED
    BY <2>1, <2>2
<1>2. memory' = [m \in Memories |->
        [memory[m] EXCEPT
            !.hits = Hits(m, listings),
            !.promotion = IF Judged(m, own) = {} THEN @
                          ELSE own[Max(Judged(m, own))].worktree]]
  BY DEF PromoteEligible
<1>3. DOMAIN listings = 1..n
  OBVIOUS
<1> HIDE DEF n, listings
<1>4. ASSUME NEW m \in Memories PROVE memory'[m] \in Memory
  <2> DEFINE promotion == IF Judged(m, own) = {} THEN memory[m].promotion
                          ELSE own[Max(Judged(m, own))].worktree
  <2>1. Hits(m, listings) \in Nat
    BY <1>1, <1>3, HitsFacts
  <2>2. memory'[m] = [memory[m] EXCEPT !.hits = Hits(m, listings), !.promotion = promotion]
    BY <1>2
  <2>3. Judged(m, own) # {} => own[Max(Judged(m, own))].worktree \in Worktrees
    <3>1. Judged(m, own) \subseteq 1..n
      BY <1>1 DEF Judged
    <3>2. IsFiniteSet(Judged(m, own)) /\ Judged(m, own) \in SUBSET Int
      <4>1. IsFiniteSet(1..n) /\ 1..n \subseteq Int
        BY <1>1, FS_Interval
      <4>2. QED
        BY <3>1, <4>1, FS_Subset
    <3>3. Judged(m, own) # {} => Max(Judged(m, own)) \in 1..n
      BY <3>1, <3>2, MaxIsThere
    <3>4. Judged(m, own) # {} => own[Max(Judged(m, own))] \in View
      BY <1>1, <3>3
    <3>5. QED
      BY <3>4 DEF View
  <2>4. memory[m].promotion \in Worktrees \cup {None}
    BY DEF TypeOK, Memory
  <2>5. promotion \in Worktrees \cup {None}
    BY <2>3, <2>4
  <2> HIDE DEF promotion
  <2>6. QED
    BY <2>1, <2>2, <2>5, MemoryTyped
<1>5. QED
  BY <1>2, <1>4

LEMMA AddTyped ==
    ASSUME TypeOK, Add
    PROVE  memory' \in [Memories -> Memory] /\ stored' \subseteq used' /\ used' \subseteq Memories
<1>1. NewMemory \in Memory
  BY DEF NewMemory, Memory
<1>2. QED
  BY <1>1 DEF Add, TypeOK

LEMMA TypeNext == TypeOK /\ PInv /\ PInv' /\ TInv' /\ [Next]_vars => TypeOK'
<1> SUFFICES ASSUME TypeOK, PInv, PInv', TInv', [Next]_vars PROVE TypeOK'
  OBVIOUS
<1>1. ASSUME memory' \in [Memories -> Memory], stored' \subseteq used', used' \subseteq Memories,
             policy' = policy
      PROVE  TypeOK'
  BY <1>1 DEF TypeOK, PInv, Shaped, TInv
<1>2. ASSUME memory' \in [Memories -> Memory], UNCHANGED <<policy, stored, used>>
      PROVE  TypeOK'
  BY <1>1, <1>2 DEF TypeOK
<1>3. CASE Add
  <2>1. policy' = policy
    BY <1>3 DEF Add
  <2>2. QED
    BY <1>1, <1>3, <2>1, AddTyped
<1>4. CASE Search
  <2>1. UNCHANGED <<policy, stored, used>>
    BY <1>4 DEF Search
  <2>2. QED
    BY <1>2, <1>4, <2>1, SearchTyped
<1>5. ASSUME NEW w \in Worktrees, NEW p \in views, Fork(p, w) PROVE TypeOK'
  <2>1. UNCHANGED <<policy, stored, used>>
    BY <1>5 DEF Fork
  <2>2. QED
    BY <1>2, <1>5, <2>1, ForkTyped
<1>6. ASSUME NEW p \in views, NEW children, CrossQuery(p, children) PROVE TypeOK'
  <2>1. UNCHANGED <<policy, stored, used>>
    BY <1>6 DEF CrossQuery
  <2>2. QED
    BY <1>2, <1>6, <2>1, CrossQueryTyped
<1>7. ASSUME NEW p \in views, NEW children, PromoteEligible(p, children) PROVE TypeOK'
  <2>1. UNCHANGED <<policy, stored, used>>
    BY <1>7 DEF PromoteEligible
  <2>2. QED
    BY <1>2, <1>7, <2>1, PromoteEligibleTyped
<1>8. CASE \/ AddNothing \/ Clear
           \/ \E w \in Worktrees, parent \in Worktrees : OpenView(w, parent)
           \/ UNCHANGED vars
  <2>1. memory' = memory /\ used' = used /\ stored' \in {stored, {}} /\ policy' = policy
    BY <1>8 DEF AddNothing, OpenView, Clear, vars
  <2>2. QED
    BY <1>1, <2>1 DEF TypeOK
<1>9. QED
  BY <1>3, <1>4, <1>5, <1>6, <1>7, <1>8 DEF Next

(***************************************************************************)
(* The type invariant: what a query or a promotion writes into a memory is *)
(* always the name of a worktree.                                          *)
(***************************************************************************)
THEOREM TypeCorrect == Spec => []TypeOK
<1>1. Init => TypeOK
  <2> SUFFICES ASSUME Init PROVE TypeOK
    OBVIOUS
  <2>1. NewMemory \in Memory
    BY DEF NewMemory, Memory
  <2>2. health \in Health /\ views \subseteq View
    BY PInvInit, TInvInit DEF PInv, Shaped, TInv
  <2>3. QED
    BY <2>1, <2>2 DEF Init, TypeOK
<1>2. QED
  BY <1>1, PInvInit, PInvNext, TInvInit, TInvNext, TypeNext, PTL DEF Spec

=============================================================================
