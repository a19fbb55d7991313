------------------------- MODULE ComputationsProofs -------------------------
(***************************************************************************)
(* What the pure algorithms compute, for inputs of every length.  The      *)
(* recursive functions of the model are followed by an induction that is   *)
(* stated of a set of numbers (AllNumbers), so that no lemma takes an      *)
(* operator as a parameter.                                                *)
(***************************************************************************)
EXTENDS Computations, FiniteSetTheorems, NaturalsInduction, WellFoundedInduction,
        SequenceTheorems, TLAPS

\* The inputs the steps build.
InputsType ==
    /\ prose \in Seq(Symbols \ {"open"})
    /\ object \in Objects \cup {<<>>}
    /\ trailer \in Seq(Symbols)
    /\ a \in Seq(Observations)
    /\ b \in Seq(Observations)

(***************************************************************************)
(* The prose before the object has no opening brace, and the samples hold  *)
(* integers and gaps.                                                      *)
(***************************************************************************)
THEOREM InputsTyped == Spec => []InputsType
<1>1. Init => InputsType
  BY DEF Init, InputsType
<1>2. InputsType /\ [Next]_vars => InputsType'
  <2> SUFFICES ASSUME InputsType, [Next]_vars PROVE InputsType'
    OBVIOUS
  <2> USE DEF InputsType
  <2>1. ASSUME NEW c \in Symbols, AddProse(c) PROVE InputsType'
    BY <2>1 DEF AddProse
  <2>2. ASSUME NEW c \in Symbols, AddTrailer(c) PROVE InputsType'
    BY <2>2 DEF AddTrailer
  <2>3. ASSUME NEW x \in Observations, Observe(x) PROVE InputsType'
    <3>1. UNCHANGED <<prose, object, trailer>>
      BY <2>3 DEF Observe
    <3>2. \/ a' = Append(a, x) /\ b' = b
          \/ b' = Append(b, x) /\ a' = a
      BY <2>3 DEF Observe
    <3>3. Append(a, x) \in Seq(Observations) /\ Append(b, x) \in Seq(Observations)
      OBVIOUS
    <3>4. a' \in Seq(Observations) /\ b' \in Seq(Observations)
      BY <3>2, <3>3
    <3>5. QED
      BY <3>1, <3>4
  <2>4. CASE UNCHANGED vars
    BY <2>4 DEF vars
  <2>5. QED
    BY <2>1, <2>2, <2>3, <2>4 DEF Next
<1>3. QED
  BY <1>1, <1>2, PTL DEF Spec

-----------------------------------------------------------------------------
(* Recursive functions.                                                    *)

(* Induction, as a statement about a set of numbers. *)
LEMMA AllNumbers ==
    ASSUME NEW S, 0 \in S, \A n \in Nat : n \in S => n + 1 \in S
    PROVE  Nat \subseteq S
<1> DEFINE T == Nat \ S
           Less == OpToRel(<, Nat)
<1> SUFFICES ASSUME T # {} PROVE FALSE
  OBVIOUS
<1>1. IsWellFoundedOn(Less, Nat)
  BY NatLessThanWellFounded
<1>2. T \subseteq Nat
  OBVIOUS
<1>3. PICK m \in T : \A n \in T : ~(<<n, m>> \in Less)
  <2> HIDE DEF T, Less
  <2>1. QED
    BY <1>1, <1>2, WFMin
<1>4. \A n \in Nat : n < m => n \in S
  BY <1>2, <1>3 DEF OpToRel
<1>5. m # 0 /\ m \in Nat
  BY <1>3
<1>6. m - 1 \in Nat /\ m - 1 < m /\ (m - 1) + 1 = m
  BY <1>5
<1>7. QED
  BY <1>3, <1>4, <1>6

\* The values of a recursive function on an interval: F is its step.
Recursion(N, V, v, F) ==
    \E f \in [0..N -> V] : /\ f[0] = v
                           /\ \A i \in 1..N : f[i] = F[<<i, f[i - 1]>>]

(* A recursive function on an interval exists, whatever its step is. *)
LEMMA RecursionExists ==
    ASSUME NEW N \in Nat, NEW V, NEW v \in V, NEW F \in [(1..N) \X V -> V]
    PROVE  Recursion(N, V, v, F)
<1> DEFINE Upto(k, f) == /\ f \in [0..k -> V]
                         /\ f[0] = v
                         /\ \A i \in 1..k : f[i] = F[<<i, f[i - 1]>>]
           S == {k \in Nat : k <= N => \E f : Upto(k, f)}
<1>1. 0 \in S
  <2>1. Upto(0, [i \in 0..0 |-> v])
    OBVIOUS
  <2>2. QED
    BY <2>1
<1>2. ASSUME NEW k \in Nat, k \in S PROVE k + 1 \in S
  <2> SUFFICES ASSUME k + 1 <= N PROVE \E f : Upto(k + 1, f)
    OBVIOUS
  <2>1. PICK f : Upto(k, f)
    BY <1>2
  <2> DEFINE g == [i \in 0..(k + 1) |-> IF i <= k THEN f[i] ELSE F[<<k + 1, f[k]>>]]
  <2>2. f[k] \in V /\ F[<<k + 1, f[k]>>] \in V
    BY <2>1
  <2>3. g \in [0..(k + 1) -> V]
    BY <2>1, <2>2
  <2>4. ASSUME NEW i \in 1..(k + 1) PROVE g[i] = F[<<i, g[i - 1]>>]
    <3>1. CASE i \in 1..k
      <4>1. g[i] = f[i] /\ g[i - 1] = f[i - 1]
        BY <3>1
      <4>2. QED
        BY <2>1, <3>1, <4>1
    <3>2. CASE i = k + 1
      <4>1. g[i] = F[<<k + 1, f[k]>>] /\ g[i - 1] = f[k]
        BY <3>2
      <4>2. QED
        BY <3>2, <4>1
    <3>3. QED
      BY <3>1, <3>2
  <2>5. g[0] = v
    BY <2>1
  <2>6. Upto(k + 1, g)
    BY <2>3, <2>4, <2>5
  <2>7. QED
    BY <2>6
<1>3. N \in S
  <2> HIDE DEF S
  <2>1. QED
    BY <1>1, <1>2, AllNumbers
<1>4. PICK f : Upto(N, f)
  BY <1>3
<1>5. QED
  BY <1>4 DEF Recursion

ScanState == [depth: Int, in_str: BOOLEAN, escape: BOOLEAN]

LEMMA ReadType ==
    ASSUME NEW scan \in ScanState, NEW c
    PROVE  Read(scan, c) \in ScanState
<1>1. Depth(scan.depth, c) \in Int
  <2>1. scan.depth \in Int
    BY DEF ScanState
  <2>2. CASE c \in {"open", "close"}
    BY <2>1, <2>2 DEF Depth
  <2>3. CASE c \notin {"open", "close"}
    BY <2>1, <2>3 DEF Depth
  <2>4. QED
    BY <2>2, <2>3
<1>2. QED
  BY <1>1 DEF ScanState, Read

(* The scan reads symbol after symbol. *)
LEMMA ScansReads ==
    ASSUME NEW s \in Seq(Symbols)
    PROVE  /\ Scans(s)[0] = Scan
           /\ \A i \in 1..Len(s) : Scans(s)[i] = Read(Scans(s)[i - 1], s[i])
<1> DEFINE N == Len(s)
           F == [p \in (1..N) \X ScanState |-> Read(p[2], s[p[1]])]
           Is(f) == f = [i \in 0..N |-> IF i = 0 THEN Scan ELSE Read(f[i - 1], s[i])]
<1>1. N \in Nat /\ Scan \in ScanState
  BY DEF Scan, ScanState
<1>2. F \in [(1..N) \X ScanState -> ScanState]
  <2>1. \A p \in (1..N) \X ScanState : Read(p[2], s[p[1]]) \in ScanState
    BY ReadType
  <2>2. QED
    BY <2>1
<1>3. \E f \in [0..N -> ScanState] : f[0] = Scan /\ \A i \in 1..N : f[i] = F[<<i, f[i - 1]>>]
  <2> HIDE DEF N, F
  <2>1. Recursion(N, ScanState, Scan, F)
    BY <1>1, <1>2, RecursionExists
  <2>2. QED
    BY <2>1 DEF Recursion
<1>4. \E f : Is(f)
  <2>1. PICK f \in [0..N -> ScanState] :
                f[0] = Scan /\ \A i \in 1..N : f[i] = F[<<i, f[i - 1]>>]
    BY <1>3
  <2>2. ASSUME NEW i \in 1..N PROVE F[<<i, f[i - 1]>>] = Read(f[i - 1], s[i])
    <3>1. f[i - 1] \in ScanState
      BY <1>1, <2>2
    <3>2. QED
      BY <3>1
  <2> HIDE DEF F, N
  <2>3. ASSUME NEW i \in 0..N
        PROVE  f[i] = IF i = 0 THEN Scan ELSE Read(f[i - 1], s[i])
    <3>1. CASE i = 0
      BY <2>1, <3>1
    <3>2. CASE i \in 1..N
      <4>1. i # 0
        BY <1>1, <3>2
      <4>2. QED
        BY <2>1, <2>2, <3>2, <4>1
    <3>3. QED
      BY <1>1, <3>1, <3>2
  <2>4. Is(f)
    BY <2>3
  <2>5. QED
    BY <2>4
<1>5. Scans(s) = CHOOSE f : Is(f)
  BY DEF Scans
<1> HIDE DEF F, N
<1>6. Is(Scans(s))
  BY <1>4, <1>5
<1>7. QED
  BY <1>1, <1>6 DEF N

LEMMA UnitsType == \A u \in Units : u \in Seq(Symbols) /\ Len(u) \in 1..2
<1>1. ASSUME NEW c \in Symbols PROVE <<c>> \in Seq(Symbols) /\ Len(<<c>>) = 1
  OBVIOUS
<1>2. ASSUME NEW c \in Symbols, NEW d \in Symbols
      PROVE  <<c, d>> \in Seq(Symbols) /\ Len(<<c, d>>) = 2
  OBVIOUS
<1>3. {"open", "close", "colon", "letter", "backslash", "quote"} \subseteq Symbols
  BY DEF Symbols
<1>4. ASSUME NEW u \in Units PROVE u \in Seq(Symbols) /\ Len(u) \in 1..2
  <2>1. CASE u \in {<<c>> : c \in {"open", "close", "colon", "letter"}}
    <3>1. PICK c \in Symbols : u = <<c>>
      BY <1>3, <2>1
    <3>2. QED
      BY <1>1, <3>1
  <2>2. CASE u \in {<<"backslash", c>> : c \in {"quote", "backslash", "letter"}}
    <3>1. PICK c \in Symbols : u = <<"backslash", c>>
      BY <1>3, <2>2
    <3>2. QED
      BY <1>2, <1>3, <3>1
  <2>3. QED
    BY <2>1, <2>2 DEF Units
<1>5. QED
  BY <1>4

\* The texts of one character more.
Longer(T) == {t \o u : t \in T, u \in Units}

(* The texts of a string are texts, each a shorter one and a character. *)
LEMMA TextsGrow ==
    /\ Texts[0] = {<<>>}
    /\ \A n \in 1..MaxUnits : Texts[n] = Longer(Texts[n - 1])
<1> DEFINE V == SUBSET Seq(Symbols)
           F == [p \in (1..MaxUnits) \X V |-> Longer(p[2])]
           Is(f) == f = [n \in 0..MaxUnits |-> IF n = 0 THEN {<<>>} ELSE Longer(f[n - 1])]
<1>1. MaxUnits \in Nat /\ {<<>>} \in V
  BY UnitsAssumption
<1>2. ASSUME NEW T \in V PROVE Longer(T) \in V
  <2>1. ASSUME NEW t \in T, NEW u \in Units PROVE t \o u \in Seq(Symbols)
    <3>1. t \in Seq(Symbols) /\ u \in Seq(Symbols)
      BY UnitsType
    <3>2. QED
      BY <3>1
  <2>2. ASSUME NEW w \in Longer(T) PROVE w \in Seq(Symbols)
    <3>1. PICK t \in T, u \in Units : w = t \o u
      BY DEF Longer
    <3>2. QED
      BY <2>1, <3>1
  <2>3. QED
    BY <2>2
<1>3. F \in [(1..MaxUnits) \X V -> V]
  <2> HIDE DEF V
  <2>1. \A p \in (1..MaxUnits) \X V : Longer(p[2]) \in V
    BY <1>2
  <2>2. QED
    BY <2>1
<1>4. PICK f \in [0..MaxUnits -> V] :
              f[0] = {<<>>} /\ \A i \in 1..MaxUnits : f[i] = F[<<i, f[i - 1]>>]
  <2> HIDE DEF V, F
  <2>1. Recursion(MaxUnits, V, {<<>>}, F)
    BY <1>1, <1>3, RecursionExists
  <2>2. QED
    BY <2>1 DEF Recursion
<1>5. ASSUME NEW i \in 1..MaxUnits PROVE f[i] = Longer(f[i - 1])
  <2> HIDE DEF V
  <2>1. f[i - 1] \in V
    BY <1>1
  <2>2. QED
    BY <1>4, <2>1
<1> HIDE DEF F, V
<1>6. Is(f)
  <2>1. ASSUME NEW i \in 0..MaxUnits
        PROVE  f[i] = IF i = 0 THEN {<<>>} ELSE Longer(f[i - 1])
    <3>1. CASE i = 0
      BY <1>4, <3>1
    <3>2. CASE i \in 1..MaxUnits
      BY <1>1, <1>5, <3>2
    <3>3. QED
      BY <1>1, <3>1, <3>2
  <2>2. QED
    BY <2>1
<1>7. Texts = CHOOSE g : Is(g)
  BY DEF Texts, Longer
<1>8. Is(Texts)
  BY <1>6, <1>7
<1>9. QED
  <2>1. \A n \in 0..MaxUnits : Texts[n] = IF n = 0 THEN {<<>>} ELSE Longer(Texts[n - 1])
    BY <1>8
  <2>2. ASSUME NEW n \in 1..MaxUnits PROVE Texts[n] = Longer(Texts[n - 1])
    <3>1. n \in 0..MaxUnits /\ n # 0
      BY <1>1
    <3>2. QED
      BY <2>1, <3>1
  <2>3. Texts[0] = {<<>>}
    <3>1. 0 \in 0..MaxUnits
      BY <1>1
    <3>2. QED
      BY <2>1, <3>1
  <2>4. \A n \in 1..MaxUnits : Texts[n] = Longer(Texts[n - 1])
    BY <2>2
  <2>5. QED
    BY <2>3, <2>4

-----------------------------------------------------------------------------
(* Passages of the scan.                                                   *)

\* The text t is found in s after its first k symbols.
Fits(s, k, t) ==
    /\ k + Len(t) <= Len(s)
    /\ \A i \in 1..Len(t) : s[k + i] = t[i]

\* A scan that comes to t in state x leaves it in state y and is inside a
\* brace all the while.
Passes(t, x, y) ==
    \A s \in Seq(Symbols), k \in Nat :
        Fits(s, k, t) /\ Scans(s)[k] = x =>
            /\ Scans(s)[k + Len(t)] = y
            /\ \A i \in 1..Len(t) : Scans(s)[k + i].depth > 0

LEMMA FitsConcat ==
    ASSUME NEW s \in Seq(Symbols), NEW k \in Nat, NEW t \in Seq(Symbols), NEW u \in Seq(Symbols),
           Fits(s, k, t \o u)
    PROVE  Fits(s, k, t) /\ Fits(s, k + Len(t), u)
<1>1. /\ Len(t \o u) = Len(t) + Len(u)
      /\ \A i \in 1..Len(t) : (t \o u)[i] = t[i]
      /\ \A i \in 1..Len(u) : (t \o u)[Len(t) + i] = u[i]
  OBVIOUS
<1>2. Len(t) \in Nat /\ Len(u) \in Nat /\ Len(s) \in Nat
  OBVIOUS
<1>3. \A i \in 1..Len(t \o u) : s[k + i] = (t \o u)[i]
  BY DEF Fits
<1>4. ASSUME NEW i \in 1..Len(t) PROVE s[k + i] = t[i]
  BY <1>1, <1>2, <1>3
<1>5. ASSUME NEW i \in 1..Len(u) PROVE s[k + Len(t) + i] = u[i]
  <2>1. Len(t) + i \in 1..Len(t \o u) /\ k + (Len(t) + i) = k + Len(t) + i
    BY <1>1, <1>2
  <2>2. QED
    BY <1>1, <1>3, <2>1
<1>6. k + Len(t) <= Len(s) /\ k + Len(t) + Len(u) <= Len(s)
  BY <1>1, <1>2 DEF Fits
<1>7. QED
  BY <1>4, <1>5, <1>6 DEF Fits

LEMMA PassesConcat ==
    ASSUME NEW t \in Seq(Symbols), NEW u \in Seq(Symbols), NEW x, NEW y, NEW z,
           Passes(t, x, y), Passes(u, y, z)
    PROVE  Passes(t \o u, x, z)
<1> SUFFICES ASSUME NEW s \in Seq(Symbols), NEW k \in Nat,
                    Fits(s, k, t \o u), Scans(s)[k] = x
             PROVE  /\ Scans(s)[k + Len(t \o u)] = z
                    /\ \A i \in 1..Len(t \o u) : Scans(s)[k + i].depth > 0
  BY DEF Passes
<1>1. Fits(s, k, t) /\ Fits(s, k + Len(t), u)
  BY FitsConcat
<1>2. Len(t) \in Nat /\ Len(u) \in Nat /\ Len(t \o u) = Len(t) + Len(u)
  OBVIOUS
<1>3. /\ Scans(s)[k + Len(t)] = y
      /\ \A i \in 1..Len(t) : Scans(s)[k + i].depth > 0
  BY <1>1 DEF Passes
<1>4. k + Len(t) \in Nat
  BY <1>2
<1>5. /\ Scans(s)[k + Len(t) + Len(u)] = z
      /\ \A i \in 1..Len(u) : Scans(s)[k + Len(t) + i].depth > 0
  BY <1>1, <1>3, <1>4 DEF Passes
<1>6. k + Len(t \o u) = k + Len(t) + Len(u)
  BY <1>2
<1>7. ASSUME NEW i \in 1..Len(t \o u) PROVE Scans(s)[k + i].depth > 0
  <2>1. CASE i \in 1..Len(t)
    BY <1>3, <2>1
  <2>2. CASE i > Len(t)
    <3>1. i - Len(t) \in 1..Len(u) /\ k + Len(t) + (i - Len(t)) = k + i
      BY <1>2, <2>2
    <3>2. QED
      BY <1>5, <3>1
  <2>3. QED
    BY <1>2, <2>1, <2>2
<1>8. QED
  BY <1>5, <1>6, <1>7

LEMMA PassesSymbol ==
    ASSUME NEW c \in Symbols, NEW x, NEW y, y = Read(x, c), y.depth > 0
    PROVE  Passes(<<c>>, x, y)
<1> SUFFICES ASSUME NEW s \in Seq(Symbols), NEW k \in Nat,
                    Fits(s, k, <<c>>), Scans(s)[k] = x
             PROVE  /\ Scans(s)[k + 1] = y
                    /\ \A i \in 1..1 : Scans(s)[k + i].depth > 0
  BY DEF Passes
<1>1. k + 1 \in 1..Len(s) /\ s[k + 1] = c
  BY DEF Fits
<1>2. (k + 1) - 1 = k
  OBVIOUS
<1>3. Scans(s)[k + 1] = Read(Scans(s)[k], c)
  BY <1>1, <1>2, ScansReads
<1>4. QED
  BY <1>3

LEMMA PassesNothing == ASSUME NEW x PROVE Passes(<<>>, x, x)
BY DEF Passes

\* The states of a scan between the symbols of an object.
InString   == [depth |-> 1, in_str |-> TRUE, escape |-> FALSE]
Escaped    == [depth |-> 1, in_str |-> TRUE, escape |-> TRUE]
Outside(d) == [depth |-> d, in_str |-> FALSE, escape |-> FALSE]

LEMMA Reads ==
    /\ \A c \in {"open", "close", "colon", "letter"} : Read(InString, c) = InString
    /\ Read(InString, "backslash") = Escaped
    /\ Read(InString, "quote") = Outside(1)
    /\ \A c \in Symbols : Read(Escaped, c) = InString
    /\ Read(Outside(1), "quote") = InString
    /\ Read(Outside(1), "colon") = Outside(1)
    /\ Read(Outside(1), "open") = Outside(2)
    /\ Read(Outside(2), "close") = Outside(1)
    /\ Read(Outside(1), "close") = Outside(0)
    /\ Read(Scan, "open") = Outside(1)
<1> USE DEF InString, Escaped, Outside, Scan
<1>1. /\ \A d \in Int : Depth(d, "open") = d + 1 /\ Depth(d, "close") = d - 1
      /\ \A d \in Int : Depth(d, "quote") = d /\ Depth(d, "colon") = d
  BY DEF Depth
<1>2. ASSUME NEW c, c # "backslash", c # "quote" PROVE Read(InString, c) = InString
  BY <1>2 DEF Read
<1>3. Read(InString, "backslash") = Escaped
  BY DEF Read
<1>4. Read(InString, "quote") = Outside(1)
  BY DEF Read
<1>5. ASSUME NEW c PROVE Read(Escaped, c) = InString
  BY DEF Read
<1>6. ASSUME NEW d \in Int, NEW c, NEW e \in Int, Depth(d, c) = e, c # "quote"
      PROVE  Read(Outside(d), c) = Outside(e)
  BY <1>6 DEF Read
<1>7. Read(Outside(1), "quote") = InString
  <2>1. Depth(1, "quote") = 1
    BY <1>1
  <2>2. Read(Outside(1), "quote") = [Outside(1) EXCEPT !.in_str = TRUE, !.depth = 1]
    BY <2>1 DEF Read
  <2>3. QED
    BY <2>2
<1>8. Scan = Outside(0)
  OBVIOUS
<1> HIDE DEF InString, Escaped, Outside, Scan
<1>9. /\ Read(Outside(1), "colon") = Outside(1)
      /\ Read(Outside(1), "open") = Outside(2)
      /\ Read(Outside(2), "close") = Outside(1)
      /\ Read(Outside(1), "close") = Outside(0)
      /\ Read(Outside(0), "open") = Outside(1)
  BY <1>1, <1>6
<1>10. QED
  BY <1>2, <1>3, <1>4, <1>5, <1>7, <1>8, <1>9

LEMMA PairConcat == ASSUME NEW c, NEW d PROVE <<c>> \o <<d>> = <<c, d>>
<1> DEFINE S == {c, d}
           p == <<c>> \o <<d>>
           q == <<c, d>>
<1>1. <<c>> \in Seq(S) /\ <<d>> \in Seq(S) /\ q \in Seq(S)
  OBVIOUS
<1>2. p \in Seq(S) /\ Len(p) = 2 /\ p[1] = c /\ p[2] = d
  BY <1>1
<1>3. Len(q) = 2 /\ q[1] = c /\ q[2] = d
  OBVIOUS
<1> HIDE DEF p, q, S
<1>4. p = q
  BY <1>1, <1>2, <1>3, SeqEqual
<1>5. QED
  BY <1>4 DEF p, q

LEMMA SymbolsHas == {"open", "close", "quote", "backslash", "colon", "letter"} = Symbols
BY DEF Symbols

(* A character, escaped or not, leaves the scan inside the string. *)
LEMMA UnitsPass == \A u \in Units : Passes(u, InString, InString)
<1>1. InString.depth > 0 /\ Escaped.depth > 0
  BY DEF InString, Escaped
<1>2. ASSUME NEW c \in {"open", "close", "colon", "letter"} PROVE Passes(<<c>>, InString, InString)
  BY <1>1, Reads, PassesSymbol, SymbolsHas
<1>3. ASSUME NEW c \in {"quote", "backslash", "letter"}
      PROVE  Passes(<<"backslash", c>>, InString, InString)
  <2>1. c \in Symbols /\ "backslash" \in Symbols
    BY SymbolsHas
  <2>2. Passes(<<"backslash">>, InString, Escaped)
    BY <1>1, <2>1, Reads, PassesSymbol
  <2>3. Passes(<<c>>, Escaped, InString)
    BY <1>1, <2>1, Reads, PassesSymbol
  <2>4. <<"backslash">> \in Seq(Symbols) /\ <<c>> \in Seq(Symbols)
    BY <2>1
  <2>5. <<"backslash">> \o <<c>> = <<"backslash", c>>
    BY PairConcat
  <2>6. Passes(<<"backslash">> \o <<c>>, InString, InString)
    BY <2>2, <2>3, <2>4, PassesConcat
  <2>7. QED
    BY <2>5, <2>6
<1>4. QED
  BY <1>2, <1>3 DEF Units

(* So does a text of any length. *)
LEMMA TextsPass ==
    \A n \in 0..MaxUnits : \A t \in Texts[n] : t \in Seq(Symbols) /\ Passes(t, InString, InString)
<1> DEFINE Good(n) == \A t \in Texts[n] : t \in Seq(Symbols) /\ Passes(t, InString, InString)
           S == {n \in Nat : n <= MaxUnits => Good(n)}
<1>1. 0 \in S
  <2>1. Texts[0] = {<<>>} /\ <<>> \in Seq(Symbols)
    BY TextsGrow
  <2>2. QED
    BY <2>1, PassesNothing
<1>2. ASSUME NEW n \in Nat, n \in S PROVE n + 1 \in S
  <2> SUFFICES ASSUME n + 1 <= MaxUnits, NEW t \in Texts[n + 1]
               PROVE  t \in Seq(Symbols) /\ Passes(t, InString, InString)
    OBVIOUS
  <2>1. n + 1 \in 1..MaxUnits /\ (n + 1) - 1 = n /\ n <= MaxUnits
    BY UnitsAssumption
  <2>2. PICK t1 \in Texts[n], u \in Units : t = t1 \o u
    BY <2>1, TextsGrow DEF Longer
  <2>3. t1 \in Seq(Symbols) /\ Passes(t1, InString, InString)
    BY <1>2, <2>1
  <2>4. u \in Seq(Symbols) /\ Passes(u, InString, InString)
    BY UnitsType, UnitsPass
  <2>5. t1 \o u \in Seq(Symbols)
    BY <2>3, <2>4
  <2>6. QED
    BY <2>2, <2>3, <2>4, <2>5, PassesConcat
<1>3. Nat \subseteq S
  <2> HIDE DEF S
  <2>1. QED
    BY <1>1, <1>2, AllNumbers
<1>4. QED
  BY <1>3, UnitsAssumption

(* A string, and an empty object, leave the scan where it was. *)
LEMMA ValuesPass ==
    \A v \in Strings \cup {Empty} : v \in Seq(Symbols) /\ Passes(v, Outside(1), Outside(1))
<1>1. /\ InString.depth > 0 /\ Outside(1).depth > 0 /\ Outside(2).depth > 0
  BY DEF InString, Outside
<1>2. ASSUME NEW v \in Strings
      PROVE  v \in Seq(Symbols) /\ Passes(v, Outside(1), Outside(1))
  <2>1. PICK t \in UNION {Texts[n] : n \in 0..MaxUnits} : v = <<"quote">> \o t \o <<"quote">>
    BY DEF Strings
  <2>2. t \in Seq(Symbols) /\ Passes(t, InString, InString)
    BY TextsPass
  <2>3. "quote" \in Symbols
    BY SymbolsHas
  <2>4. /\ Passes(<<"quote">>, Outside(1), InString)
        /\ Passes(<<"quote">>, InString, Outside(1))
    BY <1>1, <2>3, Reads, PassesSymbol
  <2>5. <<"quote">> \in Seq(Symbols) /\ <<"quote">> \o t \in Seq(Symbols)
    BY <2>2, <2>3
  <2>6. Passes(<<"quote">> \o t, Outside(1), InString)
    BY <2>2, <2>4, <2>5, PassesConcat
  <2>7. Passes((<<"quote">> \o t) \o <<"quote">>, Outside(1), Outside(1))
    BY <2>4, <2>5, <2>6, PassesConcat
  <2>8. (<<"quote">> \o t) \o <<"quote">> \in Seq(Symbols)
    BY <2>5
  <2>9. QED
    BY <2>1, <2>7, <2>8
<1>3. Empty \in Seq(Symbols) /\ Passes(Empty, Outside(1), Outside(1))
  <2>1. "open" \in Symbols /\ "close" \in Symbols
    BY SymbolsHas
  <2>2. /\ Passes(<<"open">>, Outside(1), Outside(2))
        /\ Passes(<<"close">>, Outside(2), Outside(1))
    BY <1>1, <2>1, Reads, PassesSymbol
  <2>3. <<"open">> \in Seq(Symbols) /\ <<"close">> \in Seq(Symbols)
    BY <2>1
  <2>4. <<"open">> \o <<"close">> = Empty /\ Empty \in Seq(Symbols)
    BY <2>1, PairConcat DEF Empty
  <2>5. Passes(<<"open">> \o <<"close">>, Outside(1), Outside(1))
    BY <2>2, <2>3, PassesConcat
  <2>6. QED
    BY <2>4, <2>5
<1>4. QED
  BY <1>2, <1>3

(* An object is what the scan passes inside its brace, and a last brace. *)
LEMMA ObjectsPass ==
    ASSUME NEW o \in Objects
    PROVE  \E t \in Seq(Symbols) : /\ o = t \o <<"close">>
                                   /\ t # <<>> /\ t[1] = "open"
                                   /\ Passes(t, Scan, Outside(1))
<1>1. Outside(1).depth > 0
  BY DEF Outside
<1>2. "open" \in Symbols /\ "colon" \in Symbols
  BY SymbolsHas
<1>3. <<"open">> \in Seq(Symbols) /\ <<"colon">> \in Seq(Symbols)
  BY <1>2
<1>4. /\ Passes(<<"open">>, Scan, Outside(1))
      /\ Passes(<<"colon">>, Outside(1), Outside(1))
  BY <1>1, <1>2, Reads, PassesSymbol
<1>5. CASE o = Empty
  <2>1. o = <<"open">> \o <<"close">> /\ <<"open">> # <<>> /\ <<"open">>[1] = "open"
    BY <1>5, PairConcat DEF Empty
  <2>2. QED
    BY <1>3, <1>4, <2>1
<1>6. CASE o # Empty
  <2>1. PICK k \in Strings, v \in Strings \cup {Empty} :
                o = <<"open">> \o k \o <<"colon">> \o v \o <<"close">>
    BY <1>6 DEF Objects
  <2>2. /\ k \in Seq(Symbols) /\ Passes(k, Outside(1), Outside(1))
        /\ v \in Seq(Symbols) /\ Passes(v, Outside(1), Outside(1))
    BY ValuesPass
  <2> DEFINE t1 == <<"open">> \o k
             t2 == t1 \o <<"colon">>
             t3 == t2 \o v
  <2>3. t1 \in Seq(Symbols) /\ t1 # <<>> /\ t1[1] = "open"
    BY <1>3, <2>2
  <2>4. Passes(t1, Scan, Outside(1))
    BY <1>3, <1>4, <2>2, PassesConcat
  <2>5. o = t3 \o <<"close">>
    BY <2>1
  <2> HIDE DEF t1
  <2>6. t2 \in Seq(Symbols) /\ t2 # <<>> /\ t2[1] = "open"
    BY <1>3, <2>3
  <2>7. Passes(t2, Scan, Outside(1))
    BY <1>3, <1>4, <2>3, <2>4, PassesConcat
  <2> HIDE DEF t2
  <2>8. t3 \in Seq(Symbols) /\ t3 # <<>> /\ t3[1] = "open"
    BY <2>2, <2>6
  <2>9. Passes(t3, Scan, Outside(1))
    BY <2>2, <2>6, <2>7, PassesConcat
  <2> HIDE DEF t3
  <2>10. QED
    BY <2>5, <2>8, <2>9
<1>7. QED
  BY <1>5, <1>6

(* The scan finds the end of an object, whatever follows. *)
LEMMA ObjectEnds ==
    ASSUME NEW o \in Objects, NEW r \in Seq(Symbols)
    PROVE  /\ o \in Seq(Symbols) /\ o # <<>> /\ o[1] = "open"
           /\ Len(o) \in Balanced(o \o r)
           /\ Least(Balanced(o \o r)) = Len(o)
<1>1. PICK t \in Seq(Symbols) : /\ o = t \o <<"close">>
                                /\ t # <<>> /\ t[1] = "open"
                                /\ Passes(t, Scan, Outside(1))
  BY ObjectsPass
<1>2. "close" \in Symbols
  BY SymbolsHas
<1>3. /\ o \in Seq(Symbols) /\ Len(o) = Len(t) + 1 /\ Len(t) \in Nat /\ Len(t) > 0
      /\ o # <<>> /\ o[1] = "open" /\ o[Len(o)] = "close"
      /\ \A i \in 1..Len(t) : o[i] = t[i]
  BY <1>1, <1>2
<1> DEFINE s == o \o r
           m == Len(o)
<1>4. /\ s \in Seq(Symbols) /\ Len(s) \in Nat /\ Len(t) + 1 <= Len(s) /\ DOMAIN s = 1..Len(s)
      /\ \A i \in 1..Len(o) : s[i] = o[i]
  BY <1>3
<1> HIDE DEF s
<1>5. Fits(s, 0, t)
  <2>1. \A i \in 1..Len(t) : s[0 + i] = t[i]
    BY <1>3, <1>4
  <2>2. 0 + Len(t) <= Len(s)
    BY <1>3, <1>4
  <2>3. QED
    BY <2>1, <2>2 DEF Fits
<1>6. /\ Scans(s)[0 + Len(t)] = Outside(1)
      /\ \A i \in 1..Len(t) : Scans(s)[0 + i].depth > 0
  BY <1>1, <1>4, <1>5, ScansReads DEF Passes
<1>7. /\ Scans(s)[Len(t)] = Outside(1)
      /\ \A i \in 1..Len(t) : Scans(s)[i].depth > 0
  BY <1>3, <1>6
<1>8. Scans(s)[m] = Outside(0)
  <2>1. m \in 1..Len(s) /\ m - 1 = Len(t) /\ s[m] = "close"
    BY <1>3, <1>4
  <2>2. Scans(s)[m] = Read(Scans(s)[m - 1], s[m])
    BY <1>4, <2>1, ScansReads
  <2>3. QED
    BY <1>7, <2>1, <2>2, Reads
<1>9. Balanced(s) = {i \in DOMAIN s : Scans(s)[i].depth = 0}
  BY DEF Balanced
<1>10. m \in Balanced(s)
  <2>1. m \in DOMAIN s
    BY <1>3, <1>4
  <2>2. QED
    BY <1>8, <1>9, <2>1 DEF Outside
<1>11. \A i \in Balanced(s) : i \in Int /\ m <= i
  <2>1. ASSUME NEW i \in 1..Len(s), i < m PROVE i \notin Balanced(s)
    <3>1. i \in 1..Len(t)
      BY <1>3, <2>1
    <3>2. Scans(s)[i].depth > 0
      BY <1>7, <3>1
    <3>3. QED
      BY <1>9, <3>2
  <2>2. QED
    BY <1>3, <1>4, <1>9, <2>1
<1>12. Least(Balanced(s)) = m
  <2>1. \A j \in Balanced(s) : Least(Balanced(s)) <= j
    BY <1>10, <1>11 DEF Least
  <2>2. Least(Balanced(s)) \in Balanced(s)
    BY <1>10, <1>11 DEF Least
  <2>3. m \in Int
    BY <1>3
  <2>4. QED
    BY <1>10, <1>11, <2>1, <2>2, <2>3
<1>13. QED
  BY <1>3, <1>10, <1>12 DEF s

-----------------------------------------------------------------------------
(* The object of an answer.                                                *)

LEMMA LeastIs ==
    ASSUME NEW S, NEW m \in S, S \subseteq Int, \A j \in S : m <= j
    PROVE  Least(S) = m
<1>1. Least(S) \in S /\ \A j \in S : Least(S) <= j
  BY DEF Least
<1>2. Least(S) <= m /\ m <= Least(S) /\ Least(S) \in Int /\ m \in Int
  BY <1>1
<1>3. QED
  BY <1>2

(* The object is extracted from the prose around it. *)
LEMMA Extracted ==
    ASSUME NEW p \in Seq(Symbols \ {"open"}), NEW o \in Objects, NEW r \in Seq(Symbols)
    PROVE  ExtractFirstJsonObject(p \o o \o r) = o
<1>1. /\ o \in Seq(Symbols) /\ o # <<>> /\ o[1] = "open"
      /\ Len(o) \in Balanced(o \o r)
      /\ Least(Balanced(o \o r)) = Len(o)
  BY ObjectEnds
<1> DEFINE s == p \o o \o r
           n == Len(p) + 1
           t == o \o r
<1>2. p \in Seq(Symbols) /\ \A i \in 1..Len(p) : p[i] # "open"
  OBVIOUS
<1>3. /\ Len(o) \in Nat \ {0} /\ Len(p) \in Nat /\ Len(r) \in Nat
      /\ p \o o \in Seq(Symbols) /\ Len(p \o o) = Len(p) + Len(o)
      /\ t \in Seq(Symbols) /\ Len(t) = Len(o) + Len(r)
  BY <1>1, <1>2
<1>4. /\ s \in Seq(Symbols) /\ Len(s) = Len(p) + Len(o) + Len(r) /\ DOMAIN s = 1..Len(s)
      /\ \A i \in 1..Len(p) : s[i] = p[i]
      /\ \A i \in 1..Len(o) : s[Len(p) + i] = o[i]
      /\ \A i \in 1..Len(r) : s[Len(p) + Len(o) + i] = r[i]
  <2>1. s = (p \o o) \o r
    OBVIOUS
  <2>2. s \in Seq(Symbols) /\ Len(s) = Len(p) + Len(o) + Len(r) /\ DOMAIN s = 1..Len(s)
    BY <1>3, <2>1
  <2>3. \A i \in 1..(Len(p) + Len(o)) : s[i] = (p \o o)[i]
    BY <1>3, <2>1
  <2>4. \A i \in 1..Len(r) : s[Len(p) + Len(o) + i] = r[i]
    BY <1>3, <2>1
  <2>5. \A i \in 1..Len(p) : (p \o o)[i] = p[i]
    BY <1>1, <1>2
  <2>6. \A i \in 1..Len(o) : (p \o o)[Len(p) + i] = o[i]
    BY <1>1, <1>2
  <2> HIDE DEF s
  <2>7. ASSUME NEW i \in 1..Len(p) PROVE s[i] = p[i]
    BY <1>3, <2>3, <2>5
  <2>8. ASSUME NEW i \in 1..Len(o) PROVE s[Len(p) + i] = o[i]
    <3>1. Len(p) + i \in 1..(Len(p) + Len(o))
      BY <1>3
    <3>2. QED
      BY <2>3, <2>6, <3>1
  <2>9. QED
    BY <2>2, <2>4, <2>7, <2>8
<1> HIDE DEF s
<1>5. SubSeq(s, n, Len(s)) = t
  <2> DEFINE q == SubSeq(s, n, Len(s))
  <2>1. /\ q \in Seq(Symbols) /\ Len(q) = Len(t)
        /\ \A i \in 1..Len(q) : q[i] = s[Len(p) + i]
    <3>1. n \in Int /\ Len(s) \in Int /\ n <= Len(s) /\ \A i \in n..Len(s) : s[i] \in Symbols
      BY <1>3, <1>4
    <3>2. /\ q \in Seq(Symbols) /\ Len(q) = Len(s) - n + 1
          /\ \A i \in 1..(Len(s) - n + 1) : q[i] = s[n + i - 1]
      BY <3>1, SubSeqProperties
    <3>3. Len(s) - n + 1 = Len(t) /\ \A i \in Int : n + i - 1 = Len(p) + i
      BY <1>3, <1>4
    <3> HIDE DEF q, n
    <3>4. QED
      BY <3>2, <3>3
  <2>2. /\ \A i \in 1..Len(o) : t[i] = o[i]
        /\ \A i \in 1..Len(r) : t[Len(o) + i] = r[i]
    BY <1>1
  <2> HIDE DEF q, t
  <2>3. ASSUME NEW i \in 1..Len(t) PROVE q[i] = t[i]
    <3>1. CASE i \in 1..Len(o)
      BY <1>4, <2>1, <2>2, <3>1
    <3>2. CASE i > Len(o)
      <4>1. PICK j \in 1..Len(r) : i = Len(o) + j
        <5>1. i - Len(o) \in 1..Len(r) /\ i = Len(o) + (i - Len(o))
          BY <1>3, <3>2
        <5>2. QED
          BY <5>1
      <4>2. Len(p) + i = Len(p) + Len(o) + j
        BY <1>3, <4>1
      <4>3. QED
        BY <1>4, <2>1, <2>2, <4>1, <4>2
    <3>3. QED
      BY <1>3, <3>1, <3>2
  <2>4. QED
    BY <1>3, <2>1, <2>3, SeqEqual DEF q
<1>6. /\ n \in Positions(s, "open")
      /\ Least(Positions(s, "open")) = n
  <2>1. n \in DOMAIN s /\ s[n] = "open"
    BY <1>1, <1>3, <1>4
  <2>2. n \in Positions(s, "open") /\ Positions(s, "open") \subseteq Int
    BY <1>4, <2>1 DEF Positions
  <2>3. ASSUME NEW j \in Positions(s, "open") PROVE n <= j
    <3>1. j \in 1..Len(s) /\ s[j] = "open"
      BY <1>4 DEF Positions
    <3>2. j \notin 1..Len(p)
      BY <1>2, <1>4, <3>1
    <3>3. QED
      BY <1>3, <3>1, <3>2
  <2> HIDE DEF n
  <2>4. QED
    BY <2>2, <2>3, LeastIs
<1>7. SubSeq(t, 1, Len(o)) = o
  <2>1. o \in Seq(Symbols) /\ r \in Seq(Symbols)
    BY <1>1
  <2>2. QED
    BY <2>1, SubSeqOfConcat1, SubSeqFull
<1>8. ValidJson(o) /\ Balanced(t) # {} /\ Least(Balanced(t)) = Len(o)
  BY <1>1 DEF ValidJson
<1> HIDE DEF t, n
<1>9. ExtractFirstJsonObject(s) = o
  BY <1>5, <1>6, <1>7, <1>8 DEF ExtractFirstJsonObject
<1>10. QED
  BY <1>9 DEF s

(* Only an answer that is the object and nothing else is left as it is. *)
LEMMA ObjectFound ==
    ASSUME NEW p \in Seq(Symbols \ {"open"}), NEW o \in Objects, NEW r \in Seq(Symbols)
    PROVE  StripCodeFences(p \o o \o r) = o
<1> DEFINE s == p \o o \o r
<1>1. /\ o \in Seq(Symbols) /\ o # <<>> /\ p \in Seq(Symbols)
      /\ Least(Balanced(o \o r)) = Len(o)
  BY ObjectEnds
<1>2. ExtractFirstJsonObject(s) = o /\ o # None
  BY <1>1, Extracted DEF None
<1>3. ASSUME s[1] = "open", ValidJson(s) PROVE s = o
  <2>1. p = <<>>
    <3>1. ASSUME p # <<>> PROVE FALSE
      <4>1. s[1] = p[1] /\ p[1] # "open"
        BY <1>1, <3>1
      <4>2. QED
        BY <1>3, <4>1
    <3>2. QED
      BY <3>1
  <2>2. s = o \o r /\ s \in Seq(Symbols) /\ Len(s) = Len(o) + Len(r)
    <3>1. p \o o = o
      BY <1>1, <2>1
    <3>2. QED
      BY <1>1, <3>1
  <2>3. s \notin Strings
    <3>1. ASSUME s \in Strings PROVE FALSE
      <4>1. PICK t \in UNION {Texts[n] : n \in 0..MaxUnits} : s = <<"quote">> \o t \o <<"quote">>
        BY <3>1 DEF Strings
      <4>2. t \in Seq(Symbols)
        BY TextsPass
      <4>3. "quote" \in Symbols
        BY SymbolsHas
      <4>4. s[1] = "quote"
        BY <4>1, <4>2, <4>3
      <4>5. QED
        BY <1>3, <4>4
    <3>2. QED
      BY <3>1
  <2>4. s \in Objects
    BY <1>3, <2>3 DEF ValidJson
  <2> HIDE DEF s
  <2>5. Least(Balanced(s \o <<>>)) = Len(s)
    <3>1. <<>> \in Seq(Symbols)
      OBVIOUS
    <3>2. QED
      BY <2>4, <3>1, ObjectEnds
  <2>6. s \o <<>> = s
    BY <2>2
  <2>7. Len(o) + Len(r) = Len(o)
    BY <1>1, <2>2, <2>5, <2>6
  <2>8. r = <<>>
    BY <1>1, <2>7
  <2>9. QED
    BY <1>1, <2>2, <2>8
<1>4. s # <<>>
  BY <1>1
<1> HIDE DEF s
<1>5. StripCodeFences(s) = o
  BY <1>2, <1>3, <1>4 DEF StripCodeFences
<1>6. QED
  BY <1>5 DEF s

(***************************************************************************)
(* An answer's object is found whole, whatever prose without an opening    *)
(* brace precedes it, whatever text follows it, however long its strings.  *)
(***************************************************************************)
THEOREM ObjectsExtracted == Spec => []ExtractsTheObject
<1>1. InputsType => ExtractsTheObject
  BY ObjectFound DEF InputsType, ExtractsTheObject
<1>2. QED
  BY <1>1, InputsTyped, PTL

-----------------------------------------------------------------------------
(* The samples of two arms.                                                *)

(* What is observed, in a finite set of tasks, are integers. *)
LEMMA KnownFinite ==
    ASSUME NEW x \in Seq(Observations)
    PROVE  /\ IsFiniteSet(Known(x))
           /\ Cardinality(Known(x)) \in Nat
           /\ \A i \in Known(x) : x[i] \in Int
<1>1. IsFiniteSet(1..Len(x)) /\ DOMAIN x = 1..Len(x)
  BY FS_Interval
<1>2. Known(x) \in SUBSET (1..Len(x))
  BY <1>1 DEF Known
<1>3. \A i \in DOMAIN x : x[i] \in Values \cup {NaN}
  BY DEF Observations
<1>4. QED
  BY <1>1, <1>2, <1>3, FS_Subset, FS_CardinalityType, SampleAssumption DEF Known

LEMMA MaskKnown ==
    ASSUME NEW x \in Seq(Observations), NEW y \in Seq(Observations)
    PROVE  /\ Mask(x, y) = Known(x) \cap Known(y)
           /\ IsFiniteSet(Mask(x, y))
           /\ Cardinality(Mask(x, y)) \in Nat
<1>1. Mask(x, y) = Known(x) \cap Known(y)
  BY DEF Mask, Known, Common
<1>2. IsFiniteSet(Known(x))
  BY KnownFinite
<1>3. QED
  BY <1>1, <1>2, FS_Subset, FS_CardinalityType

(* The differences are those of the pairs the test counts. *)
LEMMA DifferencesOfMask ==
    ASSUME NEW x \in Seq(Observations), NEW y \in Seq(Observations)
    PROVE  /\ DOMAIN PairedDifferences(x, y) = Mask(x, y)
           /\ \A i \in Mask(x, y) : PairedDifferences(x, y)[i] = x[i] - y[i]
<1> DEFINE d == Differences(x, y)
<1>1. DOMAIN d = Common(x, y)
  BY DEF Differences
<1>2. ASSUME NEW i \in Common(x, y)
      PROVE  /\ d[i] # NaN <=> i \in Mask(x, y)
             /\ i \in Mask(x, y) => d[i] = x[i] - y[i]
  <2>1. d[i] = IF NaN \in {x[i], y[i]} THEN NaN ELSE x[i] - y[i]
    BY <1>2 DEF Differences
  <2>2. i \in Mask(x, y) <=> NaN \notin {x[i], y[i]}
    BY <1>2 DEF Mask
  <2>3. i \in Mask(x, y) => x[i] \in Int /\ y[i] \in Int
    BY MaskKnown, KnownFinite
  <2>4. i \in Mask(x, y) => x[i] - y[i] \in Int
    BY <2>3
  <2>5. QED
    BY <2>1, <2>2, <2>4, SampleAssumption
<1>3. Mask(x, y) \subseteq Common(x, y)
  BY DEF Mask
<1> HIDE DEF d
<1>4. PairedDifferences(x, y) = [i \in {j \in DOMAIN d : d[j] # NaN} |-> d[i]]
  BY DEF PairedDifferences, d
<1>5. {j \in DOMAIN d : d[j] # NaN} = Mask(x, y)
  BY <1>1, <1>2, <1>3
<1>6. QED
  BY <1>2, <1>3, <1>4, <1>5

(* Cohen's d of enough pairs is not a number only when no pair differs. *)
LEMMA CohensDOfPairs ==
    ASSUME NEW x \in Seq(Observations), NEW y \in Seq(Observations),
           Cardinality(Mask(x, y)) >= MinPairs, CohensD(x, y) = "nan"
    PROVE  \A i \in Mask(x, y) : x[i] = y[i]
<1> DEFINE d == PairedDifferences(x, y)
<1>1. DOMAIN d = Mask(x, y) /\ \A i \in Mask(x, y) : d[i] = x[i] - y[i]
  BY DifferencesOfMask
<1>2. \A i \in Mask(x, y) : x[i] \in Int /\ y[i] \in Int
  BY MaskKnown, KnownFinite
<1>3. Cardinality(Mask(x, y)) >= 2
  <2>1. Cardinality(Mask(x, y)) \in Nat
    BY MaskKnown
  <2>2. QED
    BY <2>1, SampleAssumption
<1> HIDE DEF d
<1>4. CohensD(x, y) = (IF Cardinality(DOMAIN d) < 2 THEN "nan"
                       ELSE IF ~(\A i, j \in DOMAIN d : d[i] = d[j]) THEN "finite"
                       ELSE IF \E i \in DOMAIN d : d[i] # 0 THEN "infinite"
                       ELSE "nan")
  BY DEF CohensD, d
<1>5. ~(Cardinality(DOMAIN d) < 2)
  BY <1>1, <1>3, MaskKnown
<1>6. \A i \in DOMAIN d : d[i] = 0
  BY <1>4, <1>5
<1>7. QED
  BY <1>1, <1>2, <1>6

(* Of a product of two finite sets, Greater counts a part. *)
Above(x, y) == {p \in Known(x) \X Known(y) : x[p[1]] > y[p[2]]}

LEMMA GreaterCounts ==
    ASSUME NEW x \in Seq(Observations), NEW y \in Seq(Observations)
    PROVE  /\ Greater(x, y) = Cardinality(Above(x, y))
           /\ IsFiniteSet(Above(x, y))
           /\ IsFiniteSet(Known(x) \X Known(y))
           /\ Cardinality(Known(x) \X Known(y)) = Cardinality(Known(x)) * Cardinality(Known(y))
           /\ Above(x, y) \subseteq Known(x) \X Known(y)
           /\ Greater(x, y) \in Nat
           /\ Cardinality(Known(x)) * Cardinality(Known(y)) \in Nat
           /\ Greater(x, y) <= Cardinality(Known(x)) * Cardinality(Known(y))
           /\ Greater(x, y) = Cardinality(Known(x)) * Cardinality(Known(y)) =>
                 Above(x, y) = Known(x) \X Known(y)
<1>1. /\ IsFiniteSet(Known(x)) /\ IsFiniteSet(Known(y))
  BY KnownFinite
<1>2. /\ IsFiniteSet(Known(x) \X Known(y))
      /\ Cardinality(Known(x) \X Known(y)) = Cardinality(Known(x)) * Cardinality(Known(y))
  BY <1>1, FS_Product
<1>3. Above(x, y) \in SUBSET (Known(x) \X Known(y))
  BY DEF Above
<1>4. Greater(x, y) = Cardinality(Above(x, y))
  BY DEF Greater, Above
<1>5. /\ IsFiniteSet(Above(x, y))
      /\ Cardinality(Above(x, y)) <= Cardinality(Known(x) \X Known(y))
      /\ Cardinality(Known(x) \X Known(y)) = Cardinality(Above(x, y)) =>
            Known(x) \X Known(y) = Above(x, y)
  BY <1>2, <1>3, FS_Subset
<1>6. Cardinality(Above(x, y)) \in Nat /\ Cardinality(Known(x) \X Known(y)) \in Nat
  BY <1>2, <1>5, FS_CardinalityType
<1>7. QED
  BY <1>2, <1>3, <1>4, <1>5, <1>6

(* Cliff's delta changes its sign with the order of the samples. *)
LEMMA CliffDeltaTurns ==
    ASSUME NEW x \in Seq(Observations), NEW y \in Seq(Observations)
    PROVE  CliffDelta(y, x) = <<-CliffDelta(x, y)[1], CliffDelta(x, y)[2]>>
<1>1. /\ Greater(x, y) \in Nat /\ Greater(y, x) \in Nat
      /\ Cardinality(Known(x)) \in Nat /\ Cardinality(Known(y)) \in Nat
  BY GreaterCounts, KnownFinite
<1>2. Greater(y, x) - Greater(x, y) = -(Greater(x, y) - Greater(y, x))
  BY <1>1
<1>3. Cardinality(Known(y)) * Cardinality(Known(x)) = Cardinality(Known(x)) * Cardinality(Known(y))
  BY <1>1
<1>4. QED
  BY <1>2, <1>3 DEF CliffDelta

(* It is 1 exactly when all of one sample is above all of the other. *)
LEMMA CliffDeltaOne ==
    ASSUME NEW x \in Seq(Observations), NEW y \in Seq(Observations)
    PROVE  CliffDelta(x, y)[1] = CliffDelta(x, y)[2]
              <=> \A i \in Known(x), j \in Known(y) : x[i] > y[j]
<1> DEFINE total == Cardinality(Known(x)) * Cardinality(Known(y))
<1>1. /\ Greater(x, y) \in Nat /\ Greater(y, x) \in Nat /\ total \in Nat
      /\ Greater(x, y) <= total
  BY GreaterCounts
<1>2. /\ CliffDelta(x, y)[1] = Greater(x, y) - Greater(y, x)
      /\ CliffDelta(x, y)[2] = total
  BY DEF CliffDelta
<1> HIDE DEF total
<1>3. ASSUME Greater(x, y) - Greater(y, x) = total
      PROVE  \A i \in Known(x), j \in Known(y) : x[i] > y[j]
  <2>1. Greater(x, y) = total
    BY <1>1, <1>3
  <2>2. Above(x, y) = Known(x) \X Known(y)
    BY <2>1, GreaterCounts DEF total
  <2>3. ASSUME NEW i \in Known(x), NEW j \in Known(y) PROVE x[i] > y[j]
    <3>1. <<i, j>> \in Above(x, y)
      BY <2>2
    <3>2. QED
      BY <3>1 DEF Above
  <2>4. QED
    BY <2>3
<1>4. ASSUME \A i \in Known(x), j \in Known(y) : x[i] > y[j]
      PROVE  Greater(x, y) - Greater(y, x) = total
  <2>1. Above(x, y) = Known(x) \X Known(y)
    BY <1>4 DEF Above
  <2>2. Above(y, x) = {}
    <3>1. ASSUME NEW p \in Above(y, x) PROVE FALSE
      <4>1. p[1] \in Known(y) /\ p[2] \in Known(x) /\ y[p[1]] > x[p[2]]
        BY DEF Above
      <4>2. x[p[2]] > y[p[1]]
        BY <1>4, <4>1
      <4>3. x[p[2]] \in Int /\ y[p[1]] \in Int
        BY <4>1, KnownFinite
      <4>4. QED
        BY <4>1, <4>2, <4>3
    <3>2. QED
      BY <3>1
  <2>3. Greater(x, y) = total
    <3>1. /\ Greater(x, y) = Cardinality(Above(x, y))
          /\ Cardinality(Known(x) \X Known(y)) = Cardinality(Known(x)) * Cardinality(Known(y))
      BY GreaterCounts
    <3>2. QED
      BY <2>1, <3>1 DEF total
  <2>4. Greater(y, x) = Cardinality({})
    BY <2>2, GreaterCounts
  <2>5. QED
    BY <1>1, <2>3, <2>4, FS_EmptySet
<1>5. QED
  BY <1>2, <1>3, <1>4

(* Both arms of a test have something to compare. *)
LEMMA TestedArmsCompare ==
    ASSUME NEW x \in Seq(Observations), NEW y \in Seq(Observations),
           Cardinality(Mask(x, y)) >= MinPairs
    PROVE  CliffDelta(x, y)[2] > 0
<1>1. Cardinality(Mask(x, y)) \in Nat
  BY MaskKnown
<1>2. Mask(x, y) # {}
  <2>1. Cardinality(Mask(x, y)) # 0
    BY <1>1, SampleAssumption
  <2>2. QED
    BY <2>1, FS_EmptySet
<1>3. Known(x) # {} /\ Known(y) # {}
  BY <1>2, MaskKnown
<1>4. Cardinality(Known(x)) \in Nat \ {0} /\ Cardinality(Known(y)) \in Nat \ {0}
  BY <1>3, KnownFinite, FS_EmptySet
<1>5. Cardinality(Known(x)) * Cardinality(Known(y)) > 0
  BY <1>4
<1>6. QED
  BY <1>5 DEF CliffDelta

(* A product of two numbers is the square of one below both only if they   *)
(* are that one.                                                           *)
LEMMA SquareOf ==
    ASSUME NEW m \in Nat \ {0}, NEW p \in Nat, NEW q \in Nat, m <= p, m <= q, p * q = m * m
    PROVE  p = m /\ q = m
<1>1. p * q >= p * m /\ p * q >= m * q
  <2>1. PICK i \in Nat : p = m + i
    <3>1. p - m \in Nat /\ p = m + (p - m)
      OBVIOUS
    <3>2. QED
      BY <3>1
  <2>2. PICK j \in Nat : q = m + j
    <3>1. q - m \in Nat /\ q = m + (q - m)
      OBVIOUS
    <3>2. QED
      BY <3>1
  <2>3. p * q = p * m + p * j /\ p * j >= 0
    BY <2>2
  <2>4. p * q = m * q + i * q /\ i * q >= 0
    BY <2>1
  <2>5. QED
    BY <2>3, <2>4
<1>2. p * m = m * m /\ m * q = m * m
  <2>1. p * m >= m * m /\ m * q >= m * m
    OBVIOUS
  <2>2. QED
    BY <1>1, <2>1
<1>3. QED
  BY <1>2

(* Cliff's delta is of the pairs of the test when the same tasks are known. *)
LEMMA CliffDeltaOfPairs ==
    ASSUME NEW x \in Seq(Observations), NEW y \in Seq(Observations),
           Cardinality(Mask(x, y)) >= MinPairs
    PROVE  CliffDelta(x, y)[2] = Cardinality(Mask(x, y)) * Cardinality(Mask(x, y))
              <=> Known(x) = Known(y)
<1> DEFINE m == Cardinality(Mask(x, y))
           p == Cardinality(Known(x))
           q == Cardinality(Known(y))
<1>1. /\ m \in Nat \ {0} /\ p \in Nat /\ q \in Nat
      /\ IsFiniteSet(Known(x)) /\ IsFiniteSet(Known(y))
  BY MaskKnown, KnownFinite, SampleAssumption
<1>2. /\ m <= p /\ (m = p => Mask(x, y) = Known(x))
      /\ m <= q /\ (m = q => Mask(x, y) = Known(y))
  <2>1. Mask(x, y) \in SUBSET Known(x) /\ Mask(x, y) \in SUBSET Known(y)
    BY MaskKnown
  <2>2. QED
    BY <1>1, <2>1, FS_Subset
<1>3. CliffDelta(x, y)[2] = p * q
  BY DEF CliffDelta
<1>4. ASSUME Known(x) = Known(y) PROVE p = m /\ q = m
  BY <1>4, MaskKnown
<1> HIDE DEF m, p, q
<1>5. ASSUME p * q = m * m PROVE p = m /\ q = m
  BY <1>1, <1>2, <1>5, SquareOf
<1>6. QED
  BY <1>2, <1>3, <1>4, <1>5 DEF m

(***************************************************************************)
(* The test and Cohen's d are of the same pairs, and Cliff's delta is when *)
(* the arms lack the same tasks and only then, for samples of every length *)
(* and any integers observed.                                              *)
(***************************************************************************)
THEOREM StatisticsAgree == Spec => []EffectSizesAgree
<1>1. InputsType => EffectSizesAgree
  <2> SUFFICES ASSUME InputsType PROVE EffectSizesAgree
    OBVIOUS
  <2>1. a \in Seq(Observations) /\ b \in Seq(Observations)
    BY DEF InputsType
  <2>2. DOMAIN PairedDifferences(a, b) = Mask(a, b)
    BY <2>1, DifferencesOfMask
  <2>3. ASSUME NEW test \in PairwiseWilcoxon(a, b), test.p_value = "number"
        PROVE  /\ CliffDelta(a, b)[2] > 0
               /\ CohensD(a, b) = "nan" => \A i \in Mask(a, b) : a[i] = b[i]
               /\ CliffDelta(a, b)[2] = test.n_pairs * test.n_pairs <=> Known(a) = Known(b)
    <3>1. test.n_pairs = Cardinality(Mask(a, b)) /\ ~(Cardinality(Mask(a, b)) < MinPairs)
      BY <2>3 DEF PairwiseWilcoxon
    <3>2. Cardinality(Mask(a, b)) >= MinPairs
      BY <2>1, <3>1, MaskKnown, SampleAssumption
    <3>3. QED
      BY <2>1, <3>1, <3>2, TestedArmsCompare, CohensDOfPairs, CliffDeltaOfPairs
  <2>4. /\ CliffDelta(b, a) = <<-CliffDelta(a, b)[1], CliffDelta(a, b)[2]>>
        /\ CliffDelta(a, b)[1] = CliffDelta(a, b)[2]
              <=> \A i \in Known(a), j \in Known(b) : a[i] > b[j]
    BY <2>1, CliffDeltaTurns, CliffDeltaOne
  <2>5. QED
    BY <2>2, <2>3, <2>4 DEF EffectSizesAgree
<1>2. QED
  BY <1>1, InputsTyped, PTL

=============================================================================
