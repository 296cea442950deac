--------------------------- MODULE CountingProofs ---------------------------
(***************************************************************************)
(* What the operators of Counting do as sequences get longer or shorter    *)
(* and functions change at one place.                                      *)
(***************************************************************************)
EXTENDS Counting, Integers, FiniteSetTheorems, SequenceTheorems, TLAPS

-----------------------------------------------------------------------------
(* Bijections, cardinalities, smallest elements. *)

\* Two finite sets have as many elements if some function pairs them off.
LEMMA SameNumber ==
  ASSUME NEW S, NEW T, IsFiniteSet(S), NEW f \in [S -> T],
         \A x, y \in S : f[x] = f[y] => x = y,
         \A t \in T : \E x \in S : f[x] = t
  PROVE  IsFiniteSet(T) /\ Cardinality(T) = Cardinality(S)
<1>1. f \in Bijection(S, T)
  BY DEF Bijection, Injection, Surjection, IsInjective
<1>2. ExistsBijection(S, T)
  BY <1>1 DEF ExistsBijection
<1> QED BY <1>2, FS_Bijection

\* One that does not pair two of them with the same shows that they are no more.
LEMMA NoMore ==
  ASSUME NEW S, NEW T, IsFiniteSet(T), NEW f \in [S -> T],
         \A x, y \in S : f[x] = f[y] => x = y
  PROVE  IsFiniteSet(S) /\ Cardinality(S) <= Cardinality(T)
<1>1. f \in Injection(S, T)
  BY DEF Injection, IsInjective
<1> QED BY <1>1, FS_Injection

LEMMA Disjoint ==
  ASSUME NEW S, NEW T, IsFiniteSet(S), IsFiniteSet(T), S \cap T = {}
  PROVE  /\ IsFiniteSet(S \cup T)
         /\ Cardinality(S \cup T) = Cardinality(S) + Cardinality(T)
<1>1. Cardinality(S) \in Nat /\ Cardinality(T) \in Nat
  BY FS_CardinalityType
<1> QED BY <1>1, FS_Union, FS_EmptySet

LEMMA FirstNumbers ==
  ASSUME NEW n \in Nat
  PROVE  IsFiniteSet(1..n) /\ Cardinality(1..n) = n
<1>1. 1 \in Int /\ n \in Int /\ (IF 1 > n THEN 0 ELSE n - 1 + 1) = n
  OBVIOUS
<1> QED BY <1>1, FS_Interval

\* A set of natural numbers that is not empty has a smallest one.
LEMMA Smallest ==
  ASSUME NEW S \in SUBSET Nat, S # {}
  PROVE  \E x \in S : \A y \in S : x <= y
<1> DEFINE Below == {0..x : x \in S}
<1>1. Below \subseteq FiniteSubsetsOf(Nat)
  <2> SUFFICES ASSUME NEW x \in S PROVE 0..x \in FiniteSubsetsOf(Nat)
    OBVIOUS
  <2>1. IsFiniteSet(0..x)
    BY FS_Interval
  <2> QED BY <2>1 DEF FiniteSubsetsOf
<1>2. Below # {}
  OBVIOUS
<1>3. PICK B \in Below : \A C \in Below : ~(<<C, B>> \in StrictSubsetOrdering(Nat))
  <2> HIDE DEF Below
  <2> QED BY <1>1, <1>2, FS_StrictSubsetOrderingWellFounded, WFMin
<1>4. PICK x \in S : B = 0..x
  OBVIOUS
<1>5. ASSUME NEW y \in S, y < x PROVE FALSE
  <2>1. 0..y \subseteq 0..x /\ 0..y # 0..x
    <3>1. x \in 0..x /\ x \notin 0..y
      BY <1>5
    <3>2. 0..y \subseteq 0..x
      BY <1>5
    <3> QED BY <3>1, <3>2
  <2>2. <<0..y, B>> \in StrictSubsetOrdering(Nat)
    <3>1. 0..y \in SUBSET Nat /\ 0..x \in SUBSET Nat
      OBVIOUS
    <3> QED BY <2>1, <3>1, <1>4 DEF StrictSubsetOrdering
  <2> QED BY <2>2, <1>3
<1> QED BY <1>5

-----------------------------------------------------------------------------
(* Occurrences. *)

LEMMA OccType ==
  ASSUME NEW T, NEW s \in Seq(T), NEW S
  PROVE  /\ IsFiniteSet({i \in DOMAIN s : s[i] \in S})
         /\ Occurrences(s, S) \in Nat
         /\ Occurrences(s, S) <= Len(s)
<1>1. DOMAIN s = 1..Len(s) /\ Len(s) \in Nat
  BY LenProperties
<1>2. IsFiniteSet(1..Len(s)) /\ Cardinality(1..Len(s)) = Len(s)
  BY <1>1, FirstNumbers
<1>3. {i \in DOMAIN s : s[i] \in S} \in SUBSET (1..Len(s))
  BY <1>1
<1> QED BY <1>2, <1>3, FS_Subset, FS_CardinalityType DEF Occurrences

LEMMA OccEmpty == ASSUME NEW S PROVE Occurrences(<<>>, S) = 0
<1>1. {i \in DOMAIN <<>> : <<>>[i] \in S} = {}
  OBVIOUS
<1> QED BY <1>1, FS_EmptySet DEF Occurrences

LEMMA OccConcat ==
  ASSUME NEW T, NEW s \in Seq(T), NEW t \in Seq(T), NEW S
  PROVE  Occurrences(s \o t, S) = Occurrences(s, S) + Occurrences(t, S)
<1> DEFINE A == {i \in DOMAIN s : s[i] \in S}
           B == {i \in DOMAIN t : t[i] \in S}
           C == {i \in Len(s) + 1 .. Len(s) + Len(t) : t[i - Len(s)] \in S}
           f == [i \in B |-> i + Len(s)]
<1>1. /\ Len(s) \in Nat /\ Len(t) \in Nat
      /\ DOMAIN s = 1..Len(s) /\ DOMAIN t = 1..Len(t)
      /\ DOMAIN (s \o t) = 1 .. Len(s) + Len(t)
  BY LenProperties, ConcatProperties
<1>2. {i \in DOMAIN (s \o t) : (s \o t)[i] \in S} = A \cup C
  <2>1. ASSUME NEW i \in 1..Len(s) PROVE (s \o t)[i] = s[i]
    BY <1>1, ConcatProperties
  <2>2. ASSUME NEW i \in Len(s) + 1 .. Len(s) + Len(t) PROVE (s \o t)[i] = t[i - Len(s)]
    BY <1>1, ConcatProperties
  <2> QED BY <1>1, <2>1, <2>2
<1>3. A \cap C = {}
  BY <1>1
<1>4. IsFiniteSet(A) /\ IsFiniteSet(B)
  BY OccType
<1>5. IsFiniteSet(C) /\ Cardinality(C) = Cardinality(B)
  <2>1. f \in [B -> C]
    BY <1>1
  <2>2. \A x, y \in B : f[x] = f[y] => x = y
    BY <1>1
  <2>3. \A c \in C : \E x \in B : f[x] = c
    <3> TAKE c \in C
    <3>1. c - Len(s) \in B
      BY <1>1
    <3>2. f[c - Len(s)] = c
      BY <3>1, <1>1
    <3> QED BY <3>1, <3>2
  <2> HIDE DEF f, B, C
  <2> QED BY <2>1, <2>2, <2>3, <1>4, SameNumber
<1> HIDE DEF A, C
<1>6. Cardinality(A \cup C) = Cardinality(A) + Cardinality(C)
  BY <1>3, <1>4, <1>5, Disjoint
<1> QED BY <1>2, <1>5, <1>6 DEF Occurrences, A, B

LEMMA OccUnit ==
  ASSUME NEW e, NEW S
  PROVE  Occurrences(<<e>>, S) = IF e \in S THEN 1 ELSE 0
<1>1. {i \in DOMAIN <<e>> : <<e>>[i] \in S} = IF e \in S THEN {1} ELSE {}
  OBVIOUS
<1> QED BY <1>1, FS_EmptySet, FS_Singleton DEF Occurrences

LEMMA OccTail ==
  ASSUME NEW T, NEW s \in Seq(T), s # <<>>, NEW S
  PROVE  /\ Tail(s) \in Seq(T) /\ Head(s) \in T
         /\ Occurrences(s, S) = Occurrences(Tail(s), S) + (IF Head(s) \in S THEN 1 ELSE 0)
<1> DEFINE h == Head(s)
           t == Tail(s)
<1>1. t \in Seq(T) /\ h \in T /\ <<h>> \in Seq(T)
  OBVIOUS
<1>2. s = <<h>> \o t
  OBVIOUS
<1> HIDE DEF h, t
<1>3. Occurrences(<<h>> \o t, S) = Occurrences(<<h>>, S) + Occurrences(t, S)
  BY <1>1, OccConcat
<1>4. Occurrences(t, S) \in Nat
  BY <1>1, OccType
<1>5. Occurrences(s, S) = Occurrences(t, S) + (IF h \in S THEN 1 ELSE 0)
  BY <1>2, <1>3, <1>4, OccUnit
<1> QED BY <1>1, <1>5 DEF h, t

\* A sequence cut in two.
LEMMA OccSplit ==
  ASSUME NEW T, NEW s \in Seq(T), NEW n \in 0..Len(s), NEW S
  PROVE  /\ SubSeq(s, 1, n) \in Seq(T) /\ SubSeq(s, n + 1, Len(s)) \in Seq(T)
         /\ Occurrences(s, S) = Occurrences(SubSeq(s, 1, n), S)
                                + Occurrences(SubSeq(s, n + 1, Len(s)), S)
<1> DEFINE a == SubSeq(s, 1, n)
           b == SubSeq(s, n + 1, Len(s))
<1>1. a \in Seq(T) /\ b \in Seq(T)
  OBVIOUS
<1>2. s = a \o b
  <2>1. SubSeq(s, 1, n) \o SubSeq(s, n + 1, Len(s)) = SubSeq(s, 1, Len(s))
    <3>1. /\ Len(s) \in Nat /\ 1 \in 1 .. Len(s) + 1
          /\ n \in 1 - 1 .. Len(s) /\ Len(s) \in n .. Len(s)
      BY LenProperties
    <3> QED BY <3>1, ConcatAdjacentSubSeq
  <2> QED BY <2>1, SubSeqFull
<1> HIDE DEF a, b
<1>3. Occurrences(a \o b, S) = Occurrences(a, S) + Occurrences(b, S)
  BY <1>1, OccConcat
<1> QED BY <1>1, <1>2, <1>3 DEF a, b

LEMMA OccZero ==
  ASSUME NEW T, NEW s \in Seq(T), NEW S, Occurrences(s, S) = 0
  PROVE  \A i \in 1..Len(s) : s[i] \notin S
<1>1. DOMAIN s = 1..Len(s)
  BY LenProperties
<1>2. {i \in DOMAIN s : s[i] \in S} = {}
  <2>1. IsFiniteSet({i \in DOMAIN s : s[i] \in S})
    BY OccType
  <2>2. Cardinality({i \in DOMAIN s : s[i] \in S}) = 0
    BY DEF Occurrences
  <2> QED BY <2>1, <2>2, FS_EmptySet
<1> QED BY <1>1, <1>2

-----------------------------------------------------------------------------
(* Tally. *)

LEMMA StrokesType ==
  ASSUME NEW S, IsFiniteSet(S), NEW f \in [S -> Nat], NEW R \in SUBSET S
  PROVE  IsFiniteSet(Strokes(R, f)) /\ Tally(R, f) \in Nat
<1>. DEFINE Columns == {{x} \X (1..f[x]) : x \in R}
            g == [x \in R |-> {x} \X (1..f[x])]
<1>1. IsFiniteSet(R)
  BY FS_Subset
<1>2. IsFiniteSet(Columns)
  <2>1. g \in [R -> Columns] /\ \A T \in Columns : \E x \in R : g[x] = T
    OBVIOUS
  <2>2. g \in Surjection(R, Columns)
    BY <2>1 DEF Surjection
  <2> QED BY <1>1, <2>2, FS_Surjection
<1>3. ASSUME NEW x \in R PROVE IsFiniteSet({x} \X (1..f[x]))
  <2>1. IsFiniteSet({x}) /\ IsFiniteSet(1..f[x])
    <3>1. 1 \in Int /\ f[x] \in Int
      OBVIOUS
    <3> QED BY <3>1, FS_Singleton, FS_Interval
  <2> QED BY <2>1, FS_Product
<1>4. IsFiniteSet(UNION Columns)
  <2>1. \A T \in Columns : IsFiniteSet(T)
    BY <1>3
  <2> HIDE DEF Columns
  <2> QED BY <1>2, <2>1, FS_UNION
<1> QED BY <1>4, FS_CardinalityType DEF Strokes, Tally

LEMMA TallyType ==
  ASSUME NEW S, IsFiniteSet(S), NEW f \in [S -> Nat]
  PROVE  Tally(S, f) \in Nat
BY StrokesType

\* One element apart.
LEMMA TallySplit ==
  ASSUME NEW S, IsFiniteSet(S), NEW f \in [S -> Nat], NEW x \in S
  PROVE  Tally(S, f) = Tally(S \ {x}, f) + f[x]
<1> DEFINE A == Strokes(S \ {x}, f)
           B == {x} \X (1..f[x])
<1>1. Strokes(S, f) = A \cup B
  BY DEF Strokes
<1>2. A \cap B = {}
  BY DEF Strokes
<1>3. IsFiniteSet(A) /\ Cardinality(A) = Tally(S \ {x}, f)
  BY StrokesType DEF Tally
<1>4. IsFiniteSet(B) /\ Cardinality(B) = f[x]
  <2>1. IsFiniteSet({x}) /\ Cardinality({x}) = 1
    BY FS_Singleton
  <2>2. IsFiniteSet(1..f[x]) /\ Cardinality(1..f[x]) = f[x]
    <3>1. f[x] \in Nat
      OBVIOUS
    <3> QED BY <3>1, FirstNumbers
  <2>3. PICK D, J : D = {x} /\ J = 1..f[x]
    OBVIOUS
  <2>4. IsFiniteSet(D \X J) /\ Cardinality(D \X J) = Cardinality(D) * Cardinality(J)
    <3>1. IsFiniteSet(D) /\ IsFiniteSet(J)
      BY <2>1, <2>2, <2>3
    <3> QED BY ONLY <3>1, FS_Product
  <2>5. f[x] \in Nat /\ B = D \X J
    BY <2>3
  <2> QED BY <2>1, <2>2, <2>3, <2>4, <2>5
<1> HIDE DEF A, B
<1> QED BY <1>1, <1>2, <1>3, <1>4, Disjoint DEF Tally

\* A function changed at one place.
LEMMA TallyChange ==
  ASSUME NEW S, IsFiniteSet(S), NEW f \in [S -> Nat], NEW g \in [S -> Nat], NEW x \in S,
         \A y \in S \ {x} : g[y] = f[y]
  PROVE  /\ Tally(S, f) \in Nat /\ Tally(S, g) \in Nat
         /\ Tally(S, g) = Tally(S, f) + g[x] - f[x]
         /\ f[x] <= Tally(S, f)
<1>1. Strokes(S \ {x}, f) = Strokes(S \ {x}, g)
  BY DEF Strokes
<1>2. Tally(S \ {x}, f) = Tally(S \ {x}, g)
  BY <1>1 DEF Tally
<1>3. Tally(S \ {x}, f) \in Nat
  BY StrokesType
<1>4. Tally(S, f) = Tally(S \ {x}, f) + f[x]
  BY TallySplit
<1>5. Tally(S, g) = Tally(S \ {x}, g) + g[x]
  BY TallySplit
<1> QED BY <1>2, <1>3, <1>4, <1>5

LEMMA TallyZero ==
  ASSUME NEW S, IsFiniteSet(S), NEW f \in [S -> Nat]
  PROVE  Tally(S, f) = 0 <=> \A x \in S : f[x] = 0
<1>1. IsFiniteSet(Strokes(S, f))
  BY StrokesType
<1>2. Tally(S, f) = 0 <=> Strokes(S, f) = {}
  BY <1>1, FS_EmptySet DEF Tally
<1>3. Strokes(S, f) = {} => \A x \in S : f[x] = 0
  <2> SUFFICES ASSUME NEW x \in S, f[x] # 0 PROVE <<x, 1>> \in Strokes(S, f)
    OBVIOUS
  <2>1. 1 \in 1..f[x]
    OBVIOUS
  <2> QED BY <2>1 DEF Strokes
<1>4. (\A x \in S : f[x] = 0) => Strokes(S, f) = {}
  BY DEF Strokes
<1> QED BY <1>2, <1>3, <1>4

\* Of two functions one of which is nowhere greater: their sums, and that they
\* are the same if their sums are.
LEMMA TallyOrder ==
  ASSUME NEW S, IsFiniteSet(S), NEW f \in [S -> Nat], NEW g \in [S -> Nat],
         \A x \in S : f[x] <= g[x]
  PROVE  /\ Tally(S, f) <= Tally(S, g)
         /\ Tally(S, f) = Tally(S, g) => \A x \in S : f[x] = g[x]
<1>1. Strokes(S, f) \subseteq Strokes(S, g)
  <2> SUFFICES ASSUME NEW x \in S, NEW k \in 1..f[x] PROVE <<x, k>> \in Strokes(S, g)
    BY DEF Strokes
  <2>1. k \in 1..g[x]
    OBVIOUS
  <2> QED BY <2>1 DEF Strokes
<1>2. IsFiniteSet(Strokes(S, g))
  BY StrokesType
<1>3. /\ Tally(S, f) <= Tally(S, g)
      /\ Tally(S, f) = Tally(S, g) => Strokes(S, f) = Strokes(S, g)
  BY <1>1, <1>2, FS_Subset DEF Tally
<1>4. ASSUME Strokes(S, f) = Strokes(S, g), NEW x \in S, f[x] # g[x] PROVE FALSE
  <2>1. g[x] \in 1..g[x]
    BY <1>4
  <2>2. <<x, g[x]>> \in Strokes(S, g)
    BY <2>1 DEF Strokes
  <2>3. g[x] \in 1..f[x]
    BY <2>2, <1>4 DEF Strokes
  <2> QED BY <2>3, <1>4
<1> QED BY <1>3, <1>4

\* The sum of a constant.
LEMMA TallyConstant ==
  ASSUME NEW S, IsFiniteSet(S), NEW k \in Nat
  PROVE  Tally(S, [x \in S |-> k]) = Cardinality(S) * k
<1>1. Strokes(S, [x \in S |-> k]) = S \X (1..k)
  BY DEF Strokes
<1>2. IsFiniteSet(1..k) /\ Cardinality(1..k) = k
  BY FirstNumbers
<1> QED BY <1>1, <1>2, FS_Product DEF Tally

\* The sum of sums.
LEMMA TallyPlus ==
  ASSUME NEW S, IsFiniteSet(S), NEW f \in [S -> Nat], NEW g \in [S -> Nat],
         NEW h, h = [x \in S |-> f[x] + g[x]]
  PROVE  h \in [S -> Nat] /\ Tally(S, h) = Tally(S, f) + Tally(S, g)
<1> DEFINE A == Strokes(S, f)
           B == {p \in Strokes(S, h) : p[2] > f[p[1]]}
           G == Strokes(S, g)
           b == [p \in G |-> <<p[1], p[2] + f[p[1]]>>]
<1>1. h \in [S -> Nat] /\ \A x \in S : h[x] = f[x] + g[x] /\ f[x] \in Nat /\ g[x] \in Nat
  OBVIOUS
<1>2. /\ \A p : p \in A <=> \E x \in S : \E k \in 1..f[x] : p = <<x, k>>
      /\ \A p : p \in G <=> \E x \in S : \E k \in 1..g[x] : p = <<x, k>>
      /\ \A p : p \in Strokes(S, h) <=> \E x \in S : \E k \in 1..h[x] : p = <<x, k>>
  BY DEF Strokes
<1>3. \A p : p \in B <=> \E x \in S : \E k \in f[x] + 1 .. f[x] + g[x] : p = <<x, k>>
  <2>1. ASSUME NEW x \in S, NEW k \in 1..h[x], k > f[x]
        PROVE  k \in f[x] + 1 .. f[x] + g[x]
    BY <1>1, <2>1
  <2>2. ASSUME NEW x \in S, NEW k \in f[x] + 1 .. f[x] + g[x]
        PROVE  k \in 1..h[x] /\ k > f[x]
    BY <1>1
  <2> HIDE DEF A, G, b
  <2> QED BY <1>2, <2>1, <2>2
<1>4. Strokes(S, h) = A \cup B /\ A \cap B = {}
  <2>1. ASSUME NEW x \in S, NEW k \in 1..h[x], ~(k > f[x]) PROVE k \in 1..f[x]
    BY <1>1, <2>1
  <2>2. ASSUME NEW x \in S, NEW k \in 1..f[x] PROVE k \in 1..h[x] /\ ~(k > f[x])
    BY <1>1
  <2>3. Strokes(S, h) = A \cup B
    BY <1>2, <2>1, <2>2
  <2>4. A \cap B = {}
    BY <1>2, <2>2
  <2> QED BY <2>3, <2>4
<1>5. IsFiniteSet(A) /\ IsFiniteSet(G)
  BY StrokesType
<1>6. IsFiniteSet(B) /\ Cardinality(B) = Cardinality(G)
  <2>1. b \in [G -> B]
    <3> SUFFICES ASSUME NEW p \in G PROVE <<p[1], p[2] + f[p[1]]>> \in B
      OBVIOUS
    <3> PICK x \in S : \E k \in 1..g[x] : p = <<x, k>>
      BY <1>2
    <3>1. PICK k \in 1..g[x] : p = <<x, k>>
      OBVIOUS
    <3>2. k + f[x] \in f[x] + 1 .. f[x] + g[x]
      BY <1>1
    <3>3. <<p[1], p[2] + f[p[1]]>> = <<x, k + f[x]>>
      BY <3>1
    <3> HIDE DEF B, G
    <3> QED BY <1>3, <3>2, <3>3
  <2>2. \A p, q \in G : b[p] = b[q] => p = q
    <3> TAKE p, q \in G
    <3> HAVE b[p] = b[q]
    <3> PICK x \in S : \E k \in 1..g[x] : p = <<x, k>>
      BY <1>2
    <3>1. PICK k \in 1..g[x] : p = <<x, k>>
      OBVIOUS
    <3> PICK y \in S : \E l \in 1..g[y] : q = <<y, l>>
      BY <1>2
    <3>2. PICK l \in 1..g[y] : q = <<y, l>>
      OBVIOUS
    <3>3. <<x, k + f[x]>> = <<y, l + f[y]>>
      BY <3>1, <3>2
    <3>4. x = y /\ k + f[x] = l + f[x]
      BY <3>3
    <3>5. k = l
      BY <1>1, <3>4
    <3> QED BY <3>1, <3>2, <3>4, <3>5
  <2>3. \A q \in B : \E p \in G : b[p] = q
    <3> TAKE q \in B
    <3> PICK x \in S : \E k \in f[x] + 1 .. f[x] + g[x] : q = <<x, k>>
      BY <1>3
    <3>1. PICK k \in f[x] + 1 .. f[x] + g[x] : q = <<x, k>>
      OBVIOUS
    <3>2. k - f[x] \in 1..g[x] /\ (k - f[x]) + f[x] = k
      BY <1>1
    <3>3. <<x, k - f[x]>> \in G
      BY <1>2, <3>2
    <3>4. b[<<x, k - f[x]>>] = <<x, (k - f[x]) + f[x]>>
      BY <3>3
    <3> QED BY <3>1, <3>2, <3>3, <3>4
  <2> HIDE DEF G, B, b
  <2> QED BY <1>5, <2>1, <2>2, <2>3, SameNumber
<1> HIDE DEF A, B
<1>7. Cardinality(A \cup B) = Cardinality(A) + Cardinality(B)
  BY <1>4, <1>5, <1>6, Disjoint
<1> QED BY <1>1, <1>4, <1>6, <1>7 DEF Tally, A

\* g[n] is the sum of f over the class that num numbers n, P[n].
ByClass(S, num, f, P, g) ==
  /\ IsFiniteSet(S) /\ f \in [S -> Nat] /\ P \in [S -> [S -> Nat]] /\ g \in [S -> Nat]
  /\ \A n, x \in S : P[n][x] = IF num[x] = n THEN f[x] ELSE 0
  /\ \A n \in S : g[n] = Tally(S, P[n])

\* What is summed up class by class is no more than what there is.
LEMMA TallyClasses ==
  ASSUME NEW S, NEW num, NEW f, NEW P, NEW g, ByClass(S, num, f, P, g)
  PROVE  Tally(S, g) <= Tally(S, f)
<1> USE DEF ByClass
<1> DEFINE Part(n) == Strokes(S, P[n])
           way == [n \in S |-> CHOOSE b \in [1..g[n] -> Part(n)] :
                                 \A k, l \in 1..g[n] : b[k] = b[l] => k = l]
           F == [p \in Strokes(S, g) |-> way[p[1]][p[2]]]
<1>1. ASSUME NEW n \in S, NEW p \in Part(n) PROVE p \in Strokes(S, f) /\ num[p[1]] = n
  <2>1. PICK x \in S : p \in {x} \X (1..P[n][x])
    BY DEF Strokes
  <2>2. num[x] = n
    <3>1. num[x] # n => P[n][x] = 0
      OBVIOUS
    <3> QED BY <2>1, <3>1
  <2>3. P[n][x] = f[x]
    BY <2>2
  <2> QED BY <2>1, <2>2, <2>3 DEF Strokes
<1>2. ASSUME NEW n \in S
      PROVE  /\ way[n] \in [1..g[n] -> Part(n)]
             /\ \A k, l \in 1..g[n] : way[n][k] = way[n][l] => k = l
  <2>1. P[n] \in [S -> Nat]
    OBVIOUS
  <2>2. IsFiniteSet(Part(n))
    BY <2>1, StrokesType
  <2>3. Cardinality(Part(n)) = g[n]
    BY DEF Tally
  <2>4. ExistsBijection(1..g[n], Part(n))
    <3> HIDE DEF Part
    <3> QED BY <2>2, <2>3, FS_CardinalityType
  <2>5. \E b \in [1..g[n] -> Part(n)] : \A k, l \in 1..g[n] : b[k] = b[l] => k = l
    <3> PICK I : I = 1..g[n]
      OBVIOUS
    <3> PICK Q : Q = Part(n)
      OBVIOUS
    <3> HIDE DEF Part
    <3>1. ExistsBijection(I, Q)
      BY <2>4
    <3>2. PICK b : b \in Bijection(I, Q)
      BY <3>1 DEF ExistsBijection
    <3>3. b \in Injection(I, Q)
      BY <3>2 DEF Bijection
    <3>4. b \in [I -> Q] /\ \A k, l \in I : b[k] = b[l] => k = l
      BY <3>3 DEF Injection, IsInjective
    <3> QED BY <3>4
  <2>6. way[n] = CHOOSE b \in [1..g[n] -> Part(n)] :
                    \A k, l \in 1..g[n] : b[k] = b[l] => k = l
    OBVIOUS
  <2> HIDE DEF Part, way
  <2> QED BY <2>5, <2>6
<1>3. \A p : p \in Strokes(S, g) <=> \E n \in S : \E k \in 1..g[n] : p = <<n, k>>
  BY DEF Strokes
<1> HIDE DEF Part, way
<1>4. F \in [Strokes(S, g) -> Strokes(S, f)]
  <2> SUFFICES ASSUME NEW p \in Strokes(S, g) PROVE way[p[1]][p[2]] \in Strokes(S, f)
    OBVIOUS
  <2> PICK n \in S : \E k \in 1..g[n] : p = <<n, k>>
    BY <1>3
  <2>1. PICK k \in 1..g[n] : p = <<n, k>>
    OBVIOUS
  <2>2. way[n][k] \in Part(n)
    BY <1>2
  <2> QED BY <1>1, <2>1, <2>2
<1>5. \A p, q \in Strokes(S, g) : F[p] = F[q] => p = q
  <2> TAKE p, q \in Strokes(S, g)
  <2> HAVE F[p] = F[q]
  <2> PICK n \in S : \E k \in 1..g[n] : p = <<n, k>>
    BY <1>3
  <2>1. PICK k \in 1..g[n] : p = <<n, k>>
    OBVIOUS
  <2> PICK m \in S : \E l \in 1..g[m] : q = <<m, l>>
    BY <1>3
  <2>2. PICK l \in 1..g[m] : q = <<m, l>>
    OBVIOUS
  <2>3. way[n][k] = way[m][l]
    BY <2>1, <2>2
  <2>4. way[n][k] \in Part(n) /\ way[m][l] \in Part(m)
    <3>1. way[n] \in [1..g[n] -> Part(n)] /\ way[m] \in [1..g[m] -> Part(m)]
      BY <1>2
    <3> QED BY <3>1
  <2>5. n = m
    <3>1. num[way[n][k][1]] = n /\ num[way[m][l][1]] = m
      BY <1>1, <2>4
    <3> QED BY <2>3, <3>1
  <2>6. k = l
    BY <1>2, <2>3, <2>5
  <2> QED BY <2>1, <2>2, <2>5, <2>6
<1>6. IsFiniteSet(Strokes(S, f))
  BY StrokesType
<1> HIDE DEF F
<1> QED BY <1>4, <1>5, <1>6, NoMore DEF Tally
=============================================================================
