---------------------------- MODULE AnswersProofs ----------------------------
(***************************************************************************)
(* What a caller is answered: by the stores of plain files (FileStores)    *)
(* and by the operations of a plugin (Operations).                         *)
(* The lemmas in front are about numbers, finite sets and the operators    *)
(* that both the model and its properties are built from: induction over   *)
(* the functions that are defined recursively, sorting, and folds.         *)
(***************************************************************************)
EXTENDS FileStores, Operations, FiniteSetTheorems, WellFoundedInduction, TLAPS

(***************************************************************************)
(* Numbers.  Least and Greatest stand in for induction: of the numbers     *)
(* that a statement fails for, take the least.                             *)
(***************************************************************************)
LEMMA Least ==
    ASSUME NEW T \in SUBSET Nat, T # {}
    PROVE  \E m \in T : \A k \in T : m <= k
  <1>1. PICK n \in T : TRUE
    OBVIOUS
  <1> DEFINE U == {0 .. (k - 1) : k \in {j \in T : j <= n}}
  <1>2. IsFiniteSet(0 .. n)
    BY <1>1, FS_Interval
  <1>3. \A u \in U : u \subseteq 0 .. n
    OBVIOUS
  <1>4. U \subseteq FiniteSubsetsOf(0 .. n) /\ U # {}
    BY <1>1, <1>2, <1>3, FS_Subset DEF FiniteSubsetsOf
  <1>5. PICK x \in U : \A y \in U : ~ (<<y, x>> \in StrictSubsetOrdering(0 .. n))
    BY <1>2, <1>4, FS_StrictSubsetOrderingWellFounded, WFMin
  <1>6. PICK k \in T : k <= n /\ x = 0 .. (k - 1)
    OBVIOUS
  <1>7. ASSUME NEW j \in T, j < k PROVE FALSE
    <2>1. 0 .. (j - 1) \in U
      BY <1>6, <1>7
    <2>2. k - 1 \in x /\ k - 1 \notin 0 .. (j - 1) /\ 0 .. (j - 1) \subseteq x
      BY <1>6, <1>7
    <2>3. x \subseteq 0 .. n /\ 0 .. (j - 1) \subseteq 0 .. n
      BY <1>3, <2>1
    <2>4. QED
      BY <1>5, <2>1, <2>2, <2>3 DEF StrictSubsetOrdering
  <1>8. QED
    BY <1>6, <1>7

\* A bounded set of numbers has a greatest one.
LEMMA Greatest ==
    ASSUME NEW T \in SUBSET Nat, T # {}, NEW b \in Nat, \A k \in T : k <= b
    PROVE  \E m \in T : \A k \in T : k <= m
  <1> DEFINE U == {b - k : k \in T}
  <1>1. U \in SUBSET Nat /\ U # {}
    <2>1. \A k \in T : b - k \in Nat
      OBVIOUS
    <2>2. QED
      BY <2>1
  <1>2. PICK u \in U : \A v \in U : u <= v
    BY <1>1, Least
  <1>3. PICK m \in T : u = b - m
    OBVIOUS
  <1>4. \A k \in T : b - m <= b - k
    BY <1>2, <1>3
  <1>5. QED
    BY <1>4

\* The library's induction rules take the statement as an operator; these take it as
\* the set of what it holds for.
LEMMA Induction ==
    ASSUME NEW T, 0 \in T, \A n \in Nat : n \in T => n + 1 \in T
    PROVE  \A n \in Nat : n \in T
  <1> DEFINE F == Nat \ T
  <1>1. SUFFICES ASSUME F # {} PROVE FALSE
    OBVIOUS
  <1>2. PICK m \in F : \A k \in F : m <= k
    BY <1>1, Least
  <1>3. m # 0
    OBVIOUS
  <1>4. m - 1 \in Nat /\ m - 1 \notin F
    BY <1>2, <1>3
  <1>5. (m - 1) + 1 \in T
    BY <1>4
  <1>6. QED
    BY <1>5

(***************************************************************************)
(* Orders.                                                                 *)
(***************************************************************************)
StrictOrder(S, R) ==
    /\ \A x \in S : <<x, x>> \notin R
    /\ \A x, y \in S : x = y \/ <<x, y>> \in R \/ <<y, x>> \in R
    /\ \A x, y, z \in S : <<x, y>> \in R /\ <<y, z>> \in R => <<x, z>> \in R

\* InOrder enumerates S, in the order R.
LEMMA Enumerated ==
    ASSUME NEW S, IsFiniteSet(S), NEW R, StrictOrder(S, R)
    PROVE  /\ InOrder(S, R) \in [1 .. Cardinality(S) -> S]
           /\ \A x \in S : \E n \in 1 .. Cardinality(S) : InOrder(S, R)[n] = x
           /\ \A m, n \in 1 .. Cardinality(S) :
                 m < n => <<InOrder(S, R)[m], InOrder(S, R)[n]>> \in R
  <1> DEFINE below(x) == {y \in S : <<y, x>> \in R}
             card == Cardinality(S)
             rank == [x \in S |-> Cardinality(below(x))]
             T == 0 .. card - 1
  <1>1. card \in Nat
    BY FS_CardinalityType
  <1>2. \A x \in S : IsFiniteSet(below(x)) /\ rank[x] \in Nat
    BY FS_Subset, FS_CardinalityType
  <1>3. \A x \in S : rank[x] < card
    <2>1. TAKE x \in S
    <2>2. below(x) # S
      BY DEF StrictOrder
    <2>3. Cardinality(below(x)) <= card /\ Cardinality(below(x)) # card
      BY <2>2, FS_Subset
    <2>4. QED
      BY <1>1, <1>2, <2>3
  <1>4. \A x, y \in S : <<x, y>> \in R => rank[x] < rank[y]
    <2>1. TAKE x, y \in S
    <2>2. HAVE <<x, y>> \in R
    <2>3. below(x) \subseteq below(y) /\ x \in below(y) /\ x \notin below(x)
      BY <2>2 DEF StrictOrder
    <2>4. Cardinality(below(x)) <= Cardinality(below(y))
          /\ Cardinality(below(x)) # Cardinality(below(y))
      BY <1>2, <2>3, FS_Subset
    <2>5. QED
      BY <1>2, <2>4
  <1>5. rank \in Injection(S, T)
    <2>1. rank \in [S -> T]
      BY <1>1, <1>2, <1>3
    <2>2. ASSUME NEW x \in S, NEW y \in S, x # y PROVE rank[x] # rank[y]
      <3>1. <<x, y>> \in R \/ <<y, x>> \in R
        BY <2>2 DEF StrictOrder
      <3>2. rank[x] < rank[y] \/ rank[y] < rank[x]
        BY <1>4, <3>1
      <3>3. rank[x] \in Nat /\ rank[y] \in Nat
        BY <1>2
      <3> HIDE DEF rank
      <3>4. QED
        BY <3>2, <3>3
    <2>3. QED
      BY <2>1, <2>2 DEF Injection, IsInjective
  <1>6. IsFiniteSet(T) /\ Cardinality(T) = card
    BY <1>1, FS_Interval
  <1>7. rank \in Surjection(S, T)
    BY <1>5, <1>6, FS_Injection
  <1>8. \A t \in T : \E x \in S : rank[x] = t
    BY <1>7 DEF Surjection
  <1>9. ASSUME NEW n \in 1 .. card
        PROVE  InOrder(S, R)[n] \in S /\ rank[InOrder(S, R)[n]] = n - 1
    <2>1. n - 1 \in T
      BY <1>1
    <2>2. \E x \in S : Cardinality(below(x)) = n - 1
      BY <1>8, <2>1
    <2>3. InOrder(S, R)[n] = CHOOSE x \in S : Cardinality(below(x)) = n - 1
      BY DEF InOrder
    <2>4. QED
      BY <2>2, <2>3
  <1>10. InOrder(S, R) \in [1 .. card -> S]
    BY <1>9 DEF InOrder
  <1>11. ASSUME NEW x \in S PROVE \E n \in 1 .. card : InOrder(S, R)[n] = x
    <2>1. rank[x] + 1 \in 1 .. card
      BY <1>1, <1>2, <1>3
    <2>2. PICK n \in 1 .. card : n = rank[x] + 1
      BY <2>1
    <2>3. InOrder(S, R)[n] \in S /\ rank[InOrder(S, R)[n]] = rank[x]
      <3>1. rank[x] \in Nat
        BY <1>2
      <3> HIDE DEF rank
      <3>2. QED
        BY <1>9, <2>2, <3>1
    <2>4. InOrder(S, R)[n] = x
      BY <1>5, <2>3 DEF Injection, IsInjective
    <2>5. QED
      BY <2>4
  <1>12. ASSUME NEW m \in 1 .. card, NEW n \in 1 .. card, m < n
         PROVE  <<InOrder(S, R)[m], InOrder(S, R)[n]>> \in R
    <2> DEFINE x == InOrder(S, R)[m]
               y == InOrder(S, R)[n]
    <2>1. x \in S /\ y \in S /\ rank[x] = m - 1 /\ rank[y] = n - 1
      BY <1>9
    <2>2. x # y /\ ~(<<y, x>> \in R)
      BY <1>1, <1>4, <1>12, <2>1
    <2>3. QED
      BY <2>1, <2>2 DEF StrictOrder
  <1>13. QED
    BY <1>10, <1>11, <1>12

\* Kept is a sequence of what is at the positions.
LEMMA KeptElements ==
    ASSUME NEW A, NEW s \in Seq(A), NEW N \in SUBSET DOMAIN s
    PROVE  /\ Kept(s, N) \in Seq(A)
           /\ Range(Kept(s, N)) = {s[n] : n \in N}
           /\ DOMAIN Kept(s, N) = 1 .. Cardinality(N)
  <1> DEFINE R == {p \in N \X N : p[1] < p[2]}
             at == InOrder(N, R)
  <1>1. IsFiniteSet(N)
    BY FS_Interval, FS_Subset
  <1>2. N \in SUBSET Nat
    OBVIOUS
  <1>3. StrictOrder(N, R)
    BY <1>2 DEF StrictOrder
  <1> HIDE DEF R
  <1>4. /\ at \in [1 .. Cardinality(N) -> N]
        /\ \A x \in N : \E n \in 1 .. Cardinality(N) : at[n] = x
    BY <1>1, <1>3, Enumerated
  <1>5. Cardinality(N) \in Nat
    BY <1>1, FS_CardinalityType
  <1> HIDE DEF at
  <1>6. Kept(s, N) = [n \in DOMAIN at |-> s[at[n]]]
    BY DEF Kept, at, R
  <1>7. Kept(s, N) = [n \in 1 .. Cardinality(N) |-> s[at[n]]]
    BY <1>4, <1>6
  <1>8. \A n \in 1 .. Cardinality(N) : at[n] \in N /\ s[at[n]] \in A
    BY <1>4
  <1>9. Kept(s, N) \in Seq(A)
    BY <1>5, <1>7, <1>8
  <1>10. Range(Kept(s, N)) = {s[n] : n \in N}
    BY <1>4, <1>7, <1>8 DEF Range
  <1>11. QED
    BY <1>7, <1>9, <1>10
(***************************************************************************)
(* The functions behind the recursive operators of the community modules.  *)
(***************************************************************************)
\* Sequences one after the other are a sequence.
LEMMA Flattened ==
    ASSUME NEW A, NEW ss \in Seq(Seq(A))
    PROVE  FlattenSeq(ss) \in Seq(A)
  <1> DEFINE Def(g, i) == IF i = 1 THEN ss[i] ELSE g[i - 1] \o ss[i]
             Fits(g, n) == g = [i \in 1 .. n |-> Def(g, i)] /\ \A i \in 1 .. n : g[i] \in Seq(A)
             T == {n \in Nat : n <= Len(ss) => \E g : Fits(g, n)}
  <1>1. 0 \in T
    <2>1. Fits(<<>>, 0)
      OBVIOUS
    <2>2. QED
      BY <2>1
  <1> HIDE DEF Fits
  <1>2. ASSUME NEW n \in Nat, n \in T PROVE n + 1 \in T
    <2>1. SUFFICES ASSUME n + 1 <= Len(ss) PROVE \E g : Fits(g, n + 1)
      OBVIOUS
    <2>2. PICK g : Fits(g, n)
      BY <1>2, <2>1
    <2> DEFINE h == [i \in 1 .. n + 1 |-> IF i = n + 1 THEN Def(g, i) ELSE g[i]]
    <2>3. \A i \in 1 .. n : h[i] = g[i] /\ h[i] = Def(g, i) /\ h[i] \in Seq(A)
      <3>1. g = [i \in 1 .. n |-> Def(g, i)] /\ \A i \in 1 .. n : g[i] \in Seq(A)
        BY <2>2 DEF Fits
      <3>2. \A i \in 1 .. n : g[i] = Def(g, i)
        BY <3>1
      <3>3. \A i \in 1 .. n : h[i] = g[i]
        OBVIOUS
      <3> HIDE DEF h, Def
      <3>4. QED
        BY <3>1, <3>2, <3>3
    <2>4. h[n + 1] = Def(g, n + 1)
      OBVIOUS
    <2>5. h[n + 1] \in Seq(A)
      <3>1. ss[n + 1] \in Seq(A)
        BY <2>1
      <3>2. n # 0 => g[n] \in Seq(A)
        BY <2>2 DEF Fits
      <3>3. QED
        BY <2>4, <3>1, <3>2
    <2>6. \A i \in 1 .. n + 1 : h[i] = Def(h, i) /\ h[i] \in Seq(A)
      <3>1. TAKE i \in 1 .. n + 1
      <3>2. i # 1 => h[i - 1] = g[i - 1]
        BY <2>3
      <3>3. h[i] = Def(g, i) /\ h[i] \in Seq(A)
        <4>1. i = n + 1 \/ i \in 1 .. n
          OBVIOUS
        <4> HIDE DEF h, Def
        <4>2. QED
          BY <2>3, <2>4, <2>5, <4>1
      <3> HIDE DEF h
      <3>4. QED
        BY <3>2, <3>3
    <2>7. Fits(h, n + 1)
      <3>1. h = [i \in 1 .. n + 1 |-> h[i]]
        OBVIOUS
      <3> HIDE DEF h
      <3>2. QED
        BY <2>6, <3>1 DEF Fits
    <2>8. QED
      BY <2>7
  <1>3. \A n \in Nat : n \in T
    <2> HIDE DEF T
    <2>1. QED
      BY <1>1, <1>2, Induction
  <1>4. CASE Len(ss) = 0
    BY <1>4 DEF FlattenSeq
  <1>5. CASE Len(ss) # 0
    <2>1. Len(ss) \in Nat /\ Len(ss) \in 1 .. Len(ss)
      BY <1>5
    <2> DEFINE f == CHOOSE g : g = [i \in 1 .. Len(ss) |-> Def(g, i)]
    <2>2. \E g : g = [i \in 1 .. Len(ss) |-> Def(g, i)]
      <3>1. Len(ss) \in T
        BY <1>3, <2>1
      <3>2. \E g : Fits(g, Len(ss))
        BY <3>1
      <3>3. QED
        BY <3>2 DEF Fits
    <2>3. f = [i \in 1 .. Len(ss) |-> Def(f, i)]
      BY <2>2
    <2>4. FlattenSeq(ss) = f[Len(ss)]
      BY <1>5, Zenon DEF FlattenSeq
    <2> HIDE DEF f
    <2> DEFINE P == {n \in Nat : n + 1 <= Len(ss) => f[n + 1] \in Seq(A)}
    <2>5. 0 \in P
      BY <2>1, <2>3
    <2>6. ASSUME NEW n \in Nat, n \in P PROVE n + 1 \in P
      <3>1. SUFFICES ASSUME n + 2 <= Len(ss) PROVE f[n + 2] \in Seq(A)
        BY SMT
      <3>2. n + 2 \in 1 .. Len(ss) /\ n + 2 # 1 /\ (n + 2) - 1 = n + 1
        BY <3>1
      <3>3. f[n + 2] = f[n + 1] \o ss[n + 2]
        BY <2>3, <3>2
      <3>4. f[n + 1] \in Seq(A) /\ ss[n + 2] \in Seq(A)
        BY <2>6, <3>1
      <3>5. QED
        BY <3>3, <3>4
    <2>7. \A n \in Nat : n \in P
      <3> HIDE DEF P
      <3>1. QED
        BY <2>5, <2>6, Induction
    <2>8. Len(ss) - 1 \in P /\ (Len(ss) - 1) + 1 = Len(ss)
      <3>1. Len(ss) - 1 \in Nat /\ (Len(ss) - 1) + 1 = Len(ss)
        BY <2>1
      <3> HIDE DEF P
      <3>2. QED
        BY <2>7, <3>1
    <2>9. f[Len(ss)] \in Seq(A)
      BY <2>1, <2>8
    <2>10. QED
      BY <2>4, <2>9
  <1>6. QED
    BY <1>4, <1>5

\* A sum of numbers is a number.
LEMMA Summed ==
    ASSUME NEW S, IsFiniteSet(S), NEW f \in [S -> Nat]
    PROVE  MapThenSumSet(LAMBDA x : f[x], S) \in Nat
  <1> DEFINE some(U) == CHOOSE x \in U : TRUE
             Def(g, U) == IF U = {} THEN 0 ELSE f[some(U)] + g[U \ {some(U)}]
             Fits(g, D) == g = [U \in D |-> Def(g, U)] /\ \A U \in D : g[U] \in Nat
             Up(n) == {U \in SUBSET S : Cardinality(U) <= n}
             T == {n \in Nat : \E g : Fits(g, Up(n))}
  <1>1. \A U \in SUBSET S : IsFiniteSet(U) /\ Cardinality(U) \in Nat
    BY FS_Subset, FS_CardinalityType
  <1>2. \A U \in SUBSET S : U # {} =>
           some(U) \in U /\ U \ {some(U)} \in SUBSET S
           /\ Cardinality(U \ {some(U)}) = Cardinality(U) - 1
    BY <1>1, FS_RemoveElement
  <1>3. 0 \in T
    <2> DEFINE g == [U \in Up(0) |-> 0]
    <2>1. \A U \in Up(0) : U = {}
      BY <1>1, FS_EmptySet
    <2>2. Fits(g, Up(0))
      BY <2>1
    <2>3. QED
      BY <2>2
  <1>4. ASSUME NEW n \in Nat, n \in T PROVE n + 1 \in T
    <2>1. PICK g : Fits(g, Up(n))
      BY <1>4
    <2> DEFINE h == [U \in Up(n + 1) |-> Def(g, U)]
    <2>2. \A U \in Up(n) : h[U] = g[U] /\ g[U] \in Nat
      <3>1. Up(n) \subseteq Up(n + 1)
        BY <1>1
      <3>2. \A U \in Up(n) : g[U] = Def(g, U) /\ g[U] \in Nat
        BY <2>1
      <3> HIDE DEF Up, Def
      <3>3. QED
        BY <3>1, <3>2
    <2>3. ASSUME NEW U \in Up(n + 1) PROVE h[U] = Def(h, U) /\ h[U] \in Nat
      <3>1. CASE U = {}
        BY <3>1
      <3>2. CASE U # {}
        <4>1. U \ {some(U)} \in Up(n)
          BY <1>1, <1>2, <3>2
        <4>2. h[U \ {some(U)}] = g[U \ {some(U)}] /\ g[U \ {some(U)}] \in Nat
          BY <2>2, <4>1
        <4>3. h[U] = f[some(U)] + g[U \ {some(U)}]
          BY <2>3, <3>2
        <4>4. f[some(U)] \in Nat
          BY <1>2, <3>2
        <4> HIDE DEF h, some
        <4>5. QED
          BY <3>2, <4>2, <4>3, <4>4
      <3>3. QED
        BY <3>1, <3>2
    <2>4. Fits(h, Up(n + 1))
      <3>1. h = [U \in Up(n + 1) |-> h[U]]
        OBVIOUS
      <3> HIDE DEF h, Up, Def
      <3>2. QED
        BY <2>3, <3>1
    <2>5. \E k : Fits(k, Up(n + 1))
      BY <2>4
    <2> HIDE DEF Fits, Up
    <2>6. QED
      BY <2>5
  <1>5. \A n \in Nat : n \in T
    <2> HIDE DEF T
    <2>1. QED
      BY <1>3, <1>4, Induction
  <1>6. Up(Cardinality(S)) = SUBSET S
    BY <1>1, FS_Subset
  <1>7. PICK whole : Fits(whole, SUBSET S)
    BY <1>1, <1>5, <1>6
  <1> DEFINE sum == CHOOSE g : g = [U \in SUBSET S |-> Def(g, U)]
  <1>8. sum = [U \in SUBSET S |-> Def(sum, U)]
    BY <1>7
  <1>9. MapThenSumSet(LAMBDA x : f[x], S) = sum[S]
    BY Zenon DEF MapThenSumSet, MapThenFoldSet
  <1> HIDE DEF sum
  <1> DEFINE C == {U \in SUBSET S : sum[U] \in Nat}
             P == {n \in Nat : Up(n) \subseteq C}
  <1>10. \A U \in SUBSET S : sum[U] = Def(sum, U)
    BY <1>8
  <1>11. 0 \in P
    <2>1. \A U \in Up(0) : U = {}
      BY <1>1, FS_EmptySet
    <2>2. {} \in C
      BY <1>10
    <2>3. QED
      BY <2>1, <2>2
  <1>12. ASSUME NEW n \in Nat, n \in P PROVE n + 1 \in P
    <2>1. SUFFICES ASSUME NEW U \in Up(n + 1), U # {} PROVE sum[U] \in Nat
      BY <1>10
    <2>2. U \ {some(U)} \in Up(n)
      BY <1>1, <1>2, <2>1
    <2>3. sum[U \ {some(U)}] \in Nat
      BY <1>12, <2>2
    <2>4. f[some(U)] \in Nat
      BY <1>2, <2>1
    <2> HIDE DEF some
    <2>5. QED
      BY <1>10, <2>1, <2>3, <2>4
  <1>13. \A n \in Nat : n \in P
    <2> HIDE DEF P
    <2>1. QED
      BY <1>11, <1>12, Induction
  <1>14. QED
    BY <1>1, <1>6, <1>9, <1>13
-----------------------------------------------------------------------------
(***************************************************************************)
(* FileStores: scores.                                                     *)
(***************************************************************************)
LEMMA WeightType ==
    \A k \in DOMAIN Weight :
       /\ Weight[k][1] \in Nat /\ Weight[k][1] <= 1000
       /\ Weight[k][2] \in Nat /\ Weight[k][2] <= 1000
       /\ Weight[k][3] \in Nat /\ Weight[k][3] <= 1000
  <1>1. DOMAIN Weight = {"id", "title", "entity", "links", "record", "other"}
    BY DEF Weight
  <1>2. SUFFICES ASSUME NEW k \in {"id", "title", "entity", "links", "record", "other"}
                 PROVE  /\ Weight[k][1] \in Nat /\ Weight[k][1] <= 1000
                        /\ Weight[k][2] \in Nat /\ Weight[k][2] <= 1000
                        /\ Weight[k][3] \in Nat /\ Weight[k][3] <= 1000
    BY <1>1
  <1>3. CASE k = "id" BY <1>3 DEF Weight
  <1>4. CASE k = "title" BY <1>4 DEF Weight
  <1>5. CASE k = "entity" BY <1>5 DEF Weight
  <1>6. CASE k = "links" BY <1>6 DEF Weight
  <1>7. CASE k = "record" BY <1>7 DEF Weight
  <1>8. CASE k = "other" BY <1>8 DEF Weight
  <1>9. QED
    BY <1>3, <1>4, <1>5, <1>6, <1>7, <1>8

LEMMA DirectScoreType ==
    ASSUME NEW r \in Records, NEW query \in Seq(Nat)
    PROVE  DirectScore(r, query) \in Nat
  <1> DEFINE scores == {FieldScore(text, query) : text \in Texts(r)}
  <1>1. Texts(r) \subseteq (DOMAIN Weight) \X Seq(Nat)
    <2>1. r.texts \subseteq (DOMAIN Weight) \X Seq(Nat)
      BY DEF Records, Texted
    <2>2. "id" \in DOMAIN Weight /\ "entity" \in DOMAIN Weight
      BY DEF Weight
    <2>3. <<r.id>> \in Seq(Nat) /\ <<r.entity>> \in Seq(Nat)
      BY DEF Records
    <2>4. /\ <<"id", <<r.id>>>> \in (DOMAIN Weight) \X Seq(Nat)
          /\ <<"entity", <<r.entity>>>> \in (DOMAIN Weight) \X Seq(Nat)
      BY <2>2, <2>3
    <2>5. Texts(r) = r.texts \cup {<<"id", <<r.id>>>>, <<"entity", <<r.entity>>>>}
      BY Zenon DEF Texts
    <2>6. QED
      BY <2>1, <2>4, <2>5
  <1>2. ASSUME NEW text \in Texts(r)
        PROVE  FieldScore(text, query) \in Nat /\ FieldScore(text, query) <= 1000
    <2>1. text[1] \in DOMAIN Weight
      BY <1>1
    <2>2. FieldScore(text, query)
             \in {Weight[text[1]][1], Weight[text[1]][2], Weight[text[1]][3], 0}
      BY DEF FieldScore
    <2>3. QED
      BY <2>1, <2>2, WeightType
  <1>3. scores # {}
    BY DEF Texts
  <1>4. scores \in SUBSET Nat /\ \A k \in scores : k <= 1000
    BY <1>2
  <1>5. \E m \in scores : \A k \in scores : k <= m
    <2>1. PICK b \in Nat : b = 1000
      OBVIOUS
    <2> HIDE DEF scores
    <2>2. \A k \in scores : k <= b
      BY <1>4, <2>1
    <2>3. scores \in SUBSET Nat
      BY <1>4
    <2>4. QED
      BY <1>3, <2>2, <2>3, Greatest
  <1>6. \E m \in scores : \A k \in scores : m >= k
    BY <1>4, <1>5
  <1>7. DirectScore(r, query) = Max(scores)
    BY DEF DirectScore
  <1>8. Max(scores) \in scores
    <2> HIDE DEF scores
    <2>1. QED
      BY <1>6 DEF Max
  <1>9. QED
    BY <1>4, <1>7, <1>8

LEMMA ScoreType ==
    ASSUME NEW r \in Records, NEW query \in Seq(Nat)
    PROVE  Score(r, query) \in Nat
  <1> DEFINE terms == SearchTerms(query)
             score == [word \in terms |-> DirectScore(r, <<word>>)]
  <1>1. terms \subseteq Nat /\ IsFiniteSet(terms)
    <2>1. query \in Surjection(1 .. Len(query), Range(query))
      BY DEF Surjection, Range
    <2>2. IsFiniteSet(Range(query)) /\ Range(query) \subseteq Nat
      BY <2>1, FS_Interval, FS_Surjection DEF Range
    <2>3. QED
      BY <2>2, FS_Subset DEF SearchTerms
  <1>2. score \in [terms -> Nat]
    <2>1. \A word \in terms : <<word>> \in Seq(Nat)
      BY <1>1
    <2>2. QED
      BY <2>1, DirectScoreType
  <1>3. MapThenSumSet(LAMBDA word : score[word], terms) \in Nat
    <2> HIDE DEF terms, score
    <2>1. QED
      BY <1>1, <1>2, Summed
  <1>4. Cardinality(terms) \in Nat
    BY <1>1, FS_CardinalityType
  <1>5. TokenScore(r, query) \in Nat
    <2>1. CASE Cardinality(terms) < 2 \/ \E word \in terms : score[word] = 0
      BY <2>1 DEF TokenScore
    <2>2. CASE ~(Cardinality(terms) < 2 \/ \E word \in terms : score[word] = 0)
      <3>1. TokenScore(r, query)
               = MapThenSumSet(LAMBDA word : score[word], terms) \div Cardinality(terms)
        BY <2>2 DEF TokenScore
      <3>2. \A a \in Nat, b \in Nat : b >= 2 => a \div b \in Nat
        OBVIOUS
      <3> HIDE DEF terms, score
      <3>3. QED
        BY <1>3, <1>4, <2>2, <3>1, <3>2
    <2>3. QED
      BY <2>1, <2>2
  <1>6. QED
    BY <1>5, DirectScoreType DEF Score

(***************************************************************************)
(* FileStores: the type invariant, which says of every file that what it   *)
(* holds was meant for it.                                                 *)
(***************************************************************************)
Taken == {Snapshot(i, records) : i \in Indexes, records \in Seq(Records)}
Writes ==
    {Write(IndexPath[s.index], s) : s \in Taken}
    \cup {Write(ContentPath[r], Content(v)) : r \in Refs, v \in Contents}
    \cup {Write(InfoPath[r], Info(r)) : r \in Refs}
Marks == {Absent, Empty, Mixed}

StoresType ==
    /\ files \in [Paths -> [holds : Marks \cup {x.content : x \in Writes},
                            by : Writers \cup {Nobody}]]
    /\ writer \in [Writers -> [at : {"idle", "truncate", "fill"},
                               todo : Seq(Writes), done : Seq(Writes)]]
    /\ \A p \in Paths : files[p].holds \in Marks \/ Write(p, files[p].holds) \in Writes
    /\ \A w \in Writers : writer[w].at = "fill" => writer[w].todo # <<>>

\* A write goes to a file of the store, and does not remove it.
LEMMA WritesSound ==
    \A x \in Writes : /\ x.path \in Paths
                      /\ x = Write(x.path, x.content)
                      /\ x.content \notin Marks
  <1>1. \A i \in Indexes : IndexPath[i] \in Paths
    BY FileStoresAssumption DEF Paths, Range
  <1>2. \A r \in Refs : ContentPath[r] \in Paths /\ InfoPath[r] \in Paths
    BY FileStoresAssumption DEF Paths, Range
  <1>3. \A k \in {"snapshot", "content", "info"}, m \in Marks : m.kind # k
    BY DEF Marks, Absent, Empty, Mixed
  <1>4. TAKE x \in Writes
  <1>5. CASE x \in {Write(IndexPath[s.index], s) : s \in Taken}
    <2>1. PICK s \in Taken : x = Write(IndexPath[s.index], s)
      BY <1>5
    <2>2. s.kind = "snapshot" /\ s.index \in Indexes
      BY DEF Taken, Snapshot
    <2>3. QED
      BY <1>1, <1>3, <2>1, <2>2 DEF Write
  <1>6. CASE x \in {Write(ContentPath[r], Content(v)) : r \in Refs, v \in Contents}
    <2>1. PICK r \in Refs, v \in Contents : x = Write(ContentPath[r], Content(v))
      BY <1>6
    <2>2. Content(v).kind = "content"
      BY DEF Content
    <2>3. QED
      BY <1>2, <1>3, <2>1, <2>2 DEF Write
  <1>7. CASE x \in {Write(InfoPath[r], Info(r)) : r \in Refs}
    <2>1. PICK r \in Refs : x = Write(InfoPath[r], Info(r))
      BY <1>7
    <2>2. Info(r).kind = "info"
      BY DEF Info
    <2>3. QED
      BY <1>2, <1>3, <2>1, <2>2 DEF Write
  <1>8. QED
    BY <1>5, <1>6, <1>7 DEF Writes

\* A build writes snapshots.
LEMMA IndexWritesType ==
    ASSUME NEW selector \in Selectors, NEW v \in Versions
    PROVE  IndexWrites(selector, v) \in Seq(Writes)
  <1> DEFINE N == {n \in DOMAIN Jobs : Includes(selector, Jobs[n])}
             selected == Kept(Jobs, N)
  <1>1. Jobs \in Seq(Indexes)
    BY FileStoresAssumption DEF Indexes, Range
  <1>2. selected \in Seq(Indexes)
    BY <1>1, KeptElements
  <1>3. IndexWrites(selector, v)
           = [n \in DOMAIN selected |->
                Write(IndexPath[selected[n]], Snapshot(selected[n], Data[v][selected[n]]))]
    BY Zenon DEF IndexWrites
  <1> HIDE DEF selected
  <1>4. ASSUME NEW n \in DOMAIN selected
        PROVE  Write(IndexPath[selected[n]], Snapshot(selected[n], Data[v][selected[n]]))
                  \in Writes
    <2>1. PICK i \in Indexes : i = selected[n]
      BY <1>2
    <2>2. PICK s \in Taken : s = Snapshot(i, Data[v][i])
      BY FileStoresAssumption DEF Taken
    <2>3. s.index = i
      BY <2>2 DEF Snapshot
    <2>4. QED
      BY <2>1, <2>2, <2>3 DEF Writes
  <1>5. QED
    BY <1>2, <1>3, <1>4

LEMMA BlobWritesType ==
    ASSUME NEW r \in Refs, NEW v \in Contents
    PROVE  BlobWrites(r, v) \in Seq(Writes)
  BY DEF BlobWrites, Writes
LEMMA TailOf ==
    ASSUME NEW S, NEW s \in Seq(S), s # <<>>
    PROVE  /\ Len(s) \in Nat /\ DOMAIN s = 1 .. Len(s)
           /\ DOMAIN Tail(s) = 1 .. Len(s) - 1
           /\ \A k \in 1 .. Len(s) - 1 : Tail(s)[k] = s[k + 1]
  OBVIOUS

(***************************************************************************)
(* FileStores: the steps of a writer, as what they leave of files and      *)
(* writer.                                                                 *)
(***************************************************************************)
Begun(w, todo) ==
    /\ writer' = [writer EXCEPT ![w] = [at |-> "truncate", todo |-> todo, done |-> <<>>]]
    /\ UNCHANGED files

LEMMA BeginSteps ==
    ASSUME NEW w \in Writers, BuildIndex(w) \/ BlobWrite(w)
    PROVE  /\ writer[w].at = "idle"
           /\ \/ \E selector \in Selectors, v \in Versions : Begun(w, IndexWrites(selector, v))
              \/ \E r \in Refs, v \in Contents : Begun(w, BlobWrites(r, v))
  BY Zenon DEF BuildIndex, BlobWrite, Begun

LEMMA InitType == StoresInit => StoresType
  <1>1. SUFFICES ASSUME StoresInit PROVE StoresType
    OBVIOUS
  <1>2. <<>> \in Seq(Writes)
    OBVIOUS
  <1>3. \A w \in Writers : writer[w] = AtRest
    BY <1>1 DEF StoresInit
  <1>4. \A p \in Paths : files[p] = [holds |-> Absent, by |-> Nobody]
    BY <1>1 DEF StoresInit
  <1>5. AtRest \in [at : {"idle", "truncate", "fill"}, todo : Seq(Writes), done : Seq(Writes)]
    BY <1>2 DEF AtRest
  <1>6. writer \in [Writers -> [at : {"idle", "truncate", "fill"},
                               todo : Seq(Writes), done : Seq(Writes)]]
    BY <1>1, <1>5 DEF StoresInit
  <1>7. files \in [Paths -> [holds : Marks \cup {x.content : x \in Writes},
                            by : Writers \cup {Nobody}]]
    BY <1>1 DEF StoresInit, Marks
  <1>8. QED
    BY <1>3, <1>4, <1>6, <1>7 DEF StoresType, Marks, AtRest

\* A file that one writer changes.
LEMMA FileSet ==
    ASSUME StoresType, NEW p \in Paths, NEW w \in Writers, NEW c,
           c \in Marks \/ Write(p, c) \in Writes,
           files' = [files EXCEPT ![p] = [holds |-> c, by |-> w]]
    PROVE  /\ files' \in [Paths -> [holds : Marks \cup {x.content : x \in Writes},
                                   by : Writers \cup {Nobody}]]
           /\ \A q \in Paths : files'[q].holds \in Marks \/ Write(q, files'[q].holds) \in Writes
           /\ files'[p].holds = c /\ files'[p].by = w
           /\ \A q \in Paths : q # p => files'[q] = files[q]
  <1>1. DOMAIN files = Paths
    BY DEF StoresType
  <1>2. files'[p] = [holds |-> c, by |-> w]
    BY <1>1
  <1>3. \A q \in Paths : q # p => files'[q] = files[q]
    BY <1>1
  <1>4. c \in Marks \cup {x.content : x \in Writes}
    BY DEF Write
  <1>5. [holds |-> c, by |-> w] \in [holds : Marks \cup {x.content : x \in Writes},
                                    by : Writers \cup {Nobody}]
    BY <1>4
  <1>6. files' \in [Paths -> [holds : Marks \cup {x.content : x \in Writes},
                             by : Writers \cup {Nobody}]]
    BY <1>5 DEF StoresType
  <1>7. \A q \in Paths : files'[q].holds \in Marks \/ Write(q, files'[q].holds) \in Writes
    BY <1>2, <1>3 DEF StoresType
  <1>8. QED
    BY <1>2, <1>3, <1>6, <1>7

LEMMA TruncateFile ==
    ASSUME StoresType, NEW w \in Writers, Truncate(w)
    PROVE  LET next == Head(writer[w].todo)
           IN /\ next \in Writes
              /\ files' = [files EXCEPT ![next.path] = [holds |-> Empty, by |-> w]]
              /\ writer' = [writer EXCEPT ![w].at = "fill"]
  <1>1. writer[w].todo \in Seq(Writes) /\ writer[w].todo # <<>>
    BY DEF StoresType, Truncate
  <1>2. Head(writer[w].todo) \in Writes
    BY <1>1
  <1>3. QED
    BY <1>2 DEF Truncate

LEMMA FillFile ==
    ASSUME StoresType, NEW w \in Writers, Fill(w)
    PROVE  LET next == Head(writer[w].todo)
           IN /\ next \in Writes /\ writer[w].todo # <<>>
              /\ \E c \in {next.content, Mixed} :
                    files' = [files EXCEPT ![next.path] = [holds |-> c, by |-> w]]
              /\ writer' = [writer EXCEPT ![w] =
                               [at |-> "truncate", todo |-> Tail(writer[w].todo),
                                done |-> Append(writer[w].done, next)]]
  <1>1. writer[w].todo \in Seq(Writes) /\ writer[w].todo # <<>>
    BY DEF StoresType, Fill
  <1>2. Head(writer[w].todo) \in Writes
    BY <1>1
  <1>3. QED
    BY <1>1, <1>2 DEF Fill, StoresType

LEMMA LeaveFiles ==
    ASSUME StoresType, NEW w \in Writers, Leave(w)
    PROVE  /\ writer' = [writer EXCEPT ![w] = AtRest]
           /\ DOMAIN files' = Paths
           /\ \A p \in Paths :
                 /\ files'[p].holds = files[p].holds
                 /\ files'[p].by = IF files[p].by = w THEN Nobody ELSE files[p].by
                 /\ files'[p] \in [holds : Marks \cup {x.content : x \in Writes},
                                   by : Writers \cup {Nobody}]
  BY DEF Leave, StoresType

\* One writer changes.
LEMMA WriterSet ==
    ASSUME StoresType, NEW w \in Writers,
           NEW now \in [at : {"idle", "truncate", "fill"}, todo : Seq(Writes), done : Seq(Writes)],
           now.at = "fill" => now.todo # <<>>,
           writer' = [writer EXCEPT ![w] = now]
    PROVE  /\ writer' \in [Writers -> [at : {"idle", "truncate", "fill"},
                                      todo : Seq(Writes), done : Seq(Writes)]]
           /\ \A v \in Writers : writer'[v].at = "fill" => writer'[v].todo # <<>>
           /\ writer'[w] = now
           /\ \A v \in Writers : v # w => writer'[v] = writer[v]
  BY DEF StoresType

LEMMA NextType == StoresType /\ [StoresNext]_storeVars => StoresType'
  <1> DEFINE Acts == [at : {"idle", "truncate", "fill"}, todo : Seq(Writes), done : Seq(Writes)]
             FilesOK == /\ files' \in [Paths -> [holds : Marks \cup {x.content : x \in Writes},
                                               by : Writers \cup {Nobody}]]
                        /\ \A p \in Paths : files'[p].holds \in Marks
                                            \/ Write(p, files'[p].holds) \in Writes
             WritersOK == /\ writer' \in [Writers -> Acts]
                          /\ \A v \in Writers : writer'[v].at = "fill" => writer'[v].todo # <<>>
  <1>1. SUFFICES ASSUME StoresType, [StoresNext]_storeVars PROVE StoresType'
    OBVIOUS
  <1>2. ASSUME FilesOK, WritersOK PROVE StoresType'
    BY <1>2 DEF StoresType
  <1>3. ASSUME UNCHANGED files PROVE FilesOK
    BY <1>1, <1>3 DEF StoresType
  <1>4. \A w \in Writers : writer[w] \in Acts
    BY <1>1 DEF StoresType
  <1> HIDE DEF FilesOK, WritersOK
  <1>5. ASSUME NEW w \in Writers, BuildIndex(w) \/ BlobWrite(w) PROVE StoresType'
    <2>1. PICK todo \in Seq(Writes) : Begun(w, todo)
      BY <1>5, BeginSteps, IndexWritesType, BlobWritesType
    <2>2. PICK now \in Acts : now = [at |-> "truncate", todo |-> todo, done |-> <<>>]
      <3>1. <<>> \in Seq(Writes)
        OBVIOUS
      <3>2. QED
        BY <3>1
    <2>3. WritersOK
      BY <1>1, <2>1, <2>2, WriterSet DEF Begun, WritersOK
    <2>4. QED
      BY <1>2, <1>3, <2>1, <2>3 DEF Begun
  <1>6. ASSUME NEW w \in Writers, Truncate(w) PROVE StoresType'
    <2>1. PICK next \in Writes :
             /\ files' = [files EXCEPT ![next.path] = [holds |-> Empty, by |-> w]]
             /\ writer' = [writer EXCEPT ![w].at = "fill"]
      BY <1>1, <1>6, TruncateFile
    <2>2. FilesOK
      BY <1>1, <2>1, FileSet, WritesSound DEF FilesOK, Marks
    <2>3. writer' = [writer EXCEPT ![w] = [writer[w] EXCEPT !.at = "fill"]]
      BY <2>1
    <2>4. PICK now \in Acts : now = [writer[w] EXCEPT !.at = "fill"]
      BY <1>4
    <2>5. now.todo # <<>>
      BY <1>4, <1>6, <2>4 DEF Truncate
    <2>6. WritersOK
      BY <1>1, <2>3, <2>4, <2>5, WriterSet DEF WritersOK
    <2>7. QED
      BY <1>2, <2>2, <2>6
  <1>7. ASSUME NEW w \in Writers, Fill(w) PROVE StoresType'
    <2>1. PICK next \in Writes :
             /\ next = Head(writer[w].todo) /\ writer[w].todo # <<>>
             /\ \E c \in {next.content, Mixed} :
                   files' = [files EXCEPT ![next.path] = [holds |-> c, by |-> w]]
             /\ writer' = [writer EXCEPT ![w] =
                              [at |-> "truncate", todo |-> Tail(writer[w].todo),
                               done |-> Append(writer[w].done, next)]]
      BY <1>1, <1>7, FillFile
    <2> PICK c \in {next.content, Mixed} :
             files' = [files EXCEPT ![next.path] = [holds |-> c, by |-> w]]
      BY <2>1
    <2>2. c \in Marks \/ Write(next.path, c) \in Writes
      BY <2>1, WritesSound DEF Marks
    <2>3. FilesOK
      BY <1>1, <2>1, <2>2, FileSet, WritesSound DEF FilesOK
    <2>4. PICK now \in Acts : now = [at |-> "truncate", todo |-> Tail(writer[w].todo),
                                    done |-> Append(writer[w].done, next)]
      <3>1. Tail(writer[w].todo) \in Seq(Writes) /\ Append(writer[w].done, next) \in Seq(Writes)
        BY <1>4, <2>1
      <3>2. QED
        BY <3>1
    <2>5. WritersOK
      BY <1>1, <2>1, <2>4, WriterSet DEF WritersOK
    <2>6. QED
      BY <1>2, <2>3, <2>5
  <1>8. ASSUME NEW w \in Writers, Stop(w) \/ Finish(w) PROVE StoresType'
    <2>1. Leave(w)
      BY <1>8 DEF Stop, Finish
    <2>2. FilesOK
      BY <1>1, <2>1, LeaveFiles DEF FilesOK, StoresType, Leave
    <2>3. AtRest \in Acts
      BY DEF AtRest
    <2>4. AtRest.at # "fill"
      BY DEF AtRest
    <2>5. WritersOK
      BY <1>1, <2>1, <2>3, <2>4, LeaveFiles, WriterSet DEF WritersOK
    <2>6. QED
      BY <1>2, <2>2, <2>5
  <1>9. CASE UNCHANGED storeVars
    BY <1>1, <1>9 DEF StoresType, storeVars
  <1>10. QED
    BY <1>1, <1>5, <1>6, <1>7, <1>8, <1>9 DEF StoresNext

\* What a writer has to write, what it wrote and what a file holds goes where it
\* belongs: a snapshot to the file of its index, a content or a description to the one
\* of its ref.
THEOREM StoresTypeTheorem == StoresSpec => []StoresType
  BY InitType, NextType, PTL DEF StoresSpec
(***************************************************************************)
(* FileStores: an info file describes content that exists.                 *)
(***************************************************************************)
\* Where a description is, in a file or still to be written, the content file exists, or
\* will before the description does.
FilesDescribe ==
    \A p \in Paths, r \in Refs :
       files[p].holds = Info(r) => files[ContentPath[r]].holds # Absent
WritesDescribe ==
    \A w \in Writers, r \in Refs : \A n \in DOMAIN writer[w].todo :
       writer[w].todo[n].content = Info(r) =>
          \/ files[ContentPath[r]].holds # Absent
          \/ \E m \in DOMAIN writer[w].todo : m < n /\ writer[w].todo[m].path = ContentPath[r]
InfoSound == FilesDescribe /\ WritesDescribe

LEMMA RefPaths == \A r \in Refs : ContentPath[r] \in Paths /\ InfoPath[r] \in Paths
  BY FileStoresAssumption DEF Paths, Range

LEMMA NotInfo ==
    \A r \in Refs : /\ Info(r) \notin Marks
                    /\ \A s \in Taken : s # Info(r)
                    /\ \A v \in Contents : Content(v) # Info(r)
  <1>1. TAKE r \in Refs
  <1>2. Info(r).kind = "info"
    BY DEF Info
  <1>3. \A m \in Marks : m.kind # "info"
    BY DEF Marks, Absent, Empty, Mixed
  <1>4. \A s \in Taken : s.kind = "snapshot"
    BY DEF Taken, Snapshot
  <1>5. \A v \in Contents : Content(v).kind = "content"
    BY DEF Content
  <1>6. QED
    BY <1>2, <1>3, <1>4, <1>5

\* What is a description, or a content, was written as one.
LEMMA HeldInfo ==
    ASSUME NEW p, NEW held, held \in Marks \/ Write(p, held) \in Writes, held.kind = "info"
    PROVE  \E q \in Refs : held = Info(q)
  <1>1. \A m \in Marks : m.kind # "info"
    BY DEF Marks, Absent, Empty, Mixed
  <1>2. \A s \in Taken : s.kind = "snapshot"
    BY DEF Taken, Snapshot
  <1>3. \A v \in Contents : Content(v).kind = "content"
    BY DEF Content
  <1>4. PICK wr \in Writes : wr.content = held
    BY <1>1 DEF Write
  <1>5. wr \in Writes
    BY <1>4
  <1>6. \/ held \in Taken
        \/ \E v \in Contents : held = Content(v)
        \/ \E q \in Refs : held = Info(q)
    BY <1>4, <1>5 DEF Writes, Write
  <1>7. QED
    BY <1>2, <1>3, <1>6

LEMMA HeldContent ==
    ASSUME NEW p, NEW held, held \in Marks \/ Write(p, held) \in Writes,
           held.kind = "content"
    PROVE  \E q \in Refs, v \in Contents : Write(p, held) = Write(ContentPath[q], Content(v))
  <1>1. \A m \in Marks : m.kind # "content"
    BY DEF Marks, Absent, Empty, Mixed
  <1>2. \A s \in Taken : s.kind = "snapshot"
    BY DEF Taken, Snapshot
  <1>3. \A q \in Refs : Info(q).kind = "info"
    BY DEF Info
  <1>4. PICK wr : wr = Write(p, held)
    OBVIOUS
  <1>5. wr \in Writes /\ wr.content = held
    BY <1>1, <1>4 DEF Write
  <1>6. \/ held \in Taken
        \/ \E q \in Refs, v \in Contents : wr = Write(ContentPath[q], Content(v))
        \/ \E q \in Refs : held = Info(q)
    BY <1>5 DEF Writes, Write
  <1>7. QED
    BY <1>2, <1>3, <1>4, <1>6

LEMMA InfoOf == \A r, q \in Refs : Info(r) = Info(q) => r = q
  <1>1. \A r \in Refs : Info(r).ref = r
    BY DEF Info
  <1>2. QED
    BY <1>1

LEMMA BlobWritesDescribe ==
    ASSUME NEW q \in Refs, NEW v \in Contents, NEW r \in Refs,
           NEW n \in DOMAIN BlobWrites(q, v), BlobWrites(q, v)[n].content = Info(r)
    PROVE  \E m \in DOMAIN BlobWrites(q, v) : m < n /\ BlobWrites(q, v)[m].path = ContentPath[r]
  <1>1. DOMAIN BlobWrites(q, v) = {1, 2}
        /\ BlobWrites(q, v)[1] = Write(ContentPath[q], Content(v))
        /\ BlobWrites(q, v)[2] = Write(InfoPath[q], Info(q))
    BY DEF BlobWrites
  <1>2. BlobWrites(q, v)[1].content = Content(v) /\ BlobWrites(q, v)[1].path = ContentPath[q]
        /\ BlobWrites(q, v)[2].content = Info(q)
    BY <1>1 DEF Write
  <1>3. n = 2 /\ q = r
    BY <1>1, <1>2, NotInfo, InfoOf
  <1>4. QED
    BY <1>1, <1>2, <1>3

LEMMA IndexWritesDescribe ==
    ASSUME NEW selector \in Selectors, NEW v \in Versions, NEW r \in Refs,
           NEW n \in DOMAIN IndexWrites(selector, v)
    PROVE  IndexWrites(selector, v)[n].content # Info(r)
  <1> DEFINE N == {k \in DOMAIN Jobs : Includes(selector, Jobs[k])}
             selected == Kept(Jobs, N)
  <1>1. IndexWrites(selector, v)
           = [k \in DOMAIN selected |->
                Write(IndexPath[selected[k]], Snapshot(selected[k], Data[v][selected[k]]))]
    BY Zenon DEF IndexWrites
  <1> HIDE DEF selected
  <1>2. IndexWrites(selector, v)[n].content = Snapshot(selected[n], Data[v][selected[n]])
    BY <1>1 DEF Write
  <1>3. Snapshot(selected[n], Data[v][selected[n]]).kind = "snapshot" /\ Info(r).kind = "info"
    BY DEF Snapshot, Info
  <1>4. QED
    BY <1>2, <1>3

LEMMA InitInfo == StoresInit => InfoSound
  <1>1. SUFFICES ASSUME StoresInit PROVE InfoSound
    OBVIOUS
  <1>2. \A p \in Paths : files[p].holds = Absent
    BY <1>1 DEF StoresInit
  <1>3. FilesDescribe
    BY <1>2, NotInfo DEF FilesDescribe, Marks
  <1>4. \A w \in Writers : writer[w].todo = <<>>
    BY <1>1 DEF StoresInit, AtRest
  <1>5. WritesDescribe
    BY <1>4 DEF WritesDescribe
  <1>6. QED
    BY <1>3, <1>5 DEF InfoSound

\* No step makes a file absent again.
LEMMA NextInfo == StoresType /\ InfoSound /\ [StoresNext]_storeVars => InfoSound'
  <1>1. SUFFICES ASSUME StoresType, InfoSound, [StoresNext]_storeVars PROVE InfoSound'
    OBVIOUS
  <1> DEFINE There(p) == files[p].holds # Absent
             Described(w, r, n) ==
                \/ There(ContentPath[r])
                \/ \E m \in DOMAIN writer[w].todo :
                      m < n /\ writer[w].todo[m].path = ContentPath[r]
  <1>2. ASSUME NEW w \in Writers, NEW r \in Refs, NEW n \in DOMAIN writer[w].todo,
               writer[w].todo[n].content = Info(r)
        PROVE  Described(w, r, n)
    BY <1>1, <1>2 DEF InfoSound, WritesDescribe
  <1>3. \A w \in Writers : writer[w].todo \in Seq(Writes)
    BY <1>1 DEF StoresType
  <1>4. ASSUME NEW w \in Writers, BuildIndex(w) \/ BlobWrite(w) PROVE InfoSound'
    <2>1. PICK todo \in Seq(Writes) :
             /\ Begun(w, todo)
             /\ \A r \in Refs, n \in DOMAIN todo : todo[n].content = Info(r) =>
                   \E m \in DOMAIN todo : m < n /\ todo[m].path = ContentPath[r]
      BY <1>4, BeginSteps, IndexWritesType, BlobWritesType, BlobWritesDescribe,
         IndexWritesDescribe
    <2>2. /\ writer'[w].todo = todo
          /\ \A v \in Writers : v # w => writer'[v] = writer[v]
          /\ files' = files
      BY <1>1, <2>1 DEF Begun, StoresType
    <2>3. FilesDescribe'
      BY <1>1, <2>2 DEF InfoSound, FilesDescribe
    <2>4. WritesDescribe'
      <3>1. SUFFICES ASSUME NEW v \in Writers, NEW r \in Refs, NEW n \in DOMAIN writer'[v].todo,
                            writer'[v].todo[n].content = Info(r)
                     PROVE  \/ files'[ContentPath[r]].holds # Absent
                            \/ \E m \in DOMAIN writer'[v].todo :
                                  m < n /\ writer'[v].todo[m].path = ContentPath[r]
        BY DEF WritesDescribe
      <3>2. CASE v = w
        BY <2>1, <2>2, <3>1, <3>2
      <3>3. CASE v # w
        BY <1>2, <2>2, <3>1, <3>3
      <3>4. QED
        BY <3>2, <3>3
    <2>5. QED
      BY <2>3, <2>4 DEF InfoSound
  <1>5. ASSUME NEW w \in Writers, Truncate(w) PROVE InfoSound'
    <2>1. PICK next \in Writes :
             /\ files' = [files EXCEPT ![next.path] = [holds |-> Empty, by |-> w]]
             /\ writer' = [writer EXCEPT ![w].at = "fill"]
      BY <1>1, <1>5, TruncateFile
    <2>2. \A v \in Writers : writer'[v].todo = writer[v].todo
      BY <1>1, <2>1 DEF StoresType
    <2>3. Empty # Absent
      BY DEF Empty, Absent
    <2>4. files'[next.path].holds = Empty
          /\ \A q \in Paths : q # next.path => files'[q] = files[q]
      BY <1>1, <2>1, FileSet, WritesSound DEF Marks
    <2>5. \A q \in Paths : There(q) => files'[q].holds # Absent
      BY <2>3, <2>4
    <2>6. FilesDescribe'
      BY <1>1, <2>4, <2>5, RefPaths, NotInfo DEF InfoSound, FilesDescribe, Marks
    <2>7. WritesDescribe'
      BY <1>2, <2>2, <2>5, RefPaths DEF WritesDescribe
    <2>8. QED
      BY <2>6, <2>7 DEF InfoSound
  <1>6. ASSUME NEW w \in Writers, Fill(w) PROVE InfoSound'
    <2>1. PICK next \in Writes :
             /\ next = Head(writer[w].todo) /\ writer[w].todo # <<>>
             /\ \E c \in {next.content, Mixed} :
                   files' = [files EXCEPT ![next.path] = [holds |-> c, by |-> w]]
             /\ writer' = [writer EXCEPT ![w] =
                              [at |-> "truncate", todo |-> Tail(writer[w].todo),
                               done |-> Append(writer[w].done, next)]]
      BY <1>1, <1>6, FillFile
    <2> PICK c \in {next.content, Mixed} :
             files' = [files EXCEPT ![next.path] = [holds |-> c, by |-> w]]
      BY <2>1
    <2>2. c \in Marks \/ Write(next.path, c) \in Writes
      BY WritesSound DEF Marks
    <2>3. files'[next.path].holds = c
          /\ \A q \in Paths : q # next.path => files'[q] = files[q]
      BY <1>1, <2>2, FileSet, WritesSound
    <2>4. c # Absent
      BY WritesSound DEF Marks, Mixed, Absent
    <2>5. \A q \in Paths : There(q) => files'[q].holds # Absent
      BY <2>3, <2>4
    <2>6. files'[next.path].holds # Absent
      BY <2>3, <2>4
    <2>7. 1 \in DOMAIN writer[w].todo /\ writer[w].todo[1] = next
          /\ \A m \in DOMAIN writer[w].todo : ~(m < 1)
      BY <1>3, <2>1
    <2>8. FilesDescribe'
      <3>1. SUFFICES ASSUME NEW p \in Paths, NEW r \in Refs, files'[p].holds = Info(r)
                     PROVE  files'[ContentPath[r]].holds # Absent
        BY DEF FilesDescribe
      <3>2. CASE p = next.path
        <4>1. next.content = Info(r)
          BY <2>3, <3>1, <3>2, NotInfo DEF Marks
        <4>2. There(ContentPath[r])
          BY <1>2, <2>7, <4>1
        <4>3. QED
          BY <2>5, <4>2, RefPaths
      <3>3. CASE p # next.path
        BY <1>1, <2>3, <2>5, <3>1, <3>3, RefPaths DEF InfoSound, FilesDescribe
      <3>4. QED
        BY <3>2, <3>3
    <2>9. WritesDescribe'
      <3>1. SUFFICES ASSUME NEW v \in Writers, NEW r \in Refs, NEW n \in DOMAIN writer'[v].todo,
                            writer'[v].todo[n].content = Info(r)
                     PROVE  \/ files'[ContentPath[r]].holds # Absent
                            \/ \E m \in DOMAIN writer'[v].todo :
                                  m < n /\ writer'[v].todo[m].path = ContentPath[r]
        BY DEF WritesDescribe
      <3>2. CASE v = w
        <4>1. writer'[w].todo = Tail(writer[w].todo)
          BY <1>1, <2>1 DEF StoresType
        <4>2. /\ Len(writer[w].todo) \in Nat
              /\ DOMAIN writer[w].todo = 1 .. Len(writer[w].todo)
              /\ DOMAIN writer'[w].todo = 1 .. Len(writer[w].todo) - 1
              /\ \A k \in 1 .. Len(writer[w].todo) - 1 :
                    writer'[w].todo[k] = writer[w].todo[k + 1]
          <5>1. PICK t \in Seq(Writes) : t = writer[w].todo /\ t # <<>>
            BY <1>3, <2>1
          <5>2. /\ Len(t) \in Nat /\ DOMAIN t = 1 .. Len(t)
                /\ DOMAIN Tail(t) = 1 .. Len(t) - 1
                /\ \A k \in 1 .. Len(t) - 1 : Tail(t)[k] = t[k + 1]
            BY <5>1, TailOf
          <5>3. QED
            BY <4>1, <5>1, <5>2
        <4>3. n \in 1 .. Len(writer[w].todo) - 1 /\ n + 1 \in DOMAIN writer[w].todo
          BY <3>1, <3>2, <4>2
        <4>4. Described(w, r, n + 1)
          <5>1. PICK k \in DOMAIN writer[w].todo : k = n + 1
            BY <4>3
          <5>2. writer[w].todo[k].content = Info(r)
            BY <3>1, <3>2, <4>2, <4>3, <5>1
          <5> HIDE DEF Described
          <5>3. Described(w, r, k)
            BY <1>2, <5>2
          <5>4. QED
            BY <5>1, <5>3
        <4>5. CASE There(ContentPath[r])
          BY <2>5, <4>5, RefPaths
        <4>6. ASSUME NEW m \in DOMAIN writer[w].todo, m < n + 1,
                     writer[w].todo[m].path = ContentPath[r]
              PROVE  \/ files'[ContentPath[r]].holds # Absent
                     \/ \E k \in DOMAIN writer'[w].todo :
                           k < n /\ writer'[w].todo[k].path = ContentPath[r]
          <5>1. CASE m = 1
            BY <2>6, <2>7, <4>6, <5>1
          <5>2. CASE m # 1
            <6>1. /\ m - 1 \in 1 .. Len(writer[w].todo) - 1
                  /\ m - 1 < n /\ (m - 1) + 1 = m
              BY <4>2, <4>3, <4>6, <5>2
            <6>2. writer'[w].todo[m - 1] = writer[w].todo[m]
              BY <4>2, <6>1
            <6>3. QED
              BY <4>2, <4>6, <6>1, <6>2
          <5>3. QED
            BY <5>1, <5>2
        <4>7. QED
          BY <3>2, <4>4, <4>5, <4>6
      <3>3. CASE v # w
        <4>1. writer'[v] = writer[v]
          BY <1>1, <2>1, <3>3 DEF StoresType
        <4>2. Described(v, r, n)
          BY <1>2, <3>1, <4>1
        <4>3. QED
          BY <2>5, <4>1, <4>2, RefPaths
      <3>4. QED
        BY <3>2, <3>3
    <2>10. QED
      BY <2>8, <2>9 DEF InfoSound
  <1>7. ASSUME NEW w \in Writers, Stop(w) \/ Finish(w) PROVE InfoSound'
    <2>1. Leave(w)
      BY <1>7 DEF Stop, Finish
    <2>2. \A p \in Paths : files'[p].holds = files[p].holds
      BY <1>1, <2>1, LeaveFiles
    <2>3. writer'[w].todo = <<>> /\ \A v \in Writers : v # w => writer'[v] = writer[v]
      BY <1>1, <2>1, LeaveFiles DEF StoresType, AtRest
    <2>4. FilesDescribe'
      BY <1>1, <2>2, RefPaths DEF InfoSound, FilesDescribe
    <2>5. WritesDescribe'
      BY <1>2, <2>2, <2>3, RefPaths DEF WritesDescribe
    <2>6. QED
      BY <2>4, <2>5 DEF InfoSound
  <1>8. CASE UNCHANGED storeVars
    BY <1>1, <1>8 DEF InfoSound, FilesDescribe, WritesDescribe, storeVars
  <1>9. QED
    BY <1>1, <1>4, <1>5, <1>6, <1>7, <1>8 DEF StoresNext

\* No reader finds the description of a blob that was never written, for any number of
\* writers, after any error or kill.
THEOREM InfoHasContentTheorem == StoresSpec => []InfoHasContent
  <1>1. StoresType /\ InfoSound => InfoHasContent
    <2> SUFFICES ASSUME StoresType, InfoSound, NEW r \in Refs, NEW blob \in BlobInfo(r)
                 PROVE  \/ BlobRead(r) # {}
                        \/ \E q \in Refs :
                              /\ ContentPath[q] = InfoPath[r]
                              /\ files[InfoPath[r]].holds \in {Content(v) : v \in Contents}
      BY DEF InfoHasContent
    <2>1. PICK held : held = files[InfoPath[r]].holds
      OBVIOUS
    <2>2. held \in Marks \/ Write(InfoPath[r], held) \in Writes
      BY <2>1, RefPaths DEF StoresType
    <2>3. CASE held.kind = "info"
      <3>1. blob = Naming(held.ref, ContentPath[held.ref])
        BY <2>1, <2>3 DEF BlobInfo
      <3>2. PICK q \in Refs : held = Info(q)
        BY <2>2, <2>3, HeldInfo
      <3>3. held.ref = q
        BY <3>2 DEF Info
      <3>4. blob.path = ContentPath[q]
        BY <3>1, <3>3 DEF Naming
      <3>5. files[ContentPath[q]].holds # Absent
        BY <2>1, <3>2, RefPaths DEF InfoSound, FilesDescribe
      <3> QED
        BY <3>4, <3>5 DEF BlobRead
    <2>4. CASE held.kind # "info"
      <3>1. held.kind = "content"
        BY <2>1, <2>4 DEF BlobInfo
      <3>2. PICK q \in Refs, v \in Contents :
               Write(InfoPath[r], held) = Write(ContentPath[q], Content(v))
        BY <2>2, <3>1, HeldContent
      <3>3. InfoPath[r] = ContentPath[q] /\ held = Content(v)
        BY <3>2 DEF Write
      <3> QED
        BY <2>1, <3>3
    <2> QED
      BY <2>3, <2>4
  <1>2. QED
    BY StoresTypeTheorem, InitInfo, NextInfo, <1>1, PTL DEF StoresSpec

(***************************************************************************)
(* FileStores: who reports success left what he meant to.                  *)
(***************************************************************************)
\* What ReportTrue says of the end, said of every write that is done: while its file is
\* being filled again, it may be empty.
LeftAsMeant(w, n) ==
    LET done == writer[w].done
    IN \/ \E later \in DOMAIN done : n < later /\ done[later].path = done[n].path
       \/ files[done[n].path].by # w
       \/ files[done[n].path].holds \in {done[n].content, Mixed}
       \/ writer[w].at = "fill" /\ Head(writer[w].todo).path = done[n].path
ReportSound == \A w \in Writers : \A n \in DOMAIN writer[w].done : LeftAsMeant(w, n)

LEMMA InitReport == StoresInit => ReportSound
  BY DEF StoresInit, ReportSound, AtRest

LEMMA NextReport == StoresType /\ ReportSound /\ [StoresNext]_storeVars => ReportSound'
  <1>1. SUFFICES ASSUME StoresType, ReportSound, [StoresNext]_storeVars PROVE ReportSound'
    OBVIOUS
  <1>2. \A w \in Writers : /\ writer[w].done \in Seq(Writes)
                           /\ \A n \in DOMAIN writer[w].done :
                                 /\ writer[w].done[n] \in Writes
                                 /\ writer[w].done[n].path \in Paths
                                 /\ LeftAsMeant(w, n)
    BY <1>1, WritesSound DEF StoresType, ReportSound
  <1>3. ASSUME NEW w \in Writers, BuildIndex(w) \/ BlobWrite(w) PROVE ReportSound'
    <2>1. /\ writer'[w].done = <<>>
          /\ \A v \in Writers : v # w => writer'[v] = writer[v]
          /\ files' = files
      BY <1>1, <1>3, BeginSteps DEF Begun, StoresType
    <2>2. QED
      BY <1>2, <2>1 DEF ReportSound, LeftAsMeant
  <1>4. ASSUME NEW w \in Writers, Truncate(w) PROVE ReportSound'
    <2>1. PICK next \in Writes :
             /\ next = Head(writer[w].todo)
             /\ files' = [files EXCEPT ![next.path] = [holds |-> Empty, by |-> w]]
             /\ writer' = [writer EXCEPT ![w].at = "fill"]
      BY <1>1, <1>4, TruncateFile
    <2>2. files'[next.path].by = w /\ \A q \in Paths : q # next.path => files'[q] = files[q]
      BY <1>1, <2>1, FileSet, WritesSound DEF Marks
    <2>3. /\ \A v \in Writers : writer'[v].todo = writer[v].todo /\ writer'[v].done = writer[v].done
          /\ \A v \in Writers : v # w => writer'[v].at = writer[v].at
          /\ writer'[w].at = "fill"
      BY <1>1, <2>1 DEF StoresType
    <2>4. SUFFICES ASSUME NEW v \in Writers, NEW n \in DOMAIN writer'[v].done
                   PROVE  LeftAsMeant(v, n)'
      BY DEF ReportSound
    <2>5. LeftAsMeant(v, n) /\ writer[v].done[n].path \in Paths
      BY <1>2, <2>3, <2>4
    <2>6. CASE v = w /\ writer[v].done[n].path = next.path
      BY <2>1, <2>3, <2>6 DEF LeftAsMeant
    <2>7. CASE v = w /\ writer[v].done[n].path # next.path
      <3>1. writer[w].at = "truncate"
        BY <1>4 DEF Truncate
      <3>2. QED
        BY <2>2, <2>3, <2>5, <2>7, <3>1 DEF LeftAsMeant
    <2>8. CASE v # w /\ writer[v].done[n].path = next.path
      BY <2>2, <2>3, <2>8 DEF LeftAsMeant
    <2>9. CASE v # w /\ writer[v].done[n].path # next.path
      BY <2>2, <2>3, <2>5, <2>9 DEF LeftAsMeant
    <2>10. QED
      BY <2>6, <2>7, <2>8, <2>9
  <1>5. ASSUME NEW w \in Writers, Fill(w) PROVE ReportSound'
    <2>1. PICK next \in Writes :
             /\ next = Head(writer[w].todo) /\ writer[w].todo # <<>>
             /\ \E c \in {next.content, Mixed} :
                   files' = [files EXCEPT ![next.path] = [holds |-> c, by |-> w]]
             /\ writer' = [writer EXCEPT ![w] =
                              [at |-> "truncate", todo |-> Tail(writer[w].todo),
                               done |-> Append(writer[w].done, next)]]
      BY <1>1, <1>5, FillFile
    <2> PICK c \in {next.content, Mixed} :
             files' = [files EXCEPT ![next.path] = [holds |-> c, by |-> w]]
      BY <2>1
    <2>2. c \in Marks \/ Write(next.path, c) \in Writes
      BY WritesSound DEF Marks
    <2>3. /\ files'[next.path].holds = c /\ files'[next.path].by = w
          /\ \A q \in Paths : q # next.path => files'[q] = files[q]
      BY <1>1, <2>2, FileSet, WritesSound
    <2>4. /\ writer'[w].done = Append(writer[w].done, next)
          /\ \A v \in Writers : v # w => writer'[v] = writer[v]
      BY <1>1, <2>1 DEF StoresType
    <2>5. SUFFICES ASSUME NEW v \in Writers, NEW n \in DOMAIN writer'[v].done
                   PROVE  LeftAsMeant(v, n)'
      BY DEF ReportSound
    <2>6. CASE v # w
      <3>1. LeftAsMeant(v, n) /\ writer[v].done[n].path \in Paths
        BY <1>2, <2>4, <2>5, <2>6
      <3>2. CASE writer[v].done[n].path = next.path
        BY <2>3, <2>4, <2>6, <3>2 DEF LeftAsMeant
      <3>3. CASE writer[v].done[n].path # next.path
        BY <2>3, <2>4, <2>6, <3>1, <3>3 DEF LeftAsMeant
      <3>4. QED
        BY <3>2, <3>3
    <2>7. CASE v = w
      <3> DEFINE k == Len(writer[w].done) + 1
      <3>1. /\ k \in Nat /\ DOMAIN writer'[w].done = 1 .. k
            /\ writer'[w].done[k] = next
            /\ DOMAIN writer[w].done = 1 .. k - 1
            /\ \A m \in DOMAIN writer[w].done : writer'[w].done[m] = writer[w].done[m]
        BY <1>2, <2>4
      <3>2. CASE n = k
        BY <2>3, <2>7, <3>1, <3>2 DEF LeftAsMeant
      <3>3. CASE n # k
        <4>1. n \in DOMAIN writer[w].done /\ n < k /\ k \in DOMAIN writer'[w].done
          BY <2>5, <2>7, <3>1, <3>3
        <4>2. LeftAsMeant(w, n) /\ writer[w].done[n].path \in Paths
          BY <1>2, <4>1
        <4>3. CASE writer[w].done[n].path = next.path
          BY <2>7, <3>1, <4>1, <4>3 DEF LeftAsMeant
        <4>4. CASE writer[w].done[n].path # next.path
          <5>1. files'[writer[w].done[n].path] = files[writer[w].done[n].path]
            BY <2>3, <4>2, <4>4
          <5>2. \A m \in DOMAIN writer[w].done : m \in DOMAIN writer'[w].done
            BY <3>1
          <5>3. /\ writer'[w].done[n] = writer[w].done[n]
                /\ \A m \in DOMAIN writer[w].done : writer'[w].done[m] = writer[w].done[m]
            BY <3>1, <4>1
          <5>4. Head(writer[w].todo).path # writer[w].done[n].path
            BY <2>1, <4>4
          <5>5. CASE files[writer[w].done[n].path].by # w
            BY <2>7, <5>1, <5>3, <5>5 DEF LeftAsMeant
          <5>6. CASE files[writer[w].done[n].path].holds \in {writer[w].done[n].content, Mixed}
            BY <2>7, <5>1, <5>3, <5>6 DEF LeftAsMeant
          <5>7. CASE \E later \in DOMAIN writer[w].done :
                       n < later /\ writer[w].done[later].path = writer[w].done[n].path
            BY <2>7, <5>2, <5>3, <5>7 DEF LeftAsMeant
          <5>8. QED
            BY <4>2, <5>4, <5>5, <5>6, <5>7 DEF LeftAsMeant
        <4>5. QED
          BY <4>3, <4>4
      <3>4. QED
        BY <3>2, <3>3
    <2>8. QED
      BY <2>6, <2>7
  <1>6. ASSUME NEW w \in Writers, Stop(w) \/ Finish(w) PROVE ReportSound'
    <2>1. Leave(w)
      BY <1>6 DEF Stop, Finish
    <2>2. \A p \in Paths : /\ files'[p].holds = files[p].holds
                           /\ files'[p].by = IF files[p].by = w THEN Nobody ELSE files[p].by
      BY <1>1, <2>1, LeaveFiles
    <2>3. writer'[w].done = <<>> /\ \A v \in Writers : v # w => writer'[v] = writer[v]
      BY <1>1, <2>1, LeaveFiles DEF StoresType, AtRest
    <2>4. SUFFICES ASSUME NEW v \in Writers, NEW n \in DOMAIN writer'[v].done
                   PROVE  LeftAsMeant(v, n)'
      BY DEF ReportSound
    <2>5. v # w /\ writer'[v] = writer[v]
      BY <2>3, <2>4
    <2>6. LeftAsMeant(v, n) /\ writer[v].done[n].path \in Paths
      BY <1>2, <2>4, <2>5
    <2>7. v # Nobody
      BY FileStoresAssumption
    <2>8. QED
      BY <2>2, <2>5, <2>6, <2>7 DEF LeftAsMeant
  <1>7. CASE UNCHANGED storeVars
    BY <1>1, <1>7 DEF ReportSound, LeftAsMeant, storeVars
  <1>8. QED
    BY <1>1, <1>3, <1>4, <1>5, <1>6, <1>7 DEF StoresNext

\* A build or a blob write that reports success left every file as it meant it, whoever
\* else writes at the same time.
THEOREM ReportTrueTheorem == StoresSpec => ReportTrue
  <1> DEFINE Reported ==
         \A w \in Writers :
            writer[w].at # "idle" /\ writer'[w] = AtRest /\ writer[w].todo = <<>> =>
               LET done == writer[w].done
               IN \A n \in DOMAIN done :
                     \/ \E later \in n + 1 .. Len(done) : done[later].path = done[n].path
                     \/ files[done[n].path].by # w
                     \/ files[done[n].path].holds \in {done[n].content, Mixed}
  <1>1. StoresType /\ ReportSound => Reported
    <2>1. SUFFICES ASSUME StoresType, ReportSound, NEW w \in Writers, writer[w].todo = <<>>,
                          NEW n \in DOMAIN writer[w].done
                   PROVE  LET done == writer[w].done
                          IN \/ \E later \in n + 1 .. Len(done) : done[later].path = done[n].path
                             \/ files[done[n].path].by # w
                             \/ files[done[n].path].holds \in {done[n].content, Mixed}
      OBVIOUS
    <2>2. writer[w].at # "fill" /\ LeftAsMeant(w, n)
      BY <2>1 DEF StoresType, ReportSound
    <2>3. writer[w].done \in Seq(Writes)
      BY <2>1 DEF StoresType
    <2>4. \A later \in DOMAIN writer[w].done : n < later => later \in n + 1 .. Len(writer[w].done)
      BY <2>1, <2>3
    <2>5. QED
      BY <2>2, <2>4 DEF LeftAsMeant
  <1>2. QED
    BY StoresTypeTheorem, InitReport, NextReport, <1>1, PTL DEF StoresSpec, ReportTrue
(***************************************************************************)
(* FileStores: reading the index.                                          *)
(***************************************************************************)
\* The snapshots that are read have records, one snapshot for an index at most.
LEMMA SnapshotsType ==
    ASSUME StoresType, Readable
    PROVE  Snapshots \in Seq(Taken)
  <1> DEFINE held == {files[p].holds : p \in IndexFiles}
             R == {p \in held \X held : p[1].index < p[2].index}
  <1>1. IndexFiles \subseteq Paths
    BY DEF IndexFiles, Paths
  <1>2. ASSUME NEW p \in IndexFiles
        PROVE  files[p].holds \in Taken /\ p = IndexPath[files[p].holds.index]
    <2>1. files[p].holds.kind = "snapshot"
      BY DEF Readable
    <2>2. files[p].holds \notin Marks
      BY <2>1 DEF Marks, Absent, Empty, Mixed
    <2>3. PICK x \in Writes : x = Write(p, files[p].holds)
      BY <1>1, <2>2 DEF StoresType
    <2>4. x.path = p /\ x.content = files[p].holds
      BY <2>3 DEF Write
    <2>5. \A r \in Refs, v \in Contents : x # Write(ContentPath[r], Content(v))
      <3>1. \A r \in Refs, v \in Contents :
                Write(ContentPath[r], Content(v)).content.kind = "content"
        BY DEF Write, Content
      <3>2. QED
        BY <2>1, <2>4, <3>1
    <2>6. \A r \in Refs : x # Write(InfoPath[r], Info(r))
      <3>1. \A r \in Refs : Write(InfoPath[r], Info(r)).content.kind = "info"
        BY DEF Write, Info
      <3>2. QED
        BY <2>1, <2>4, <3>1
    <2>7. PICK s \in Taken : x = Write(IndexPath[s.index], s)
      BY <2>5, <2>6 DEF Writes
    <2>8. x.path = IndexPath[s.index] /\ x.content = s
      BY <2>7 DEF Write
    <2>9. QED
      BY <2>4, <2>8
  <1>3. held \subseteq Taken
    BY <1>2
  <1>4. IsFiniteSet(held)
    <2>1. Jobs \in Surjection(1 .. Len(Jobs), Indexes)
      BY FileStoresAssumption DEF Surjection, Indexes, Range
    <2>2. IsFiniteSet(Indexes)
      BY <2>1, FileStoresAssumption, FS_Interval, FS_Surjection
    <2>3. [i \in Indexes |-> IndexPath[i]] \in Surjection(Indexes, Range(IndexPath))
      BY FileStoresAssumption DEF Surjection, Range
    <2>4. IsFiniteSet(IndexFiles)
      BY <2>2, <2>3, FS_Surjection, FS_Subset DEF IndexFiles
    <2>5. [p \in IndexFiles |-> files[p].holds] \in Surjection(IndexFiles, held)
      BY DEF Surjection
    <2>6. QED
      BY <2>4, <2>5, FS_Surjection
  <1>5. \A s \in held : s.index \in Nat
    <2>1. \A s \in Taken : s.index \in Indexes
      BY DEF Taken, Snapshot
    <2>2. Indexes \subseteq Nat
      BY FileStoresAssumption DEF Indexes, Range
    <2>3. QED
      BY <1>3, <2>1, <2>2
  <1>6. \A s, t \in held : s.index = t.index => s = t
    <2>1. SUFFICES ASSUME NEW p \in IndexFiles, NEW q \in IndexFiles,
                          files[p].holds.index = files[q].holds.index
                   PROVE  p = q
      OBVIOUS
    <2>2. QED
      BY <1>2, <2>1
  <1> HIDE DEF held
  <1>7. StrictOrder(held, R)
    <2>1. \A s, t \in held : <<s, t>> \in R <=> s.index < t.index
      OBVIOUS
    <2> HIDE DEF R
    <2>2. QED
      BY <1>5, <1>6, <2>1 DEF StrictOrder
  <1>8. InOrder(held, R) \in [1 .. Cardinality(held) -> held]
    BY <1>4, <1>7, Enumerated
  <1>9. Cardinality(held) \in Nat
    BY <1>4, FS_CardinalityType
  <1>10. InOrder(held, R) \in Seq(Taken)
    <2> HIDE DEF R
    <2>1. QED
      BY <1>3, <1>8, <1>9
  <1>11. Snapshots = InOrder(held, R)
    BY DEF Snapshots, held
  <1>12. QED
    BY <1>10, <1>11

LEMMA RecordsType ==
    ASSUME NEW snapshots \in Seq(Taken)
    PROVE  RecordsOf(snapshots) \in Seq(Records)
  <1> DEFINE parts == [n \in DOMAIN snapshots |-> snapshots[n].records]
  <1>1. \A s \in Taken : s.records \in Seq(Records)
    BY DEF Taken, Snapshot
  <1>2. \A n \in DOMAIN snapshots : snapshots[n] \in Taken
    OBVIOUS
  <1>3. \A n \in 1 .. Len(snapshots) : snapshots[n].records \in Seq(Records)
    BY <1>1, <1>2
  <1>4. parts = [n \in 1 .. Len(snapshots) |-> snapshots[n].records] /\ Len(snapshots) \in Nat
    OBVIOUS
  <1> HIDE DEF parts
  <1>5. parts \in Seq(Seq(Records))
    BY <1>3, <1>4
  <1>6. FlattenSeq(parts) \in Seq(Records)
    BY <1>5, Flattened
  <1>7. QED
    BY <1>6 DEF RecordsOf, parts

LEMMA SelectedType ==
    ASSUME NEW snapshots \in Seq(Taken), NEW ask \in Asks
    PROVE  Selected(snapshots, ask) \in Seq(Taken)
  <1> DEFINE N == {n \in DOMAIN snapshots : snapshots[n].index = ask.index}
  <1>1. Kept(snapshots, N) \in Seq(Taken)
    <2>1. N \in SUBSET DOMAIN snapshots
      OBVIOUS
    <2> HIDE DEF N
    <2>2. QED
      BY <2>1, KeptElements
  <1>2. <<>> \in Seq(Taken)
    OBVIOUS
  <1>3. QED
    BY <1>1, <1>2 DEF Selected

\* get and batch_get of an id that is unique within the entity find the same record,
\* in whatever snapshots are left.
THEOREM GetAgreesTheorem == StoresSpec => []GetAgreesWithBatch
  <1>1. StoresType => GetAgreesWithBatch
    <2> DEFINE all(ask) == RecordsOf(Selected(Snapshots, ask))
               at(ask, id) == {n \in DOMAIN all(ask) :
                                 all(ask)[n].id = id /\ OfEntity(all(ask)[n], ask.entity)}
    <2>1. SUFFICES ASSUME StoresType, Readable, NEW ask \in Asks, NEW r \in Range(all(ask)),
                          Cardinality(at(ask, r.id)) = 1
                   PROVE  Get(Selected(Snapshots, ask), r.id, ask.entity)
                             = BatchGet(Selected(Snapshots, ask), r.id, ask.entity)
      BY DEF GetAgreesWithBatch
    <2>2. all(ask) \in Seq(Records)
      BY <2>1, SnapshotsType, SelectedType, RecordsType
    <2>3. at(ask, r.id) \subseteq 1 .. Len(all(ask)) /\ Len(all(ask)) \in Nat
      BY <2>2
    <2>4. PICK n : at(ask, r.id) = {n}
      <3>1. IsFiniteSet(at(ask, r.id))
        BY <2>3, FS_Interval, FS_Subset
      <3>2. QED
        BY <2>1, <3>1, FS_Singleton
    <2>5. n \in Nat /\ Max({n}) = n /\ Min({n}) = n
      <3>1. n \in Nat
        BY <2>3, <2>4
      <3>2. QED
        BY <3>1 DEF Max, Min
    <2>6. {k \in 1 .. Len(all(ask)) : all(ask)[k].id = r.id /\ OfEntity(all(ask)[k], ask.entity)}
             = at(ask, r.id)
      BY <2>2
    <2>7. SelectInSeq(all(ask), LAMBDA s : s.id = r.id /\ OfEntity(s, ask.entity)) = n
      BY <2>4, <2>5, <2>6, Zenon DEF SelectInSeq
    <2>8. SelectLastInSeq(all(ask), LAMBDA s : s.id = r.id /\ OfEntity(s, ask.entity)) = n
      BY <2>4, <2>5, <2>6, Zenon DEF SelectLastInSeq
    <2>9. QED
      BY <2>7, <2>8, Zenon DEF Get, BatchGet
  <1>2. QED
    BY StoresTypeTheorem, <1>1, PTL

\* What a search found has positions of its own, and is finite.
LEMMA MatchesType ==
    ASSUME NEW snapshots \in Seq(Taken), NEW ask \in Asks
    PROVE  /\ IsFiniteSet(Matches(snapshots, ask))
           /\ \A m \in Matches(snapshots, ask) :
                 /\ m.at \in Nat /\ m.record \in Records
                 /\ m = Match(m.at, RecordsOf(snapshots)[m.at], ask.query)
                 /\ m.score = Score(m.record, ask.query) /\ m.score \in Nat
  <1> DEFINE all == RecordsOf(snapshots)
             T == {Match(n, all[n], ask.query) : n \in DOMAIN all}
             f == [n \in DOMAIN all |-> Match(n, all[n], ask.query)]
  <1>1. all \in Seq(Records)
    BY RecordsType
  <1> HIDE DEF all
  <1>2. f \in Surjection(DOMAIN all, T)
    BY DEF Surjection
  <1>3. IsFiniteSet(DOMAIN all)
    BY <1>1, FS_Interval
  <1>4. IsFiniteSet(T)
    BY <1>2, <1>3, FS_Surjection
  <1>5. Matches(snapshots, ask) \subseteq T
    BY DEF Matches, all
  <1>6. ask.query \in Seq(Nat)
    BY FileStoresAssumption
  <1>7. ASSUME NEW n \in DOMAIN all, NEW m, m = Match(n, all[n], ask.query)
        PROVE  /\ m.at = n /\ n \in Nat /\ m.record = all[n] /\ m.record \in Records
               /\ m.score = Score(m.record, ask.query) /\ m.score \in Nat
    <2>1. m.at = n /\ m.record = all[n] /\ m.score = Score(all[n], ask.query)
      BY <1>7 DEF Match
    <2>2. all[n] \in Records /\ n \in Nat
      BY <1>1
    <2>3. QED
      BY <1>6, <2>1, <2>2, ScoreType
  <1>8. QED
    BY <1>4, <1>5, <1>7, FS_Subset DEF all

LEMMA MatchesOrdered ==
    ASSUME NEW snapshots \in Seq(Taken), NEW ask \in Asks
    PROVE  LET matches == Matches(snapshots, ask)
           IN StrictOrder(matches, {p \in matches \X matches : Before(p[1], p[2])})
  <1> DEFINE M == Matches(snapshots, ask)
             R == {p \in M \X M : Before(p[1], p[2])}
  <1>1. \A m \in M : m.at \in Nat /\ m.record.entity \in Nat /\ m.record.id \in Nat
                    /\ m.score \in Nat
    BY MatchesType DEF Records
  <1>2. \A m, o \in M : m.at = o.at => m = o
    BY MatchesType
  <1> HIDE DEF M
  <1>3. \A m, o \in M : <<m, o>> \in R <=> Before(m, o)
    OBVIOUS
  <1> HIDE DEF R
  <1>4. \A m \in M : ~Before(m, m)
    BY <1>1 DEF Before
  <1>5. \A m, o \in M : m = o \/ Before(m, o) \/ Before(o, m)
    BY <1>1, <1>2 DEF Before
  <1>6. \A m, o, q \in M : Before(m, o) /\ Before(o, q) => Before(m, q)
    BY <1>1 DEF Before
  <1>7. StrictOrder(M, R)
    BY <1>3, <1>4, <1>5, <1>6 DEF StrictOrder
  <1>8. QED
    BY <1>7 DEF M, R

\* A search returns the first of what it found, the best ones first.
LEMMA SearchSorted ==
    ASSUME NEW snapshots \in Seq(Taken), NEW ask \in Asks
    PROVE  LET M == Matches(snapshots, ask)
               card == Cardinality(M)
           IN \E k \in Nat : \E sorted \in [1 .. card -> M] :
                 /\ k <= card /\ card \in Nat
                 /\ \A x \in M : \E n \in 1 .. card : sorted[n] = x
                 /\ \A i, j \in 1 .. card : i < j => sorted[i].score >= sorted[j].score
                 /\ Search(snapshots, ask) = [n \in 1 .. k |-> sorted[n].record]
  <1> DEFINE M == Matches(snapshots, ask)
             R == {p \in M \X M : Before(p[1], p[2])}
             sorted == InOrder(M, R)
             card == Cardinality(M)
             limit == SearchLimit(ask)
             k == Min({limit, card})
             top == SubSeq(sorted, 1, k)
  <1>1. /\ sorted \in [1 .. card -> M]
        /\ \A x \in M : \E n \in 1 .. card : sorted[n] = x
        /\ \A i, j \in 1 .. card : i < j => <<sorted[i], sorted[j]>> \in R
    BY MatchesType, MatchesOrdered, Enumerated
  <1>2. card \in Nat
    BY MatchesType, FS_CardinalityType
  <1>3. \A x \in M : x.score \in Nat /\ x.record \in Records /\ x.score = Score(x.record, ask.query)
    BY MatchesType
  <1> HIDE DEF M
  <1>4. \A x, y \in M : <<x, y>> \in R => x.score >= y.score
    BY <1>3 DEF Before
  <1> HIDE DEF R, card, sorted
  <1>5. k \in Nat /\ k <= card
    <2>1. limit \in Nat
      BY FileStoresAssumption DEF SearchLimit
    <2> HIDE DEF limit
    <2>2. \E x \in {limit, card} : \A y \in {limit, card} : x =< y
      BY <1>2, <2>1
    <2>3. k \in {limit, card} /\ \A y \in {limit, card} : k =< y
      BY <2>2 DEF Min
    <2>4. QED
      BY <1>2, <2>1, <2>3
  <1> HIDE DEF k
  <1>6. top = [n \in 1 .. k |-> sorted[n]]
    <2>1. sorted \in Seq(M) /\ Len(sorted) = card
      BY <1>1, <1>2
    <2>2. QED
      BY <1>5, <2>1
  <1>7. Search(snapshots, ask) = [n \in DOMAIN top |-> top[n].record]
    BY Zenon DEF Search, Ranked, Sorted, M, R, sorted, card, k, limit
  <1> HIDE DEF top
  <1>8. Search(snapshots, ask) = [n \in 1 .. k |-> sorted[n].record]
    BY <1>6, <1>7
  <1>9. \A i, j \in 1 .. card : i < j => sorted[i].score >= sorted[j].score
    BY <1>1, <1>4
  <1>10. /\ k \in Nat /\ sorted \in [1 .. card -> M] /\ k <= card /\ card \in Nat
         /\ \A x \in M : \E n \in 1 .. card : sorted[n] = x
         /\ Search(snapshots, ask) = [n \in 1 .. k |-> sorted[n].record]
    BY <1>1, <1>2, <1>5, <1>8
  <1>11. QED
    BY <1>9, <1>10, Zenon DEF M, card

LEMMA SearchType ==
    ASSUME NEW snapshots \in Seq(Taken), NEW ask \in Asks
    PROVE  Range(Search(snapshots, ask)) \subseteq Records
  <1> DEFINE M == Matches(snapshots, ask)
             card == Cardinality(M)
  <1>1. \A x \in M : x.record \in Records
    BY MatchesType
  <1>2. PICK k \in Nat, sorted \in [1 .. card -> M] :
           k <= card /\ card \in Nat /\ Search(snapshots, ask) = [n \in 1 .. k |-> sorted[n].record]
    BY SearchSorted
  <1>3. \A n \in 1 .. k : sorted[n] \in M
    BY <1>2
  <1>4. QED
    BY <1>1, <1>2, <1>3 DEF Range

\* What it leaves out scores no better.
LEMMA SearchBest ==
    ASSUME NEW snapshots \in Seq(Taken), NEW ask \in Asks,
           NEW s \in Range(Search(snapshots, ask)),
           NEW m \in Matches(snapshots, ask), m.record \notin Range(Search(snapshots, ask))
    PROVE  Score(s, ask.query) >= m.score
  <1> DEFINE M == Matches(snapshots, ask)
             card == Cardinality(M)
  <1>1. \A x \in M : x.score = Score(x.record, ask.query)
    BY MatchesType
  <1>2. PICK k \in Nat, sorted \in [1 .. card -> M] :
           /\ k <= card /\ card \in Nat
           /\ \A x \in M : \E n \in 1 .. card : sorted[n] = x
           /\ \A i, j \in 1 .. card : i < j => sorted[i].score >= sorted[j].score
           /\ Search(snapshots, ask) = [n \in 1 .. k |-> sorted[n].record]
    BY SearchSorted
  <1>3. PICK i \in 1 .. k : s = sorted[i].record
    BY <1>2 DEF Range
  <1>4. PICK j \in 1 .. card : sorted[j] = m
    BY <1>2
  <1>5. j \notin 1 .. k
    BY <1>2, <1>4 DEF Range
  <1>6. i < j /\ i \in 1 .. card
    BY <1>2, <1>5
  <1>7. sorted[i] \in M /\ sorted[i].score >= m.score
    BY <1>2, <1>4, <1>6
  <1>8. QED
    BY <1>1, <1>3, <1>7

\* No record left out of a search scores better than one returned, across all snapshots
\* and whatever the limit.
THEOREM TopMatchesTheorem == StoresSpec => []TopMatches
  <1>1. StoresType => TopMatches
    <2> DEFINE chosen(ask) == Selected(Snapshots, ask)
               top(ask) == Range(List(chosen(ask), ask))
    <2>1. SUFFICES ASSUME StoresType, Readable, NEW ask \in Asks, ask.query # <<>>,
                          NEW r \in Range(RecordsOf(chosen(ask))) \ top(ask), NEW s \in top(ask),
                          OfEntity(r, ask.entity)
                   PROVE  Score(r, ask.query) <= Score(s, ask.query)
      BY DEF TopMatches
    <2>2. PICK snapshots \in Seq(Taken) : snapshots = chosen(ask)
      BY <2>1, SnapshotsType, SelectedType
    <2>3. PICK all \in Seq(Records) : all = RecordsOf(snapshots)
      BY RecordsType
    <2>4. PICK n \in DOMAIN all : r = all[n]
      BY <2>1, <2>2, <2>3 DEF Range
    <2>5. List(snapshots, ask) = Search(snapshots, ask)
      BY <2>1 DEF List
    <2>6. s \in Range(Search(snapshots, ask)) /\ r \notin Range(Search(snapshots, ask))
      BY <2>1, <2>2, <2>5
    <2>7. ask.query \in Seq(Nat) /\ r \in Records
      BY <2>4, FileStoresAssumption
    <2>8. PICK m : m = Match(n, all[n], ask.query)
      OBVIOUS
    <2>9. m.record = r /\ m.score = Score(r, ask.query) /\ m.score \in Nat
      BY <2>4, <2>7, <2>8, ScoreType DEF Match
    <2>10. CASE m.score > 0
      <3>1. m \in Matches(snapshots, ask)
        BY <2>1, <2>3, <2>4, <2>8, <2>9, <2>10 DEF Matches
      <3>2. s \in Records /\ Score(s, ask.query) >= m.score
        BY <2>6, <2>9, <3>1, SearchBest, SearchType
      <3>3. QED
        BY <2>7, <2>9, <3>2, ScoreType
    <2>11. CASE m.score = 0
      <3>1. s \in Records
        BY <2>6, SearchType
      <3>2. Score(s, ask.query) \in Nat
        BY <2>7, <3>1, ScoreType
      <3>3. QED
        BY <2>9, <2>11, <3>2
    <2>12. QED
      BY <2>9, <2>10, <2>11
  <1>2. QED
    BY StoresTypeTheorem, <1>1, PTL
-----------------------------------------------------------------------------
(***************************************************************************)
(* Sequences, whatever they are made of.                                   *)
(***************************************************************************)
IsSequence(s) == s \in Seq(Range(s))

LEMMA SequenceOf ==
    ASSUME NEW S, NEW s \in Seq(S)
    PROVE  IsSequence(s) /\ Range(s) \subseteq S
  <1>1. \A n \in 1 .. Len(s) : s[n] \in Range(s)
    BY DEF Range
  <1>2. QED
    BY <1>1 DEF IsSequence, Range

LEMMA Appended ==
    ASSUME NEW s, IsSequence(s), NEW x
    PROVE  IsSequence(Append(s, x)) /\ Range(Append(s, x)) = Range(s) \cup {x}
  <1> DEFINE S == Range(s) \cup {x}
  <1>1. s \in Seq(S)
    BY DEF IsSequence
  <1>2. Append(s, x) \in Seq(S) /\ Len(Append(s, x)) = Len(s) + 1
    BY <1>1
  <1>3. \A n \in 1 .. Len(s) : Append(s, x)[n] = s[n]
    BY <1>1
  <1>4. Append(s, x)[Len(s) + 1] = x
    BY <1>1
  <1>5. Range(Append(s, x)) = S
    <2>1. DOMAIN Append(s, x) = 1 .. Len(s) + 1 /\ DOMAIN s = 1 .. Len(s) /\ Len(s) \in Nat
      BY <1>1, <1>2
    <2>2. QED
      BY <1>3, <1>4, <2>1 DEF Range
  <1>6. QED
    BY <1>2, <1>5, SequenceOf

LEMMA Replaced ==
    ASSUME NEW s, IsSequence(s), NEW n \in DOMAIN s, NEW x
    PROVE  /\ IsSequence([s EXCEPT ![n] = x])
           /\ DOMAIN [s EXCEPT ![n] = x] = DOMAIN s
           /\ Range([s EXCEPT ![n] = x]) \subseteq Range(s) \cup {x}
  <1> DEFINE S == Range(s) \cup {x}
             t == [s EXCEPT ![n] = x]
  <1>1. s \in Seq(S)
    BY DEF IsSequence
  <1>2. t \in Seq(S) /\ DOMAIN t = DOMAIN s
    BY <1>1
  <1>3. QED
    BY <1>2, SequenceOf

(***************************************************************************)
(* The definition of a plugin.                                             *)
(***************************************************************************)
PluginFields == {"listed", "datasources", "operations", "handlers", "providers",
                 "observers", "commands"}

Names(list) == {spec.name : spec \in Range(list)}

\* A plugin lists every operation it has a handler of, and has no handler of its own
\* for what the runtime serves.
IsPlugin(p) ==
    /\ DOMAIN p = PluginFields
    /\ AreOperations(p.listed)
    /\ p.operations \subseteq Names(p.listed)
    /\ p.handlers \in [Capabilities -> Seq(Datasources)]
    /\ IsSequence(p.providers) /\ IsSequence(p.observers)
    /\ DOMAIN p.commands \cap Served = {}

LEMMA NormalOperationType ==
    ASSUME NEW spec, IsOperation(spec)
    PROVE  IsOperation(NormalOperation(spec)) /\ NormalOperation(spec).name = spec.name
  <1> DEFINE normal == NormalOperation(spec)
             schema == NormalSchema(spec.schema)
  <1>1. DOMAIN schema = DOMAIN spec.schema
    BY DEF NormalSchema
  <1>2. DOMAIN normal = DOMAIN spec /\ normal.name = spec.name /\ normal.schema = schema
    BY DEF IsOperation, NormalOperation
  <1>3. QED
    BY <1>1, <1>2 DEF IsOperation

LEMMA MergedOperationType ==
    ASSUME NEW base, IsOperation(base), NEW generated, IsOperation(generated)
    PROVE  /\ IsOperation(MergedOperation(base, generated))
           /\ MergedOperation(base, generated).name = base.name
  <1> DEFINE merged == [base EXCEPT
          !.schema = IF @.declared THEN @ ELSE generated.schema,
          !.readOnly = @ \/ generated.readOnly,
          !.purposes = IF @ = {} THEN generated.purposes ELSE @,
          !.effects = IF @ = {} THEN generated.effects ELSE @,
          !.access = IF @ = {} THEN generated.access ELSE @]
  <1>1. IsOperation(merged) /\ merged.name = base.name
    BY DEF IsOperation
  <1>2. MergedOperation(base, generated) = NormalOperation(merged)
    BY DEF MergedOperation
  <1> HIDE DEF merged
  <1>3. QED
    BY <1>1, <1>2, NormalOperationType

LEMMA NormalizedType ==
    ASSUME NEW list, AreOperations(list)
    PROVE  /\ AreOperations(Normalized(list)) /\ DOMAIN Normalized(list) = DOMAIN list
           /\ \A n \in DOMAIN list : Normalized(list)[n].name = list[n].name
  <1> DEFINE normal == Normalized(list)
  <1>1. list \in Seq(Range(list))
    BY DEF AreOperations
  <1>2. \A n \in DOMAIN list : IsOperation(list[n])
    BY DEF AreOperations, Range
  <1>3. DOMAIN normal = DOMAIN list
        /\ \A n \in DOMAIN list : normal[n] = NormalOperation(list[n])
    BY DEF Normalized
  <1>4. \A n \in DOMAIN list : IsOperation(normal[n]) /\ normal[n].name = list[n].name
    BY <1>2, <1>3, NormalOperationType
  <1>5. normal \in Seq(Range(normal))
    <2>1. normal = [n \in 1 .. Len(list) |-> normal[n]] /\ Len(list) \in Nat
      BY <1>1 DEF Normalized
    <2>2. \A n \in 1 .. Len(list) : normal[n] \in Range(normal)
      BY <1>1, <1>3 DEF Range
    <2> HIDE DEF normal
    <2>3. QED
      BY <2>1, <2>2
  <1>6. QED
    BY <1>3, <1>4, <1>5 DEF AreOperations, Range

LEMMA LeastIsMin ==
    ASSUME NEW T \in SUBSET Nat, T # {}
    PROVE  Min(T) \in T
  BY Least DEF Min

LEMMA Upserting ==
    ASSUME NEW list, AreOperations(list), NEW spec, IsOperation(spec), NEW merged,
           \A n \in DOMAIN list : IsOperation(merged[n]) /\ merged[n].name = list[n].name
    PROVE  /\ AreOperations(Upserted(list, spec, merged))
           /\ Names(list) \cup {spec.name} \subseteq Names(Upserted(list, spec, merged))
  <1> DEFINE named == {n \in DOMAIN list : list[n].name = spec.name}
             upserted == Upserted(list, spec, merged)
  <1>1. IsSequence(list) /\ DOMAIN list \subseteq Nat
    BY DEF AreOperations, IsSequence
  <1>2. CASE named = {}
    <2>1. upserted = Append(list, spec)
      BY <1>2 DEF Upserted
    <2>2. IsSequence(upserted) /\ Range(upserted) = Range(list) \cup {spec}
      BY <1>1, <2>1, Appended
    <2>3. QED
      BY <2>2 DEF AreOperations, IsSequence, Names
  <1>3. CASE named # {}
    <2>1. PICK at \in named : at = Min(named)
      BY <1>1, <1>3, LeastIsMin
    <2>2. upserted = [list EXCEPT ![at] = merged[at]]
      BY <1>3, <2>1 DEF Upserted
    <2>3. /\ IsSequence(upserted) /\ DOMAIN upserted = DOMAIN list
          /\ Range(upserted) \subseteq Range(list) \cup {merged[at]}
      <3> HIDE DEF upserted
      <3>1. QED
        BY <1>1, <2>1, <2>2, Replaced
    <2>4. \A n \in DOMAIN list : upserted[n].name = list[n].name
      BY <2>1, <2>2
    <2>5. AreOperations(upserted)
      BY <2>1, <2>3 DEF AreOperations, IsSequence
    <2>6. Names(list) \subseteq Names(upserted)
      BY <2>3, <2>4 DEF Names, Range
    <2>7. spec.name \in Names(list)
      BY <2>1 DEF Names, Range
    <2>8. QED
      BY <2>5, <2>6, <2>7
  <1>4. QED
    BY <1>2, <1>3

LEMMA NewType ==
    ASSUME NEW manifest, AreOperations(manifest.operations)
    PROVE  IsPlugin(WithConnectText(New(manifest), manifest))
  <1> DEFINE new == New(manifest)
  <1>1. new.handlers \in [Capabilities -> Seq(Datasources)]
    <2>1. <<>> \in Seq(Datasources)
      OBVIOUS
    <2>2. QED
      BY <2>1 DEF New
  <1>2. IsSequence(new.providers) /\ IsSequence(new.observers)
    <2>1. <<>> \in Seq({})
      OBVIOUS
    <2>2. IsSequence(<<>>)
      BY <2>1, SequenceOf
    <2>3. QED
      BY <2>2 DEF New
  <1>3. IsPlugin(new)
    BY <1>1, <1>2 DEF New, IsPlugin, PluginFields
  <1>4. ASSUME NEW commands, DOMAIN commands = {"auth.connect"}
        PROVE  IsPlugin([new EXCEPT !.commands = commands])
    <2>1. "auth.connect" \notin Served
      BY DEF Served, Capabilities
    <2> HIDE DEF new
    <2>2. QED
      BY <1>3, <1>4, <2>1 DEF IsPlugin, PluginFields
  <1>5. DOMAIN Updated(new.commands, "auth.connect", NoName) = {"auth.connect"}
    BY DEF Updated, New
  <1>6. CASE manifest.authFields = {}
    BY <1>3, <1>6 DEF WithConnectText
  <1>7. CASE manifest.authFields # {}
    <2>1. WithConnectText(new, manifest)
          = [new EXCEPT !.commands = Updated(new.commands, "auth.connect", NoName)]
      BY <1>3, <1>7 DEF WithConnectText, IsPlugin, PluginFields
    <2> HIDE DEF new
    <2>2. QED
      BY <1>4, <1>5, <2>1 DEF new
  <1>8. QED
    BY <1>6, <1>7

LEMMA RegisteredType ==
    ASSUME NEW p, IsPlugin(p), NEW option, IsOption(option)
    PROVE  IsPlugin(Registered(p, option))
  <1>1. CASE option.kind = "operation"
    <2> DEFINE normal == NormalOperation(option.spec)
               merged == [n \in DOMAIN p.listed |-> MergedOperation(p.listed[n], normal)]
               listed == Upserted(p.listed, normal, merged)
    <2>1. IsOperation(normal) /\ normal.name = option.spec.name
      BY <1>1, NormalOperationType DEF IsOption
    <2> HIDE DEF normal
    <2>2. \A n \in DOMAIN p.listed :
             IsOperation(merged[n]) /\ merged[n].name = p.listed[n].name
      <3>1. \A n \in DOMAIN p.listed : IsOperation(p.listed[n])
        BY DEF IsPlugin, AreOperations, Range
      <3>2. QED
        BY <2>1, <3>1, MergedOperationType
    <2> HIDE DEF merged
    <2>3. AreOperations(listed) /\ Names(p.listed) \cup {normal.name} \subseteq Names(listed)
      BY <2>1, <2>2, Upserting DEF IsPlugin
    <2>4. Registered(p, option)
          = [p EXCEPT !.operations = p.operations \cup {option.spec.name},
                      !.listed = listed]
      BY <1>1 DEF Registered, AddOperation, IsPlugin, PluginFields, normal, merged
    <2> HIDE DEF listed
    <2>5. QED
      BY <2>1, <2>3, <2>4 DEF IsPlugin, PluginFields
  <1>2. CASE option.kind = "datasource"
    <2> DEFINE handlers == [p.handlers EXCEPT ![option.capability] =
                              Append(p.handlers[option.capability], option.spec)]
               q == Registered(p, option)
    <2>1. option.capability \in Capabilities /\ option.spec \in Datasources
      BY <1>2 DEF IsOption
    <2>2. p.handlers \in [Capabilities -> Seq(Datasources)]
      BY DEF IsPlugin
    <2>3. handlers \in [Capabilities -> Seq(Datasources)]
      BY <2>1, <2>2
    <2>4. /\ DOMAIN q = PluginFields /\ q.handlers = handlers
          /\ q.listed = p.listed /\ q.operations = p.operations
          /\ q.providers = p.providers /\ q.observers = p.observers
          /\ q.commands = p.commands
      BY <1>2 DEF Registered, AddDatasource, IsPlugin, PluginFields
    <2> HIDE DEF q, handlers
    <2>5. IsPlugin(q)
      BY <2>3, <2>4 DEF IsPlugin
    <2>6. QED
      BY <2>5 DEF q
  <1>3. CASE option.kind = "provider"
    <2>1. Registered(p, option) = [p EXCEPT !.providers = Append(p.providers, option.spec)]
      BY <1>3 DEF Registered, IsPlugin, PluginFields
    <2>2. IsSequence(Append(p.providers, option.spec))
      BY Appended DEF IsPlugin
    <2>3. QED
      BY <2>1, <2>2 DEF IsPlugin, PluginFields
  <1>4. CASE option.kind = "observer"
    <2>1. Registered(p, option) = [p EXCEPT !.observers = Append(p.observers, option.spec)]
      BY <1>4 DEF Registered, IsPlugin, PluginFields
    <2>2. IsSequence(Append(p.observers, option.spec))
      BY Appended DEF IsPlugin
    <2>3. QED
      BY <2>1, <2>2 DEF IsPlugin, PluginFields
  <1>5. CASE option.kind = "command"
    <2> DEFINE commands == Updated(p.commands, option.command, option.operation)
    <2>1. Registered(p, option) = [p EXCEPT !.commands = commands]
      BY <1>5 DEF Registered, IsPlugin, PluginFields
    <2>2. DOMAIN commands = DOMAIN p.commands \cup {option.command}
      BY DEF Updated
    <2>3. option.command \notin Served
      BY <1>5 DEF IsOption
    <2> HIDE DEF commands
    <2>4. QED
      BY <2>1, <2>2, <2>3 DEF IsPlugin, PluginFields
  <1>6. QED
    BY <1>1, <1>2, <1>3, <1>4, <1>5 DEF IsOption

\* Whatever its definition, a plugin is put together soundly.
LEMMA DefinedType ==
    ASSUME NEW definition \in Definitions
    PROVE  IsPlugin(Defined(definition))
  <1> DEFINE options == definition.options
             manifest == [definition.manifest EXCEPT
                            !.operations = Normalized(definition.manifest.operations)]
             first == WithConnectText(New(manifest), manifest)
             Def(g, n) == IF n = 0 THEN first ELSE Registered(g[n - 1], options[n])
             T == {m \in Nat : \E g : g = [n \in 0 .. m |-> Def(g, n)]}
             built == CHOOSE g : g = [n \in 0 .. Len(options) |-> Def(g, n)]
  <1>1. /\ DOMAIN definition.manifest = {"operations", "datasources", "authFields"}
        /\ AreOperations(definition.manifest.operations)
        /\ Len(options) \in Nat /\ DOMAIN options = 1 .. Len(options)
        /\ \A n \in DOMAIN options : IsOption(options[n])
    BY DispatchAssumption
  <1>2. IsPlugin(first)
    <2>1. AreOperations(Normalized(definition.manifest.operations))
      BY <1>1, NormalizedType
    <2>2. manifest.operations = Normalized(definition.manifest.operations)
      BY <1>1
    <2> HIDE DEF manifest
    <2>3. QED
      BY <2>1, <2>2, NewType
  <1>3. Defined(definition) = built[Len(options)]
    BY <1>1 DEF Defined
  <1> HIDE DEF first
  <1>4. 0 \in T
    <2> DEFINE g == [n \in 0 .. 0 |-> first]
    <2>1. g = [n \in 0 .. 0 |-> Def(g, n)]
      OBVIOUS
    <2>2. QED
      BY <2>1
  <1>5. ASSUME NEW m \in Nat, m \in T PROVE m + 1 \in T
    <2>1. PICK g : g = [n \in 0 .. m |-> Def(g, n)]
      BY <1>5
    <2> DEFINE h == [n \in 0 .. m + 1 |-> IF n = m + 1 THEN Registered(g[m], options[m + 1])
                                         ELSE g[n]]
    <2>2. ASSUME NEW n \in 0 .. m + 1 PROVE h[n] = Def(h, n)
      <3>1. CASE n = 0
        <4>1. 0 \in 0 .. m /\ 0 # m + 1
          OBVIOUS
        <4>2. g[0] = first
          BY <2>1, <4>1
        <4>3. QED
          BY <3>1, <4>1, <4>2
      <3>2. CASE n # 0 /\ n # m + 1
        <4>1. n \in 0 .. m /\ n - 1 \in 0 .. m + 1 /\ n - 1 # m + 1
          BY <3>2
        <4>2. g[n] = Registered(g[n - 1], options[n])
          BY <2>1, <3>2, <4>1
        <4>3. QED
          BY <3>2, <4>1, <4>2
      <3>3. CASE n = m + 1
        <4>1. n # 0 /\ n - 1 = m /\ m \in 0 .. m + 1 /\ m # m + 1
          BY <3>3
        <4>2. h[m] = g[m] /\ h[n] = Registered(g[m], options[m + 1])
          BY <3>3, <4>1
        <4> HIDE DEF h
        <4>3. QED
          BY <3>3, <4>1, <4>2
      <3>4. QED
        BY <3>1, <3>2, <3>3
    <2>3. h = [n \in 0 .. m + 1 |-> h[n]]
      OBVIOUS
    <2> HIDE DEF h, Def
    <2>4. h = [n \in 0 .. m + 1 |-> Def(h, n)]
      BY <2>2, <2>3
    <2>5. QED
      BY <2>4
  <1>6. \A m \in Nat : m \in T
    <2> HIDE DEF T
    <2>1. QED
      BY <1>4, <1>5, Induction
  <1>7. \E g : g = [n \in 0 .. Len(options) |-> Def(g, n)]
    BY <1>1, <1>6
  <1>8. built = [n \in 0 .. Len(options) |-> Def(built, n)]
    BY <1>7
  <1> HIDE DEF built
  <1> DEFINE P == {n \in Nat : n <= Len(options) => IsPlugin(built[n])}
  <1>9. 0 \in P
    BY <1>1, <1>2, <1>8
  <1>10. ASSUME NEW n \in Nat, n \in P PROVE n + 1 \in P
    <2>1. SUFFICES ASSUME n + 1 <= Len(options) PROVE IsPlugin(built[n + 1])
      OBVIOUS
    <2>2. n + 1 \in DOMAIN options /\ n <= Len(options) /\ n + 1 \in 0 .. Len(options)
      BY <1>1, <2>1
    <2>3. built[n + 1] = Registered(built[n], options[n + 1])
      BY <1>1, <1>8, <2>2
    <2>4. IsPlugin(built[n]) /\ IsOption(options[n + 1])
      BY <1>1, <1>10, <2>2
    <2>5. QED
      BY <2>3, <2>4, RegisteredType
  <1>11. \A n \in Nat : n \in P
    <2> HIDE DEF P
    <2>1. QED
      BY <1>9, <1>10, Induction
  <1>12. QED
    BY <1>1, <1>3, <1>11

(***************************************************************************)
(* What the CLI knows of the operations: the listing of a build.           *)
(***************************************************************************)
LEMMA ManifestSound ==
    ASSUME NEW p, IsPlugin(p)
    PROVE  /\ AreOperations(Manifest(p))
           /\ \A spec \in Range(Manifest(p)) : "endpoint_ref" \in DOMAIN spec.schema.properties
  <1> DEFINE list == p.listed
  <1>1. AreOperations(list) /\ Manifest(p) = Normalized(list)
    BY DEF IsPlugin, Manifest
  <1>2. AreOperations(Manifest(p))
    BY <1>1, NormalizedType
  <1>3. ASSUME NEW spec, IsOperation(spec)
        PROVE  "endpoint_ref" \in DOMAIN NormalOperation(spec).schema.properties
    <2>1. NormalOperation(spec).schema = NormalSchema(spec.schema)
      BY <1>3 DEF IsOperation, NormalOperation
    <2>2. PICK schema : schema = spec.schema /\ "properties" \in DOMAIN schema
      BY <1>3 DEF IsOperation
    <2>3. "endpoint_ref" \in DOMAIN NormalSchema(schema).properties
      BY <2>2 DEF NormalSchema, Updated
    <2>4. QED
      BY <2>1, <2>2, <2>3
  <1>4. \A n \in DOMAIN list : IsOperation(list[n])
    BY <1>1 DEF AreOperations, Range
  <1> HIDE DEF list
  <1>5. ASSUME NEW spec \in Range(Manifest(p))
        PROVE  "endpoint_ref" \in DOMAIN spec.schema.properties
    <2>1. PICK n \in DOMAIN list : spec = NormalOperation(list[n])
      BY <1>1, <1>5 DEF Normalized, Range
    <2>2. QED
      BY <1>3, <1>4, <2>1
  <1>6. QED
    BY <1>2, <1>5

LEMMA ListingSound ==
    ASSUME IsPlugin(plugin), NEW listing
    PROVE  /\ IsSequence(Listing(listing))
           /\ \A spec \in Range(Listing(listing)) :
                 "endpoint_ref" \in DOMAIN spec.schema.properties
  <1>1. ASSUME NEW p, IsPlugin(p)
        PROVE  /\ IsSequence(Manifest(p))
               /\ \A spec \in Range(Manifest(p)) :
                     "endpoint_ref" \in DOMAIN spec.schema.properties
    BY <1>1, ManifestSound DEF AreOperations, IsSequence
  <1>2. IsPlugin(Defined(Earlier))
    BY OperationsAssumption, DefinedType
  <1>3. IsSequence(<<>>) /\ Range(<<>>) = {}
    <2>1. <<>> \in Seq({}) /\ DOMAIN <<>> = {}
      OBVIOUS
    <2>2. QED
      BY <2>1, SequenceOf DEF Range
  <1>4. \/ Listing(listing) = Manifest(plugin)
        \/ Listing(listing) = Manifest(Defined(Earlier))
        \/ Listing(listing) = <<>>
    BY DEF Listing
  <1>5. PICK older : older = Defined(Earlier)
    OBVIOUS
  <1>6. QED
    BY <1>1, <1>2, <1>3, <1>4, <1>5

LEMMA SchemasSound ==
    ASSUME IsPlugin(plugin), NEW inv, NEW schema \in Schemas(inv)
    PROVE  "endpoint_ref" \in DOMAIN schema.properties /\ Schemas(inv) = {schema}
  <1> DEFINE list == Listing(inv.listing)
             named == {n \in DOMAIN list : list[n].name = inv.name}
  <1>1. /\ DOMAIN list \subseteq Nat
        /\ \A spec \in Range(list) : "endpoint_ref" \in DOMAIN spec.schema.properties
    BY ListingSound DEF IsSequence
  <1>2. named # {} /\ SpecOf(inv) = {list[Min(named)]}
    BY DEF Schemas, SpecOf
  <1> HIDE DEF list
  <1>3. Min(named) \in named
    <2>1. named \in SUBSET Nat
      BY <1>1
    <2> HIDE DEF named
    <2>2. QED
      BY <1>2, <2>1, LeastIsMin
  <1>4. list[Min(named)] \in Range(list)
    BY <1>3 DEF Range
  <1>5. QED
    BY <1>1, <1>2, <1>4 DEF Schemas

(***************************************************************************)
(* The invariant.                                                          *)
(***************************************************************************)
RequestFields == {"at", "command", "payload", "calls", "answers", "cache", "readers",
                  "since", "reads", "mixed"}

CallList(calls) == Len(calls) \in Nat /\ DOMAIN calls = 1 .. Len(calls)

IsRequest(r) ==
    /\ DOMAIN r = RequestFields
    /\ r.at \in {"serving", "answered"}
    /\ CallList(r.calls)
    /\ IsSequence(r.answers)
    /\ r.at = "serving" => Len(r.answers) <= Len(r.calls)

IsReader(reader) ==
    /\ reader = Reader(reader.at, reader.order, reader.version)
    /\ reader.at \in {"resting", "asking", "storing", "trying"}
    /\ reader.order \in Seq(Purposes) /\ reader.version \in Nat
    /\ reader.at # "resting" => reader.order # <<>>
    /\ reader.at = "trying" => Len(reader.order) > 1

Entries == [purpose : Purposes, version : Nat, by : {"plugin", "host"}]

SecretsType(r) ==
    /\ r.since \in [Purposes -> Nat]
    /\ DOMAIN r.cache \subseteq Purposes
    /\ DOMAIN r.readers = Readers /\ r.readers = [g \in Readers |-> r.readers[g]]
    /\ \A g \in Readers : IsReader(r.readers[g])
    /\ r.reads \in Seq(Entries)

\* A version that the host held since the request came in.
Held(r, p, version) == version \in r.since[p] .. secrets[p]

VersionsKept(r) ==
    /\ \A p \in Purposes : r.since[p] <= secrets[p]
    /\ \A p \in DOMAIN r.cache : Held(r, p, r.cache[p])
    /\ \A g \in Readers : r.readers[g].at = "storing" =>
          Held(r, r.readers[g].order[1], r.readers[g].version)
    /\ \A n \in DOMAIN r.reads : Held(r, r.reads[n].purpose, r.reads[n].version)

\* While a purpose is read by one at a time, it is read as long as it is not cached.
OneReader(r) ==
    \A p \in Purposes \ r.mixed :
       \A g \in Reading(r, p) : p \notin DOMAIN r.cache /\ Reading(r, p) = {g}

\* What handlers read is in the cache, what the host read was the latest.
CachedRead(r, read) ==
    read.by = "plugin" /\ read.purpose \notin r.mixed =>
       read.purpose \in DOMAIN r.cache /\ read.version = r.cache[read.purpose]

LatestRead(r, n) ==
    r.reads[n].by = "host" =>
       \A m \in 1 .. n - 1 :
          r.reads[m].purpose = r.reads[n].purpose =>
             r.reads[m].version <= r.reads[n].version

ReadsKept(r) == \A n \in DOMAIN r.reads : CachedRead(r, r.reads[n]) /\ LatestRead(r, n)

SecretsKept(r) == SecretsType(r) /\ VersionsKept(r) /\ OneReader(r) /\ ReadsKept(r)

\* The answers so far are those of the first calls, and of a batch they stay so.
AnswersKept(r) ==
    /\ r.at = "serving" \/ r.command = "batch" =>
          \A n \in DOMAIN r.answers : /\ r.answers[n].id = r.calls[n].id
                                      /\ r.answers[n].name = r.calls[n].name
    /\ r.at = "answered" /\ r.command = "batch" => Len(r.answers) = Len(r.calls)
    /\ r.at = "serving" /\ r.command = "context" =>
          \A n \in DOMAIN r.answers :
             \/ r.answers[n].outcome[1] = "error"
             \/ r.answers[n].outcome[2] \in Found

\* The request that the plugin serves is the one the command makes of what was asked.
Asking(c, r) ==
    /\ r.command = IF c.command = "selftest" THEN "batch" ELSE c.command
    /\ c.command \in {"batch", "selftest"} =>
          /\ Len(r.calls) = Len(c.asked) /\ DOMAIN c.asked = 1 .. Len(c.asked)
          /\ \A n \in DOMAIN c.asked : /\ r.calls[n].id = IdOf(c.asked, n)
                                       /\ r.calls[n].name = c.asked[n].name
    /\ c.command \in Capabilities =>
          /\ r.payload.datasource = c.asked.datasource
          /\ r.payload.entity = c.asked.entity
          /\ \/ r.calls = <<>>
             \/ r.calls = <<Call(NoName, NoName,
                               Selection(plugin.handlers[c.command], r.payload))>>
    /\ c.command = "context" => r.payload.limit \in Nat

OperationsSound ==
    /\ IsPlugin(plugin)
    /\ secrets \in [Purposes -> Nat]
    /\ request.at = "none" <=> call.at # "sent"
    /\ request.at # "none" =>
          IsRequest(request) /\ SecretsKept(request) /\ AnswersKept(request)
    /\ call.at = "sent" => Asking(call, request)

(***************************************************************************)
(* A request comes in.                                                     *)
(***************************************************************************)
\* A request that nothing was done about yet, or that was answered at once.
Fresh(r) ==
    /\ IsRequest(r)
    /\ r.since = secrets /\ r.cache = <<>> /\ r.reads = <<>>
    /\ r.readers = [g \in Readers |-> Resting]
    /\ r.answers # <<>> => r.at = "answered" /\ r.command # "batch"
    /\ r.command = "batch" => r.at = "serving"

LEMMA ServingFresh ==
    ASSUME NEW command, NEW payload, NEW calls, CallList(calls)
    PROVE  Fresh(Serving(command, payload, calls))
  <1> DEFINE r == Serving(command, payload, calls)
  <1>1. <<>> \in Seq({}) /\ Len(<<>>) = 0 /\ 0 <= Len(calls)
    BY DEF CallList
  <1>2. IsSequence(<<>>)
    BY <1>1, SequenceOf
  <1>3. QED
    BY <1>1, <1>2 DEF Serving, Fresh, IsRequest, RequestFields

LEMMA AnsweredFresh ==
    ASSUME NEW command, command # "batch", NEW payload, NEW answer
    PROVE  Fresh(Answered(command, payload, answer))
  <1> DEFINE r == Answered(command, payload, answer)
  <1>1. <<answer>> \in Seq({answer}) /\ Len(<<>>) = 0 /\ DOMAIN <<>> = 1 .. 0
    OBVIOUS
  <1>2. IsSequence(<<answer>>) /\ CallList(<<>>)
    BY <1>1, SequenceOf DEF CallList
  <1>3. QED
    BY <1>2 DEF Answered, Serving, Fresh, IsRequest, RequestFields

LEMMA ReceivedFresh ==
    ASSUME IsPlugin(plugin), NEW command, NEW payload, CallList(payload.calls)
    PROVE  /\ Fresh(Received(command, payload))
           /\ Received(command, payload).command = command
           /\ Received(command, payload).payload = payload
           /\ command \in {"operation", "batch"} =>
                 Received(command, payload).calls = OperationCalls(payload.calls)
           /\ command \in Capabilities =>
                 \/ Received(command, payload).calls = <<>>
                 \/ Received(command, payload).calls = <<Call(NoName, NoName,
                       Selection(plugin.handlers[command], payload))>>
  <1> DEFINE r == Received(command, payload)
  <1>1. DOMAIN plugin.commands \cap Served = {}
    BY DEF IsPlugin
  <1>2. ASSUME NEW calls PROVE /\ Serving(command, payload, calls).command = command
                               /\ Serving(command, payload, calls).payload = payload
                               /\ Serving(command, payload, calls).calls = calls
    BY DEF Serving
  <1>3. ASSUME NEW answer PROVE /\ Answered(command, payload, answer).command = command
                                /\ Answered(command, payload, answer).payload = payload
                                /\ Answered(command, payload, answer).calls = <<>>
    BY DEF Answered, Serving
  <1>4. ASSUME NEW c PROVE CallList(<<c>>)
    BY DEF CallList
  <1>5. CASE command \in DOMAIN plugin.commands
    <2>1. command \notin Served
      BY <1>1, <1>5
    <2>2. \/ \E answer : r = Answered(command, payload, answer)
          \/ \E c : r = Serving(command, payload, <<c>>)
      BY <1>5 DEF Received
    <2>3. command \notin {"operation", "batch"} /\ command \notin Capabilities
      BY <2>1 DEF Served
    <2> HIDE DEF r
    <2>4. CASE \E answer : r = Answered(command, payload, answer)
      <3>1. PICK answer : r = Answered(command, payload, answer)
        BY <2>4
      <3>2. Fresh(Answered(command, payload, answer))
        BY <2>3, AnsweredFresh
      <3>3. QED
        BY <1>3, <2>3, <3>1, <3>2 DEF r
    <2>5. CASE \E c : r = Serving(command, payload, <<c>>)
      <3>1. PICK c : r = Serving(command, payload, <<c>>)
        BY <2>5
      <3>2. Fresh(Serving(command, payload, <<c>>))
        BY <1>4, ServingFresh
      <3>3. QED
        BY <1>2, <2>3, <3>1, <3>2 DEF r
    <2>6. QED
      BY <2>2, <2>4, <2>5
  <1>6. CASE command \notin DOMAIN plugin.commands /\ command \in {"operation", "batch"}
    <2>1. r = Serving(command, payload, OperationCalls(payload.calls))
      BY <1>6 DEF Received, Capabilities
    <2>2. CallList(OperationCalls(payload.calls))
      <3>1. OperationCalls(payload.calls)
            = [n \in 1 .. Len(payload.calls) |-> OperationCalls(payload.calls)[n]]
        BY DEF OperationCalls, CallList
      <3>2. QED
        BY <3>1 DEF CallList
    <2>3. QED
      BY <1>2, <1>6, <2>1, <2>2, ServingFresh DEF Capabilities
  <1>7. CASE command \notin DOMAIN plugin.commands /\ command \in Capabilities
    <2>1. command \notin {"operation", "batch", "context", "evidence"}
      BY <1>7 DEF Capabilities
    <2>2. \/ \E answer : r = Answered(command, payload, answer)
          \/ r = Serving(command, payload, <<Call(NoName, NoName,
                    Selection(plugin.handlers[command], payload))>>)
      BY <1>7, <2>1 DEF Received
    <2>3. QED
      BY <1>2, <1>3, <1>4, <2>1, <2>2, ServingFresh, AnsweredFresh
  <1>8. CASE command \notin DOMAIN plugin.commands /\ command = "context"
    <2> DEFINE calls == [n \in DOMAIN plugin.providers |->
                           Call(NoName, NoName, {plugin.providers[n]})]
    <2>1. r = Serving(command, payload, calls)
      BY <1>8 DEF Received, Capabilities
    <2>2. CallList(calls)
      <3>1. DOMAIN plugin.providers = 1 .. Len(plugin.providers)
            /\ Len(plugin.providers) \in Nat
        BY DEF IsPlugin, IsSequence
      <3>2. QED
        BY <3>1 DEF CallList
    <2> HIDE DEF calls
    <2>3. QED
      BY <1>2, <1>8, <2>1, <2>2, ServingFresh DEF Capabilities
  <1>9. CASE command \notin DOMAIN plugin.commands /\ command = "evidence"
    <2> DEFINE all == plugin.observers
               N == {n \in DOMAIN all : InPhase(all[n], payload.phase)}
               observers == Kept(all, N)
               calls == [n \in DOMAIN observers |-> Call(NoName, NoName, {observers[n]})]
    <2>1. r = Serving(command, payload, calls)
      BY <1>9 DEF Received, Capabilities
    <2>2. CallList(calls)
      <3>1. all \in Seq(Range(all)) /\ IsFiniteSet(DOMAIN all)
        <4>1. IsSequence(all)
          BY DEF IsPlugin
        <4> HIDE DEF all
        <4>2. all \in Seq(Range(all)) /\ Len(all) \in Nat /\ DOMAIN all = 1 .. Len(all)
          BY <4>1 DEF IsSequence
        <4> QED
          BY <4>2, FS_Interval
      <3>2. N \in SUBSET DOMAIN all /\ Cardinality(N) \in Nat
        BY <3>1, FS_Subset, FS_CardinalityType
      <3> HIDE DEF N, all
      <3>3. DOMAIN observers = 1 .. Cardinality(N)
        BY <3>1, <3>2, KeptElements
      <3> HIDE DEF observers
      <3>4. calls = [n \in 1 .. Cardinality(N) |-> calls[n]]
        BY <3>3
      <3> HIDE DEF calls
      <3>5. QED
        BY <3>2, <3>4 DEF CallList
    <2> HIDE DEF calls
    <2>3. QED
      BY <1>2, <1>9, <2>1, <2>2, ServingFresh DEF Capabilities
  <1>10. CASE command \notin DOMAIN plugin.commands /\ command \notin Served
    <2>1. \E answer : r = Answered(command, payload, answer)
      BY <1>10 DEF Received, Served
    <2>2. QED
      BY <1>3, <1>10, <2>1, AnsweredFresh DEF Served
  <1>11. QED
    BY <1>5, <1>6, <1>7, <1>8, <1>9, <1>10 DEF Served

\* What every command does: it ends by itself, or it sends a fresh request that is what
\* was asked for.
Started ==
    /\ UNCHANGED <<plugin, secrets>>
    /\ \/ request' = NoRequest /\ call'.at = "ended"
       \/ call'.at = "sent" /\ Fresh(request') /\ Asking(call', request')

LEMMA EndStarts ==
    ASSUME NEW command, NEW asked, NEW outcome, EndWith(command, asked, outcome),
           UNCHANGED <<plugin, secrets>>
    PROVE  Started
  BY DEF EndWith, Started

\* A command other than those that carry calls.
LEMMA SendStarts ==
    ASSUME IsPlugin(plugin), NEW command, NEW asked, NEW payload, CallList(payload.calls),
           command \notin {"batch", "selftest"},
           Send(command, asked, payload), UNCHANGED <<plugin, secrets>>,
           command \in Capabilities =>
              payload.datasource = asked.datasource /\ payload.entity = asked.entity,
           command = "context" => payload.limit \in Nat
    PROVE  Started
  <1>1. /\ call'.at = "sent" /\ call'.command = command /\ call'.asked = asked
        /\ request' = Received(command, payload)
    BY DEF Send
  <1>2. Asking(call', request')
    <2>1. /\ request'.command = command /\ request'.payload = payload
          /\ command \in Capabilities =>
                \/ request'.calls = <<>>
                \/ request'.calls = <<Call(NoName, NoName,
                                        Selection(plugin.handlers[command], payload))>>
      BY <1>1, ReceivedFresh
    <2>2. QED
      BY <1>1, <2>1 DEF Asking
  <1>3. Fresh(request')
    BY <1>1, ReceivedFresh
  <1>4. QED
    BY <1>1, <1>2, <1>3 DEF Started

\* The calls of a batch reach their handlers in order, under the ids they are given.
LEMMA CallsStart ==
    ASSUME IsPlugin(plugin), NEW command \in {"batch", "selftest"}, NEW asked, NEW payload,
           Len(asked) \in Nat, DOMAIN asked = 1 .. Len(asked), Len(asked) <= MaxCalls,
           DOMAIN payload.calls = DOMAIN asked, Len(payload.calls) = Len(asked),
           \A n \in DOMAIN asked : /\ payload.calls[n].id = Numbered(asked)[n].id
                                   /\ payload.calls[n].name = asked[n].name
                                   /\ DOMAIN asked[n] = {"id", "name", "input"},
           call' = [at |-> "sent", command |-> command, asked |-> asked],
           request' = Received("batch", payload), UNCHANGED <<plugin, secrets>>
    PROVE  Started
  <1>1. CallList(payload.calls)
    BY DEF CallList
  <1>2. /\ Fresh(request') /\ request'.command = "batch"
        /\ request'.calls = OperationCalls(payload.calls)
    BY <1>1, ReceivedFresh
  <1>3. ASSUME NEW n \in DOMAIN asked
        PROVE  /\ request'.calls[n].id = IdOf(asked, n)
               /\ request'.calls[n].name = asked[n].name
    <2>1. ToString(n) # NoName
      BY OperationsAssumption
    <2>2. Numbered(asked)[n].id = IdOf(asked, n) /\ IdOf(asked, n) # NoName
      BY <2>1 DEF Numbered, IdOf
    <2>3. request'.calls[n]
          = Named([id |-> payload.calls[n].id, name |-> payload.calls[n].name,
                   handler |-> {}])
      BY <1>2 DEF OperationCalls, Call
    <2>4. QED
      BY <2>2, <2>3 DEF Named
  <1>4. Len(request'.calls) = Len(asked)
    <2>1. OperationCalls(payload.calls)
          = [n \in 1 .. Len(asked) |-> OperationCalls(payload.calls)[n]]
      BY DEF OperationCalls
    <2>2. QED
      BY <1>2, <2>1
  <1>5. Asking(call', request')
    BY <1>2, <1>3, <1>4 DEF Asking, Capabilities
  <1>6. QED
    BY <1>2, <1>5 DEF Started

LEMMA InvokeStarts ==
    ASSUME OperationsSound, NEW inv \in Invocations, Invoke(inv)
    PROVE  Started
  <1> DEFINE sent == [id |-> NoName, name |-> inv.name,
                      input |-> Assembled(inv, Schemas(inv))]
             calls == <<sent>>
             payload == [NoPayload EXCEPT
                           !.calls = [n \in DOMAIN calls |->
                                         [calls[n] EXCEPT !.input = Injected(@)]]]
  <1>1. IsPlugin(plugin)
    BY DEF OperationsSound
  <1>2. UNCHANGED <<plugin, secrets>>
    BY DEF Invoke
  <1>3. CASE Verdict(inv) # "sent"
    <2>1. EndWith("operation", inv, Verdict(inv))
      BY <1>3 DEF Invoke
    <2>2. QED
      BY <1>2, <2>1, EndStarts
  <1>4. CASE Verdict(inv) = "sent"
    <2>1. SendCalls("operation", inv, calls)
      BY <1>4 DEF Invoke
    <2>2. CASE EndWith("operation", inv, "panic")
      BY <1>2, <2>2, EndStarts
    <2>3. CASE Send("operation", inv, payload)
      <3>1. CallList(payload.calls)
        BY DEF CallList, NoPayload
      <3> HIDE DEF payload
      <3>2. QED
        BY <1>1, <1>2, <2>3, <3>1, SendStarts DEF Capabilities
    <2>4. QED
      BY <2>1, <2>2, <2>3 DEF SendCalls
  <1>5. QED
    BY <1>3, <1>4

LEMMA BatchStarts ==
    ASSUME OperationsSound, NEW asked \in Batches, Batch(asked)
    PROVE  Started
  <1> DEFINE calls == Numbered(asked)
             payload == [NoPayload EXCEPT
                           !.calls = [n \in DOMAIN calls |->
                                         [calls[n] EXCEPT !.input = Injected(@)]]]
  <1>1. IsPlugin(plugin)
    BY DEF OperationsSound
  <1>2. UNCHANGED <<plugin, secrets>> /\ Len(asked) <= MaxCalls
    BY DEF Batch
  <1>3. /\ Len(asked) \in Nat /\ DOMAIN asked = 1 .. Len(asked)
        /\ \A n \in DOMAIN asked : DOMAIN asked[n] = {"id", "name", "input"}
    BY OperationsAssumption
  <1>4. \/ EndWith("batch", asked, "error") \/ EndWith("batch", asked, "panic")
        \/ Send("batch", asked, payload)
    BY DEF Batch, SendCalls
  <1>5. CASE ~Send("batch", asked, payload)
    BY <1>2, <1>4, <1>5, EndStarts
  <1>6. CASE Send("batch", asked, payload)
    <2>1. call' = [at |-> "sent", command |-> "batch", asked |-> asked]
          /\ request' = Received("batch", payload)
      BY <1>6 DEF Send
    <2>2. \A n \in DOMAIN asked : /\ calls[n].name = asked[n].name
                                  /\ DOMAIN calls[n] = {"id", "name", "input"}
      BY <1>3 DEF Numbered
    <2>3. DOMAIN calls = DOMAIN asked
      BY DEF Numbered
    <2> HIDE DEF calls
    <2>4. payload.calls = [n \in DOMAIN asked |-> [calls[n] EXCEPT !.input = Injected(@)]]
      BY <2>3 DEF NoPayload
    <2>5. DOMAIN payload.calls = DOMAIN asked /\ Len(payload.calls) = Len(asked)
      BY <1>3, <2>4
    <2>6. \A n \in DOMAIN asked : /\ payload.calls[n].id = calls[n].id
                                  /\ payload.calls[n].name = asked[n].name
      BY <2>2, <2>4
    <2> HIDE DEF payload
    <2>7. QED
      BY <1>1, <1>2, <1>3, <2>1, <2>5, <2>6, CallsStart DEF calls
  <1>7. QED
    BY <1>5, <1>6

LEMMA OtherStarts ==
    ASSUME OperationsSound,
           \/ \E asked \in DatasourceCalls : CallDatasource(asked)
           \/ \E asked \in ContextBuilds : BuildContext(asked)
           \/ \E phase \in Phases : ObserveEvidence(phase)
           \/ \E asked \in Grants : OwnCommand(asked)
    PROVE  Started
  <1>1. IsPlugin(plugin)
    BY DEF OperationsSound
  <1>2. CallList(<<>>)
    BY DEF CallList
  <1>3. ASSUME NEW asked \in DatasourceCalls, CallDatasource(asked) PROVE Started
    <2> DEFINE payload == [NoPayload EXCEPT !.datasource = asked.datasource,
                                            !.entity = asked.entity]
    <2>1. /\ Send(asked.capability, asked, payload) /\ UNCHANGED <<plugin, secrets>>
      BY <1>3 DEF CallDatasource
    <2>2. /\ payload.calls = <<>> /\ payload.datasource = asked.datasource
          /\ payload.entity = asked.entity
      BY DEF NoPayload
    <2>3. asked.capability \in Capabilities
      BY OperationsAssumption
    <2>4. asked.capability \notin {"batch", "selftest", "operation", "context"}
      BY <2>3 DEF Capabilities
    <2> HIDE DEF payload
    <2>5. QED
      BY <1>1, <1>2, <2>1, <2>2, <2>4, SendStarts
  <1>4. ASSUME NEW asked \in ContextBuilds, BuildContext(asked) PROVE Started
    <2> DEFINE payload == [NoPayload EXCEPT !.kinds = asked.kinds, !.limit = asked.limit]
    <2>1. /\ Send("context", asked, payload) /\ UNCHANGED <<plugin, secrets>>
      BY <1>4 DEF BuildContext
    <2>2. payload.calls = <<>> /\ payload.limit = asked.limit
      BY DEF NoPayload
    <2>3. asked.limit \in Nat
      BY OperationsAssumption
    <2> HIDE DEF payload
    <2>4. QED
      BY <1>1, <1>2, <2>1, <2>2, <2>3, SendStarts DEF Capabilities
  <1>5. ASSUME NEW phase \in Phases, ObserveEvidence(phase) PROVE Started
    <2> DEFINE payload == [NoPayload EXCEPT !.phase = phase]
    <2>1. /\ Send("evidence", phase, payload) /\ UNCHANGED <<plugin, secrets>>
      BY <1>5 DEF ObserveEvidence
    <2>2. payload.calls = <<>>
      BY DEF NoPayload
    <2> HIDE DEF payload
    <2>3. QED
      BY <1>1, <1>2, <2>1, <2>2, SendStarts DEF Capabilities
  <1>6. ASSUME NEW asked \in Grants, OwnCommand(asked) PROVE Started
    <2> DEFINE payload == [NoPayload EXCEPT !.grant = asked.grant]
    <2>1. /\ Send(asked.command, asked, payload) /\ UNCHANGED <<plugin, secrets>>
      BY <1>6 DEF OwnCommand
    <2>2. payload.calls = <<>>
      BY DEF NoPayload
    <2>3. asked.command \notin Served /\ asked.command # "selftest"
      BY OperationsAssumption
    <2>4. asked.command \notin Capabilities
          /\ asked.command \notin {"batch", "selftest", "operation", "context"}
      BY <2>3 DEF Served
    <2> HIDE DEF payload
    <2>5. QED
      BY <1>1, <1>2, <2>1, <2>2, <2>4, SendStarts
  <1>7. QED
    BY <1>3, <1>4, <1>5, <1>6

\* SetToSeq lists a finite set.
LEMMA SetListed ==
    ASSUME NEW S, IsFiniteSet(S)
    PROVE  /\ SetToSeq(S) \in [1 .. Cardinality(S) -> S]
           /\ Len(SetToSeq(S)) = Cardinality(S) /\ Cardinality(S) \in Nat
  <1>1. Cardinality(S) \in Nat
    BY FS_CardinalityType
  <1>2. \E f \in [1 .. Cardinality(S) -> S] : IsInjective(f)
    <2>1. PICK f : f \in Bijection(1 .. Cardinality(S), S)
      BY FS_CardinalityType DEF ExistsBijection
    <2>2. f \in [1 .. Cardinality(S) -> S]
      BY <2>1 DEF Bijection, Injection
    <2>3. IsInjective(f)
      BY <2>1 DEF Bijection, Injection
    <2>4. QED
      BY <2>2, <2>3
  <1>3. SetToSeq(S) \in [1 .. Cardinality(S) -> S]
    BY <1>2 DEF SetToSeq
  <1>4. QED
    BY <1>1, <1>3

LEMMA ProbesFinite ==
    ASSUME IsPlugin(plugin), NEW listing, NEW authOnly
    PROVE  IsFiniteSet(Probes(listing, authOnly))
  <1> DEFINE list == Listing(listing)
             at == {n \in DOMAIN list : ProbeOf(list[n], authOnly)}
             names == [n \in at |-> list[n].name]
             probes == Probes(listing, authOnly)
  <1>1. list \in Seq(Range(list))
    BY ListingSound DEF IsSequence
  <1>2. IsFiniteSet(at)
    <2>1. DOMAIN list = 1 .. Len(list) /\ Len(list) \in Nat
      BY <1>1
    <2>2. IsFiniteSet(1 .. Len(list))
      BY <2>1, FS_Interval
    <2> HIDE DEF list
    <2>3. QED
      BY <2>1, <2>2, FS_Subset
  <1>3. probes = {names[n] : n \in at}
    BY DEF Probes, Range
  <1>4. names \in Surjection(at, probes)
    <2>1. names \in [at -> probes] /\ \A x \in probes : \E n \in at : names[n] = x
      BY <1>3
    <2> HIDE DEF names, at, probes
    <2>2. QED
      BY <2>1 DEF Surjection
  <1>5. QED
    BY <1>2, <1>4, FS_Surjection

LEMMA SelftestStarts ==
    ASSUME OperationsSound, NEW listing, NEW authOnly, Selftest(listing, authOnly)
    PROVE  Started
  <1> DEFINE names == SetToSeq(Probes(listing, authOnly))
             asked == [n \in DOMAIN names |-> [id |-> NoName, name |-> names[n],
                                              input |-> NoFields]]
             payload == [NoPayload EXCEPT
                           !.calls = [n \in DOMAIN asked |->
                                         [Numbered(asked)[n] EXCEPT !.input = Injected(@)]]]
  <1>1. IsPlugin(plugin)
    BY DEF OperationsSound
  <1>2. UNCHANGED <<plugin, secrets>> /\ Len(asked) <= MaxCalls
    BY DEF Selftest
  <1>3. \/ EndWith("selftest", asked, "ok")
        \/ EndWith("selftest", asked, "failed")
        \/ /\ call' = [at |-> "sent", command |-> "selftest", asked |-> asked]
           /\ request' = Received("batch", payload)
    BY DEF Selftest
  <1>4. PICK k \in Nat : DOMAIN names = 1 .. k
    BY <1>1, ProbesFinite, SetListed
  <1>5. DOMAIN asked = 1 .. k /\ Len(asked) = k
    <2>1. asked = [n \in 1 .. k |-> asked[n]]
      BY <1>4
    <2>2. QED
      BY <2>1
  <1>6. \A n \in DOMAIN asked : DOMAIN asked[n] = {"id", "name", "input"}
    OBVIOUS
  <1> HIDE DEF asked
  <1>7. ASSUME NEW outcome, EndWith("selftest", asked, outcome) PROVE Started
    BY <1>2, <1>7, EndStarts
  <1>8. CASE /\ call' = [at |-> "sent", command |-> "selftest", asked |-> asked]
             /\ request' = Received("batch", payload)
    <2>1. \A n \in DOMAIN asked : /\ Numbered(asked)[n].name = asked[n].name
                                  /\ DOMAIN Numbered(asked)[n] = {"id", "name", "input"}
      BY <1>6 DEF Numbered
    <2>2. payload.calls = [n \in DOMAIN asked |->
                             [Numbered(asked)[n] EXCEPT !.input = Injected(@)]]
      BY DEF NoPayload
    <2>3. DOMAIN payload.calls = DOMAIN asked /\ Len(payload.calls) = Len(asked)
      BY <1>5, <2>2
    <2>4. \A n \in DOMAIN asked : /\ payload.calls[n].id = Numbered(asked)[n].id
                                  /\ payload.calls[n].name = asked[n].name
      BY <2>1, <2>2
    <2> HIDE DEF payload
    <2>5. QED
      BY <1>1, <1>2, <1>5, <1>6, <1>8, <2>3, <2>4, CallsStart
  <1>9. QED
    BY <1>3, <1>7, <1>8

(***************************************************************************)
(* A request is served.                                                    *)
(***************************************************************************)
\* What no step of the plugin changes of a request.
SameRequest(r, s) == s.command = r.command /\ s.payload = r.payload /\ s.calls = r.calls

\* What reading a secret leaves as it is.
Moved(r, s) ==
    /\ DOMAIN s = RequestFields /\ SameRequest(r, s)
    /\ s.at = r.at /\ s.answers = r.answers /\ s.since = r.since

LEMMA MovedSound ==
    ASSUME NEW r, IsRequest(r), AnswersKept(r), NEW s, Moved(r, s)
    PROVE  IsRequest(s) /\ AnswersKept(s)
  <1>1. /\ DOMAIN s = RequestFields /\ s.at = r.at /\ s.calls = r.calls
        /\ s.command = r.command /\ s.answers = r.answers
    BY DEF Moved, SameRequest
  <1>2. QED
    BY <1>1 DEF IsRequest, AnswersKept

LEMMA SecretsSame ==
    ASSUME NEW r, SecretsKept(r),
           NEW s, s.since = r.since, s.cache = r.cache, s.readers = r.readers,
           s.reads = r.reads, s.mixed = r.mixed
    PROVE  SecretsKept(s)
  <1>1. SecretsType(s) /\ VersionsKept(s)
    BY DEF SecretsKept, SecretsType, VersionsKept, Held
  <1>2. OneReader(s) /\ ReadsKept(s)
    BY DEF SecretsKept, OneReader, Reading, ReadsKept, CachedRead, LatestRead
  <1>3. QED
    BY <1>1, <1>2 DEF SecretsKept

LEMMA FirstPurpose ==
    ASSUME NEW order \in Seq(Purposes), order # <<>>
    PROVE  order[1] \in Purposes
  OBVIOUS

LEMMA HeldVersion ==
    ASSUME NEW r, SecretsType(r), secrets \in [Purposes -> Nat], NEW p \in Purposes,
           NEW version, Held(r, p, version)
    PROVE  version \in Nat
  <1>1. r.since[p] \in Nat /\ secrets[p] \in Nat
    BY DEF SecretsType
  <1>2. QED
    BY <1>1 DEF Held

\* A goroutine that rests, tries or goes on with what it asked for.
LEMMA ReaderMoved ==
    ASSUME NEW r, SecretsKept(r), NEW g \in Readers, NEW reader, IsReader(reader),
           \/ reader.at \in {"resting", "trying"}
           \/ /\ reader.at = "storing" /\ r.readers[g].at = "asking"
              /\ reader.order = r.readers[g].order
              /\ Held(r, reader.order[1], reader.version),
           NEW s, s.since = r.since, s.cache = r.cache, s.reads = r.reads, s.mixed = r.mixed,
           s.readers = [r.readers EXCEPT ![g] = reader]
    PROVE  SecretsKept(s)
  <1>1. /\ SecretsType(r) /\ VersionsKept(r) /\ OneReader(r) /\ ReadsKept(r)
    BY DEF SecretsKept
  <1>2. /\ DOMAIN r.readers = Readers /\ DOMAIN s.readers = Readers
        /\ s.readers[g] = reader
        /\ \A h \in Readers : h # g => s.readers[h] = r.readers[h]
    BY <1>1 DEF SecretsType
  <1>3. SecretsType(s)
    <2>1. \A h \in Readers : IsReader(s.readers[h])
      BY <1>1, <1>2 DEF SecretsType
    <2>2. s.readers = [h \in Readers |-> s.readers[h]]
      BY <1>1 DEF SecretsType
    <2>3. QED
      BY <1>1, <1>2, <2>1, <2>2 DEF SecretsType
  <1>4. VersionsKept(s)
    <2>1. \A h \in Readers : s.readers[h].at = "storing" =>
             Held(r, s.readers[h].order[1], s.readers[h].version)
      BY <1>1, <1>2 DEF VersionsKept
    <2>2. QED
      BY <1>1, <2>1 DEF VersionsKept, Held
  <1>5. \A p \in Purposes : Reading(s, p) \subseteq Reading(r, p)
    BY <1>2 DEF Reading
  <1>6. OneReader(s)
    BY <1>1, <1>5 DEF OneReader
  <1>7. ReadsKept(s)
    BY <1>1 DEF ReadsKept, CachedRead, LatestRead
  <1>8. QED
    BY <1>3, <1>4, <1>6, <1>7 DEF SecretsKept

\* A goroutine that missed the cache.
LEMMA ReaderAsks ==
    ASSUME NEW r, SecretsKept(r), NEW g \in Readers, r.readers[g].at \in {"resting", "trying"},
           NEW order \in Seq(Purposes), order # <<>>, order[1] \notin DOMAIN r.cache,
           NEW s, s.since = r.since, s.cache = r.cache, s.reads = r.reads,
           \A q : q \in s.mixed <=> q \in r.mixed \/ (q = order[1] /\ Reading(r, q) # {}),
           s.readers = [r.readers EXCEPT ![g] = Reader("asking", order, 0)]
    PROVE  SecretsKept(s)
  <1>1. /\ SecretsType(r) /\ VersionsKept(r) /\ OneReader(r) /\ ReadsKept(r)
    BY DEF SecretsKept
  <1>2. PICK reader : reader = Reader("asking", order, 0)
    OBVIOUS
  <1>3. IsReader(reader) /\ reader.at = "asking" /\ reader.order = order
    BY <1>2 DEF IsReader, Reader
  <1>4. /\ DOMAIN r.readers = Readers /\ DOMAIN s.readers = Readers
        /\ s.readers[g] = reader
        /\ \A h \in Readers : h # g => s.readers[h] = r.readers[h]
    BY <1>1, <1>2 DEF SecretsType
  <1>5. SecretsType(s)
    <2>1. \A h \in Readers : IsReader(s.readers[h])
      BY <1>1, <1>3, <1>4 DEF SecretsType
    <2>2. s.readers = [h \in Readers |-> s.readers[h]]
      BY <1>1 DEF SecretsType
    <2>3. QED
      BY <1>1, <1>4, <2>1, <2>2 DEF SecretsType
  <1>6. VersionsKept(s)
    <2>1. \A h \in Readers : s.readers[h].at = "storing" =>
             Held(r, s.readers[h].order[1], s.readers[h].version)
      BY <1>1, <1>3, <1>4 DEF VersionsKept
    <2>2. QED
      BY <1>1, <2>1 DEF VersionsKept, Held
  <1>7. OneReader(s)
    <2>1. SUFFICES ASSUME NEW p \in Purposes, p \notin s.mixed, NEW h \in Reading(s, p)
                   PROVE  p \notin DOMAIN r.cache /\ Reading(s, p) = {h}
      BY DEF OneReader
    <2>2. p \notin r.mixed
      BY <2>1
    <2>3. CASE p = order[1]
      <3>1. Reading(r, p) = {}
        BY <2>1, <2>3
      <3>2. Reading(s, p) = {g}
        BY <1>3, <1>4, <2>3, <3>1 DEF Reading
      <3>3. QED
        BY <2>1, <2>3, <3>2
    <2>4. CASE p # order[1]
      <3>1. Reading(s, p) = Reading(r, p)
        BY <1>3, <1>4, <2>4 DEF Reading
      <3>2. QED
        BY <1>1, <2>1, <2>2, <3>1 DEF OneReader
    <2>5. QED
      BY <2>3, <2>4
  <1>8. ReadsKept(s)
    BY <1>1 DEF ReadsKept, CachedRead, LatestRead
  <1>9. QED
    BY <1>5, <1>6, <1>7, <1>8 DEF SecretsKept

\* What is stored was not read before, or by several at a time.
LEMMA CacheStored ==
    ASSUME NEW r, SecretsKept(r), NEW p \in Purposes, NEW version, Held(r, p, version),
           p \notin r.mixed => p \notin DOMAIN r.cache /\ Reading(r, p) = {},
           NEW s, s.since = r.since, s.readers = r.readers, s.reads = r.reads,
           s.mixed = r.mixed, s.cache = Updated(r.cache, p, version)
    PROVE  SecretsKept(s) /\ p \in DOMAIN s.cache /\ s.cache[p] = version
  <1>1. /\ SecretsType(r) /\ VersionsKept(r) /\ OneReader(r) /\ ReadsKept(r)
    BY DEF SecretsKept
  <1>2. /\ DOMAIN s.cache = DOMAIN r.cache \cup {p} /\ s.cache[p] = version
        /\ \A q \in DOMAIN r.cache : q # p => s.cache[q] = r.cache[q]
    BY DEF Updated
  <1>3. SecretsType(s)
    BY <1>1, <1>2 DEF SecretsType
  <1>4. VersionsKept(s)
    BY <1>1, <1>2 DEF VersionsKept, Held
  <1>5. \A q : Reading(s, q) = Reading(r, q)
    BY DEF Reading
  <1>6. OneReader(s)
    BY <1>1, <1>2, <1>5 DEF OneReader
  <1>7. ASSUME NEW n \in DOMAIN r.reads PROVE CachedRead(s, r.reads[n]) /\ LatestRead(s, n)
    <2>1. CachedRead(r, r.reads[n]) /\ LatestRead(r, n)
      BY <1>1 DEF ReadsKept
    <2>2. CachedRead(s, r.reads[n])
      BY <1>2, <2>1 DEF CachedRead
    <2>3. QED
      BY <2>1, <2>2 DEF LatestRead
  <1>8. ReadsKept(s)
    BY <1>7 DEF ReadsKept
  <1>9. QED
    BY <1>2, <1>3, <1>4, <1>6, <1>8 DEF SecretsKept

LEMMA ReadAppended ==
    ASSUME NEW r, SecretsKept(r), NEW read \in Entries, Held(r, read.purpose, read.version),
           CachedRead(r, read),
           read.by = "host" =>
              \A m \in DOMAIN r.reads :
                 r.reads[m].purpose = read.purpose => r.reads[m].version <= read.version,
           NEW s, s.since = r.since, s.readers = r.readers, s.mixed = r.mixed,
           s.cache = r.cache, s.reads = Append(r.reads, read)
    PROVE  SecretsKept(s)
  <1>1. /\ SecretsType(r) /\ VersionsKept(r) /\ OneReader(r) /\ ReadsKept(r)
    BY DEF SecretsKept
  <1>2. PICK k \in Nat : k = Len(r.reads)
    BY <1>1 DEF SecretsType
  <1>3. /\ DOMAIN r.reads = 1 .. k /\ DOMAIN s.reads = 1 .. k + 1
        /\ s.reads \in Seq(Entries) /\ s.reads[k + 1] = read
        /\ \A n \in 1 .. k : s.reads[n] = r.reads[n]
    <2>1. r.reads \in Seq(Entries)
      BY <1>1 DEF SecretsType
    <2>2. QED
      BY <1>2, <2>1
  <1>4. SecretsType(s)
    BY <1>1, <1>3 DEF SecretsType
  <1>5. ASSUME NEW n \in DOMAIN s.reads
        PROVE  (n \in DOMAIN r.reads /\ s.reads[n] = r.reads[n]) \/ n = k + 1
    BY <1>3
  <1>6. VersionsKept(s)
    <2>1. \A n \in DOMAIN s.reads : Held(r, s.reads[n].purpose, s.reads[n].version)
      BY <1>1, <1>3, <1>5 DEF VersionsKept
    <2>2. QED
      BY <1>1, <2>1 DEF VersionsKept, Held
  <1>7. OneReader(s)
    BY <1>1 DEF OneReader, Reading
  <1>8. ASSUME NEW n \in DOMAIN s.reads PROVE CachedRead(s, s.reads[n]) /\ LatestRead(s, n)
    <2>1. CASE n \in DOMAIN r.reads /\ s.reads[n] = r.reads[n]
      <3>1. CachedRead(r, r.reads[n]) /\ LatestRead(r, n)
        BY <1>1, <2>1 DEF ReadsKept
      <3>2. \A m \in 1 .. n - 1 : s.reads[m] = r.reads[m]
        BY <1>3, <2>1
      <3>3. QED
        BY <2>1, <3>1, <3>2 DEF CachedRead, LatestRead
    <2>2. CASE n = k + 1
      <3>1. s.reads[n] = read /\ \A m \in 1 .. n - 1 : m \in DOMAIN r.reads
                                                       /\ s.reads[m] = r.reads[m]
        BY <1>3, <2>2
      <3>2. QED
        BY <3>1 DEF CachedRead, LatestRead
    <2>3. QED
      BY <1>5, <2>1, <2>2
  <1>9. QED
    BY <1>4, <1>6, <1>7, <1>8 DEF SecretsKept, ReadsKept

\* What a goroutine does with a version: it rests or tries.
Through(order, version) ==
    IF Len(order) = 1 THEN Resting ELSE Reader("trying", order, version)

LEMMA ThroughReads ==
    ASSUME NEW order \in Seq(Purposes), order # <<>>, NEW version \in Nat
    PROVE  IsReader(Through(order, version)) /\ Through(order, version).at \in {"resting", "trying"}
  <1>1. IsReader(Resting) /\ Resting.at = "resting"
    <2>1. <<>> \in Seq(Purposes) /\ 0 \in Nat
      OBVIOUS
    <2>2. QED
      BY <2>1 DEF Resting, Reader, IsReader
  <1>2. Len(order) # 1 => Len(order) > 1
    <2>1. Len(order) # 0 /\ Len(order) \in Nat
      OBVIOUS
    <2>2. PICK k \in Nat : k = Len(order)
      BY <2>1
    <2>3. k # 1 => k > 1
      BY <2>1, <2>2
    <2>4. QED
      BY <2>2, <2>3
  <1>3. PICK reader : reader = Reader("trying", order, version)
    OBVIOUS
  <1>4. Len(order) # 1 => IsReader(reader) /\ reader.at = "trying"
    BY <1>2, <1>3 DEF Reader, IsReader
  <1>5. QED
    BY <1>1, <1>3, <1>4 DEF Through

\* A cached secret is read, or one is asked for.
LEMMA LookedKept ==
    ASSUME NEW r, DOMAIN r = RequestFields, SecretsKept(r), secrets \in [Purposes -> Nat],
           NEW g \in Readers, r.readers[g].at \in {"resting", "trying"},
           NEW order \in Seq(Purposes), order # <<>>
    PROVE  SecretsKept(Looked(r, g, order)) /\ Moved(r, Looked(r, g, order))
  <1>1. /\ SecretsType(r) /\ VersionsKept(r) /\ OneReader(r) /\ ReadsKept(r)
        /\ DOMAIN r.readers = Readers
    BY DEF SecretsKept, SecretsType
  <1>2. PICK p \in Purposes : p = order[1]
    BY FirstPurpose
  <1>3. CASE p \in DOMAIN r.cache
    <2>1. PICK version : version = r.cache[p]
      OBVIOUS
    <2>2. Held(r, p, version) /\ version \in Nat
      BY <1>1, <1>3, <2>1, HeldVersion DEF VersionsKept
    <2>3. PICK reader, read : reader = Through(order, version) /\ read = Entry(p, version, "plugin")
      OBVIOUS
    <2> DEFINE t == [r EXCEPT !.readers = [r.readers EXCEPT ![g] = reader]]
               s == [r EXCEPT !.reads = Append(r.reads, read),
                              !.readers = [r.readers EXCEPT ![g] = reader]]
    <2>4. Looked(r, g, order) = s
      BY <1>1, <1>2, <1>3, <2>1, <2>3 DEF Looked, Got, Through, RequestFields
    <2>5. /\ t.since = r.since /\ t.cache = r.cache /\ t.reads = r.reads /\ t.mixed = r.mixed
          /\ t.readers = [r.readers EXCEPT ![g] = reader]
      BY DEF RequestFields
    <2>6. /\ s.since = t.since /\ s.cache = t.cache /\ s.mixed = t.mixed
          /\ s.readers = t.readers /\ s.reads = Append(t.reads, read) /\ Moved(r, s)
      BY DEF RequestFields, Moved, SameRequest
    <2> HIDE DEF t, s
    <2>7. IsReader(reader) /\ reader.at \in {"resting", "trying"}
      BY <2>2, <2>3, ThroughReads
    <2>8. SecretsKept(t)
      BY <2>5, <2>7, ReaderMoved
    <2>9. /\ read \in Entries /\ Held(t, read.purpose, read.version) /\ read.by # "host"
          /\ CachedRead(t, read)
      BY <1>3, <2>1, <2>2, <2>3, <2>5 DEF Entry, Entries, Held, CachedRead
    <2>10. SecretsKept(s)
      BY <2>6, <2>8, <2>9, ReadAppended
    <2>11. QED
      BY <2>4, <2>6, <2>10
  <1>4. CASE p \notin DOMAIN r.cache
    <2>1. PICK mixed : mixed = r.mixed \cup {q \in {order[1]} : Reading(r, q) # {}}
      OBVIOUS
    <2> DEFINE s == [r EXCEPT !.readers = [r.readers EXCEPT ![g] = Reader("asking", order, 0)],
                              !.mixed = mixed]
    <2>2. Looked(r, g, order) = s
      BY <1>1, <1>2, <1>4, <2>1 DEF Looked, RequestFields
    <2>3. /\ s.since = r.since /\ s.cache = r.cache /\ s.reads = r.reads /\ s.mixed = mixed
          /\ s.readers = [r.readers EXCEPT ![g] = Reader("asking", order, 0)]
          /\ Moved(r, s)
      BY DEF RequestFields, Moved, SameRequest
    <2> HIDE DEF s
    <2>4. \A q : q \in s.mixed <=> q \in r.mixed \/ (q = order[1] /\ Reading(r, q) # {})
      BY <2>1, <2>3
    <2>5. SecretsKept(s)
      BY <1>2, <1>4, <2>3, <2>4, ReaderAsks
    <2>6. QED
      BY <2>2, <2>3, <2>5
  <1>5. QED
    BY <1>3, <1>4

\* What the host answered is stored and read.
LEMMA StoredKept ==
    ASSUME NEW r, DOMAIN r = RequestFields, SecretsKept(r), secrets \in [Purposes -> Nat],
           NEW g \in Readers, NEW reader, reader = r.readers[g], reader.at = "storing",
           NEW stored,
           stored = [r EXCEPT !.cache = Cached(r.cache, reader.order[1], reader.version)],
           NEW s, s = Got(stored, g, reader.order, reader.version)
    PROVE  SecretsKept(s) /\ Moved(r, s)
  <1>1. /\ SecretsType(r) /\ VersionsKept(r) /\ OneReader(r) /\ ReadsKept(r)
        /\ DOMAIN r.readers = Readers /\ IsReader(reader)
    BY DEF SecretsKept, SecretsType
  <1>2. PICK order \in Seq(Purposes) : order = reader.order /\ order # <<>>
    BY <1>1 DEF IsReader
  <1>3. PICK p \in Purposes : p = order[1]
    BY <1>2, FirstPurpose
  <1>4. PICK version \in Nat : version = reader.version
    BY <1>1 DEF IsReader
  <1>5. Held(r, p, version) /\ g \in Reading(r, p)
    BY <1>1, <1>2, <1>3, <1>4 DEF VersionsKept, Reading
  <1>6. PICK next, read, cache :
           next = Through(order, version) /\ read = Entry(p, version, "plugin")
           /\ cache = Updated(r.cache, p, version)
    OBVIOUS
  <1> DEFINE t == [r EXCEPT !.readers = [r.readers EXCEPT ![g] = next]]
             u == [t EXCEPT !.cache = cache]
  <1>7. /\ t.since = r.since /\ t.cache = r.cache /\ t.reads = r.reads /\ t.mixed = r.mixed
        /\ t.readers = [r.readers EXCEPT ![g] = next]
        /\ u.since = t.since /\ u.readers = t.readers /\ u.reads = t.reads
        /\ u.mixed = t.mixed /\ u.cache = cache
    BY DEF RequestFields
  <1>8. /\ stored.readers = r.readers /\ stored.reads = r.reads /\ stored.cache = cache
        /\ DOMAIN stored = RequestFields /\ stored.since = r.since /\ stored.mixed = r.mixed
        /\ stored.at = r.at /\ stored.answers = r.answers /\ SameRequest(r, stored)
    BY <1>2, <1>3, <1>4, <1>6 DEF RequestFields, Cached, SameRequest
  <1>9. s = [stored EXCEPT !.reads = Append(r.reads, read),
                           !.readers = [r.readers EXCEPT ![g] = next]]
    BY <1>1, <1>2, <1>3, <1>4, <1>6, <1>8 DEF Got, Through, RequestFields
  <1>10. /\ s.since = r.since /\ s.mixed = r.mixed /\ s.cache = cache
         /\ s.readers = [r.readers EXCEPT ![g] = next] /\ s.reads = Append(r.reads, read)
         /\ Moved(r, s)
    BY <1>8, <1>9 DEF RequestFields, Moved, SameRequest
  <1> HIDE DEF t, u
  <1>11. IsReader(next) /\ next.at \in {"resting", "trying"}
    BY <1>2, <1>6, ThroughReads
  <1>12. SecretsKept(t)
    BY <1>7, <1>11, ReaderMoved
  <1>13. p \notin t.mixed => p \notin DOMAIN t.cache /\ Reading(t, p) = {}
    <2>1. SUFFICES ASSUME p \notin r.mixed
                   PROVE  p \notin DOMAIN r.cache /\ Reading(t, p) = {}
      BY <1>7
    <2>2. p \notin DOMAIN r.cache /\ Reading(r, p) = {g}
      BY <1>1, <1>5, <2>1 DEF OneReader
    <2>3. /\ t.readers[g] = next /\ \A h \in Readers : h # g => t.readers[h] = r.readers[h]
      BY <1>1, <1>7
    <2>4. g \notin Reading(t, p)
      BY <1>11, <2>3 DEF Reading
    <2>5. \A h \in Readers : h # g => h \notin Reading(t, p)
      BY <2>2, <2>3 DEF Reading
    <2>6. QED
      BY <2>2, <2>4, <2>5 DEF Reading
  <1>14. Held(t, p, version)
    BY <1>5, <1>7 DEF Held
  <1>15. SecretsKept(u) /\ p \in DOMAIN u.cache /\ u.cache[p] = version
    BY <1>6, <1>7, <1>12, <1>13, <1>14, CacheStored
  <1>16. /\ read \in Entries /\ Held(u, read.purpose, read.version) /\ read.by # "host"
         /\ CachedRead(u, read)
    BY <1>6, <1>7, <1>14, <1>15 DEF Entry, Entries, Held, CachedRead
  <1>17. SecretsKept(s)
    <2>1. /\ s.since = u.since /\ s.readers = u.readers /\ s.mixed = u.mixed
          /\ s.cache = u.cache /\ s.reads = Append(u.reads, read)
      BY <1>7, <1>10
    <2>2. QED
      BY <1>15, <1>16, <2>1, ReadAppended
  <1>18. QED
    BY <1>10, <1>17

\* What a step of the plugin leaves.
Progressed(r) == IsRequest(r) /\ SecretsKept(r) /\ AnswersKept(r) /\ SameRequest(request, r)

\* An answer is that of the call whose turn it is.
LEMMA AnswerKept ==
    ASSUME OperationsSound, Busy, NEW outcome,
           request.command = "context" => outcome[1] = "error" \/ outcome[2] \in Found,
           NEW s, s = [request EXCEPT !.answers =
                         Append(request.answers, Answer(Current, outcome))]
    PROVE  Progressed(s) /\ s.at = "serving"
  <1>1. /\ IsRequest(request) /\ SecretsKept(request) /\ AnswersKept(request)
        /\ request.at = "serving" /\ Len(request.answers) < Len(request.calls)
    BY DEF Busy, OperationsSound
  <1>2. IsSequence(request.answers) /\ DOMAIN request = RequestFields
    BY <1>1 DEF IsRequest
  <1>3. PICK answer : answer = Answer(Current, outcome)
    OBVIOUS
  <1>4. /\ DOMAIN s = RequestFields /\ SameRequest(request, s) /\ s.at = "serving"
        /\ s.answers = Append(request.answers, answer)
        /\ s.cache = request.cache /\ s.reads = request.reads /\ s.since = request.since
        /\ s.readers = request.readers /\ s.mixed = request.mixed
    BY <1>1, <1>2, <1>3 DEF RequestFields, SameRequest
  <1> DEFINE k == Len(request.answers)
  <1>5. k \in Nat /\ DOMAIN request.answers = 1 .. k
    BY <1>2 DEF IsSequence
  <1>6. /\ IsSequence(s.answers) /\ Len(s.answers) = k + 1
        /\ \A n \in 1 .. k : s.answers[n] = request.answers[n]
        /\ s.answers[k + 1] = answer
    <2>1. IsSequence(Append(request.answers, answer))
      BY <1>2, Appended
    <2>2. request.answers \in Seq(Range(request.answers) \cup {answer})
      BY <1>2 DEF IsSequence
    <2>3. QED
      BY <1>4, <2>1, <2>2
  <1>7. DOMAIN s.answers = 1 .. k + 1
    BY <1>6 DEF IsSequence
  <1>8. /\ answer.id = s.calls[k + 1].id /\ answer.name = s.calls[k + 1].name
        /\ answer.outcome = outcome
    BY <1>3, <1>4 DEF Answer, Current, SameRequest
  <1>9. IsRequest(s)
    <2>1. k + 1 <= Len(s.calls) /\ CallList(s.calls)
      BY <1>1, <1>4, <1>5 DEF IsRequest, CallList, SameRequest
    <2>2. QED
      BY <1>4, <1>6, <2>1 DEF IsRequest
  <1>10. SecretsKept(s)
    BY <1>1, <1>4, SecretsSame
  <1>11. AnswersKept(s)
    <2> HIDE DEF k
    <2>1. ASSUME NEW n \in DOMAIN s.answers
          PROVE  n = k + 1 \/ (n \in DOMAIN request.answers
                               /\ s.answers[n] = request.answers[n])
      BY <1>5, <1>6, <1>7
    <2>2. QED
      BY <1>1, <1>4, <1>6, <1>8, <2>1 DEF AnswersKept, SameRequest
  <1>12. QED
    BY <1>4, <1>9, <1>10, <1>11 DEF Progressed

\* Reading secrets answers nothing.
LEMMA ReaderProgresses ==
    ASSUME OperationsSound, NEW g \in Readers,
           \/ \E order \in Preferences : ReadSecret(g, order)
           \/ HostAnswers(g) \/ StoreSecret(g) \/ TryPreferred(g)
    PROVE  /\ UNCHANGED <<plugin, secrets>> /\ request.at = "serving"
           /\ Moved(request, request') /\ SecretsKept(request')
  <1>1. UNCHANGED <<plugin, secrets>> /\ request.at = "serving"
    BY DEF ReadSecret, HostAnswers, StoreSecret, TryPreferred, Handling, Busy
  <1>2. /\ IsRequest(request) /\ DOMAIN request = RequestFields
        /\ SecretsKept(request) /\ secrets \in [Purposes -> Nat]
    BY <1>1 DEF OperationsSound, IsRequest
  <1>3. PICK r : r = request
    OBVIOUS
  <1>4. PICK reader : reader = r.readers[g]
    OBVIOUS
  <1>5. IsReader(reader) /\ SecretsType(r) /\ VersionsKept(r) /\ DOMAIN r.readers = Readers
    BY <1>2, <1>3, <1>4 DEF SecretsKept, SecretsType
  <1>6. ASSUME NEW order \in Preferences, ReadSecret(g, order)
        PROVE  Moved(r, request') /\ SecretsKept(request')
    <2>1. order \in Seq(Purposes) /\ order # <<>>
      BY DispatchAssumption
    <2>2. r.readers[g].at = "resting" /\ request' = Looked(r, g, order)
      BY <1>3, <1>6 DEF ReadSecret, Resting, Reader
    <2>3. QED
      BY <1>2, <1>3, <2>1, <2>2, LookedKept
  <1>7. ASSUME NEW next, IsReader(next),
               \/ next.at \in {"resting", "trying"}
               \/ /\ next.at = "storing" /\ reader.at = "asking"
                  /\ next.order = reader.order
                  /\ Held(r, next.order[1], next.version),
               request' = [r EXCEPT !.readers = [r.readers EXCEPT ![g] = next]]
        PROVE  Moved(r, request') /\ SecretsKept(request')
    <2> DEFINE s == [r EXCEPT !.readers = [r.readers EXCEPT ![g] = next]]
    <2>1. /\ s.since = r.since /\ s.cache = r.cache /\ s.reads = r.reads
          /\ s.mixed = r.mixed /\ s.readers = [r.readers EXCEPT ![g] = next]
          /\ Moved(r, s)
      BY <1>2, <1>3 DEF RequestFields, Moved, SameRequest
    <2> HIDE DEF s
    <2>2. SecretsKept(s)
      BY <1>2, <1>3, <1>4, <1>7, <2>1, ReaderMoved
    <2>3. QED
      BY <1>7, <2>1, <2>2 DEF s
  <1>8. ASSUME HostAnswers(g) PROVE Moved(r, request') /\ SecretsKept(request')
    <2>1. PICK order : order = reader.order
      OBVIOUS
    <2>2. reader.at = "asking" /\ order \in Seq(Purposes) /\ order # <<>>
      BY <1>3, <1>4, <1>5, <1>8, <2>1 DEF HostAnswers, IsReader
    <2>3. order[1] \in Purposes
      BY <2>2, FirstPurpose
    <2>4. PICK version \in Nat : version = secrets[order[1]]
      BY <1>2, <2>3
    <2>5. \/ request' = [r EXCEPT !.readers = [r.readers EXCEPT ![g] =
                                       Reader("storing", order, version)]]
          \/ request' = [r EXCEPT !.readers = [r.readers EXCEPT ![g] = Through(order, 0)]]
      BY <1>2, <1>3, <1>4, <1>8, <2>1, <2>4 DEF HostAnswers, Through, RequestFields
    <2>6. Held(r, order[1], version)
      <3>1. r.since[order[1]] \in Nat /\ r.since[order[1]] <= secrets[order[1]]
        BY <1>5, <2>3 DEF SecretsType, VersionsKept
      <3>2. QED
        BY <2>4, <3>1 DEF Held
    <2>7. PICK storing : storing = Reader("storing", order, version)
      OBVIOUS
    <2>8. IsReader(storing) /\ storing.at = "storing" /\ storing.order = order
          /\ storing.version = version
      BY <2>2, <2>7 DEF IsReader, Reader
    <2>9. PICK failed : failed = Through(order, 0)
      OBVIOUS
    <2>10. IsReader(failed) /\ failed.at \in {"resting", "trying"}
      BY <2>2, <2>9, ThroughReads
    <2>11. QED
      BY <1>7, <2>1, <2>2, <2>5, <2>6, <2>7, <2>8, <2>9, <2>10
  <1>9. ASSUME StoreSecret(g) PROVE Moved(r, request') /\ SecretsKept(request')
    <2>1. PICK stored :
             stored = [r EXCEPT !.cache = Cached(r.cache, reader.order[1], reader.version)]
      OBVIOUS
    <2>2. reader.at = "storing" /\ request' = Got(stored, g, reader.order, reader.version)
      BY <1>2, <1>3, <1>4, <1>9, <2>1 DEF StoreSecret, RequestFields
    <2>3. QED
      BY <1>2, <1>3, <1>4, <2>1, <2>2, StoredKept
  <1>10. ASSUME TryPreferred(g) PROVE Moved(r, request') /\ SecretsKept(request')
    <2>1. /\ reader.at = "trying"
          /\ \/ request' = Looked(r, g, Tail(reader.order))
             \/ request' = [r EXCEPT !.readers = [r.readers EXCEPT ![g] = Resting]]
      BY <1>2, <1>3, <1>4, <1>10 DEF TryPreferred, RequestFields
    <2>2. reader.order \in Seq(Purposes) /\ Len(reader.order) > 1
      BY <1>5, <2>1 DEF IsReader
    <2>3. PICK order \in Seq(Purposes) : order = Tail(reader.order) /\ order # <<>>
      <3>1. PICK all \in Seq(Purposes) : all = reader.order
        BY <2>2
      <3>2. Tail(all) \in Seq(Purposes) /\ Len(Tail(all)) = Len(all) - 1
        BY <2>2, <3>1
      <3>3. PICK rest \in Seq(Purposes) : rest = Tail(all) /\ Len(rest) = Len(all) - 1
        BY <3>2
      <3>4. PICK k \in Nat, m \in Nat : k = Len(all) /\ m = Len(rest) /\ k > 1 /\ m = k - 1
        BY <2>2, <3>1, <3>3
      <3>5. m # 0
        BY <3>4
      <3>6. rest # <<>>
        BY <3>4, <3>5
      <3>7. QED
        BY <3>1, <3>3, <3>6
    <2>4. CASE request' = Looked(r, g, Tail(reader.order))
      BY <1>2, <1>3, <1>4, <2>1, <2>3, <2>4, LookedKept
    <2>5. PICK resting : resting = Resting
      OBVIOUS
    <2>6. IsReader(resting) /\ resting.at = "resting"
      <3>1. <<>> \in Seq(Purposes)
        OBVIOUS
      <3>2. QED
        BY <2>5, <3>1 DEF IsReader, Resting, Reader
    <2>7. QED
      BY <1>7, <2>1, <2>4, <2>5, <2>6
  <1>11. QED
    BY <1>1, <1>3, <1>6, <1>8, <1>9, <1>10

LEMMA SignProgresses ==
    ASSUME OperationsSound, NEW p \in Purposes, SignRequest(p)
    PROVE  /\ UNCHANGED <<plugin, secrets>> /\ request.at = "serving"
           /\ Moved(request, request') /\ SecretsKept(request')
  <1>1. UNCHANGED <<plugin, secrets>> /\ request.at = "serving"
    BY DEF SignRequest, Handling, Busy
  <1>2. /\ IsRequest(request) /\ DOMAIN request = RequestFields
        /\ SecretsKept(request) /\ secrets \in [Purposes -> Nat]
    BY <1>1 DEF OperationsSound, IsRequest
  <1>3. PICK r, read : r = request /\ read = Entry(p, secrets[p], "host")
    OBVIOUS
  <1>4. SecretsType(r) /\ VersionsKept(r) /\ secrets[p] \in Nat
    BY <1>2, <1>3 DEF SecretsKept
  <1> DEFINE s == [r EXCEPT !.reads = Append(r.reads, read)]
  <1>5. request' = s
    BY <1>2, <1>3 DEF SignRequest, RequestFields
  <1>6. /\ s.since = r.since /\ s.readers = r.readers /\ s.mixed = r.mixed
        /\ s.cache = r.cache /\ s.reads = Append(r.reads, read) /\ Moved(r, s)
    BY <1>2, <1>3 DEF RequestFields, Moved, SameRequest
  <1> HIDE DEF s
  <1>7. /\ read \in Entries /\ read.purpose = p /\ read.version = secrets[p]
        /\ read.by = "host"
    BY <1>3, <1>4 DEF Entry, Entries
  <1>8. Held(r, p, secrets[p])
    <2>1. r.since[p] \in Nat /\ r.since[p] <= secrets[p]
      BY <1>4 DEF SecretsType, VersionsKept
    <2>2. QED
      BY <1>4, <2>1 DEF Held
  <1>9. \A m \in DOMAIN r.reads : r.reads[m].purpose = p => r.reads[m].version <= secrets[p]
    <2>1. SUFFICES ASSUME NEW m \in DOMAIN r.reads, r.reads[m].purpose = p
                   PROVE  r.reads[m].version <= secrets[p]
      OBVIOUS
    <2>2. Held(r, p, r.reads[m].version)
      BY <1>4, <2>1 DEF VersionsKept
    <2>3. r.since[p] \in Nat
      BY <1>4 DEF SecretsType
    <2>4. QED
      BY <1>4, <2>2, <2>3 DEF Held
  <1>10. SecretsKept(s)
    BY <1>2, <1>3, <1>6, <1>7, <1>8, <1>9, ReadAppended DEF CachedRead
  <1>11. QED
    BY <1>1, <1>3, <1>5, <1>6, <1>10

LEMMA ServeProgresses ==
    ASSUME OperationsSound, Serve
    PROVE  /\ UNCHANGED plugin
           /\ secrets' \in [Purposes -> Nat] /\ \A p \in Purposes : secrets[p] <= secrets'[p]
           /\ request.at = "serving" /\ Progressed(request')
           /\ Respond \/ request'.at = "serving"
  <1>1. secrets \in [Purposes -> Nat]
    BY DEF OperationsSound
  <1> DEFINE Done == /\ UNCHANGED <<plugin, secrets>>
                     /\ request.at = "serving" /\ Progressed(request')
             Still == Done /\ request'.at = "serving"
  <1>2. ASSUME UNCHANGED <<plugin, secrets>>, request.at = "serving",
               Moved(request, request'), SecretsKept(request')
        PROVE  Still
    <2>1. IsRequest(request) /\ AnswersKept(request)
      BY <1>2 DEF OperationsSound
    <2>2. IsRequest(request') /\ AnswersKept(request')
      BY <1>2, <2>1, MovedSound
    <2>3. QED
      BY <1>2, <2>2 DEF Progressed, Moved
  <1>3. ASSUME Busy, UNCHANGED <<plugin, secrets>>, NEW outcome,
               request.command = "context" => outcome[1] = "error" \/ outcome[2] \in Found,
               request' = [request EXCEPT !.answers =
                             Append(request.answers, Answer(Current, outcome))]
        PROVE  Still
    <2>1. PICK s : s = [request EXCEPT !.answers =
                          Append(request.answers, Answer(Current, outcome))]
      OBVIOUS
    <2>2. Progressed(s) /\ s.at = "serving"
      BY <1>3, <2>1, AnswerKept
    <2>3. request.at = "serving" /\ request' = s
      BY <1>3, <2>1 DEF Busy
    <2>4. QED
      BY <1>3, <2>2, <2>3
  <1>4. ASSUME AnswerUnknown PROVE Still
    <2>1. PICK outcome : outcome = Failed("unknown_operation")
      OBVIOUS
    <2>2. outcome[1] = "error"
      BY <2>1 DEF Failed
    <2>3. /\ Busy /\ UNCHANGED <<plugin, secrets>>
          /\ request' = [request EXCEPT !.answers =
                           Append(request.answers, Answer(Current, outcome))]
      <3>1. DOMAIN request = RequestFields
        BY <1>4 DEF AnswerUnknown, Busy, OperationsSound, IsRequest
      <3>2. QED
        BY <1>4, <2>1, <3>1 DEF AnswerUnknown, RequestFields
    <2>4. QED
      BY <1>3, <2>2, <2>3
  <1>5. ASSUME NEW g \in Readers,
               \/ \E order \in Preferences : ReadSecret(g, order)
               \/ HostAnswers(g) \/ StoreSecret(g) \/ TryPreferred(g)
        PROVE  Still
    BY <1>2, <1>5, ReaderProgresses
  <1>6. ASSUME NEW p \in Purposes, SignRequest(p) PROVE Still
    BY <1>2, <1>6, SignProgresses
  <1>7. ASSUME NEW v \in Results PROVE request.command = "context" => v \in Found
    BY <1>7 DEF Results
  <1>8. ASSUME Return PROVE Still
    <2>1. Busy /\ UNCHANGED <<plugin, secrets>> /\ DOMAIN request = RequestFields
      BY <1>8 DEF Return, Handling, Busy, OperationsSound, IsRequest
    <2>2. PICK outcome \in Outcomes : request' = Finished(outcome)
      BY <1>8 DEF Return
    <2>3. request.command = "context" => outcome[1] = "error" \/ outcome[2] \in Found
      BY <1>7 DEF Outcomes, Failed, Succeeded
    <2>4. request' = [request EXCEPT !.answers =
                        Append(request.answers, Answer(Current, outcome))]
      BY <2>1, <2>2 DEF Finished, RequestFields
    <2>5. QED
      BY <1>3, <2>1, <2>3, <2>4
  <1>9. ASSUME Respond PROVE Done
    <2> DEFINE answers == IF CutShort THEN <<Last(request.answers)>>
                          ELSE IF request.command = "context"
                          THEN <<Reply(Succeeded(Filtered(AllBlocks, request.payload)))>>
                          ELSE request.answers
               s == [request EXCEPT !.at = "answered", !.answers = answers]
    <2>1. request.at = "serving" /\ ~Busy /\ UNCHANGED <<plugin, secrets>>
      BY <1>9 DEF Respond
    <2>2. IsRequest(request) /\ SecretsKept(request) /\ AnswersKept(request)
      BY <2>1 DEF OperationsSound
    <2>3. request' = s
      BY <1>9, <2>2 DEF Respond, IsRequest, RequestFields
    <2>4. IsSequence(answers)
      <3>1. ASSUME NEW x PROVE IsSequence(<<x>>)
        <4>1. <<x>> \in Seq({x})
          OBVIOUS
        <4>2. QED
          BY <4>1, SequenceOf
      <3>2. IsSequence(request.answers)
        BY <2>2 DEF IsRequest
      <3>3. QED
        BY <3>1, <3>2
    <2>5. request.command = "batch" =>
             answers = request.answers /\ Len(request.answers) = Len(request.calls)
      <3>1. HAVE request.command = "batch"
      <3>2. ~CutShort
        BY <3>1 DEF CutShort
      <3>3. ~(Len(request.answers) < Len(request.calls))
        BY <2>1, <3>2 DEF Busy
      <3>4. Len(request.answers) <= Len(request.calls) /\ Len(request.calls) \in Nat
            /\ Len(request.answers) \in Nat
        BY <2>1, <2>2 DEF IsRequest, CallList, IsSequence
      <3>5. QED
        BY <3>1, <3>2, <3>3, <3>4
    <2> HIDE DEF answers
    <2>6. /\ DOMAIN s = RequestFields /\ s.at = "answered" /\ s.answers = answers
          /\ s.command = request.command /\ s.payload = request.payload
          /\ s.calls = request.calls /\ s.cache = request.cache
          /\ s.since = request.since /\ s.reads = request.reads
          /\ s.readers = request.readers /\ s.mixed = request.mixed
      BY <2>2 DEF IsRequest, RequestFields
    <2> HIDE DEF s
    <2>7. IsRequest(s) /\ SecretsKept(s) /\ SameRequest(request, s)
      BY <2>2, <2>4, <2>6, SecretsSame DEF IsRequest, SameRequest
    <2>8. AnswersKept(s)
      BY <2>1, <2>2, <2>5, <2>6 DEF AnswersKept
    <2>9. QED
      BY <2>1, <2>3, <2>7, <2>8 DEF Progressed
  <1>10. ASSUME NEW p \in Purposes, Rotate(p)
         PROVE  /\ UNCHANGED plugin /\ request' = request
                /\ secrets' \in [Purposes -> Nat]
                /\ \A q \in Purposes : secrets[q] <= secrets'[q]
                /\ request.at = "serving" /\ Progressed(request')
    <2>1. UNCHANGED <<plugin, request>> /\ request.at = "serving"
          /\ secrets' = [secrets EXCEPT ![p] = @ + 1]
      BY <1>10 DEF Rotate
    <2>2. Progressed(request)
      BY <2>1 DEF OperationsSound, Progressed, SameRequest
    <2>3. QED
      BY <1>1, <2>1, <2>2
  <1>11. \A p \in Purposes : secrets[p] <= secrets[p]
    BY <1>1
  <1>12. Still \/ (Done /\ Respond) \/ \E p \in Purposes : Rotate(p)
    BY <1>4, <1>5, <1>6, <1>8, <1>9 DEF Serve
  <1>13. QED
    BY <1>1, <1>10, <1>11, <1>12

(***************************************************************************)
(* The invariant is one.                                                   *)
(***************************************************************************)
LEMMA OperationsInit ==
    ASSUME Init
    PROVE  OperationsSound
  <1>1. PICK definition \in Definitions : plugin = Defined(definition)
    BY DEF Init, DispatchInit
  <1>2. IsPlugin(plugin)
    BY <1>1, DefinedType
  <1>3. secrets \in [Purposes -> Nat]
    BY DEF Init, DispatchInit
  <1>4. request.at = "none" /\ call.at = "idle"
    BY DEF Init, DispatchInit, NoRequest, Idle
  <1>5. QED
    BY <1>2, <1>3, <1>4 DEF OperationsSound

\* Secrets that are replaced take away nothing that was read.
LEMMA SecretsStay ==
    ASSUME secrets \in [Purposes -> Nat], secrets' \in [Purposes -> Nat],
           \A p \in Purposes : secrets[p] <= secrets'[p], SecretsKept(request')
    PROVE  (SecretsKept(request))'
  <1>1. PICK r : r = request'
    OBVIOUS
  <1>2. SecretsType(r) /\ VersionsKept(r) /\ OneReader(r) /\ ReadsKept(r)
    BY <1>1 DEF SecretsKept
  <1>3. ASSUME NEW p \in Purposes
        PROVE  /\ r.since[p] <= secrets'[p]
               /\ \A v : v \in r.since[p] .. secrets[p] => v \in r.since[p] .. secrets'[p]
    <2>1. /\ secrets[p] \in Nat /\ secrets'[p] \in Nat /\ secrets[p] <= secrets'[p]
          /\ r.since[p] \in Nat /\ r.since[p] <= secrets[p]
      BY <1>2 DEF SecretsType, VersionsKept
    <2>2. QED
      BY <2>1
  <1>4. (VersionsKept(request))'
    <2>1. ASSUME NEW p \in DOMAIN r.cache PROVE r.cache[p] \in r.since[p] .. secrets'[p]
      BY <1>2, <1>3 DEF SecretsType, VersionsKept, Held
    <2>2. ASSUME NEW g \in Readers, r.readers[g].at = "storing"
          PROVE  r.readers[g].version
                 \in r.since[r.readers[g].order[1]] .. secrets'[r.readers[g].order[1]]
      <3>1. r.readers[g].order \in Seq(Purposes) /\ r.readers[g].order # <<>>
        BY <1>2, <2>2 DEF SecretsType, IsReader
      <3>2. r.readers[g].order[1] \in Purposes
        BY <3>1, FirstPurpose
      <3>3. QED
        BY <1>2, <1>3, <2>2, <3>2 DEF VersionsKept, Held
    <2>3. ASSUME NEW n \in DOMAIN r.reads
          PROVE  r.reads[n].version
                 \in r.since[r.reads[n].purpose] .. secrets'[r.reads[n].purpose]
      <3>1. r.reads[n].purpose \in Purposes
        <4>1. r.reads \in Seq(Entries)
          BY <1>2 DEF SecretsType
        <4>2. r.reads[n] \in Entries
          BY <4>1
        <4>3. QED
          BY <4>2 DEF Entries
      <3>2. QED
        BY <1>2, <1>3, <3>1 DEF VersionsKept, Held
    <2>4. QED
      BY <1>1, <1>3, <2>1, <2>2, <2>3 DEF VersionsKept, Held
  <1>5. QED
    BY <1>1, <1>2, <1>4
       DEF SecretsKept, SecretsType, OneReader, Reading, ReadsKept, CachedRead, LatestRead

LEMMA StartedSound ==
    ASSUME OperationsSound, Started
    PROVE  OperationsSound'
  <1>1. UNCHANGED <<plugin, secrets>> /\ IsPlugin(plugin) /\ secrets \in [Purposes -> Nat]
    BY DEF Started, OperationsSound
  <1>2. CASE request' = NoRequest /\ call'.at = "ended"
    <2>1. request'.at = "none"
      BY <1>2 DEF NoRequest
    <2>2. QED
      BY <1>1, <1>2, <2>1 DEF OperationsSound
  <1>3. CASE call'.at = "sent" /\ Fresh(request') /\ Asking(call', request')
    <2>1. IsRequest(request') /\ request'.at \in {"serving", "answered"}
      BY <1>3 DEF Fresh, IsRequest
    <2>2. SecretsKept(request')
      <3>1. PICK r : r = request'
        OBVIOUS
      <3>2. /\ r.since = secrets /\ r.cache = <<>> /\ r.reads = <<>>
            /\ r.readers = [g \in Readers |-> Resting]
        BY <1>3, <3>1 DEF Fresh
      <3>3. <<>> \in Seq(Entries) /\ DOMAIN <<>> = {} /\ <<>> \in Seq(Purposes)
        OBVIOUS
      <3>4. \A g \in Readers : r.readers[g] = Resting
        BY <3>2
      <3>5. IsReader(Resting) /\ Resting.at = "resting"
        BY <3>3 DEF IsReader, Resting, Reader
      <3>6. SecretsType(r)
        BY <1>1, <3>2, <3>3, <3>4, <3>5 DEF SecretsType
      <3>7. \A p \in Purposes : secrets[p] <= secrets[p]
        BY <1>1
      <3>8. VersionsKept(r)
        BY <3>2, <3>3, <3>4, <3>5, <3>7 DEF VersionsKept
      <3>9. \A p : Reading(r, p) = {}
        BY <3>4, <3>5 DEF Reading
      <3>10. OneReader(r) /\ ReadsKept(r)
        BY <3>2, <3>3, <3>9 DEF OneReader, ReadsKept
      <3>11. QED
        BY <3>1, <3>6, <3>8, <3>10 DEF SecretsKept
    <2>3. AnswersKept(request')
      BY <1>3, <2>1 DEF Fresh, AnswersKept
    <2>4. (SecretsKept(request))'
      BY <1>1, <2>2, SecretsStay
    <2>5. (Asking(call, request))'
      BY <1>1, <1>3 DEF Asking
    <2>6. QED
      BY <1>1, <1>3, <2>1, <2>3, <2>4, <2>5 DEF OperationsSound
  <1>4. QED
    BY <1>2, <1>3 DEF Started

LEMMA ServeSound ==
    ASSUME OperationsSound, Serve, UNCHANGED call
    PROVE  OperationsSound'
  <1>1. /\ UNCHANGED plugin
        /\ secrets' \in [Purposes -> Nat] /\ \A p \in Purposes : secrets[p] <= secrets'[p]
        /\ request.at = "serving" /\ Progressed(request')
    BY ServeProgresses
  <1>2. /\ IsPlugin(plugin) /\ secrets \in [Purposes -> Nat] /\ call.at = "sent"
        /\ Asking(call, request)
    BY <1>1 DEF OperationsSound
  <1>3. (SecretsKept(request))'
    BY <1>1, <1>2, SecretsStay DEF Progressed
  <1>4. (Asking(call, request))'
    BY <1>1, <1>2 DEF Asking, Progressed, SameRequest
  <1>5. request'.at # "none"
    BY <1>1 DEF Progressed, IsRequest
  <1>6. QED
    BY <1>1, <1>2, <1>3, <1>4, <1>5 DEF OperationsSound, Progressed

LEMMA OperationsNext ==
    ASSUME OperationsSound, [Next]_vars
    PROVE  OperationsSound'
  <1>1. IsPlugin(plugin) /\ secrets \in [Purposes -> Nat]
    BY DEF OperationsSound
  <1>2. ASSUME NEW inv \in Invocations, Invoke(inv) PROVE OperationsSound'
    BY <1>2, InvokeStarts, StartedSound
  <1>3. ASSUME NEW calls \in Batches, Batch(calls) PROVE OperationsSound'
    BY <1>3, BatchStarts, StartedSound
  <1>4. ASSUME NEW listing, NEW authOnly, Selftest(listing, authOnly) PROVE OperationsSound'
    BY <1>4, SelftestStarts, StartedSound
  <1>5. ASSUME \/ \E asked \in DatasourceCalls : CallDatasource(asked)
               \/ \E asked \in ContextBuilds : BuildContext(asked)
               \/ \E phase \in Phases : ObserveEvidence(phase)
               \/ \E asked \in Grants : OwnCommand(asked)
        PROVE  OperationsSound'
    BY <1>5, OtherStarts, StartedSound
  <1>6. ASSUME Serve, UNCHANGED <<call, wired>> PROVE OperationsSound'
    BY <1>6, ServeSound
  <1>7. ASSUME Report PROVE OperationsSound'
    <2>1. UNCHANGED <<plugin, secrets>> /\ request' = NoRequest /\ call'.at = "ended"
      BY <1>7 DEF Report
    <2>2. QED
      BY <2>1, StartedSound DEF Started
  <1>8. ASSUME Abort PROVE OperationsSound'
    <2>1. EndWith(call.command, call.asked, "failed") /\ UNCHANGED <<plugin, secrets>>
      BY <1>8 DEF Abort
    <2>2. PICK command, asked, outcome :
             command = call.command /\ asked = call.asked /\ outcome = "failed"
      OBVIOUS
    <2>3. Started
      BY <2>1, <2>2, EndStarts
    <2>4. QED
      BY <2>3, StartedSound
  <1>9. ASSUME Exit PROVE OperationsSound'
    <2>1. UNCHANGED <<plugin, request, secrets>> /\ call.at = "ended" /\ call'.at = "idle"
      BY <1>9 DEF Exit, dispatchVars, Idle
    <2>2. request.at = "none"
      BY <2>1 DEF OperationsSound
    <2>3. QED
      BY <1>1, <2>1, <2>2 DEF OperationsSound
  <1>10. ASSUME UNCHANGED vars PROVE OperationsSound'
    <2>1. UNCHANGED <<plugin, request, secrets, call>>
      BY <1>10 DEF vars, dispatchVars
    <2>2. (request.at # "none" => SecretsKept(request))'
      <3>1. \A p \in Purposes : secrets[p] <= secrets[p]
        BY <1>1
      <3>2. QED
        BY <1>1, <2>1, <3>1, SecretsStay DEF OperationsSound
    <2>3. (call.at = "sent" => Asking(call, request))'
      BY <2>1 DEF OperationsSound, Asking
    <2>4. QED
      BY <1>1, <2>1, <2>2, <2>3 DEF OperationsSound
  <1>11. QED
    BY <1>2, <1>3, <1>4, <1>5, <1>6, <1>7, <1>8, <1>9, <1>10 DEF Next

(***************************************************************************)
(* What the invariant promises.                                            *)
(***************************************************************************)
\* Plugins, secrets, requests and answers are always what they should be, whatever the
\* plugins are and whatever their handlers do.
THEOREM OperationsSoundTheorem == Spec => []OperationsSound
  <1>1. QED
    BY OperationsInit, OperationsNext, PTL DEF Spec

\* What the handlers of a request read of a purpose through their Context is one version,
\* unless they read at the same time, and one that the host held while it served the
\* request; a signed request has none that is older (Context.Secret and its cache,
\* resolveHTTPAuth).  For any purposes, goroutines, handlers and plugins.
THEOREM SecretsStableTheorem == Spec => []SecretsStable
  <1>1. OperationsSound => SecretsStable
    <2>1. SUFFICES ASSUME SecretsKept(request) PROVE SecretsStable
      BY DEF OperationsSound, SecretsStable
    <2>2. PICK r, reads : r = request /\ reads = r.reads
      OBVIOUS
    <2>3. SecretsType(r) /\ VersionsKept(r) /\ ReadsKept(r)
      BY <2>1, <2>2 DEF SecretsKept
    <2>4. DOMAIN reads = 1 .. Len(reads) /\ Len(reads) \in Nat
      BY <2>2, <2>3 DEF SecretsType
    <2>5. ASSUME NEW n \in DOMAIN reads
          PROVE  reads[n].version \in r.since[reads[n].purpose] .. secrets[reads[n].purpose]
      BY <2>2, <2>3 DEF VersionsKept, Held
    <2>6. ASSUME NEW n \in DOMAIN reads, NEW m \in 1 .. n - 1,
                 reads[m].purpose = reads[n].purpose
          PROVE  /\ reads[n].by = "plugin" /\ reads[m].by = "plugin"
                    /\ reads[n].purpose \notin r.mixed => reads[m].version = reads[n].version
                 /\ reads[n].by = "host" => reads[m].version <= reads[n].version
      <3>1. m \in DOMAIN reads
        BY <2>4
      <3>2. QED
        BY <2>2, <2>3, <2>6, <3>1 DEF ReadsKept, CachedRead, LatestRead
    <2>7. QED
      BY <2>2, <2>5, <2>6 DEF SecretsStable
  <1>2. QED
    BY <1>1, OperationsSoundTheorem, PTL

\* A handler is only chosen where it is clear which one is meant.
LEMMA SelectionClear ==
    ASSUME NEW handlers \in Seq(Datasources), NEW payload, NEW h \in Selection(handlers, payload)
    PROVE  /\ payload.datasource \in {NoName, h.name}
           /\ payload.entity \in {NoName, h.entity}
           /\ payload.datasource = NoName /\ payload.entity # NoName =>
                 \A g \in Range(handlers) : g.entity = h.entity => g = h
  <1> DEFINE N == {n \in DOMAIN handlers :
                     /\ payload.datasource \in {NoName, handlers[n].name}
                     /\ payload.entity \in {NoName, handlers[n].entity}}
             matching == Matching(handlers, payload)
  <1>1. /\ matching \in Seq(Datasources) /\ Range(matching) = {handlers[n] : n \in N}
    <2>1. matching = Kept(handlers, N) /\ N \in SUBSET DOMAIN handlers
      BY DEF Matching
    <2> HIDE DEF N, matching
    <2>2. QED
      BY <2>1, KeptElements
  <1>2. /\ matching # <<>> /\ h = matching[1]
        /\ payload.datasource = NoName /\ payload.entity # NoName => ~(Len(matching) > 1)
    BY DEF Selection
  <1> HIDE DEF matching
  <1>3. Len(matching) \in Nat /\ Len(matching) # 0 /\ DOMAIN matching = 1 .. Len(matching)
    BY <1>1, <1>2
  <1>4. PICK k \in N : h = handlers[k]
    <2>1. h \in Range(matching)
      BY <1>2, <1>3 DEF Range
    <2>2. QED
      BY <1>1, <2>1
  <1>5. ASSUME payload.datasource = NoName, payload.entity # NoName,
               NEW g \in Range(handlers), g.entity = h.entity
        PROVE  g = h
    <2>1. g \in Range(matching)
      BY <1>1, <1>4, <1>5 DEF Range
    <2>2. DOMAIN matching = 1 .. 1
      BY <1>2, <1>3, <1>5
    <2>3. QED
      BY <1>2, <2>1, <2>2 DEF Range
  <1>6. QED
    BY <1>4, <1>5

\* Batches are answered call by call, in order and under the ids given or numbered
\* (callBatch, normalizeOperationBatchCalls), and datasource calls only by a handler that
\* matches, where that is clear (selectDatasourceHandler), however many there are.
THEOREM AnsweredAsAskedTheorem == Spec => []AnsweredAsAsked
  <1>1. ASSUME OperationsSound, request.at = "answered" PROVE AnsweredAsAsked
    <2>1. /\ IsPlugin(plugin) /\ IsRequest(request) /\ AnswersKept(request)
          /\ call.at = "sent" /\ Asking(call, request)
      BY <1>1 DEF OperationsSound
    <2>2. ASSUME call.command \in {"batch", "selftest"}
          PROVE  /\ Len(request.answers) = Len(call.asked)
                 /\ \A n \in DOMAIN call.asked :
                       /\ request.answers[n].id = IdOf(call.asked, n)
                       /\ request.answers[n].name = call.asked[n].name
      <3>1. request.command = "batch" /\ Len(request.calls) = Len(call.asked)
            /\ DOMAIN call.asked = 1 .. Len(call.asked)
        BY <2>1, <2>2 DEF Asking
      <3>2. Len(request.answers) = Len(request.calls)
            /\ DOMAIN request.answers = 1 .. Len(request.answers)
        BY <1>1, <2>1, <3>1 DEF AnswersKept, IsRequest, IsSequence
      <3>3. QED
        BY <2>1, <2>2, <3>1, <3>2 DEF Asking, AnswersKept
    <2>3. ASSUME call.command \in Capabilities, request.calls # <<>>,
                 NEW h \in request.calls[1].handler
          PROVE  /\ call.asked.datasource \in {NoName, h.name}
                 /\ call.asked.entity \in {NoName, h.entity}
                 /\ call.asked.datasource = NoName /\ call.asked.entity # NoName =>
                       \A g \in Range(plugin.handlers[call.command]) :
                          g.entity = h.entity => g = h
      <3>1. /\ request.payload.datasource = call.asked.datasource
            /\ request.payload.entity = call.asked.entity
            /\ request.calls = <<Call(NoName, NoName,
                   Selection(plugin.handlers[call.command], request.payload))>>
        BY <2>1, <2>3 DEF Asking
      <3>2. h \in Selection(plugin.handlers[call.command], request.payload)
        BY <2>3, <3>1 DEF Call
      <3>3. plugin.handlers[call.command] \in Seq(Datasources)
        BY <2>1, <2>3 DEF IsPlugin
      <3>4. QED
        BY <3>1, <3>2, <3>3, SelectionClear
    <2>4. QED
      BY <2>2, <2>3 DEF AnsweredAsAsked
  <1>2. OperationsSound => AnsweredAsAsked
    BY <1>1 DEF AnsweredAsAsked
  <1>3. QED
    BY <1>2, OperationsSoundTheorem, PTL

LEMMA OrderedByPriority ==
    ASSUME NEW blocks \in Seq(Blocks), NEW sorted, sorted = Ordered(blocks)
    PROVE  /\ sorted \in Seq(Blocks) /\ Len(sorted) = Len(blocks)
           /\ Range(sorted) = Range(blocks)
           /\ \A m, n \in 1 .. Len(blocks) :
                 m < n => sorted[m].priority >= sorted[n].priority
  <1> DEFINE R(D) == {p \in D \X D : Precedes(blocks, p[1], p[2])}
  <1>1. PICK k, D : k \in Nat /\ k = Len(blocks) /\ D = DOMAIN blocks /\ D = 1 .. k
    OBVIOUS
  <1>2. IsFiniteSet(D) /\ Cardinality(D) = k
    <2>1. PICK one \in Int : one = 1 /\ k \in Int
      BY <1>1
    <2>2. IsFiniteSet(one .. k) /\ Cardinality(one .. k) = IF one > k THEN 0 ELSE k - one + 1
      BY <2>1, FS_Interval
    <2>3. QED
      BY <1>1, <2>1, <2>2
  <1>3. \A i \in D : /\ blocks[i] \in Blocks /\ blocks[i].priority \in Int
                     /\ blocks[i].id \in Nat /\ i \in Nat
    <2>1. \A i \in D : blocks[i] \in Blocks /\ i \in Nat
      BY <1>1
    <2>2. \A b \in Blocks : b.priority \in Int /\ b.id \in Nat
      BY DEF Blocks
    <2>3. QED
      BY <2>1, <2>2
  <1>4. PICK order : order = R(D)
    OBVIOUS
  <1>5. \A x, y \in D : <<x, y>> \in order <=> Precedes(blocks, x, y)
    BY <1>4
  <1>6. StrictOrder(D, order)
    <2>1. \A x \in D : ~Precedes(blocks, x, x)
      BY <1>3 DEF Precedes
    <2>2. \A x, y \in D : x = y \/ Precedes(blocks, x, y) \/ Precedes(blocks, y, x)
      BY <1>3 DEF Precedes
    <2>3. \A x, y, z \in D :
             Precedes(blocks, x, y) /\ Precedes(blocks, y, z) => Precedes(blocks, x, z)
      BY <1>3 DEF Precedes
    <2>4. QED
      BY <1>5, <2>1, <2>2, <2>3 DEF StrictOrder
  <1>7. PICK at : at = InOrder(D, order)
    OBVIOUS
  <1>8. /\ at \in [1 .. k -> D] /\ \A x \in D : \E n \in 1 .. k : at[n] = x
        /\ \A m, n \in 1 .. k : m < n => <<at[m], at[n]>> \in order
    BY <1>2, <1>6, <1>7, Enumerated
  <1>9. \A m, n \in 1 .. k : m < n => blocks[at[m]].priority >= blocks[at[n]].priority
    <2>1. TAKE m, n \in 1 .. k
    <2>2. HAVE m < n
    <2>3. at[m] \in D /\ at[n] \in D
      BY <1>8
    <2>4. Precedes(blocks, at[m], at[n])
      BY <1>5, <1>8, <2>2, <2>3
    <2>5. QED
      BY <1>3, <2>3, <2>4 DEF Precedes
  <1>10. sorted = [n \in 1 .. k |-> blocks[at[n]]]
    <2>1. sorted = [n \in DOMAIN at |-> blocks[at[n]]]
      BY <1>1, <1>4, <1>7 DEF Ordered
    <2>2. QED
      BY <1>8, <2>1
  <1>11. \A n \in 1 .. k : sorted[n] = blocks[at[n]] /\ sorted[n] \in Blocks
    BY <1>3, <1>8, <1>10
  <1>12. Range(sorted) = Range(blocks)
    <2>1. \A n \in 1 .. k : sorted[n] \in Range(blocks)
      BY <1>1, <1>8, <1>11 DEF Range
    <2>2. \A x \in D : blocks[x] \in Range(sorted)
      <3>1. TAKE x \in D
      <3>2. PICK n \in 1 .. k : at[n] = x
        BY <1>8
      <3>3. sorted[n] = blocks[x] /\ n \in DOMAIN sorted
        BY <1>10, <1>11, <3>2
      <3>4. QED
        BY <3>3 DEF Range
    <2>3. QED
      BY <1>1, <1>10, <2>1, <2>2 DEF Range
  <1>13. sorted \in Seq(Blocks) /\ Len(sorted) = k
    BY <1>1, <1>10, <1>11
  <1>14. QED
    BY <1>1, <1>9, <1>11, <1>12, <1>13

\* What is cut off is preceded by all that is kept.
LEMMA FilteredBest ==
    ASSUME NEW blocks \in Seq(Blocks), NEW payload, payload.limit \in Nat,
           NEW fitting, fitting = {b \in Range(blocks) :
                                     payload.kinds = {} \/ b.kind \in payload.kinds},
           NEW kept, kept = Filtered(blocks, payload)
    PROVE  /\ Range(kept) \subseteq fitting
           /\ payload.limit # 0 => Len(kept) <= payload.limit
           /\ \A dropped \in fitting \ Range(kept) :
                 /\ payload.limit # 0 /\ Len(kept) = payload.limit
                 /\ \A b \in Range(kept) : b.priority >= dropped.priority
  <1> DEFINE N == {n \in DOMAIN blocks :
                     payload.kinds = {} \/ blocks[n].kind \in payload.kinds}
  <1>1. PICK fit : fit = Fitting(blocks, payload)
    OBVIOUS
  <1>2. fit \in Seq(Blocks) /\ Range(fit) = fitting
    <2>1. fit = Kept(blocks, N) /\ N \in SUBSET DOMAIN blocks
      BY <1>1 DEF Fitting
    <2>2. fitting = {blocks[n] : n \in N}
      BY DEF Range
    <2> HIDE DEF N
    <2>3. QED
      BY <2>1, <2>2, KeptElements
  <1>3. PICK sorted : sorted = Ordered(fit)
    OBVIOUS
  <1>4. PICK k \in Nat : k = Len(fit)
    BY <1>2
  <1>5. /\ sorted \in Seq(Blocks) /\ Len(sorted) = k /\ DOMAIN sorted = 1 .. k
        /\ Range(sorted) = fitting
        /\ \A m, n \in 1 .. k : m < n => sorted[m].priority >= sorted[n].priority
    BY <1>2, <1>3, <1>4, OrderedByPriority
  <1>6. PICK limit \in Nat : limit = payload.limit
    OBVIOUS
  <1>7. kept = Limited(sorted, limit)
    BY <1>1, <1>3, <1>6 DEF Filtered
  <1>8. CASE limit = 0
    BY <1>5, <1>6, <1>7, <1>8 DEF Limited
  <1>9. CASE limit # 0
    <2>1. kept = SubSeq(sorted, 1, Min({limit, k}))
      BY <1>5, <1>7, <1>9 DEF Limited
    <2>2. PICK j \in Nat : j = Min({limit, k}) /\ j \in {limit, k}
      <3>1. Min({limit, k}) \in {limit, k}
        BY LeastIsMin
      <3>2. QED
        BY <3>1
    <2>3. j <= limit /\ j <= k
      <3>1. \E m \in {limit, k} : \A x \in {limit, k} : m <= x
        OBVIOUS
      <3>2. j = CHOOSE m \in {limit, k} : \A x \in {limit, k} : m <= x
        BY <2>2 DEF Min
      <3>3. QED
        BY <3>1, <3>2
    <2>4. /\ Len(kept) = j /\ DOMAIN kept = 1 .. j
          /\ \A n \in 1 .. j : kept[n] = sorted[n]
      <3>1. kept = SubSeq(sorted, 1, j)
        BY <2>1, <2>2
      <3>2. QED
        BY <1>5, <2>3, <3>1
    <2>5. \A n \in 1 .. j : n \in DOMAIN sorted /\ kept[n] \in fitting
      BY <1>5, <2>3, <2>4 DEF Range
    <2>6. ASSUME NEW dropped \in fitting \ Range(kept)
          PROVE  /\ Len(kept) = limit
                 /\ \A b \in Range(kept) : b.priority >= dropped.priority
      <3>1. PICK m \in 1 .. k : dropped = sorted[m]
        BY <1>5, <2>6 DEF Range
      <3>2. ~(m \in 1 .. j)
        BY <2>4, <2>6, <3>1 DEF Range
      <3>3. j < m /\ j = limit
        BY <2>2, <2>3, <3>1, <3>2
      <3>4. ASSUME NEW b \in Range(kept) PROVE b.priority >= dropped.priority
        <4>1. PICK n \in 1 .. j : b = sorted[n]
          BY <2>4 DEF Range
        <4>2. n \in 1 .. k /\ n < m
          BY <2>3, <3>3, <4>1
        <4>3. QED
          BY <1>5, <3>1, <4>1, <4>2
      <3>5. QED
        BY <2>4, <3>3, <3>4
    <2>7. Range(kept) \subseteq fitting
      BY <2>4, <2>5 DEF Range
    <2>8. QED
      BY <1>6, <1>9, <2>3, <2>4, <2>6, <2>7
  <1>10. QED
    BY <1>8, <1>9

\* Only the response answers a request.
LEMMA RespondAnswers ==
    ASSUME OperationsSound, [Next]_vars, request.at = "serving", request'.at = "answered"
    PROVE  Respond
  <1>1. call.at = "sent" /\ IsRequest(request)
    BY DEF OperationsSound
  <1>2. CASE UNCHANGED vars
    BY <1>2 DEF vars, dispatchVars
  <1>3. CASE Report \/ Abort
    BY <1>3 DEF Report, Abort, EndWith, NoRequest
  <1>4. ASSUME Serve, ~Respond PROVE FALSE
    BY <1>4, ServeProgresses
  <1>5. CASE Next /\ ~Serve /\ ~Report /\ ~Abort
    <2>1. call.at \in {"idle", "ended"}
      BY <1>5 DEF Next, Invoke, Batch, Selftest, CallDatasource, BuildContext,
                  ObserveEvidence, OwnCommand, Exit, Ready
    <2>2. QED
      BY <1>1, <2>1
  <1>6. QED
    BY <1>2, <1>3, <1>4, <1>5

\* Of all the blocks that the providers of a plugin found, the best are answered
\* (runContext, filterContextBlocks), whatever they found and how much of it.
THEOREM ContextBestTheorem == Spec => ContextBest
  <1> DEFINE Best ==
        request.at = "serving" /\ request'.at = "answered" /\ request.command = "context"
        /\ ~CutShort =>
           LET kept == request'.answers[1].outcome[2]
               fitting == {b \in Range(AllBlocks) :
                              request.payload.kinds = {} \/ b.kind \in request.payload.kinds}
               limit == request.payload.limit
           IN /\ Range(kept) \subseteq fitting
              /\ limit # 0 => Len(kept) <= limit
              /\ \A dropped \in fitting \ Range(kept) :
                    /\ limit # 0 /\ Len(kept) = limit
                    /\ \A b \in Range(kept) : b.priority >= dropped.priority
  <1>1. ASSUME OperationsSound, [Next]_vars PROVE Best
    <2>1. SUFFICES ASSUME request.at = "serving", request'.at = "answered",
                          request.command = "context", ~CutShort
                   PROVE  Best
      OBVIOUS
    <2>2. Respond
      BY <1>1, <2>1, RespondAnswers
    <2>3. IsRequest(request) /\ AnswersKept(request) /\ Asking(call, request)
      BY <1>1, <2>1 DEF OperationsSound
    <2>4. request'.answers[1].outcome[2] = Filtered(AllBlocks, request.payload)
      BY <2>1, <2>2, <2>3
         DEF Respond, IsRequest, RequestFields, Reply, Answer, Succeeded
    <2>5. request.payload.limit \in Nat
      BY <2>1, <2>3 DEF Asking
    <2>6. AllBlocks \in Seq(Blocks)
      <3> DEFINE lists == [n \in DOMAIN request.answers |-> request.answers[n].outcome[2]]
      <3>1. DOMAIN request.answers = 1 .. Len(request.answers) /\ Len(request.answers) \in Nat
        BY <2>3 DEF IsRequest, IsSequence
      <3>2. \A n \in DOMAIN request.answers : request.answers[n].outcome[2] \in Found
        BY <2>1, <2>3 DEF AnswersKept, CutShort, Failing
      <3>3. \A n \in DOMAIN request.answers : request.answers[n].outcome[2] \in Seq(Blocks)
        BY <3>2, DispatchAssumption
      <3>4. lists \in Seq(Seq(Blocks))
        BY <3>1, <3>3
      <3> HIDE DEF lists
      <3>5. FlattenSeq(lists) \in Seq(Blocks)
        BY <3>4, Flattened
      <3>6. QED
        BY <3>5 DEF AllBlocks, lists
    <2>7. PICK blocks \in Seq(Blocks) : blocks = AllBlocks
      BY <2>6
    <2>8. PICK payload : payload = request.payload
      OBVIOUS
    <2>9. PICK kept : kept = request'.answers[1].outcome[2]
      OBVIOUS
    <2>10. PICK fitting : fitting = {b \in Range(blocks) :
                                       payload.kinds = {} \/ b.kind \in payload.kinds}
      OBVIOUS
    <2>11. kept = Filtered(blocks, payload) /\ payload.limit \in Nat
      BY <2>4, <2>5, <2>7, <2>8, <2>9
    <2>12. /\ Range(kept) \subseteq fitting
           /\ payload.limit # 0 => Len(kept) <= payload.limit
           /\ \A dropped \in fitting \ Range(kept) :
                 /\ payload.limit # 0 /\ Len(kept) = payload.limit
                 /\ \A b \in Range(kept) : b.priority >= dropped.priority
      BY <2>10, <2>11, FilteredBest
    <2>13. QED
      BY <2>7, <2>8, <2>9, <2>10, <2>12
  <1>2. OperationsSound /\ [Next]_vars => [Best]_vars
    BY <1>1
  <1>3. QED
    BY <1>2, OperationsSoundTheorem, PTL DEF Spec, ContextBest
-----------------------------------------------------------------------------
(***************************************************************************)
(* Paths: prefixes of paths, and the leaves of what is put at one.         *)
(***************************************************************************)
LEMMA Joined ==
    ASSUME NEW S, NEW p \in Seq(S), NEW q \in Seq(S)
    PROVE  /\ p \o q \in Seq(S) /\ Len(p \o q) = Len(p) + Len(q)
           /\ \A i \in 1 .. Len(p) : (p \o q)[i] = p[i]
  OBVIOUS

LEMMA JoinedNothing ==
    ASSUME NEW S, NEW p \in Seq(S)
    PROVE  p \o <<>> = p
  OBVIOUS

LEMMA PrefixMeans ==
    ASSUME NEW S, NEW p \in Seq(S), NEW q \in Seq(S)
    PROVE  IsPrefix(p, q) <=> Len(p) <= Len(q) /\ \A i \in 1 .. Len(p) : p[i] = q[i]
  <1>1. PICK k \in Nat, n \in Nat : k = Len(p) /\ n = Len(q)
    OBVIOUS
  <1>2. DOMAIN p = 1 .. k /\ DOMAIN q = 1 .. n
    BY <1>1
  <1> DEFINE a == SubSeq(p, 1, k)
             b == SubSeq(q, 1, k)
  <1>3. a \in Seq(S) /\ Len(a) = k /\ \A i \in 1 .. k : a[i] = p[i]
    BY <1>1, <1>2
  <1>4. k <= n => b \in Seq(S) /\ Len(b) = k /\ \A i \in 1 .. k : b[i] = q[i]
    BY <1>1, <1>2
  <1> HIDE DEF a, b
  <1>5. k <= n /\ (\A i \in 1 .. k : p[i] = q[i]) => a = b
    BY <1>3, <1>4
  <1>6. k <= n /\ a = b => \A i \in 1 .. k : p[i] = q[i]
    BY <1>3, <1>4
  <1>7. IsPrefix(p, q) <=> k <= n /\ a = b
    BY <1>1 DEF IsPrefix, a, b
  <1>8. QED
    BY <1>1, <1>5, <1>6, <1>7

\* What touches a path below another one touches that one, too.
LEMMA Crossing ==
    ASSUME NEW S, NEW p \in Seq(S), NEW q \in Seq(S), NEW path \in Seq(S),
           IsPrefix(path, q), Touches(p, q)
    PROVE  Touches(p, path)
  <1>1. PICK k \in Nat, m \in Nat, n \in Nat : k = Len(p) /\ m = Len(q) /\ n = Len(path)
    OBVIOUS
  <1>2. n <= m /\ \A i \in 1 .. n : path[i] = q[i]
    BY <1>1, PrefixMeans
  <1>3. CASE k <= m /\ \A i \in 1 .. k : p[i] = q[i]
    <2>1. CASE k <= n
      <3>1. \A i \in 1 .. k : p[i] = path[i]
        BY <1>2, <1>3, <2>1
      <3>2. IsPrefix(p, path)
        BY <1>1, <2>1, <3>1, PrefixMeans
      <3>3. QED
        BY <3>2 DEF Touches
    <2>2. CASE n <= k
      <3>1. \A i \in 1 .. n : path[i] = p[i]
        BY <1>2, <1>3, <2>2
      <3>2. IsPrefix(path, p)
        BY <1>1, <2>2, <3>1, PrefixMeans
      <3>3. QED
        BY <3>2 DEF Touches
    <2>3. QED
      BY <2>1, <2>2
  <1>4. CASE m <= k /\ \A i \in 1 .. m : q[i] = p[i]
    <2>1. n <= k /\ \A i \in 1 .. n : path[i] = p[i]
      BY <1>2, <1>4
    <2>2. IsPrefix(path, p)
      BY <1>1, <2>1, PrefixMeans
    <2>3. QED
      BY <2>2 DEF Touches
  <1>5. IsPrefix(p, q) \/ IsPrefix(q, p)
    BY DEF Touches
  <1>6. QED
    BY <1>1, <1>3, <1>4, <1>5, PrefixMeans

LEMMA BelowPath ==
    ASSUME NEW S, NEW path \in Seq(S), NEW value, DOMAIN value \subseteq Seq(S),
           NEW p \in Below(path, value)
    PROVE  p \in Seq(S) /\ IsPrefix(path, p)
  <1>1. PICK q \in Seq(S) : p = path \o q
    BY DEF Below
  <1>2. /\ p \in Seq(S) /\ Len(p) = Len(path) + Len(q)
        /\ \A i \in 1 .. Len(path) : p[i] = path[i]
    BY <1>1, Joined
  <1>3. Len(path) <= Len(p)
    BY <1>2
  <1>4. QED
    BY <1>2, <1>3, PrefixMeans

LEMMA BelowLeaf ==
    ASSUME NEW S, NEW path \in Seq(S), NEW x
    PROVE  /\ Below(path, Leaf(x)) = {path}
           /\ Beneath(path, Leaf(x))[path] = x
  <1>1. DOMAIN Leaf(x) = {<<>>} /\ Leaf(x)[<<>>] = x
    BY DEF Leaf
  <1>2. path \o <<>> = path
    BY JoinedNothing
  <1>3. Below(path, Leaf(x)) = {path}
    BY <1>1, <1>2 DEF Below
  <1>4. SubSeq(path, Len(path) + 1, Len(path)) = <<>>
    OBVIOUS
  <1>5. QED
    BY <1>1, <1>3, <1>4 DEF Beneath

\* The leaves that touch a path.
Near(input, path) == [p \in {p \in DOMAIN input : Touches(p, path)} |-> input[p]]

LEMMA PutLeaves ==
    ASSUME NEW S, NEW input, DOMAIN input \subseteq Seq(S), NEW path \in Seq(S),
           NEW value, DOMAIN value \subseteq Seq(S), NEW out, out = Put(input, path, value)
    PROVE  /\ DOMAIN out \subseteq Seq(S)
           /\ \A p : p \in DOMAIN out <=>
                        \/ p \in DOMAIN input /\ ~Touches(p, path)
                        \/ p \in Below(path, value)
           /\ \A p \in Below(path, value) : out[p] = Beneath(path, value)[p]
           /\ \A p \in DOMAIN input : ~Touches(p, path) => out[p] = input[p]
  <1>1. /\ \A p : p \in DOMAIN out <=> \/ p \in DOMAIN input /\ ~Touches(p, path)
                                       \/ p \in Below(path, value)
        /\ \A p \in DOMAIN out : out[p] = IF p \in Below(path, value)
                                          THEN Beneath(path, value)[p] ELSE input[p]
    BY DEF Put
  <1>2. ASSUME NEW p \in Below(path, value) PROVE p \in Seq(S) /\ Touches(p, path)
    BY <1>2, BelowPath DEF Touches
  <1>3. QED
    BY <1>1, <1>2

LEMMA PutNear ==
    ASSUME NEW S, NEW input, DOMAIN input \subseteq Seq(S), NEW path \in Seq(S),
           NEW value, DOMAIN value \subseteq Seq(S)
    PROVE  Near(Put(input, path, value), path) = Beneath(path, value)
  <1>1. PICK out : out = Put(input, path, value)
    OBVIOUS
  <1>2. ASSUME NEW p \in Below(path, value) PROVE Touches(p, path)
    BY <1>2, BelowPath DEF Touches
  <1>3. {p \in DOMAIN out : Touches(p, path)} = Below(path, value)
    BY <1>1, <1>2, PutLeaves
  <1>4. \A p \in Below(path, value) :
           out[p] = value[SubSeq(p, Len(path) + 1, Len(p))]
    BY <1>1, PutLeaves DEF Beneath
  <1>5. QED
    BY <1>1, <1>3, <1>4 DEF Near, Beneath

LEMMA NearStays ==
    ASSUME NEW S, NEW input, DOMAIN input \subseteq Seq(S), NEW path \in Seq(S),
           NEW value, DOMAIN value \subseteq Seq(S),
           NEW p \in Seq(S), NEW v, DOMAIN v \subseteq Seq(S), Near(input, p) = Beneath(p, v),
           ~Touches(p, path)
    PROVE  Near(Put(input, path, value), p) = Beneath(p, v)
  <1>1. PICK out : out = Put(input, path, value)
    OBVIOUS
  <1>2. ASSUME NEW q \in Below(path, value) PROVE ~Touches(q, p)
    <2>1. q \in Seq(S) /\ IsPrefix(path, q)
      BY <1>2, BelowPath
    <2>2. ~Touches(p, q)
      BY <2>1, Crossing
    <2>3. QED
      BY <2>2 DEF Touches
  <1>3. DOMAIN Near(input, p) = Below(p, v)
    BY DEF Beneath
  <1>4. ASSUME NEW q \in DOMAIN input, Touches(q, p) PROVE ~Touches(q, path)
    <2>1. q \in Below(p, v)
      BY <1>3, <1>4 DEF Near
    <2>2. q \in Seq(S) /\ IsPrefix(p, q)
      BY <2>1, BelowPath
    <2>3. ~Touches(path, p)
      BY DEF Touches
    <2>4. ~Touches(path, q)
      BY <2>2, <2>3, Crossing
    <2>5. QED
      BY <2>4 DEF Touches
  <1>5. {q \in DOMAIN out : Touches(q, p)} = {q \in DOMAIN input : Touches(q, p)}
    BY <1>1, <1>2, <1>4, PutLeaves
  <1>6. \A q \in {q \in DOMAIN input : Touches(q, p)} : out[q] = input[q]
    BY <1>1, <1>4, PutLeaves
  <1>7. Near(out, p) = Near(input, p)
    BY <1>5, <1>6 DEF Near
  <1>8. QED
    BY <1>1, <1>7
(***************************************************************************)
(* The input of an operation: one arg after the other, and the endpoint.   *)
(***************************************************************************)
Segments == STRING \cup {"endpoint_ref"}

Builds(built, inv, schemas) ==
    /\ built[0] = AsDoubles(inv.base)
    /\ \A n \in 1 .. Len(inv.args) :
          built[n] = Put(built[n - 1], inv.args[n].path, Coerced(inv.args[n], schemas))
    /\ Assembled(inv, schemas) = built[Len(inv.args)]

LEMMA AssembledParts ==
    ASSUME NEW inv \in Invocations, inv.args # <<>>, NEW schemas
    PROVE  \E built : Builds(built, inv, schemas)
  <1> DEFINE args == inv.args
             Def(g, n) == IF n = 0 THEN AsDoubles(inv.base)
                          ELSE Put(g[n - 1], args[n].path, Coerced(args[n], schemas))
             T == {m \in Nat : \E g : g = [n \in 0 .. m |-> Def(g, n)]}
             built == CHOOSE g : g = [n \in 0 .. Len(args) |-> Def(g, n)]
  <1>1. Assembled(inv, schemas) = built[Len(args)]
    BY DEF Assembled
  <1>2. Len(args) \in Nat
    BY OperationsAssumption
  <1>3. 0 \in T
    <2> DEFINE g == [n \in 0 .. 0 |-> AsDoubles(inv.base)]
    <2>1. g = [n \in 0 .. 0 |-> Def(g, n)]
      OBVIOUS
    <2>2. QED
      BY <2>1
  <1>4. ASSUME NEW m \in Nat, m \in T PROVE m + 1 \in T
    <2>1. PICK g : g = [n \in 0 .. m |-> Def(g, n)]
      BY <1>4
    <2> DEFINE Step(x, n) == Put(x, args[n].path, Coerced(args[n], schemas))
               h == [n \in 0 .. m + 1 |-> IF n = m + 1 THEN Step(g[m], m + 1) ELSE g[n]]
    <2>2. ASSUME NEW n \in 0 .. m + 1 PROVE h[n] = Def(h, n)
      <3>1. CASE n = 0
        <4>1. 0 \in 0 .. m /\ 0 # m + 1
          OBVIOUS
        <4>2. g[0] = AsDoubles(inv.base)
          BY <2>1, <4>1
        <4>3. QED
          BY <3>1, <4>1, <4>2
      <3>2. CASE n # 0 /\ n # m + 1
        <4>1. n \in 0 .. m /\ n - 1 \in 0 .. m + 1 /\ n - 1 # m + 1
          BY <3>2
        <4>2. g[n] = Step(g[n - 1], n)
          BY <2>1, <3>2, <4>1
        <4> HIDE DEF Step
        <4>3. h[n] = Step(h[n - 1], n)
          BY <3>2, <4>1, <4>2
        <4> HIDE DEF h
        <4>4. QED
          BY <3>2, <4>3 DEF Step
      <3>3. CASE n = m + 1
        <4>1. n # 0 /\ n - 1 = m /\ m \in 0 .. m + 1 /\ m # m + 1
          BY <3>3
        <4> HIDE DEF Step
        <4>2. h[m] = g[m] /\ h[n] = Step(g[m], m + 1)
          BY <3>3, <4>1
        <4> HIDE DEF h
        <4>3. h[n] = Step(h[n - 1], n)
          BY <3>3, <4>1, <4>2
        <4>4. QED
          BY <4>1, <4>3 DEF Step
      <3>4. QED
        BY <3>1, <3>2, <3>3
    <2>3. h = [n \in 0 .. m + 1 |-> h[n]]
      OBVIOUS
    <2> HIDE DEF h, Def
    <2>4. h = [n \in 0 .. m + 1 |-> Def(h, n)]
      BY <2>2, <2>3
    <2>5. QED
      BY <2>4
  <1>5. Len(args) \in T
    <2> HIDE DEF T
    <2>1. QED
      BY <1>2, <1>3, <1>4, Induction
  <1>6. \E g : g = [n \in 0 .. Len(args) |-> Def(g, n)]
    BY <1>5
  <1>7. built = [n \in 0 .. Len(args) |-> Def(built, n)]
    BY <1>6
  <1> HIDE DEF built
  <1>8. /\ built[0] = AsDoubles(inv.base)
        /\ \A n \in 1 .. Len(args) :
              built[n] = Put(built[n - 1], args[n].path, Coerced(args[n], schemas))
    <2>1. 0 \in 0 .. Len(args) /\ \A n \in 1 .. Len(args) : n \in 0 .. Len(args) /\ n # 0
      BY <1>2
    <2> HIDE DEF Def
    <2>2. \A n \in 0 .. Len(args) : built[n] = Def(built, n)
      BY <1>7
    <2>3. QED
      BY <2>1, <2>2 DEF Def
  <1>9. QED
    BY <1>1, <1>8 DEF Builds

\* A value that an arg may have: its text, or what its text is.
ArgValue(arg, value) ==
    value = Leaf(Str(arg.text)) \/ (arg.json # Nothing /\ value = AsDoubles(arg.json))

LEMMA CoercedSound ==
    ASSUME NEW inv \in Invocations, NEW n \in DOMAIN inv.args, NEW schemas,
           NEW arg, arg = inv.args[n], NEW value, value = Coerced(arg, schemas)
    PROVE  /\ arg.path \in Seq(Segments) /\ DOMAIN value \subseteq Seq(Segments)
           /\ ArgValue(arg, value)
           /\ \A schema \in schemas : \A f \in FieldAt(schema.properties, arg.path) :
                 DeclaredString(f) => <<>> \in DOMAIN value /\ value[<<>>][1] = "str"
  <1>1. arg.path \in Seq(STRING) /\ DOMAIN arg.json \subseteq Seq(STRING)
    BY OperationsAssumption DEF IsInput
  <1>2. Seq(STRING) \subseteq Seq(Segments)
    BY DEF Segments
  <1>3. ArgValue(arg, value)
    BY DEF Coerced, ArgValue
  <1>4. /\ DOMAIN Leaf(Str(arg.text)) = {<<>>} /\ <<>> \in Seq(Segments)
        /\ Leaf(Str(arg.text))[<<>>][1] = "str"
    BY DEF Leaf, Str
  <1>5. DOMAIN AsDoubles(arg.json) = DOMAIN arg.json
    BY DEF AsDoubles
  <1>6. ASSUME NEW schema \in schemas, NEW f \in FieldAt(schema.properties, arg.path),
               DeclaredString(f)
        PROVE  <<>> \in DOMAIN value /\ value[<<>>][1] = "str"
    <2>1. value = Leaf(Str(arg.text)) \/ (Quoted(arg) /\ value = AsDoubles(arg.json))
      BY <1>6 DEF Coerced
    <2>2. Quoted(arg) => <<>> \in DOMAIN AsDoubles(arg.json)
                         /\ AsDoubles(arg.json)[<<>>][1] = "str"
      BY DEF Quoted, AsDoubles, AsDouble
    <2>3. QED
      BY <1>4, <2>1, <2>2
  <1>7. DOMAIN value \subseteq Seq(Segments)
    BY <1>1, <1>2, <1>3, <1>4, <1>5 DEF ArgValue
  <1>8. QED
    BY <1>1, <1>2, <1>3, <1>6, <1>7

\* What there is comes from the base input or from an arg.
LEMMA BuiltLeaves ==
    ASSUME NEW inv \in Invocations, NEW schemas, NEW built, Builds(built, inv, schemas),
           NEW k \in 0 .. Len(inv.args)
    PROVE  /\ DOMAIN built[k] \subseteq Seq(Segments)
           /\ \A p \in DOMAIN built[k] :
                 \/ p \in DOMAIN inv.base
                 \/ \E n \in DOMAIN inv.args : IsPrefix(inv.args[n].path, p)
           /\ \A p \in DOMAIN inv.base :
                 (\A n \in DOMAIN inv.args : ~Touches(p, inv.args[n].path)) =>
                    p \in DOMAIN built[k] /\ built[k][p] = AsDouble(inv.base[p])
  <1> DEFINE args == inv.args
             Leaves(x) ==
                /\ DOMAIN x \subseteq Seq(Segments)
                /\ \A p \in DOMAIN x : \/ p \in DOMAIN inv.base
                                       \/ \E n \in DOMAIN args : IsPrefix(args[n].path, p)
                /\ \A p \in DOMAIN inv.base :
                      (\A n \in DOMAIN args : ~Touches(p, args[n].path)) =>
                         p \in DOMAIN x /\ x[p] = AsDouble(inv.base[p])
             T == {n \in Nat : n <= Len(args) => Leaves(built[n])}
  <1>1. Len(args) \in Nat /\ DOMAIN args = 1 .. Len(args)
    BY OperationsAssumption
  <1>2. 0 \in T
    <2>1. DOMAIN inv.base \subseteq Seq(Segments)
      <3>1. DOMAIN inv.base \subseteq Seq(STRING)
        BY OperationsAssumption DEF IsInput
      <3>2. Seq(STRING) \subseteq Seq(Segments)
        BY DEF Segments
      <3>3. QED
        BY <3>1, <3>2
    <2>2. built[0] = AsDoubles(inv.base)
      BY DEF Builds
    <2>3. Leaves(built[0])
      BY <2>1, <2>2 DEF AsDoubles
    <2>4. QED
      BY <2>3
  <1>3. ASSUME NEW n \in Nat, n \in T PROVE n + 1 \in T
    <2>1. SUFFICES ASSUME n + 1 <= Len(args) PROVE Leaves(built[n + 1])
      OBVIOUS
    <2>2. PICK m \in DOMAIN args : m = n + 1 /\ m - 1 = n
      BY <1>1, <2>1
    <2>3. PICK x, path, value :
             x = built[n] /\ path = args[m].path /\ value = Coerced(args[m], schemas)
      OBVIOUS
    <2>4. built[n + 1] = Put(x, path, value)
      BY <1>1, <2>2, <2>3 DEF Builds
    <2>5. Leaves(x)
      BY <1>1, <1>3, <2>1, <2>3
    <2>6. path \in Seq(Segments) /\ DOMAIN value \subseteq Seq(Segments)
      BY <2>3, CoercedSound
    <2>7. PICK out : out = Put(x, path, value)
      OBVIOUS
    <2>8. /\ DOMAIN out \subseteq Seq(Segments)
          /\ \A p : p \in DOMAIN out <=> \/ p \in DOMAIN x /\ ~Touches(p, path)
                                         \/ p \in Below(path, value)
          /\ \A p \in DOMAIN x : ~Touches(p, path) => out[p] = x[p]
      BY <2>5, <2>6, <2>7, PutLeaves
    <2>9. \A p \in Below(path, value) : IsPrefix(path, p)
      BY <2>6, BelowPath
    <2>10. \A p \in DOMAIN out : \/ p \in DOMAIN inv.base
                                 \/ \E i \in DOMAIN args : IsPrefix(args[i].path, p)
      BY <2>3, <2>5, <2>8, <2>9
    <2>11. ASSUME NEW p \in DOMAIN inv.base, \A i \in DOMAIN args : ~Touches(p, args[i].path)
           PROVE  p \in DOMAIN out /\ out[p] = AsDouble(inv.base[p])
      BY <2>3, <2>5, <2>8, <2>11
    <2>12. QED
      BY <2>4, <2>7, <2>8, <2>10, <2>11
  <1>4. k \in Nat /\ k <= Len(args)
    BY <1>1
  <1>5. k \in T
    <2> HIDE DEF T
    <2>1. QED
      BY <1>2, <1>3, <1>4, Induction
  <1>6. QED
    BY <1>4, <1>5

\* The args that come later leave alone what they do not touch.
LEMMA LaterArgs ==
    ASSUME NEW inv \in Invocations, NEW schemas, NEW built, Builds(built, inv, schemas),
           NEW k \in 0 .. Len(inv.args), NEW p \in Seq(Segments),
           NEW v, DOMAIN v \subseteq Seq(Segments), Near(built[k], p) = Beneath(p, v),
           \A m \in k + 1 .. Len(inv.args) : ~Touches(p, inv.args[m].path)
    PROVE  Near(built[Len(inv.args)], p) = Beneath(p, v)
  <1> DEFINE last == Len(inv.args)
             T == {n \in Nat : k + n <= last => Near(built[k + n], p) = Beneath(p, v)}
  <1>1. last \in Nat /\ k \in Nat /\ k + 0 = k /\ DOMAIN inv.args = 1 .. last
    BY OperationsAssumption
  <1>2. 0 \in T
    BY <1>1
  <1>3. ASSUME NEW n \in Nat, n \in T PROVE n + 1 \in T
    <2>1. SUFFICES ASSUME k + (n + 1) <= last
                   PROVE  Near(built[k + (n + 1)], p) = Beneath(p, v)
      OBVIOUS
    <2>2. PICK m \in k + 1 .. last : m = k + (n + 1) /\ m - 1 = k + n
      BY <1>1, <2>1
    <2>3. m \in DOMAIN inv.args /\ m - 1 \in 0 .. last
      BY <1>1, <2>2
    <2>4. Near(built[m - 1], p) = Beneath(p, v)
      BY <1>1, <1>3, <2>1, <2>2
    <2>5. PICK x, path, value :
             x = built[m - 1] /\ path = inv.args[m].path
             /\ value = Coerced(inv.args[m], schemas)
      OBVIOUS
    <2>6. built[m] = Put(x, path, value)
      BY <1>1, <2>3, <2>5 DEF Builds
    <2>7. path \in Seq(Segments) /\ DOMAIN value \subseteq Seq(Segments)
      BY <2>3, <2>5, CoercedSound
    <2>8. DOMAIN x \subseteq Seq(Segments)
      BY <2>3, <2>5, BuiltLeaves
    <2>9. ~Touches(p, path)
      BY <2>2, <2>5
    <2>10. Near(Put(x, path, value), p) = Beneath(p, v)
      <3>1. Near(x, p) = Beneath(p, v)
        BY <2>4, <2>5
      <3>2. QED
        BY <2>7, <2>8, <2>9, <3>1, NearStays
    <2>11. QED
      BY <2>2, <2>6, <2>10
  <1>4. last - k \in Nat /\ k + (last - k) = last
    BY <1>1
  <1>5. last - k \in T
    <2> HIDE DEF T
    <2>1. QED
      BY <1>2, <1>3, <1>4, Induction
  <1>6. QED
    BY <1>1, <1>4, <1>5

\* The wired endpoint takes the place of none.
LEMMA InjectedLeaves ==
    ASSUME NEW v, DOMAIN v \subseteq Seq(Segments), NEW input, input = Injected(v), input # v
    PROVE  /\ Defaulted(v) /\ (IsObject(v) \/ v = Nothing)
           /\ EndpointRef \in DOMAIN input /\ input[EndpointRef] = Str(wired)
           /\ input = Put(v, EndpointRef, Leaf(Str(wired)))
           /\ \A p : p \in DOMAIN input <=> \/ p \in DOMAIN v /\ ~Touches(p, EndpointRef)
                                            \/ p = EndpointRef
           /\ \A p \in DOMAIN v : ~Touches(p, EndpointRef) => input[p] = v[p]
  <1>1. PICK leaf : leaf = Leaf(Str(wired))
    OBVIOUS
  <1>2. /\ Defaulted(v) /\ (IsObject(v) \/ v = Nothing)
        /\ input = Put(v, EndpointRef, leaf)
    BY <1>1 DEF Injected
  <1>3. EndpointRef \in Seq(Segments)
    BY DEF EndpointRef, Segments
  <1>4. Below(EndpointRef, leaf) = {EndpointRef} /\ Beneath(EndpointRef, leaf)[EndpointRef] = Str(wired)
    BY <1>1, <1>3, BelowLeaf
  <1>5. DOMAIN leaf \subseteq Seq(Segments)
    BY <1>1 DEF Leaf
  <1>6. /\ \A p : p \in DOMAIN input <=> \/ p \in DOMAIN v /\ ~Touches(p, EndpointRef)
                                         \/ p \in Below(EndpointRef, leaf)
        /\ \A p \in Below(EndpointRef, leaf) : input[p] = Beneath(EndpointRef, leaf)[p]
        /\ \A p \in DOMAIN v : ~Touches(p, EndpointRef) => input[p] = v[p]
    BY <1>2, <1>3, <1>5, PutLeaves
  <1>7. QED
    BY <1>1, <1>2, <1>4, <1>6

\* An input that is sent is one that args can go into.
LEMMA SentBase ==
    ASSUME NEW inv \in Invocations, Verdict(inv) = "sent", inv.args # <<>>
    PROVE  IsObject(inv.base) \/ inv.base = Nothing
  <1>1. ~Panics(inv) /\ ~Unassembled(inv)
    BY DEF Verdict
  <1>2. inv.args \in Seq(Range(inv.args))
    BY OperationsAssumption
  <1>3. CASE inv.base = Null
    <2>1. Malformed(inv.args[1]) => 1 \notin DOMAIN inv.args
      BY <1>1 DEF Unassembled
    <2>2. 1 \notin DOMAIN inv.args
      BY <1>1, <1>3, <2>1 DEF Panics
    <2>3. inv.args = <<>>
      BY <1>2, <2>2
    <2>4. QED
      BY <2>3
  <1>4. QED
    BY <1>1, <1>3 DEF Unassembled

LEMMA ArgKept ==
    ASSUME NEW inv \in Invocations, NEW schemas, NEW built, Builds(built, inv, schemas),
           NEW v, v = Assembled(inv, schemas), NEW input, input = Injected(v),
           NEW n \in DOMAIN inv.args, NEW arg, arg = inv.args[n],
           \A m \in n + 1 .. Len(inv.args) : ~Touches(arg.path, inv.args[m].path)
    PROVE  \/ /\ Defaulted(v) /\ EndpointRef \in DOMAIN input
              /\ input[EndpointRef] = Str(wired) /\ Touches(arg.path, EndpointRef)
           \/ /\ \/ Near(input, arg.path) = Beneath(arg.path, Leaf(Str(arg.text)))
                 \/ /\ arg.json # Nothing
                    /\ Near(input, arg.path) = Beneath(arg.path, AsDoubles(arg.json))
              /\ \A schema \in schemas :
                    \A f \in FieldAt(schema.properties, arg.path) :
                       DeclaredString(f) => Near(input, arg.path)[arg.path][1] = "str"
  <1>1. Len(inv.args) \in Nat /\ DOMAIN inv.args = 1 .. Len(inv.args)
    BY OperationsAssumption
  <1>2. PICK value : value = Coerced(arg, schemas)
    OBVIOUS
  <1>3. PICK path \in Seq(Segments) : path = arg.path
    BY <1>2, CoercedSound
  <1>4. /\ DOMAIN value \subseteq Seq(Segments) /\ ArgValue(arg, value)
        /\ \A schema \in schemas : \A f \in FieldAt(schema.properties, path) :
              DeclaredString(f) => <<>> \in DOMAIN value /\ value[<<>>][1] = "str"
    <2>1. DOMAIN value \subseteq Seq(Segments) /\ ArgValue(arg, value)
      BY <1>2, CoercedSound
    <2>2. ASSUME NEW schema \in schemas, NEW f \in FieldAt(schema.properties, arg.path),
                 DeclaredString(f)
          PROVE  <<>> \in DOMAIN value /\ value[<<>>][1] = "str"
      BY <1>2, <2>2, CoercedSound
    <2>3. QED
      BY <1>3, <2>1, <2>2
  <1>5. PICK x : x = built[n - 1]
    OBVIOUS
  <1>6. DOMAIN x \subseteq Seq(Segments)
    <2>1. n - 1 \in 0 .. Len(inv.args)
      BY <1>1
    <2>2. QED
      BY <1>5, <2>1, BuiltLeaves
  <1>7. built[n] = Put(x, path, value)
    BY <1>1, <1>2, <1>3, <1>5 DEF Builds
  <1>8. Near(built[n], path) = Beneath(path, value)
    BY <1>4, <1>6, <1>7, PutNear
  <1>9. Near(v, path) = Beneath(path, value)
    <2>1. n \in 0 .. Len(inv.args)
      BY <1>1
    <2>2. \A m \in n + 1 .. Len(inv.args) : ~Touches(path, inv.args[m].path)
      BY <1>3
    <2>3. Near(built[Len(inv.args)], path) = Beneath(path, value)
      BY <1>4, <1>8, <2>1, <2>2, LaterArgs
    <2>4. QED
      BY <2>3 DEF Builds
  <1>10. DOMAIN v \subseteq Seq(Segments)
    <2>1. Len(inv.args) \in 0 .. Len(inv.args)
      BY <1>1
    <2>2. DOMAIN built[Len(inv.args)] \subseteq Seq(Segments)
      BY <2>1, BuiltLeaves
    <2>3. QED
      BY <2>2 DEF Builds
  <1>11. \/ Near(input, path) = Beneath(path, value)
         \/ /\ Defaulted(v) /\ EndpointRef \in DOMAIN input
            /\ input[EndpointRef] = Str(wired) /\ Touches(path, EndpointRef)
    <2>1. CASE input = v
      BY <1>9, <2>1
    <2>2. CASE input # v /\ Touches(path, EndpointRef)
      BY <1>10, <2>2, InjectedLeaves
    <2>3. CASE input # v /\ ~Touches(path, EndpointRef)
      <3>1. PICK leaf : leaf = Leaf(Str(wired))
        OBVIOUS
      <3>2. input = Put(v, EndpointRef, leaf)
        BY <1>10, <2>3, <3>1, InjectedLeaves
      <3>3. EndpointRef \in Seq(Segments) /\ DOMAIN leaf \subseteq Seq(Segments)
        BY <3>1 DEF EndpointRef, Segments, Leaf
      <3>4. Near(Put(v, EndpointRef, leaf), path) = Beneath(path, value)
        BY <1>4, <1>9, <1>10, <2>3, <3>3, NearStays
      <3>5. QED
        BY <3>2, <3>4
    <2>4. QED
      BY <2>1, <2>2, <2>3
  <1>12. ASSUME <<>> \in DOMAIN value
         PROVE  Beneath(path, value)[path] = value[<<>>]
    <2>1. path \o <<>> = path
      BY JoinedNothing
    <2>2. path \in Below(path, value)
      BY <1>12, <2>1 DEF Below
    <2>3. SubSeq(path, Len(path) + 1, Len(path)) = <<>>
      OBVIOUS
    <2>4. QED
      BY <2>2, <2>3 DEF Beneath
  <1>13. QED
    BY <1>3, <1>4, <1>11, <1>12 DEF ArgValue

LEMMA InputApplied ==
    ASSUME NEW inv \in Invocations, Verdict(inv) = "sent",
           NEW input, input = Injected(Assembled(inv, Schemas(inv)))
    PROVE  Applied(inv, input)
  <1> DEFINE args == inv.args
  <1>1. PICK v, schemas : v = Assembled(inv, schemas) /\ schemas = Schemas(inv)
    OBVIOUS
  <1>2. PICK filled : filled <=> /\ Defaulted(v) /\ EndpointRef \in DOMAIN input
                                 /\ input[EndpointRef] = Str(wired)
    OBVIOUS
  <1>3. Len(args) \in Nat /\ DOMAIN args = 1 .. Len(args)
    BY OperationsAssumption
  <1>4. /\ DOMAIN v \subseteq Seq(Segments)
        /\ \A p \in DOMAIN v :
              \/ p \in DOMAIN inv.base
              \/ \E n \in DOMAIN args : IsPrefix(args[n].path, p)
        /\ \A p \in DOMAIN inv.base :
              (\A n \in DOMAIN args : ~Touches(p, args[n].path)) =>
                 p \in DOMAIN v /\ v[p] = Rounded(inv, inv.base[p])
    <2>1. CASE args = <<>>
      <3>1. v = inv.base
        BY <1>1, <2>1 DEF Assembled
      <3>2. DOMAIN inv.base \subseteq Seq(STRING)
        BY OperationsAssumption DEF IsInput
      <3>3. Seq(STRING) \subseteq Seq(Segments)
        BY DEF Segments
      <3>4. QED
        BY <2>1, <3>1, <3>2, <3>3 DEF Rounded
    <2>2. CASE args # <<>>
      <3>1. PICK built : Builds(built, inv, schemas)
        BY <2>2, AssembledParts
      <3>2. PICK k \in 0 .. Len(args) : k = Len(args) /\ v = built[k]
        BY <1>1, <1>3, <3>1 DEF Builds
      <3>3. \A x : Rounded(inv, x) = AsDouble(x)
        BY <2>2 DEF Rounded
      <3>4. QED
        BY <3>1, <3>2, <3>3, BuiltLeaves
    <2>3. QED
      BY <2>1, <2>2
  <1>5. ASSUME input # v
        PROVE  /\ filled /\ (IsObject(v) \/ v = Nothing)
               /\ \A p : p \in DOMAIN input <=> \/ p \in DOMAIN v /\ ~Touches(p, EndpointRef)
                                                \/ p = EndpointRef
               /\ \A p \in DOMAIN v : ~Touches(p, EndpointRef) => input[p] = v[p]
    BY <1>1, <1>2, <1>4, <1>5, InjectedLeaves
  <1>6. ASSUME NEW n \in DOMAIN args, NEW arg, arg = args[n],
               \A m \in n + 1 .. Len(args) : ~Touches(arg.path, args[m].path)
        PROVE  \/ filled /\ Touches(arg.path, EndpointRef)
               \/ /\ \/ Near(input, arg.path) = Beneath(arg.path, Leaf(Str(arg.text)))
                     \/ /\ arg.json # Nothing
                        /\ Near(input, arg.path) = Beneath(arg.path, AsDoubles(arg.json))
                  /\ \A schema \in schemas :
                        \A f \in FieldAt(schema.properties, arg.path) :
                           DeclaredString(f) => Near(input, arg.path)[arg.path][1] = "str"
    <2>1. args # <<>>
      BY <1>6
    <2>2. PICK built : Builds(built, inv, schemas)
      BY <2>1, AssembledParts
    <2>3. QED
      BY <1>1, <1>2, <1>6, <2>2, ArgKept
  <1>7. ASSUME NEW path \in DOMAIN inv.base,
               \A n \in DOMAIN args : ~Touches(path, args[n].path)
        PROVE  \/ filled /\ IsObject(inv.base) /\ Touches(path, EndpointRef)
               \/ path \in DOMAIN input /\ input[path] = Rounded(inv, inv.base[path])
    <2>1. path \in DOMAIN v /\ v[path] = Rounded(inv, inv.base[path])
      BY <1>4, <1>7
    <2>2. CASE input = v
      BY <2>1, <2>2
    <2>3. CASE input # v /\ ~Touches(path, EndpointRef)
      BY <1>5, <2>1, <2>3
    <2>4. CASE input # v /\ Touches(path, EndpointRef)
      <3>1. inv.base # Nothing
        BY <1>7 DEF Nothing
      <3>2. IsObject(inv.base)
        <4>1. CASE args # <<>>
          BY <3>1, <4>1, SentBase
        <4>2. CASE args = <<>>
          <5>1. v = inv.base
            BY <1>1, <4>2 DEF Assembled
          <5>2. QED
            BY <1>5, <2>4, <3>1, <5>1
        <4>3. QED
          BY <4>1, <4>2
      <3>3. QED
        BY <1>5, <2>4, <3>2
    <2>5. QED
      BY <2>2, <2>3, <2>4
  <1>8. ASSUME NEW path \in DOMAIN input
        PROVE  \/ path \in DOMAIN inv.base
               \/ \E n \in DOMAIN args : IsPrefix(args[n].path, path)
               \/ filled /\ path = EndpointRef
    <2>1. CASE path \in DOMAIN v
      BY <1>4, <2>1
    <2>2. CASE path \notin DOMAIN v
      BY <1>5, <1>8, <2>2
    <2>3. QED
      BY <2>1, <2>2
  <1>9. QED
    <2> DEFINE near(path) == [p \in {p \in DOMAIN input : Touches(p, path)} |-> input[p]]
    <2>1. \A path : near(path) = Near(input, path)
      BY DEF Near
    <2> HIDE DEF near
    <2>2. \A n \in DOMAIN args :
             (\A m \in n + 1 .. Len(args) : ~Touches(args[n].path, args[m].path)) =>
                \/ filled /\ Touches(args[n].path, EndpointRef)
                \/ /\ \/ near(args[n].path) = Beneath(args[n].path, Leaf(Str(args[n].text)))
                      \/ /\ args[n].json # Nothing
                         /\ near(args[n].path) = Beneath(args[n].path, AsDoubles(args[n].json))
                   /\ \A schema \in schemas :
                         \A f \in FieldAt(schema.properties, args[n].path) :
                            DeclaredString(f) => near(args[n].path)[args[n].path][1] = "str"
      BY <1>6, <2>1
    <2>3. QED
      BY <1>1, <1>2, <1>7, <1>8, <2>2 DEF Applied, near
(***************************************************************************)
(* What is sent is what was put together.                                  *)
(***************************************************************************)
InputKept ==
    call.at = "sent" /\ call.command = "operation" =>
       /\ call.asked \in Invocations /\ Verdict(call.asked) = "sent"
       /\ request.payload.calls[1].input
          = Injected(Assembled(call.asked, Schemas(call.asked)))

LEMMA InputStays ==
    ASSUME NEW inv, UNCHANGED <<plugin, wired>>
    PROVE  /\ (Injected(Assembled(inv, Schemas(inv))))' = Injected(Assembled(inv, Schemas(inv)))
           /\ Verdict(inv)' = Verdict(inv)
  <1>1. Schemas(inv)' = Schemas(inv) /\ Advertised(inv)' = Advertised(inv)
    BY DEF Schemas, SpecOf, Advertised, Listing, Manifest, Consulted
  <1>2. PICK schemas : schemas = Schemas(inv)
    OBVIOUS
  <1>3. Verdict(inv)' = Verdict(inv)
    <2>1. ProblemsOf(inv)' = ProblemsOf(inv)
      BY <1>1 DEF ProblemsOf
    <2>2. QED
      BY <1>1, <2>1 DEF Verdict, Unadvertised, Invalid
  <1>4. QED
    BY <1>1, <1>2, <1>3 DEF Injected, Defaulted

LEMMA InputNext ==
    ASSUME OperationsSound, InputKept, [Next]_vars
    PROVE  InputKept'
  <1>1. ASSUME NEW inv \in Invocations, Invoke(inv) PROVE InputKept'
    <2> DEFINE sent == [id |-> NoName, name |-> inv.name,
                        input |-> Assembled(inv, Schemas(inv))]
               calls == <<sent>>
               payload == [NoPayload EXCEPT
                             !.calls = [n \in DOMAIN calls |->
                                           [calls[n] EXCEPT !.input = Injected(@)]]]
    <2>1. UNCHANGED <<plugin, wired>> /\ IsPlugin(plugin)
      BY <1>1 DEF Invoke, OperationsSound
    <2>2. CASE call'.at # "sent"
      BY <2>2 DEF InputKept
    <2>3. CASE call'.at = "sent"
      <3>1. SendCalls("operation", inv, calls) /\ Send("operation", inv, payload)
        BY <1>1, <2>3 DEF Invoke, SendCalls, EndWith
      <3>2. /\ payload.calls[1].input = Injected(Assembled(inv, Schemas(inv)))
            /\ CallList(payload.calls)
        BY DEF NoPayload, CallList
      <3> HIDE DEF payload
      <3>3. call'.asked = inv /\ request'.payload = payload
        BY <2>1, <3>1, <3>2, ReceivedFresh DEF Send
      <3>4. request'.payload.calls[1].input
            = (Injected(Assembled(inv, Schemas(inv))))'
        BY <2>1, <3>2, <3>3, InputStays
      <3>5. Verdict(inv) = "sent"
        BY <1>1, <2>3 DEF Invoke, EndWith
      <3>6. Verdict(inv)' = "sent"
        BY <2>1, <3>5, InputStays
      <3>7. QED
        BY <3>3, <3>4, <3>6 DEF InputKept
    <2>4. QED
      BY <2>2, <2>3
  <1>2. ASSUME call'.at # "sent" \/ call'.command # "operation" PROVE InputKept'
    BY <1>2 DEF InputKept
  <1>3. ASSUME NEW calls \in Batches, Batch(calls) PROVE InputKept'
    BY <1>2, <1>3 DEF Batch, SendCalls, Send, EndWith
  <1>4. ASSUME NEW listing \in {"listed", "older", "error"}, NEW authOnly \in BOOLEAN,
               Selftest(listing, authOnly)
        PROVE  InputKept'
    BY <1>2, <1>4 DEF Selftest, EndWith
  <1>5. ASSUME NEW asked \in DatasourceCalls, CallDatasource(asked) PROVE InputKept'
    <2>1. asked.capability \in Capabilities
      BY OperationsAssumption
    <2>2. call'.command = asked.capability
      BY <1>5 DEF CallDatasource, Send
    <2>3. QED
      BY <1>2, <2>1, <2>2 DEF Capabilities
  <1>6. ASSUME \/ \E asked \in ContextBuilds : BuildContext(asked)
               \/ \E phase \in Phases : ObserveEvidence(phase)
        PROVE  InputKept'
    <2>1. ASSUME NEW asked \in ContextBuilds, BuildContext(asked)
          PROVE  call'.command = "context"
      BY <2>1 DEF BuildContext, Send
    <2>2. ASSUME NEW phase \in Phases, ObserveEvidence(phase)
          PROVE  call'.command = "evidence"
      BY <2>2 DEF ObserveEvidence, Send
    <2>3. QED
      BY <1>2, <1>6, <2>1, <2>2
  <1>7. ASSUME NEW asked \in Grants, OwnCommand(asked) PROVE InputKept'
    <2>1. asked.command # "operation"
      BY OperationsAssumption DEF Served
    <2>2. call'.command = asked.command
      BY <1>7 DEF OwnCommand, Send
    <2>3. QED
      BY <1>2, <2>1, <2>2
  <1>8. ASSUME UNCHANGED <<plugin, wired, call>>, request'.payload = request.payload
        PROVE  InputKept'
    <2>1. PICK inv : inv = call.asked
      OBVIOUS
    <2>2. /\ (Injected(Assembled(inv, Schemas(inv))))' = Injected(Assembled(inv, Schemas(inv)))
          /\ Verdict(inv)' = Verdict(inv)
      BY <1>8, InputStays
    <2>3. /\ (Injected(Assembled(call.asked, Schemas(call.asked))))'
             = (Injected(Assembled(inv, Schemas(inv))))'
          /\ Verdict(call.asked)' = Verdict(inv)'
      BY <1>8, <2>1
    <2>4. QED
      BY <1>8, <2>1, <2>2, <2>3 DEF InputKept
  <1>9. ASSUME Serve, UNCHANGED <<call, wired>> PROVE InputKept'
    <2>1. UNCHANGED plugin /\ Progressed(request')
      BY <1>9, ServeProgresses
    <2>2. QED
      BY <1>8, <1>9, <2>1 DEF Progressed, SameRequest
  <1>10. ASSUME Report \/ Abort \/ Exit PROVE InputKept'
    BY <1>2, <1>10 DEF Report, Abort, EndWith, Exit, Idle
  <1>11. ASSUME UNCHANGED vars PROVE InputKept'
    BY <1>8, <1>11 DEF vars, dispatchVars
  <1>12. QED
    BY <1>1, <1>3, <1>4, <1>5, <1>6, <1>7, <1>9, <1>10, <1>11 DEF Next

\* What an operation is given is what the caller wrote, arg by arg, and what stood in
\* the base input beside them, numbers as doubles once there are args (buildInvokeInput,
\* parseArgValue, setNestedValue, injectEndpointRef), for any args, however deep and
\* however many, any schemas and any doubles.
THEOREM ArgsAppliedTheorem == Spec => []ArgsApplied
  <1>1. Init => InputKept
    BY DEF Init, Idle, InputKept
  <1>2. OperationsSound /\ InputKept => ArgsApplied
    <2>1. SUFFICES ASSUME InputKept, call.at = "sent", call.command = "operation"
                   PROVE  Applied(call.asked, request.payload.calls[1].input)
      BY DEF ArgsApplied
    <2>2. PICK inv, input :
             /\ inv \in Invocations /\ inv = call.asked
             /\ input = request.payload.calls[1].input
      BY <2>1 DEF InputKept
    <2>3. input = Injected(Assembled(inv, Schemas(inv))) /\ Verdict(inv) = "sent"
      BY <2>1, <2>2 DEF InputKept
    <2>4. Applied(inv, input)
      BY <2>2, <2>3, InputApplied
    <2>5. QED
      BY <2>2, <2>4
  <1>3. QED
    BY <1>1, <1>2, InputNext, OperationsSoundTheorem, PTL DEF Spec

\* What is added is the endpoint_ref.
LEMMA InjectedAllowed ==
    ASSUME NEW schema, "endpoint_ref" \in DOMAIN schema.properties,
           NEW v, DOMAIN v \subseteq Seq(Segments), Problems(schema, v) = {},
           IsObject(v), ~Overflows(v), NEW input, input = Injected(v)
    PROVE  Allows(schema, input)
  <1>1. DOMAIN schema.properties # {}
    OBVIOUS
  <1>2. /\ MissingFields(schema, v) = {}
        /\ \A key \in KeysOf(v) : ~OffEnum(schema, v, key)
        /\ schema.closed => KeysOf(v) \subseteq DOMAIN schema.properties
    <2>1. Problems(schema, v) =
             MissingFields(schema, v) \cup {key \in KeysOf(v) : OffEnum(schema, v, key)}
             \cup (IF schema.closed THEN KeysOf(v) \ DOMAIN schema.properties ELSE {})
      BY <1>1 DEF Problems
    <2>2. QED
      BY <2>1
  <1>3. CASE input = v
    BY <1>2, <1>3 DEF Allows, MissingFields
  <1>4. CASE input # v
    <2>1. /\ \A p : p \in DOMAIN input <=> \/ p \in DOMAIN v /\ ~Touches(p, EndpointRef)
                                           \/ p = EndpointRef
          /\ \A p \in DOMAIN v : ~Touches(p, EndpointRef) => input[p] = v[p]
      BY <1>4, InjectedLeaves
    <2>2. EndpointRef # <<>> /\ EndpointRef[1] = "endpoint_ref" /\ Len(EndpointRef) = 1
          /\ EndpointRef \in Seq(Segments)
      BY DEF EndpointRef, Segments
    <2>3. "endpoint_ref" \in KeysOf(input)
      BY <2>1, <2>2 DEF KeysOf
    <2>4. ASSUME NEW p \in DOMAIN v, p # <<>>, Touches(p, EndpointRef)
          PROVE  p[1] = "endpoint_ref"
      <3>1. PICK k \in Nat : k = Len(p) /\ k # 0
        BY <2>4
      <3>2. 1 \in 1 .. k /\ 1 \in 1 .. Len(EndpointRef)
        BY <2>2, <3>1
      <3>3. \/ \A i \in 1 .. Len(p) : p[i] = EndpointRef[i]
            \/ \A i \in 1 .. Len(EndpointRef) : EndpointRef[i] = p[i]
        BY <2>2, <2>4, PrefixMeans DEF Touches
      <3>4. p[1] = EndpointRef[1]
        BY <3>1, <3>2, <3>3
      <3>5. QED
        BY <2>2, <3>4
    <2>5. KeysOf(v) \subseteq KeysOf(input)
      <3>1. SUFFICES ASSUME NEW p \in DOMAIN v, p # <<>> PROVE p[1] \in KeysOf(input)
        BY DEF KeysOf
      <3>2. CASE Touches(p, EndpointRef)
        BY <2>3, <2>4, <3>1, <3>2
      <3>3. CASE ~Touches(p, EndpointRef)
        BY <2>1, <3>1, <3>3 DEF KeysOf
      <3>4. QED
        BY <3>2, <3>3
    <2>6. KeysOf(input) \subseteq KeysOf(v) \cup {"endpoint_ref"}
      <3>1. SUFFICES ASSUME NEW p \in DOMAIN input, p # <<>>
                     PROVE  p[1] \in KeysOf(v) \cup {"endpoint_ref"}
        BY DEF KeysOf
      <3>2. QED
        BY <2>1, <2>2, <3>1 DEF KeysOf
    <2>7. ASSUME NEW key \in KeysOf(input) \ {"endpoint_ref"}, OffEnum(schema, input, key)
          PROVE  FALSE
      <3>1. key \in KeysOf(v)
        BY <2>6, <2>7
      <3>2. <<key>> \in DOMAIN input /\ <<key>> # EndpointRef
        BY <2>2, <2>7 DEF OffEnum
      <3>3. <<key>> \in DOMAIN v /\ input[<<key>>] = v[<<key>>]
        BY <2>1, <3>2
      <3>4. OffEnum(schema, v, key)
        BY <2>7, <3>3 DEF OffEnum
      <3>5. QED
        BY <1>2, <3>1, <3>4
    <2>8. QED
      BY <1>2, <2>5, <2>6, <2>7 DEF Allows, MissingFields
  <1>5. QED
    BY <1>3, <1>4

LEMMA AssembledLeaves ==
    ASSUME NEW inv \in Invocations, NEW schemas
    PROVE  DOMAIN Assembled(inv, schemas) \subseteq Seq(Segments)
  <1>1. CASE inv.args = <<>>
    <2>1. Assembled(inv, schemas) = inv.base
      BY <1>1 DEF Assembled
    <2>2. DOMAIN inv.base \subseteq Seq(STRING)
      BY OperationsAssumption DEF IsInput
    <2>3. Seq(STRING) \subseteq Seq(Segments)
      BY DEF Segments
    <2>4. QED
      BY <2>1, <2>2, <2>3
  <1>2. CASE inv.args # <<>>
    <2>1. PICK built : Builds(built, inv, schemas)
      BY <1>2, AssembledParts
    <2>2. PICK k \in 0 .. Len(inv.args) : k = Len(inv.args)
      BY OperationsAssumption
    <2>3. DOMAIN built[k] \subseteq Seq(Segments)
      BY <2>1, BuiltLeaves
    <2>4. QED
      BY <2>1, <2>2, <2>3 DEF Builds
  <1>3. QED
    BY <1>1, <1>2

\* What is sent to an operation without --no-validate keeps to the schema that the
\* listing gave for it, also with the wired endpoint in it (validateOperationInput,
\* injectEndpointRef, normalizeOperationInputSchema), for any schema, any args and any
\* listing, be it out of date.
THEOREM SentAsListedTheorem == Spec => []SentAsListed
  <1>1. Init => InputKept
    BY DEF Init, Idle, InputKept
  <1>2. OperationsSound /\ InputKept => SentAsListed
    <2>1. SUFFICES ASSUME OperationsSound, InputKept, call.at = "sent",
                          call.command = "operation", ~call.asked.noValidate,
                          NEW schema \in Schemas(call.asked),
                          IsObject(Assembled(call.asked, Schemas(call.asked))),
                          ~Overflows(Assembled(call.asked, Schemas(call.asked)))
                   PROVE  Allows(schema, request.payload.calls[1].input)
      BY DEF SentAsListed
    <2>2. PICK inv, input :
             /\ inv \in Invocations /\ inv = call.asked
             /\ input = request.payload.calls[1].input
      BY <2>1 DEF InputKept
    <2>3. PICK v : v = Assembled(inv, Schemas(inv))
      OBVIOUS
    <2>4. /\ schema \in Schemas(inv) /\ IsObject(v) /\ ~Overflows(v) /\ ~inv.noValidate
          /\ input = Injected(v) /\ Verdict(inv) = "sent"
      BY <2>1, <2>2, <2>3 DEF InputKept
    <2>5. "endpoint_ref" \in DOMAIN schema.properties /\ Schemas(inv) = {schema}
      BY <2>1, <2>4, SchemasSound DEF OperationsSound
    <2>6. ProblemsOf(inv) = {}
      BY <2>4 DEF Verdict, Invalid
    <2>7. Problems(schema, v) = {}
      BY <2>3, <2>5, <2>6 DEF ProblemsOf
    <2>8. DOMAIN v \subseteq Seq(Segments)
      BY <2>2, <2>3, AssembledLeaves
    <2>9. Allows(schema, input)
      BY <2>4, <2>5, <2>7, <2>8, InjectedAllowed
    <2>10. QED
      BY <2>2, <2>9
  <1>3. QED
    BY <1>1, <1>2, InputNext, OperationsSoundTheorem, PTL DEF Spec
=============================================================================
