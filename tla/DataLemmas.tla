----------------------------- MODULE DataLemmas -----------------------------
(***************************************************************************)
(* What the proofs need of the data the modules are built from: the least  *)
(* element of a set of naturals, which stands in for induction, functions  *)
(* that are defined by recursion, sequences and their prefixes, counting   *)
(* the elements of a set below a bound, and listing a finite set in order. *)
(***************************************************************************)
EXTENDS Integers, Sequences, FiniteSets, FiniteSetTheorems, WellFoundedInduction, TLAPS

---------------------------------------------------------------------------
(* Least elements *)

(* Every set of naturals that is not empty has a least element. Induction on *)
(* the length of a run of records or a list of components is this lemma,   *)
(* applied to the set of the lengths at which a claim fails.               *)
LEMMA LeastNatural ==
  ASSUME NEW S \in SUBSET Nat, S # {}
  PROVE  \E n \in S : \A m \in S : n <= m
<1> DEFINE R == OpToRel(<, Nat)
<1>1. IsWellFoundedOn(R, Nat)
  BY NatLessThanWellFounded, Zenon
<1>2. PICK n \in S : \A m \in S : ~(<<m, n>> \in R)
  <2> HIDE DEF R
  <2> QED BY <1>1, WFMin, Zenon
<1>3. \A m \in S : ~(m < n)
  BY <1>2 DEF OpToRel
<1>. HIDE DEF R
<1>4. QED BY <1>2, <1>3, SMT

(* Induction from 0 to n over the members of a set. *)
LEMMA InductionTo ==
  ASSUME NEW n \in Nat, NEW G, 0 \in G,
         \A k \in 1..n : k - 1 \in G => k \in G
  PROVE  \A k \in 0..n : k \in G
<1> DEFINE Bad == {k \in 0..n : k \notin G}
<1>1. SUFFICES ASSUME Bad # {} PROVE FALSE
  OBVIOUS
<1>2. Bad \in SUBSET Nat
  BY SMT
<1>3. PICK k \in Bad : \A l \in Bad : k <= l
  <2> HIDE DEF Bad
  <2> QED BY <1>1, <1>2, LeastNatural
<1>4. k \in 1..n /\ k - 1 \in 0..n /\ k - 1 \notin Bad
  BY <1>3
<1> QED BY <1>3, <1>4

---------------------------------------------------------------------------
(* Sequences *)

LEMMA SingleElement ==
  ASSUME NEW S, NEW s \in Seq(S), Len(s) = 1
  PROVE  s = <<s[1]>>
<1>1. s = [i \in 1..1 |-> s[i]]
  OBVIOUS
<1>2. \A i \in 1..1 : s[i] = <<s[1]>>[i]
  OBVIOUS
<1>3. <<s[1]>> = [i \in 1..1 |-> <<s[1]>>[i]]
  OBVIOUS
<1> QED BY <1>1, <1>2, <1>3

LEMMA SameElements ==
  ASSUME NEW S, NEW s \in Seq(S), NEW t \in Seq(S), Len(s) = Len(t),
         \A i \in 1..Len(s) : s[i] = t[i]
  PROVE  s = t
<1>1. s = [i \in 1..Len(s) |-> s[i]] /\ t = [i \in 1..Len(t) |-> t[i]]
  OBVIOUS
<1> QED BY <1>1

LEMMA EmptySequence ==
  ASSUME NEW S, NEW s \in Seq(S)
  PROVE  Len(s) \in Nat /\ (Len(s) = 0 <=> s = << >>)
<1>1. << >> \in Seq(S) /\ Len(<< >>) = 0
  OBVIOUS
<1>2. Len(s) = 0 => s = << >>
  BY <1>1, SameElements
<1> QED BY <1>1, <1>2

---------------------------------------------------------------------------
(* Multiples *)

LEMMA Division ==
  ASSUME NEW p \in Nat, NEW b \in Nat \ {0}
  PROVE  /\ p \div b \in Nat
         /\ (p \div b) * b <= p
         /\ p < (p \div b) * b + b
OBVIOUS

LEMMA Remainder ==
  ASSUME NEW p \in Nat, NEW b \in Nat \ {0}
  PROVE  /\ p % b \in 0..(b - 1)
         /\ p < b => p % b = p
OBVIOUS

LEMMA Multiples ==
  ASSUME NEW k \in Int, NEW l \in Int, NEW b \in Nat \ {0}
  PROVE  /\ k * b \in Int /\ (k + 1) * b = k * b + b
         /\ k * b < l * b + b => k <= l
<1>1. k * b \in Int /\ l * b \in Int /\ (k + 1) * b = k * b + b
  OBVIOUS
<1>2. l + 1 <= k => l * b + b <= k * b
  OBVIOUS
<1>3. QED BY <1>1, <1>2

---------------------------------------------------------------------------
(* Running sums *)

(* A function that adds up values one after another exists: the CHOOSE that *)
(* a recursive definition of this form stands for has something to choose. *)
LEMMA SumsExist ==
  ASSUME NEW n \in Nat, NEW v \in [1..n -> Nat]
  PROVE  \E f : f = [k \in 0..n |-> IF k = 0 THEN 0 ELSE f[k - 1] + v[k]]
<1> DEFINE Sums(m, f) == f = [k \in 0..m |-> IF k = 0 THEN 0 ELSE f[k - 1] + v[k]]
           With == {m \in 0..n : \E f : Sums(m, f)}
<1>1. 0 \in With
  <2>1. Sums(0, [k \in 0..0 |-> 0])
    OBVIOUS
  <2> HIDE DEF Sums
  <2> QED BY <2>1
<1>2. ASSUME NEW m \in 1..n, m - 1 \in With
      PROVE  m \in With
  <2>1. PICK f : Sums(m - 1, f)
    BY <1>2, Zenon
  <2> DEFINE g == [k \in 0..m |-> IF k = m THEN f[m - 1] + v[m] ELSE f[k]]
  <2>2. \A k \in 0..(m - 1) : g[k] = f[k] /\ f[k] = IF k = 0 THEN 0 ELSE f[k - 1] + v[k]
    BY <2>1
  <2>3. ASSUME NEW k \in 0..m
        PROVE  g[k] = IF k = 0 THEN 0 ELSE g[k - 1] + v[k]
    <3>1. CASE k = m
      BY <2>2, <3>1
    <3>2. CASE k # m
      <4>1. k \in 0..(m - 1) /\ (k # 0 => k - 1 \in 0..(m - 1))
        BY <3>2
      <4> HIDE DEF g
      <4> QED BY <2>2, <4>1
    <3> QED BY <3>1, <3>2
  <2>4. Sums(m, g)
    <3>1. g = [k \in 0..m |-> g[k]]
      OBVIOUS
    <3> HIDE DEF g
    <3> QED BY <2>3, <3>1
  <2> HIDE DEF g, Sums
  <2> QED BY <2>4
<1> HIDE DEF With
<1>3. \A m \in 0..n : m \in With
  BY <1>1, <1>2, InductionTo
<1>4. n \in With
  BY <1>3
<1> QED BY <1>4, Zenon DEF With

(* Sums of naturals are naturals. *)
LEMMA SumsAreNat ==
  ASSUME NEW n \in Nat, NEW v \in [1..n -> Nat],
         NEW f, f = [k \in 0..n |-> IF k = 0 THEN 0 ELSE f[k - 1] + v[k]]
  PROVE  \A k \in 0..n : f[k] \in Nat
<1> DEFINE Whole == {k \in 0..n : f[k] \in Nat}
<1>1. \A k \in 0..n : f[k] = IF k = 0 THEN 0 ELSE f[k - 1] + v[k]
  OBVIOUS
<1>2. 0 \in Whole
  BY <1>1
<1>3. \A k \in 1..n : k - 1 \in Whole => k \in Whole
  BY <1>1
<1> HIDE DEF Whole
<1>4. \A k \in 0..n : k \in Whole
  BY <1>2, <1>3, InductionTo
<1> QED BY <1>4 DEF Whole

---------------------------------------------------------------------------
(* Functions defined by recursion on a bound *)

(* g[k] takes the value before k to the one at k, from b at 0.             *)
Steps(n, S, b, g) == n \in Nat /\ b \in S /\ g \in [1..n -> [S -> S]]

Takes(n, S, b, g, f) ==
  f \in [0..n -> S] /\ f[0] = b /\ \A k \in 1..n : f[k] = g[k][f[k - 1]]

(* A function that takes each value from the one before it exists.         *)
LEMMA RecursionExists ==
  ASSUME NEW n, NEW S, NEW b, NEW g, Steps(n, S, b, g)
  PROVE  \E f : Takes(n, S, b, g, f)
<1> DEFINE Upto(m, f) == f \in [0..m -> S] /\ f[0] = b /\ \A k \in 1..m : f[k] = g[k][f[k - 1]]
           With == {m \in 0..n : \E f : Upto(m, f)}
<1>0. n \in Nat /\ b \in S /\ g \in [1..n -> [S -> S]]
  BY DEF Steps
<1>1. 0 \in With
  <2>1. Upto(0, [k \in 0..0 |-> b])
    BY <1>0
  <2> HIDE DEF Upto
  <2> QED BY <1>0, <2>1
<1>2. ASSUME NEW m \in 1..n, m - 1 \in With
      PROVE  m \in With
  <2>1. PICK f : Upto(m - 1, f)
    <3> HIDE DEF Upto
    <3> QED BY <1>2, Zenon
  <2> DEFINE h == [k \in 0..m |-> IF k = m THEN g[m][f[m - 1]] ELSE f[k]]
  <2>2. g[m][f[m - 1]] \in S
    BY <1>0, <2>1
  <2>3. h \in [0..m -> S] /\ h[m] = g[m][f[m - 1]] /\ \A k \in 0..(m - 1) : h[k] = f[k]
    BY <1>0, <2>1, <2>2
  <2> HIDE DEF h
  <2>4. h[0] = b
    BY <2>1, <2>3
  <2>5. ASSUME NEW k \in 1..m
        PROVE  h[k] = g[k][h[k - 1]]
    <3>1. CASE k = m
      BY <2>3, <3>1
    <3>2. CASE k # m
      <4>1. k \in 1..(m - 1) /\ k - 1 \in 0..(m - 1) /\ k \in 0..(m - 1)
        BY <1>0, <3>2
      <4> QED BY <2>1, <2>3, <4>1
    <3> QED BY <3>1, <3>2
  <2>6. Upto(m, h)
    BY <2>3, <2>4, <2>5
  <2>7. m \in 0..n
    BY <1>0
  <2> HIDE DEF Upto
  <2> QED BY <2>6, <2>7
<1> HIDE DEF With
<1>3. \A m \in 0..n : m \in With
  BY <1>0, <1>1, <1>2, InductionTo
<1>4. n \in With
  BY <1>0, <1>3
<1> QED BY <1>4, Zenon DEF With, Takes

(* A property of the values that each step keeps holds of all.             *)
LEMMA StaysIn ==
  ASSUME NEW n \in Nat, NEW S, NEW f, f[0] \in S,
         \A k \in 1..n : f[k - 1] \in S => f[k] \in S
  PROVE  \A k \in 0..n : f[k] \in S
<1> DEFINE Good == {k \in 0..n : f[k] \in S}
<1>1. 0 \in Good /\ \A k \in 1..n : k - 1 \in Good => k \in Good
  OBVIOUS
<1> HIDE DEF Good
<1>2. \A k \in 0..n : k \in Good
  BY <1>1, InductionTo
<1> QED BY <1>2 DEF Good

(* Two functions that take the same steps from the same value agree.       *)
LEMMA StaysEqual ==
  ASSUME NEW n \in Nat, NEW f, NEW h, f[0] = h[0],
         \A k \in 1..n : f[k - 1] = h[k - 1] => f[k] = h[k]
  PROVE  \A k \in 0..n : f[k] = h[k]
<1> DEFINE Same == {k \in 0..n : f[k] = h[k]}
<1>1. 0 \in Same /\ \A k \in 1..n : k - 1 \in Same => k \in Same
  OBVIOUS
<1> HIDE DEF Same
<1>2. \A k \in 0..n : k \in Same
  BY <1>1, InductionTo
<1> QED BY <1>2 DEF Same

---------------------------------------------------------------------------
(* Greatest elements *)

(* A set of naturals with an upper bound has a greatest element.           *)
LEMMA GreatestNatural ==
  ASSUME NEW S \in SUBSET Nat, S # {}, NEW b \in Nat, \A x \in S : x <= b
  PROVE  \E w \in S : \A x \in S : x <= w
<1> DEFINE Bounds == {w \in Nat : \A x \in S : x <= w}
<1>1. Bounds \in SUBSET Nat /\ Bounds # {}
  OBVIOUS
<1>2. PICK w \in Bounds : \A v \in Bounds : w <= v
  <2> HIDE DEF Bounds
  <2> QED BY <1>1, LeastNatural
<1>3. ASSUME w \notin S
      PROVE  FALSE
  <2>1. \A x \in S : x \in Nat /\ x <= w /\ x # w
    BY <1>2, <1>3
  <2>2. PICK x \in S : x < w /\ w \in Nat
    <3>1. \E x : x \in S
      OBVIOUS
    <3>2. w \in Nat
      OBVIOUS
    <3> HIDE DEF Bounds
    <3> QED BY <2>1, <3>1, <3>2
  <2>3. w - 1 \in Nat /\ \A y \in S : y <= w - 1
    BY <2>1, <2>2
  <2>4. w - 1 \in Bounds
    BY <2>3
  <2> QED BY <1>2, <2>2, <2>4
<1> QED BY <1>2, <1>3

(* Finitely many naturals have an upper bound.                             *)
LEMMA FiniteBound ==
  ASSUME NEW D, IsFiniteSet(D), NEW v \in [D -> Nat]
  PROVE  \E b \in Nat : \A d \in D : v[d] <= b
<1> DEFINE n == Cardinality(D)
<1>1. n \in Nat
  BY FS_CardinalityType
<1>2. PICK f : f \in Bijection(1..n, D)
  BY FS_CardinalityType DEF ExistsBijection
<1>3. f \in [1..n -> D] /\ \A d \in D : \E i \in 1..n : f[i] = d
  BY <1>2 DEF Bijection, Surjection
<1> HIDE DEF n
<1> DEFINE With == {m \in 0..n : \E b \in Nat : \A i \in 1..m : v[f[i]] <= b}
<1>4. 0 \in With
  <2>1. \A i \in 1..0 : v[f[i]] <= 0
    OBVIOUS
  <2> QED BY <1>1, <2>1
<1>5. ASSUME NEW m \in 1..n, m - 1 \in With
      PROVE  m \in With
  <2>1. PICK b \in Nat : \A i \in 1..(m - 1) : v[f[i]] <= b
    BY <1>5
  <2>2. v[f[m]] \in Nat /\ \A i \in 1..m : v[f[i]] \in Nat
    <3>1. m \in 1..n /\ \A i \in 1..m : i \in 1..n
      BY <1>1
    <3>2. \A i \in 1..n : v[f[i]] \in Nat
      BY <1>3
    <3> QED BY <3>1, <3>2
  <2>3. PICK c \in Nat : c >= b /\ c >= v[f[m]]
    BY <2>2
  <2>4. ASSUME NEW i \in 1..m
        PROVE  v[f[i]] <= c
    <3>1. i = m \/ i \in 1..(m - 1)
      OBVIOUS
    <3> QED BY <2>1, <2>2, <2>3, <3>1
  <2> QED BY <2>4
<1> HIDE DEF With
<1>6. \A m \in 0..n : m \in With
  BY <1>1, <1>4, <1>5, InductionTo
<1>7. n \in With
  BY <1>1, <1>6
<1>8. PICK b \in Nat : \A i \in 1..n : v[f[i]] <= b
  BY <1>7 DEF With
<1> QED BY <1>3, <1>8

---------------------------------------------------------------------------
(* Functions defined by recursion on later offsets *)

(* A walk over 0..n: from an offset in P it goes on at a later one, and    *)
(* g[o] takes what is found from there to what is found from o.            *)
Forward(n, P, nx) ==
  /\ n \in Nat /\ P \in SUBSET (0..n)
  /\ nx \in [P -> 0..n] /\ \A o \in P : o < nx[o]

WalkSteps(P, S, b, g) == b \in S /\ g \in [P -> [S -> S]]

Walks(m, n, P, nx, S, b, g, f) ==
  /\ f \in [m..n -> S]
  /\ \A o \in m..n : f[o] = IF o \in P THEN g[o][f[nx[o]]] ELSE b

(* A function that takes each value from a later one exists.               *)
LEMMA WalkExists ==
  ASSUME NEW n, NEW P, NEW nx, NEW S, NEW b, NEW g, Forward(n, P, nx), WalkSteps(P, S, b, g)
  PROVE  \E f : Walks(0, n, P, nx, S, b, g, f)
<1> DEFINE With == {k \in 0..n : \E f : Walks(n - k, n, P, nx, S, b, g, f)}
<1>0. n \in Nat /\ b \in S /\ g \in [P -> [S -> S]] /\ nx \in [P -> 0..n] /\ \A o \in P : o < nx[o]
  BY DEF Forward, WalkSteps
<1>1. ASSUME NEW k \in 0..n, NEW f, \A o \in (n - k + 1)..n : f[o] \in S /\ f[o] = IF o \in P THEN g[o][f[nx[o]]] ELSE b
      PROVE  k \in With
  <2> DEFINE m == n - k
             v == IF m \in P THEN g[m][f[nx[m]]] ELSE b
             h == [o \in m..n |-> IF o = m THEN v ELSE f[o]]
  <2>1. m \in Nat /\ m <= n
    BY <1>0
  <2>2. v \in S
    <3>1. CASE m \in P
      <4>1. nx[m] \in (m + 1)..n
        BY <1>0, <2>1, <3>1
      <4>2. f[nx[m]] \in S
        BY <1>1, <4>1
      <4> QED BY <1>0, <3>1, <4>2
    <3>2. CASE m \notin P
      BY <1>0, <3>2
    <3> QED BY <3>1, <3>2
  <2>3. \A o \in (m + 1)..n : f[o] \in S
    BY <1>1
  <2>4. h[m] = v /\ \A o \in (m + 1)..n : h[o] = f[o]
    <3> HIDE DEF v
    <3> QED BY <2>1
  <2>5. h \in [m..n -> S]
    <3>1. \A o \in m..n : o = m \/ o \in (m + 1)..n
      BY <2>1
    <3> HIDE DEF v, m
    <3> QED BY <2>2, <2>3, <3>1
  <2>6. ASSUME NEW o \in m..n
        PROVE  h[o] = IF o \in P THEN g[o][h[nx[o]]] ELSE b
    <3>1. o \in P => nx[o] \in (m + 1)..n
      BY <1>0, <2>1
    <3>2. o \in P => h[nx[o]] = f[nx[o]]
      <4> HIDE DEF h, m
      <4> QED BY <2>4, <3>1
    <3>3. CASE o = m
      <4>1. h[o] = v
        BY <2>4, <3>3
      <4> HIDE DEF h
      <4> QED BY <3>2, <3>3, <4>1
    <3>4. CASE o # m
      <4>1. o \in (m + 1)..n
        BY <2>1, <3>4
      <4>2. f[o] = IF o \in P THEN g[o][f[nx[o]]] ELSE b
        BY <1>1, <4>1
      <4>3. h[o] = f[o]
        BY <2>4, <4>1
      <4> HIDE DEF h
      <4> QED BY <3>2, <4>2, <4>3
    <3> QED BY <3>3, <3>4
  <2>7. Walks(m, n, P, nx, S, b, g, h)
    <3> HIDE DEF h, m
    <3> QED BY <2>5, <2>6 DEF Walks
  <2> HIDE DEF h
  <2> QED BY <2>7
<1>2. 0 \in With
  <2>1. \A o \in (n - 0 + 1)..n : FALSE
    BY <1>0
  <2>2. 0 \in 0..n
    BY <1>0
  <2> HIDE DEF With
  <2> QED BY <1>1, <2>1, <2>2
<1>3. ASSUME NEW k \in 1..n, k - 1 \in With
      PROVE  k \in With
  <2>1. PICK f : Walks(n - (k - 1), n, P, nx, S, b, g, f)
    BY <1>3
  <2>2. n - (k - 1) = n - k + 1 /\ k \in 0..n
    BY <1>0
  <2>3. \A o \in (n - k + 1)..n : f[o] \in S /\ f[o] = IF o \in P THEN g[o][f[nx[o]]] ELSE b
    BY <2>1, <2>2 DEF Walks
  <2> HIDE DEF With
  <2> QED BY <1>1, <2>2, <2>3
<1> HIDE DEF With
<1>4. n \in With
  <2>1. \A k \in 0..n : k \in With
    BY <1>0, <1>2, <1>3, InductionTo
  <2> QED BY <1>0, <2>1
<1>5. \E f : Walks(n - n, n, P, nx, S, b, g, f)
  BY <1>4 DEF With
<1>6. n - n = 0
  BY <1>0
<1> QED BY <1>5, <1>6

(* A property that each offset takes over from the later one holds of all. *)
LEMMA WalkStays ==
  ASSUME NEW n, NEW P, NEW nx, Forward(n, P, nx), NEW S, NEW f,
         \A o \in 0..n : (o \in P => f[nx[o]] \in S) => f[o] \in S
  PROVE  \A o \in 0..n : f[o] \in S
<1> DEFINE Bad == {o \in 0..n : f[o] \notin S}
<1>0. n \in Nat /\ nx \in [P -> 0..n] /\ \A o \in P : o < nx[o]
  BY DEF Forward
<1>1. SUFFICES ASSUME Bad # {} PROVE FALSE
  OBVIOUS
<1>2. Bad \in SUBSET Nat /\ \A x \in Bad : x <= n
  BY <1>0
<1>3. PICK w \in Bad : \A x \in Bad : x <= w
  <2> HIDE DEF Bad
  <2> QED BY <1>0, <1>1, <1>2, GreatestNatural
<1>4. w \in 0..n /\ f[w] \notin S
  BY DEF Bad
<1>5. w \in P /\ f[nx[w]] \notin S
  BY <1>4
<1>6. nx[w] \in 0..n /\ w < nx[w]
  BY <1>0, <1>5
<1>7. nx[w] \in Bad
  BY <1>5, <1>6
<1>8. nx[w] <= w
  <2> HIDE DEF Bad
  <2> QED BY <1>3, <1>7
<1> QED BY <1>4, <1>6, <1>8

---------------------------------------------------------------------------
(* Counting the elements of a set below a bound *)

(* Positions in a bounded range are finitely many. *)
LEMMA Bounded ==
  ASSUME NEW a \in Int, NEW b \in Int, NEW S \in SUBSET (a..b)
  PROVE  IsFiniteSet(S) /\ Cardinality(S) \in Nat
BY FS_Interval, FS_Subset, FS_CardinalityType

(* Nothing counts twice, and nothing that is not there counts.             *)
LEMMA CountStep ==
  ASSUME NEW S \in SUBSET Int, IsFiniteSet(S), NEW a \in Int, NEW b \in Int, a < b,
         \A q \in S : ~(a < q /\ q < b)
  PROVE  /\ Cardinality({q \in S : q < a}) \in Nat
         /\ Cardinality({q \in S : q < b}) =
              IF a \in S THEN Cardinality({q \in S : q < a}) + 1 ELSE Cardinality({q \in S : q < a})
<1> DEFINE A == {q \in S : q < a}
           B == {q \in S : q < b}
<1>1. IsFiniteSet(A) /\ Cardinality(A) \in Nat
  BY FS_Subset, FS_CardinalityType
<1>2. \A q \in S : q < b <=> (q < a \/ q = a)
  BY SMT
<1>3. a \notin A
  BY SMT
<1>4. CASE a \in S
  <2>1. B = A \cup {a}
    BY <1>2, <1>4, Zenon
  <2> HIDE DEF A, B
  <2>2. Cardinality(B) = Cardinality(A) + 1
    BY <1>1, <1>3, <2>1, FS_AddElement
  <2> QED BY <1>1, <1>4, <2>2 DEF A, B
<1>5. CASE a \notin S
  <2>1. B = A
    BY <1>2, <1>5, Zenon
  <2> QED BY <1>1, <1>5, <2>1
<1> QED BY <1>4, <1>5

(* An element is told by how many are below it. *)
LEMMA RankTells ==
  ASSUME NEW S \in SUBSET Int, IsFiniteSet(S), NEW a \in S, NEW b \in S, a < b
  PROVE  Cardinality({q \in S : q < a}) < Cardinality({q \in S : q < b})
<1> DEFINE A == {q \in S : q < a}
           B == {q \in S : q < b}
<1>1. IsFiniteSet(B) /\ Cardinality(B) \in Nat
  BY FS_Subset, FS_CardinalityType
<1>2. \A q \in S : q < a => q < b
  BY SMT
<1>3. A \in SUBSET B /\ a \in B
  BY <1>2, Zenon
<1>4. a \notin A
  BY SMT
<1> HIDE DEF A, B
<1>5. IsFiniteSet(A) /\ Cardinality(A) \in Nat /\ Cardinality(A) <= Cardinality(B)
      /\ (Cardinality(B) = Cardinality(A) => B = A)
  BY <1>1, <1>3, FS_Subset, FS_CardinalityType
<1>6. Cardinality(A) # Cardinality(B)
  BY <1>3, <1>4, <1>5
<1> QED BY <1>1, <1>5, <1>6 DEF A, B

---------------------------------------------------------------------------
(* Sequences: what is put together can be taken apart *)

\* A sequence of one element.
LEMMA OneElement ==
  ASSUME NEW S, NEW c \in S
  PROVE  <<c>> \in Seq(S) /\ Len(<<c>>) = 1
OBVIOUS

\* What was appended, and to what, can be told from the result.
LEMMA AppendTells ==
  ASSUME NEW S, NEW a \in Seq(S), NEW b \in Seq(S), NEW c \in S, NEW d \in S,
         Append(a, c) = Append(b, d)
  PROVE  a = b /\ c = d
<1>1. Len(a) = Len(b)
  OBVIOUS
<1>2. Append(a, c)[Len(a) + 1] = c /\ Append(b, d)[Len(b) + 1] = d
  OBVIOUS
<1>3. \A i \in 1..Len(a) : Append(a, c)[i] = a[i] /\ Append(b, d)[i] = b[i]
  BY <1>1
<1>4. \A i \in 1..Len(a) : a[i] = b[i]
  BY <1>3
<1>5. a = b
  BY <1>1, <1>4, SameElements
<1> QED BY <1>1, <1>2, <1>5

\* The length and the elements of two sequences put together.
LEMMA Joined ==
  ASSUME NEW S, NEW a \in Seq(S), NEW b \in Seq(S)
  PROVE  /\ a \o b \in Seq(S)
         /\ Len(a \o b) = Len(a) + Len(b)
         /\ \A i \in 1..Len(a) : (a \o b)[i] = a[i]
         /\ \A i \in 1..Len(b) : (a \o b)[Len(a) + i] = b[i]
         /\ \A i \in (Len(a) + 1)..(Len(a) + Len(b)) : (a \o b)[i] = b[i - Len(a)]
OBVIOUS

\* Putting together is associative.
LEMMA JoinAgain ==
  ASSUME NEW S, NEW a \in Seq(S), NEW b \in Seq(S), NEW c \in Seq(S)
  PROVE  (a \o b) \o c = a \o (b \o c)
<1> DEFINE s == (a \o b) \o c
           t == a \o (b \o c)
<1>1. s \in Seq(S) /\ t \in Seq(S) /\ Len(s) = Len(t)
  OBVIOUS
<1>2. \A i \in 1..Len(s) : s[i] = t[i]
  OBVIOUS
<1> HIDE DEF s, t
<1>3. s = t
  BY <1>1, <1>2, SameElements
<1> QED BY <1>3 DEF s, t

\* A sequence over a set is one over a larger set.
LEMMA Widened ==
  ASSUME NEW S, NEW T, S \subseteq T, NEW s \in Seq(S)
  PROVE  s \in Seq(T)
OBVIOUS

\* What a sequence that was put together begins with.
LEMMA JoinStarts ==
  ASSUME NEW S, NEW a \in Seq(S), NEW b \in Seq(S), Len(b) > 0
  PROVE  (a \o b)[1] = IF a = << >> THEN b[1] ELSE a[1]
<1>1. CASE a = << >>
  BY <1>1
<1>2. CASE a # << >>
  <2>1. Len(a) \in Nat /\ Len(a) # 0
    BY <1>2, EmptySequence
  <2> QED BY <1>2, <2>1
<1> QED BY <1>1, <1>2

\* The parts of a sequence that was put together.
LEMMA TakenApart ==
  ASSUME NEW S, NEW a \in Seq(S), NEW b \in Seq(S)
  PROVE  /\ SubSeq(a \o b, 1, Len(a)) = a
         /\ SubSeq(a \o b, Len(a) + 1, Len(a \o b)) = b
<1> DEFINE s == a \o b
           c == SubSeq(s, 1, Len(a))
           d == SubSeq(s, Len(a) + 1, Len(s))
<1>1. s \in Seq(S) /\ Len(s) = Len(a) + Len(b) /\ Len(a) \in Nat /\ Len(b) \in Nat
  OBVIOUS
<1>2. \A i \in 1..Len(a) : s[i] = a[i]
  OBVIOUS
<1>3. \A i \in 1..Len(b) : s[Len(a) + i] = b[i]
  OBVIOUS
<1> HIDE DEF s
<1>4. c \in Seq(S) /\ Len(c) = Len(a) /\ \A i \in 1..Len(c) : c[i] = s[i]
  BY <1>1
<1>5. d \in Seq(S) /\ Len(d) = Len(b) /\ \A i \in 1..Len(d) : d[i] = s[Len(a) + i]
  BY <1>1
<1> HIDE DEF c, d
<1>6. \A i \in 1..Len(c) : c[i] = a[i]
  BY <1>2, <1>4
<1>7. \A i \in 1..Len(d) : d[i] = b[i]
  BY <1>3, <1>5
<1>8. c = a
  BY <1>4, <1>6, SameElements
<1>9. d = b
  BY <1>5, <1>7, SameElements
<1> QED BY <1>8, <1>9 DEF c, d, s

\* Sequences with one tail are equal if what precedes it is.
LEMMA SameTail ==
  ASSUME NEW S, NEW a \in Seq(S), NEW b \in Seq(S), NEW c \in Seq(S), a \o c = b \o c
  PROVE  a = b
<1>1. Len(a) = Len(b)
  <2>1. Len(a \o c) = Len(a) + Len(c) /\ Len(b \o c) = Len(b) + Len(c)
    OBVIOUS
  <2> QED BY <2>1
<1>2. \A i \in 1..Len(a) : (a \o c)[i] = a[i] /\ (b \o c)[i] = b[i]
  BY <1>1
<1>3. \A i \in 1..Len(a) : a[i] = b[i]
  BY <1>2
<1> QED BY <1>1, <1>3, SameElements

\* A mark and what follows it.
LEMMA JoinAtMark ==
  ASSUME NEW S, NEW m \in S, NEW a \in Seq(S)
  PROVE  /\ <<m>> \o a \in Seq(S) /\ Len(<<m>> \o a) = Len(a) + 1
         /\ (<<m>> \o a)[1] = m
         /\ \A i \in 1..Len(a) : (<<m>> \o a)[i + 1] = a[i]
OBVIOUS

\* A mark in one sequence and not in the other tells them apart.
LEMMA MarkTells ==
  ASSUME NEW S, NEW m, m \notin S, NEW v \in Seq(S), NEW c \in Seq(S), NEW d \in Seq(S)
  PROVE  v # c \o (<<m>> \o d)
<1> DEFINE s == c \o (<<m>> \o d)
<1>1. s[Len(c) + 1] = m /\ Len(s) = Len(c) + 1 + Len(d) /\ Len(c) \in Nat /\ Len(d) \in Nat
  OBVIOUS
<1>2. Len(c) + 1 \in 1..Len(s)
  BY <1>1
<1> HIDE DEF s
<1>3. \A i \in 1..Len(v) : v[i] \in S
  OBVIOUS
<1>4. v # s
  BY <1>1, <1>2, <1>3
<1> QED BY <1>4 DEF s

\* What precedes a mark, and what follows it, can be told from the whole.
LEMMA SameBehindMark ==
  ASSUME NEW S, NEW m, m \notin S,
         NEW a \in Seq(S), NEW b \in Seq(S), NEW d \in Seq(S), NEW e \in Seq(S),
         a \o (<<m>> \o d) = b \o (<<m>> \o e)
  PROVE  d = e
<1> DEFINE s == a \o (<<m>> \o d)
           t == b \o (<<m>> \o e)
<1>1. /\ Len(s) = Len(a) + 1 + Len(d) /\ Len(a) \in Nat /\ Len(d) \in Nat
      /\ \A i \in 1..Len(a) : s[i] = a[i]
      /\ s[Len(a) + 1] = m
      /\ \A i \in 1..Len(d) : s[Len(a) + 1 + i] = d[i]
  OBVIOUS
<1>2. /\ Len(t) = Len(b) + 1 + Len(e) /\ Len(b) \in Nat /\ Len(e) \in Nat
      /\ \A i \in 1..Len(b) : t[i] = b[i]
      /\ t[Len(b) + 1] = m
      /\ \A i \in 1..Len(e) : t[Len(b) + 1 + i] = e[i]
  OBVIOUS
<1>3. s = t
  OBVIOUS
<1>4. /\ \A i \in 1..Len(a) : a[i] \in S
      /\ \A i \in 1..Len(b) : b[i] \in S
  OBVIOUS
<1> HIDE DEF s, t
<1>5. Len(a) = Len(b)
  <2>1. ASSUME Len(a) < Len(b)
        PROVE  FALSE
    <3>1. Len(a) + 1 \in 1..Len(b)
      BY <2>1, <1>1, <1>2
    <3>2. t[Len(a) + 1] \in S
      BY <3>1, <1>2, <1>4
    <3> QED BY <3>2, <1>1, <1>3
  <2>2. ASSUME Len(b) < Len(a)
        PROVE  FALSE
    <3>1. Len(b) + 1 \in 1..Len(a)
      BY <2>2, <1>1, <1>2
    <3>2. s[Len(b) + 1] \in S
      BY <3>1, <1>1, <1>4
    <3> QED BY <3>2, <1>2, <1>3
  <2> QED BY <2>1, <2>2, <1>1, <1>2
<1>6. Len(d) = Len(e)
  BY <1>1, <1>2, <1>3, <1>5
<1>7. \A i \in 1..Len(d) : d[i] = e[i]
  BY <1>1, <1>2, <1>3, <1>5, <1>6
<1> QED BY <1>6, <1>7, SameElements

\* A function on 1..n is a sequence of length n.
LEMMA FunctionIsSequence ==
  ASSUME NEW S, NEW n \in Nat, NEW f \in [1..n -> S]
  PROVE  f \in Seq(S) /\ Len(f) = n
OBVIOUS

\* The length of a function on 1..m that is a sequence.
LEMMA LengthOf ==
  ASSUME NEW m \in Nat, NEW s, DOMAIN s = 1..m, s = [i \in DOMAIN s |-> s[i]]
  PROVE  Len(s) = m /\ s \in Seq({s[i] : i \in 1..m})
<1>1. PICK S : S = {s[i] : i \in 1..m}
  OBVIOUS
<1>2. s \in [1..m -> S]
  BY <1>1
<1> QED BY <1>1, <1>2, FunctionIsSequence

---------------------------------------------------------------------------
(* Prefixes *)

\* The first elements of a sequence.
LEMMA PrefixTyped ==
  ASSUME NEW S, NEW p \in Seq(S), NEW k \in 0..Len(p)
  PROVE  SubSeq(p, 1, k) \in Seq(S) /\ Len(SubSeq(p, 1, k)) = k
OBVIOUS

\* The first elements of the first elements.
LEMMA PrefixOfPrefix ==
  ASSUME NEW S, NEW p \in Seq(S), NEW k \in 0..Len(p), NEW j \in 0..k
  PROVE  SubSeq(SubSeq(p, 1, k), 1, j) = SubSeq(p, 1, j)
<1>1. PICK q : q = SubSeq(p, 1, k)
  OBVIOUS
<1>2. q \in Seq(S) /\ Len(q) = k
  BY <1>1, PrefixTyped
<1>3. \A i \in 1..k : q[i] = p[i]
  BY <1>1
<1>4. j \in 0..Len(q) /\ j \in 0..Len(p) /\ k \in Nat
  BY <1>2
<1>5. SubSeq(q, 1, j) \in Seq(S) /\ Len(SubSeq(q, 1, j)) = j /\ SubSeq(p, 1, j) \in Seq(S) /\ Len(SubSeq(p, 1, j)) = j
  BY <1>2, <1>4, PrefixTyped
<1>6. ASSUME NEW i \in 1..j
      PROVE  SubSeq(q, 1, j)[i] = SubSeq(p, 1, j)[i]
  <2>1. SubSeq(q, 1, j)[i] = q[i]
    BY <1>2, <1>4
  <2>2. SubSeq(p, 1, j)[i] = p[i]
    BY <1>4
  <2> QED BY <1>3, <1>4, <2>1, <2>2
<1>7. SubSeq(q, 1, j) = SubSeq(p, 1, j)
  BY <1>5, <1>6, SameElements
<1> QED BY <1>1, <1>7

\* Prefixes are equal if their elements are.
LEMMA PrefixesAgree ==
  ASSUME NEW S, NEW a \in Seq(S), NEW b \in Seq(S), NEW m \in Nat, m <= Len(a), m <= Len(b)
  PROVE  SubSeq(a, 1, m) = SubSeq(b, 1, m) <=> \A j \in 1..m : a[j] = b[j]
<1>1. PICK x : x = SubSeq(a, 1, m)
  OBVIOUS
<1>2. PICK y : y = SubSeq(b, 1, m)
  OBVIOUS
<1>3. /\ x \in Seq(S) /\ Len(x) = m /\ \A j \in 1..m : x[j] = a[j]
      /\ y \in Seq(S) /\ Len(y) = m /\ \A j \in 1..m : y[j] = b[j]
  BY <1>1, <1>2
<1>4. x = y => \A j \in 1..m : a[j] = b[j]
  BY <1>3
<1>5. (\A j \in 1..m : a[j] = b[j]) => x = y
  <2> SUFFICES ASSUME \A j \in 1..m : a[j] = b[j]
               PROVE  x = y
    OBVIOUS
  <2>1. \A j \in 1..Len(x) : x[j] = y[j]
    BY <1>3
  <2> QED BY <1>3, <2>1, SameElements
<1> QED BY <1>1, <1>2, <1>4, <1>5

---------------------------------------------------------------------------
(* The number a CHOOSE takes *)

\* CHOOSE finds the least element.
LEMMA ChosenLeast ==
  ASSUME NEW P \in SUBSET Int, NEW c \in P, \A j \in P : c <= j
  PROVE  (CHOOSE i \in P : \A j \in P : i <= j) = c
<1> DEFINE x == CHOOSE i \in P : \A j \in P : i <= j
<1>1. x \in P /\ \A j \in P : x <= j
  OBVIOUS
<1> HIDE DEF x
<1>2. x = c
  BY <1>1
<1> QED BY <1>2 DEF x

\* CHOOSE finds the greatest element.
LEMMA ChosenGreatest ==
  ASSUME NEW P \in SUBSET Int, NEW c \in P, \A j \in P : j <= c
  PROVE  (CHOOSE i \in P : \A j \in P : j <= i) = c
<1> DEFINE x == CHOOSE i \in P : \A j \in P : j <= i
<1>1. x \in P /\ \A j \in P : j <= x
  OBVIOUS
<1> HIDE DEF x
<1>2. x = c
  BY <1>1
<1> QED BY <1>2 DEF x

---------------------------------------------------------------------------
(* Sums from a base *)

\* Sums that begin at b exist as well.
LEMMA TotalsExist ==
  ASSUME NEW n \in Nat, NEW b \in Nat, NEW v \in [1..n -> Nat]
  PROVE  \E f : f = [k \in 0..n |-> IF k = 0 THEN b ELSE f[k - 1] + v[k]]
<1>1. PICK g : g = [k \in 0..n |-> IF k = 0 THEN 0 ELSE g[k - 1] + v[k]]
  BY SumsExist
<1>2. \A k \in 0..n : g[k] \in Nat
  BY <1>1, SumsAreNat
<1>3. PICK f : f = [k \in 0..n |-> b + g[k]]
  OBVIOUS
<1>4. ASSUME NEW k \in 0..n
      PROVE  f[k] = IF k = 0 THEN b ELSE f[k - 1] + v[k]
  <2>1. CASE k = 0
    <3>1. g[0] = 0
      BY <1>1
    <3>2. f[0] = b + g[0]
      BY <1>3
    <3> QED BY <2>1, <3>1, <3>2
  <2>2. CASE k # 0
    <3>1. k \in 1..n /\ k - 1 \in 0..n
      BY <2>2
    <3>2. g[k] = g[k - 1] + v[k]
      BY <1>1, <2>2
    <3>3. g[k - 1] \in Nat /\ v[k] \in Nat
      BY <1>2, <3>1
    <3>4. f[k] = b + g[k] /\ f[k - 1] = b + g[k - 1]
      BY <1>3, <3>1
    <3> QED BY <2>2, <3>2, <3>3, <3>4
  <2> QED BY <2>1, <2>2
<1>5. f = [k \in 0..n |-> f[k]]
  BY <1>3
<1>6. f = [k \in 0..n |-> IF k = 0 THEN b ELSE f[k - 1] + v[k]]
  BY <1>4, <1>5
<1> QED BY <1>6

\* Sums of naturals that begin at b never get less.
LEMMA TotalsGrow ==
  ASSUME NEW n \in Nat, NEW b \in Nat, NEW v \in [1..n -> Nat],
         NEW f, f[0] = b, \A k \in 1..n : f[k] = f[k - 1] + v[k]
  PROVE  \A k \in 0..n : f[k] \in Nat /\ f[k] <= f[n]
<1>1. f[0] = b /\ \A k \in 1..n : f[k] = f[k - 1] + v[k]
  OBVIOUS
<1>2. \A k \in 0..n : f[k] \in Nat
  <2>1. f[0] \in Nat
    BY <1>1
  <2>2. \A k \in 1..n : f[k - 1] \in Nat => f[k] \in Nat
    BY <1>1
  <2> QED BY <2>1, <2>2, StaysIn
<1>3. \A k \in 0..n : f[k] <= f[n]
  <2> DEFINE G == {k \in 0..n : \A j \in 0..k : f[j] <= f[k]}
  <2>1. 0 \in G
    <3>1. f[0] <= f[0]
      BY <1>1
    <3>2. \A j \in 0..0 : j = 0
      OBVIOUS
    <3> QED BY <3>1, <3>2
  <2>2. ASSUME NEW k \in 1..n, k - 1 \in G
        PROVE  k \in G
    <3>1. f[k - 1] <= f[k] /\ f[k - 1] \in Nat /\ f[k] \in Nat
      <4>1. f[k] = f[k - 1] + v[k] /\ v[k] \in Nat /\ k - 1 \in 0..n
        BY <1>1
      <4>2. f[k - 1] \in Nat
        BY <1>2, <4>1
      <4> QED BY <4>1, <4>2
    <3>2. ASSUME NEW j \in 0..k
          PROVE  f[j] <= f[k]
      <4>1. CASE j = k
        BY <3>1, <4>1
      <4>2. CASE j # k
        <5>1. j \in 0..(k - 1) /\ j \in 0..n
          BY <4>2
        <5>2. f[j] <= f[k - 1] /\ f[j] \in Nat
          BY <1>2, <2>2, <5>1
        <5> QED BY <3>1, <5>2
      <4> QED BY <4>1, <4>2
    <3>3. k \in 0..n
      OBVIOUS
    <3> QED BY <3>2, <3>3, Zenon
  <2> HIDE DEF G
  <2>3. \A k \in 0..n : k \in G
    BY <2>1, <2>2, InductionTo
  <2>4. n \in G
    BY <2>3
  <2> QED BY <2>4 DEF G
<1> QED BY <1>1, <1>2, <1>3

---------------------------------------------------------------------------
(* Orders of finite sets *)

\* The elements of a sequence.
Elements(s) == {s[i] : i \in 1..Len(s)}

\* B[x] is what comes before x in an order of S.
Orders(S, B) ==
  /\ B \in [S -> SUBSET S]
  /\ \A x \in S : x \notin B[x]
  /\ \A x, y \in S : y \in B[x] => B[y] \subseteq B[x]
  /\ \A x, y \in S : x # y => x \in B[y] \/ y \in B[x]

\* What comes later in an order has more before it.
LEMMA RankGrows ==
  ASSUME NEW S, IsFiniteSet(S), NEW B, Orders(S, B)
  PROVE  /\ \A x \in S : Cardinality(B[x]) \in 0..(Cardinality(S) - 1)
         /\ \A x, y \in S : y \in B[x] => Cardinality(B[y]) < Cardinality(B[x])
<1> DEFINE n == Cardinality(S)
<1>1. n \in Nat
  BY FS_CardinalityType
<1>2. ASSUME NEW x \in S
      PROVE  IsFiniteSet(B[x]) /\ Cardinality(B[x]) \in 0..(n - 1)
  <2>1. IsFiniteSet(S \ {x}) /\ Cardinality(S \ {x}) = n - 1
    BY FS_RemoveElement
  <2>2. B[x] \subseteq S \ {x}
    BY DEF Orders
  <2>3. IsFiniteSet(B[x]) /\ Cardinality(B[x]) <= Cardinality(S \ {x})
    BY <2>1, <2>2, FS_Subset
  <2>4. Cardinality(B[x]) \in Nat
    BY <2>3, FS_CardinalityType
  <2> QED BY <1>1, <2>1, <2>3, <2>4
<1>3. ASSUME NEW x \in S, NEW y \in S, y \in B[x]
      PROVE  Cardinality(B[y]) < Cardinality(B[x])
  <2>1. B[y] \subseteq B[x] /\ y \notin B[y]
    BY <1>3 DEF Orders
  <2>2. IsFiniteSet(B[x]) /\ IsFiniteSet(B[y]) /\ Cardinality(B[x]) \in Nat /\ Cardinality(B[y]) \in Nat
    BY <1>2
  <2>3. /\ Cardinality(B[y]) <= Cardinality(B[x])
        /\ Cardinality(B[x]) = Cardinality(B[y]) => B[x] = B[y]
    BY <2>1, <2>2, FS_Subset
  <2>4. Cardinality(B[x]) # Cardinality(B[y])
    BY <1>3, <2>1, <2>3
  <2> QED BY <2>2, <2>3, <2>4
<1> QED BY <1>2, <1>3

\* For every number below the size of S, one element has that many before it.
LEMMA RanksAreTaken ==
  ASSUME NEW S, IsFiniteSet(S), NEW B, Orders(S, B), NEW i \in 1..Cardinality(S)
  PROVE  \E x \in S : Cardinality(B[x]) = i - 1
<1> SUFFICES ASSUME \A x \in S : Cardinality(B[x]) # i - 1
             PROVE  FALSE
  OBVIOUS
<1> DEFINE n == Cardinality(S)
           ranks == 0..(n - 1)
           D == ranks \ {i - 1}
           rank == [x \in S |-> Cardinality(B[x])]
<1>1. n \in Nat /\ i - 1 \in ranks
  BY FS_CardinalityType
<1>2. IsFiniteSet(ranks) /\ Cardinality(ranks) = n
  <2>1. PICK m \in Int : m = n - 1
    BY <1>1
  <2>2. IsFiniteSet(0..m) /\ Cardinality(0..m) = IF 0 > m THEN 0 ELSE m - 0 + 1
    BY FS_Interval
  <2> QED BY <1>1, <2>1, <2>2
<1>3. IsFiniteSet(D) /\ Cardinality(D) = n - 1
  <2> HIDE DEF ranks
  <2> QED BY <1>1, <1>2, FS_RemoveElement
<1>4. rank \in [S -> D]
  BY RankGrows
<1> HIDE DEF rank, D
<1>5. Cardinality(D) < Cardinality(S)
  BY <1>1, <1>3
<1>6. PICK x \in S, y \in S : x # y /\ rank[x] = rank[y]
  BY <1>3, <1>4, <1>5, FS_PigeonHole
<1>7. x \in B[y] \/ y \in B[x]
  BY <1>6 DEF Orders
<1>8. Cardinality(B[x]) # Cardinality(B[y])
  <2>1. Cardinality(B[x]) \in 0..(n - 1) /\ Cardinality(B[y]) \in 0..(n - 1)
    BY RankGrows
  <2> QED BY <1>7, <2>1, RankGrows
<1> QED BY <1>6, <1>8 DEF rank

\* s has each element of S once, in the order B.
Enumerates(S, B, s) ==
  /\ s \in Seq(S) /\ Len(s) = Cardinality(S)
  /\ Elements(s) = S
  /\ \A i, j \in 1..Len(s) : i < j => s[i] \in B[s[j]] /\ s[i] # s[j]

\* To take the element with i - 1 others before it, for each i, enumerates S.
LEMMA Enumerated ==
  ASSUME NEW S, IsFiniteSet(S), NEW B, Orders(S, B), NEW s,
         s = [i \in 1..Cardinality(S) |-> s[i]],
         \A i \in 1..Cardinality(S) :
           (\E x \in S : Cardinality(B[x]) = i - 1) => s[i] \in S /\ Cardinality(B[s[i]]) = i - 1
  PROVE  Enumerates(S, B, s)
<1> DEFINE n == Cardinality(S)
<1>1. n \in Nat
  BY FS_CardinalityType
<1>2. \A i \in 1..n : s[i] \in S /\ Cardinality(B[s[i]]) = i - 1
  BY RanksAreTaken
<1> HIDE DEF n
<1>3. s = [i \in 1..n |-> s[i]]
  BY DEF n
<1>4. s \in Seq(S) /\ Len(s) = n
  <2>1. s \in [1..n -> S]
    BY <1>2, <1>3
  <2> QED BY <1>1, <2>1, FunctionIsSequence
<1>5. ASSUME NEW i \in 1..n, NEW j \in 1..n, i < j
      PROVE  s[i] \in B[s[j]] /\ s[i] # s[j]
  <2>1. s[i] \in S /\ s[j] \in S /\ Cardinality(B[s[i]]) = i - 1 /\ Cardinality(B[s[j]]) = j - 1
    BY <1>2
  <2>2. s[i] # s[j]
    BY <1>1, <1>5, <2>1
  <2>3. s[j] \notin B[s[i]]
    <3> SUFFICES ASSUME s[j] \in B[s[i]]
                 PROVE  FALSE
      OBVIOUS
    <3>1. Cardinality(B[s[j]]) < Cardinality(B[s[i]])
      BY <2>1, RankGrows
    <3> QED BY <1>1, <1>5, <2>1, <3>1
  <2> QED BY <2>1, <2>2, <2>3 DEF Orders
<1>6. Elements(s) = S
  <2>1. Elements(s) \subseteq S
    BY <1>2, <1>4 DEF Elements
  <2>2. ASSUME NEW x \in S
        PROVE  \E i \in 1..n : s[i] = x
    <3>1. PICK r : r = Cardinality(B[x])
      OBVIOUS
    <3>2. r \in 0..(n - 1)
      BY <3>1, RankGrows DEF n
    <3>3. r + 1 \in 1..n /\ (r + 1) - 1 = r
      BY <1>1, <3>2
    <3>4. s[r + 1] \in S /\ Cardinality(B[s[r + 1]]) = r
      BY <1>2, <3>3
    <3>5. s[r + 1] = x
      <4>1. x # s[r + 1] => x \in B[s[r + 1]] \/ s[r + 1] \in B[x]
        BY <3>4 DEF Orders
      <4>2. x \in B[s[r + 1]] => r < r
        BY <3>1, <3>4, RankGrows
      <4>3. s[r + 1] \in B[x] => r < r
        BY <3>1, <3>4, RankGrows
      <4> QED BY <3>2, <4>1, <4>2, <4>3
    <3> QED BY <3>3, <3>5
  <2> QED BY <1>4, <2>1, <2>2 DEF Elements
<1> QED BY <1>4, <1>5, <1>6 DEF Enumerates, n

\* s has each element of S once.
Lists(S, s) ==
  /\ s \in Seq(S) /\ Len(s) \in Nat
  /\ \A x \in S : \E i \in 1..Len(s) : s[i] = x
  /\ \A i, j \in 1..Len(s) : s[i] = s[j] => i = j

\* What enumerates a set lists it.
LEMMA EnumeratedLists ==
  ASSUME NEW S, NEW B, NEW s, Enumerates(S, B, s)
  PROVE  Lists(S, s)
<1>1. s \in Seq(S) /\ Len(s) \in Nat
  BY DEF Enumerates
<1>2. \A x \in S : \E i \in 1..Len(s) : s[i] = x
  BY DEF Enumerates, Elements
<1>3. \A i, j \in 1..Len(s) : i < j => s[i] # s[j]
  BY DEF Enumerates
<1>4. \A i, j \in 1..Len(s) : s[i] = s[j] => i = j
  BY <1>1, <1>3
<1> QED BY <1>1, <1>2, <1>4 DEF Lists

\* Lists of disjoint sets, one behind the other, list both.
LEMMA ListsJoin ==
  ASSUME NEW S, NEW T, S \cap T = {}, NEW a, NEW b, Lists(S, a), Lists(T, b)
  PROVE  /\ Lists(S \cup T, a \o b) /\ Len(a \o b) = Len(a) + Len(b)
         /\ \A i \in 1..Len(a) : (a \o b)[i] = a[i]
         /\ \A i \in 1..Len(b) : (a \o b)[Len(a) + i] = b[i]
<1>1. /\ a \in Seq(S) /\ Len(a) \in Nat
      /\ b \in Seq(T) /\ Len(b) \in Nat
  BY DEF Lists
<1>2. a \in Seq(S \cup T) /\ b \in Seq(S \cup T)
  BY <1>1
<1>3. PICK c : c = a \o b
  OBVIOUS
<1>4. /\ c \in Seq(S \cup T) /\ Len(c) = Len(a) + Len(b)
      /\ \A i \in 1..Len(a) : c[i] = a[i]
      /\ \A i \in 1..Len(b) : c[Len(a) + i] = b[i]
  BY <1>1, <1>2, <1>3, Joined
<1>5. \A i \in 1..Len(c) : i \in 1..Len(a) \/ (i - Len(a) \in 1..Len(b) /\ i = Len(a) + (i - Len(a)))
  BY <1>1, <1>4
<1>6. \A i \in 1..Len(a) : i \in 1..Len(c) /\ a[i] \in S
  BY <1>1, <1>4
<1>7. \A i \in 1..Len(b) : Len(a) + i \in 1..Len(c) /\ b[i] \in T
  BY <1>1, <1>4
<1>8. ASSUME NEW x \in S \cup T
      PROVE  \E i \in 1..Len(c) : c[i] = x
  <2>1. CASE x \in S
    <3>1. PICK i \in 1..Len(a) : a[i] = x
      BY <2>1 DEF Lists
    <3> QED BY <1>4, <1>6, <3>1
  <2>2. CASE x \in T
    <3>1. PICK i \in 1..Len(b) : b[i] = x
      BY <2>2 DEF Lists
    <3> QED BY <1>4, <1>7, <3>1
  <2> QED BY <2>1, <2>2
<1>9. ASSUME NEW i \in 1..Len(c), NEW j \in 1..Len(c), c[i] = c[j]
      PROVE  i = j
  <2>1. CASE i \in 1..Len(a) /\ j \in 1..Len(a)
    BY <1>4, <1>9, <2>1 DEF Lists
  <2>2. CASE i \in 1..Len(a) /\ j \notin 1..Len(a)
    <3>1. j - Len(a) \in 1..Len(b) /\ j = Len(a) + (j - Len(a))
      BY <1>5, <2>2
    <3>2. c[j] \in T
      <4>1. PICK k \in 1..Len(b) : j = Len(a) + k
        BY <3>1
      <4> QED BY <1>4, <1>7, <4>1
    <3>3. c[i] \in S
      BY <1>4, <1>6, <2>2
    <3> QED BY <1>9, <3>2, <3>3
  <2>3. CASE i \notin 1..Len(a) /\ j \in 1..Len(a)
    <3>1. i - Len(a) \in 1..Len(b) /\ i = Len(a) + (i - Len(a))
      BY <1>5, <2>3
    <3>2. c[i] \in T
      <4>1. PICK k \in 1..Len(b) : i = Len(a) + k
        BY <3>1
      <4> QED BY <1>4, <1>7, <4>1
    <3>3. c[j] \in S
      BY <1>4, <1>6, <2>3
    <3> QED BY <1>9, <3>2, <3>3
  <2>4. CASE i \notin 1..Len(a) /\ j \notin 1..Len(a)
    <3>1. PICK k \in 1..Len(b) : i = Len(a) + k
      BY <1>5, <2>4
    <3>2. PICK l \in 1..Len(b) : j = Len(a) + l
      BY <1>5, <2>4
    <3>3. b[k] = b[l]
      BY <1>4, <1>9, <3>1, <3>2
    <3> QED BY <3>1, <3>2, <3>3 DEF Lists
  <2> QED BY <2>1, <2>2, <2>3, <2>4
<1>10. Len(c) \in Nat
  BY <1>4
<1>11. Lists(S \cup T, c)
  BY <1>4, <1>8, <1>9, <1>10 DEF Lists
<1> QED BY <1>3, <1>4, <1>11

=============================================================================
