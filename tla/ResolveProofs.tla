--------------------------- MODULE ResolveProofs ---------------------------
(***************************************************************************)
(* Resolving a path, for every image, every path and every bound on the    *)
(* hops: the recursion walks the path as PathWalk reads it, follows links  *)
(* no more often than the bound on their nesting allows, and never hands   *)
(* a link to a call that follows links.                                    *)
(***************************************************************************)
EXTENDS Resolve, DataLemmas

Part == Component \ {<< >>}

FrameOf(v) == [cur : RecordOf(v), parts : Seq(Part), followFinal : BOOLEAN]

---------------------------------------------------------------------------
(* What the recursive definitions compute *)

LEMMA SplitPathParts ==
  ASSUME NEW p \in Seq(Component)
  PROVE  SplitPath(p) \in Seq(Part)
<1> DEFINE n == Len(p)
           Take(i, s) == IF p[i] \in {<< >>, <<".">>} THEN s ELSE Append(s, p[i])
           K(kept) == kept = [i \in 0..n |-> IF i = 0 THEN << >> ELSE Take(i, kept[i - 1])]
           g == [i \in 1..n |-> [s \in Seq(Part) |-> Take(i, s)]]
           kept == CHOOSE f : K(f)
<1>1. n \in Nat /\ \A i \in 1..n : p[i] \in Component
  OBVIOUS
<1>2. ASSUME NEW i \in 1..n, NEW s \in Seq(Part)
      PROVE  Take(i, s) \in Seq(Part)
  BY <1>1 DEF Part
<1>3. SplitPath(p) = kept[n]
  BY DEF SplitPath
<1>4. << >> \in Seq(Part)
  OBVIOUS
<1> HIDE DEF Take, n
<1>5. g \in [1..n -> [Seq(Part) -> Seq(Part)]] /\ \A i \in 1..n, s \in Seq(Part) : g[i][s] = Take(i, s)
  BY <1>2
<1> HIDE DEF g
<1>6. PICK f \in [0..n -> Seq(Part)] : f[0] = << >> /\ \A i \in 1..n : f[i] = g[i][f[i - 1]]
  <2>1. Steps(n, Seq(Part), << >>, g)
    BY <1>1, <1>4, <1>5, Zenon DEF Steps
  <2>2. PICK f : Takes(n, Seq(Part), << >>, g, f)
    BY <2>1, RecursionExists, Zenon
  <2> QED BY <2>2, Zenon DEF Takes
<1>7. K(f)
  <2>1. \A i \in 1..n : f[i - 1] \in Seq(Part)
    BY <1>1
  <2>2. \A i \in 0..n : f[i] = IF i = 0 THEN << >> ELSE Take(i, f[i - 1])
    BY <1>1, <1>5, <1>6, <2>1
  <2>3. f = [i \in 0..n |-> f[i]]
    OBVIOUS
  <2> QED BY <2>2, <2>3
<1>8. K(kept)
  <2> HIDE DEF K
  <2> QED BY <1>7, Zenon
<1>9. \A i \in 0..n : kept[i] = IF i = 0 THEN << >> ELSE Take(i, kept[i - 1])
  <2> HIDE DEF kept
  <2> QED BY <1>8
<1> HIDE DEF kept, K
<1>10. kept[0] \in Seq(Part) /\ \A i \in 1..n : kept[i - 1] \in Seq(Part) => kept[i] \in Seq(Part)
  <2>1. kept[0] = << >> /\ \A i \in 1..n : kept[i] = Take(i, kept[i - 1])
    BY <1>1, <1>9
  <2> QED BY <1>2, <1>4, <2>1, Zenon
<1>11. \A i \in 0..n : kept[i] \in Seq(Part)
  BY <1>1, <1>10, StaysIn
<1> QED BY <1>1, <1>3, <1>11

(* The stack of frames: what is left to walk, from the outermost frame in. *)
IsStack(frames) ==
  /\ Len(frames) \in Nat
  /\ \A i \in 1..Len(frames) : frames[i].parts \in Seq(Part)

LEMMA RemainingSums ==
  ASSUME NEW s, IsStack(s)
  PROVE  \E u : /\ Remaining(s) = u[Len(s)] /\ u[0] = << >>
                /\ \A k \in 0..Len(s) : u[k] \in Seq(Part)
                /\ \A k \in 1..Len(s) : u[k] = s[k].parts \o u[k - 1]
<1> DEFINE n == Len(s)
           Join(k, x) == s[k].parts \o x
           K(u) == u = [k \in 0..n |-> IF k = 0 THEN << >> ELSE Join(k, u[k - 1])]
           g == [k \in 1..n |-> [x \in Seq(Part) |-> Join(k, x)]]
           upTo == CHOOSE u : K(u)
<1>1. n \in Nat /\ \A k \in 1..n : s[k].parts \in Seq(Part)
  BY DEF IsStack
<1>2. ASSUME NEW k \in 1..n, NEW x \in Seq(Part)
      PROVE  Join(k, x) \in Seq(Part)
  BY <1>1
<1>3. Remaining(s) = upTo[n]
  BY DEF Remaining
<1>4. << >> \in Seq(Part)
  OBVIOUS
<1> HIDE DEF Join, n
<1>5. g \in [1..n -> [Seq(Part) -> Seq(Part)]] /\ \A k \in 1..n, x \in Seq(Part) : g[k][x] = Join(k, x)
  BY <1>2
<1> HIDE DEF g
<1>6. PICK u \in [0..n -> Seq(Part)] : u[0] = << >> /\ \A k \in 1..n : u[k] = g[k][u[k - 1]]
  <2>1. Steps(n, Seq(Part), << >>, g)
    BY <1>1, <1>4, <1>5, Zenon DEF Steps
  <2>2. PICK u : Takes(n, Seq(Part), << >>, g, u)
    BY <2>1, RecursionExists, Zenon
  <2> QED BY <2>2, Zenon DEF Takes
<1>7. K(u)
  <2>1. \A k \in 1..n : u[k - 1] \in Seq(Part)
    BY <1>1
  <2>2. \A k \in 0..n : u[k] = IF k = 0 THEN << >> ELSE Join(k, u[k - 1])
    BY <1>1, <1>5, <1>6, <2>1
  <2>3. u = [k \in 0..n |-> u[k]]
    OBVIOUS
  <2> QED BY <2>2, <2>3
<1>8. K(upTo)
  <2> HIDE DEF K
  <2> QED BY <1>7, Zenon
<1>9. \A k \in 0..n : upTo[k] = IF k = 0 THEN << >> ELSE Join(k, upTo[k - 1])
  <2> HIDE DEF upTo
  <2> QED BY <1>8
<1> HIDE DEF upTo, K
<1>10. upTo[0] = << >> /\ \A k \in 1..n : upTo[k] = Join(k, upTo[k - 1])
  BY <1>1, <1>9
<1>11. \A k \in 0..n : upTo[k] \in Seq(Part)
  <2>1. upTo[0] \in Seq(Part) /\ \A k \in 1..n : upTo[k - 1] \in Seq(Part) => upTo[k] \in Seq(Part)
    BY <1>2, <1>4, <1>10, Zenon
  <2> QED BY <1>1, <2>1, StaysIn
<1> QED BY <1>1, <1>3, <1>10, <1>11 DEF Join, n

(* s is the stack t, at least its components, and one frame more.          *)
Extends(s, t) ==
  /\ IsStack(s) /\ IsStack(t) /\ Len(s) = Len(t) + 1
  /\ \A i \in 1..Len(t) : t[i].parts = s[i].parts

LEMMA RemainingGrows ==
  ASSUME NEW s, NEW t, Extends(s, t)
  PROVE  /\ Remaining(t) \in Seq(Part)
         /\ Remaining(s) = s[Len(s)].parts \o Remaining(t)
<1>1. PICK u : /\ Remaining(s) = u[Len(s)] /\ u[0] = << >>
               /\ \A k \in 0..Len(s) : u[k] \in Seq(Part)
               /\ \A k \in 1..Len(s) : u[k] = s[k].parts \o u[k - 1]
  BY RemainingSums DEF Extends
<1>2. PICK w : /\ Remaining(t) = w[Len(t)] /\ w[0] = << >>
               /\ \A k \in 0..Len(t) : w[k] \in Seq(Part)
               /\ \A k \in 1..Len(t) : w[k] = t[k].parts \o w[k - 1]
  BY RemainingSums DEF Extends
<1> DEFINE n == Len(t)
<1>3. n \in Nat /\ Len(s) = n + 1 /\ \A i \in 1..n : t[i].parts = s[i].parts
  BY DEF Extends, IsStack
<1>4. ASSUME NEW k \in 1..n, u[k - 1] = w[k - 1]
      PROVE  u[k] = w[k]
  <2>1. k \in 1..Len(s) /\ k \in 1..Len(t)
    BY <1>3
  <2>2. u[k] = s[k].parts \o u[k - 1] /\ w[k] = t[k].parts \o w[k - 1] /\ t[k].parts = s[k].parts
    BY <1>1, <1>2, <1>3, <2>1, Zenon
  <2> QED BY <1>4, <2>2, Zenon
<1>5. n \in Nat /\ u[0] = w[0]
  BY <1>1, <1>2, <1>3
<1> HIDE DEF n
<1>6. \A k \in 0..n : u[k] = w[k]
  BY <1>4, <1>5, StaysEqual
<1>7. n \in 0..n /\ n + 1 \in 1..(n + 1) /\ (n + 1) - 1 = n
  BY <1>5
<1>8. u[n] = w[n] /\ w[n] \in Seq(Part)
  BY <1>2, <1>6, <1>7 DEF n
<1>9. u[n + 1] = s[n + 1].parts \o u[n]
  BY <1>1, <1>3, <1>7, Zenon
<1> QED BY <1>1, <1>2, <1>3, <1>8, <1>9, Zenon DEF n

LEMMA RemainingOfOne ==
  ASSUME NEW s, IsStack(s), Len(s) = 1
  PROVE  Remaining(s) = s[1].parts
<1>1. PICK u : /\ Remaining(s) = u[Len(s)] /\ u[0] = << >>
               /\ \A k \in 0..Len(s) : u[k] \in Seq(Part)
               /\ \A k \in 1..Len(s) : u[k] = s[k].parts \o u[k - 1]
  BY RemainingSums
<1>2. 1 \in 1..Len(s) /\ 1 - 1 = 0
  OBVIOUS
<1>3. u[1] = s[1].parts \o u[0]
  BY <1>1, <1>2
<1>4. Remaining(s) = s[1].parts \o << >> /\ s[1].parts \in Seq(Part)
  BY <1>1, <1>2, <1>3, Zenon DEF IsStack
<1> QED BY <1>4

(* As long as the outermost frame has components, something is left.       *)
LEMMA RemainingOutermost ==
  ASSUME NEW s, IsStack(s), Len(s) >= 1, s[1].parts # << >>
  PROVE  Remaining(s) # << >>
<1>1. PICK u : /\ Remaining(s) = u[Len(s)] /\ u[0] = << >>
               /\ \A k \in 0..Len(s) : u[k] \in Seq(Part)
               /\ \A k \in 1..Len(s) : u[k] = s[k].parts \o u[k - 1]
  BY RemainingSums
<1> DEFINE m == Len(s) - 1
           S == Seq(Part) \ {<< >>}
           f == [k \in 0..m |-> u[k + 1]]
<1>2. m \in Nat /\ Len(s) = m + 1
  BY DEF IsStack
<1>3. f[0] \in S
  <2>1. 1 \in 1..Len(s) /\ 1 - 1 = 0 /\ 0 + 1 = 1 /\ 0 \in 0..m
    BY <1>2
  <2>2. u[1] = s[1].parts \o << >> /\ s[1].parts \in Seq(Part)
    BY <1>1, <2>1, Zenon DEF IsStack
  <2> QED BY <2>1, <2>2
<1>4. ASSUME NEW k \in 1..m, f[k - 1] \in S
      PROVE  f[k] \in S
  <2>1. k + 1 \in 1..Len(s) /\ k \in 0..m /\ k - 1 \in 0..m /\ (k - 1) + 1 = k /\ (k + 1) - 1 = k
    <3> HIDE DEF m
    <3> QED BY <1>2
  <2>2. u[k + 1] = s[k + 1].parts \o u[k] /\ s[k + 1].parts \in Seq(Part) /\ u[k] \in S
    BY <1>1, <1>4, <2>1 DEF IsStack
  <2>3. u[k + 1] \in S
    BY <2>2
  <2> QED BY <2>1, <2>3
<1> HIDE DEF m, S, f
<1>5. \A k \in 0..m : f[k] \in S
  BY <1>2, <1>3, <1>4, StaysIn
<1>6. m \in 0..m /\ f[m] = u[Len(s)]
  BY <1>2 DEF f
<1> QED BY <1>1, <1>5, <1>6 DEF S

---------------------------------------------------------------------------
(* The work a stack may still do *)

(* No target has more components than Widest. It exists because an image   *)
(* has finitely many records.                                              *)
LEMMA WidestBounds ==
  ASSUME NEW v \in Volumes
  PROVE  /\ Widest(v) \in Nat
         /\ \A d \in DOMAIN v.entries : \A i \in 1..Len(v.entries[d]) :
              Len(SplitPath(v.entries[d][i].target)) <= Widest(v)
<1> DEFINE D == DOMAIN v.entries
           L(d, i) == Len(SplitPath(v.entries[d][i].target))
           sizes(d) == {L(d, i) : i \in 1..Len(v.entries[d])}
           T == {0} \cup UNION {sizes(d) : d \in D}
<1>1. /\ IsFiniteSet(D)
      /\ \A d \in D : /\ Len(v.entries[d]) \in Nat
                      /\ \A i \in 1..Len(v.entries[d]) : v.entries[d][i] \in RecordOf(v)
  BY ResolveAssumption
<1>2. ASSUME NEW d \in D, NEW i \in 1..Len(v.entries[d])
      PROVE  L(d, i) \in Nat
  <2>1. v.entries[d][i].target \in Seq(Component)
    BY <1>1 DEF RecordOf
  <2> QED BY <2>1, SplitPathParts
<1>3. Widest(v) = Max(T)
  BY DEF Widest
<1> HIDE DEF L
<1>4. ASSUME NEW d \in D
      PROVE  \E b \in Nat : \A i \in 1..Len(v.entries[d]) : L(d, i) <= b
  <2> DEFINE I == 1..Len(v.entries[d])
             f == [i \in I |-> L(d, i)]
  <2>1. IsFiniteSet(I)
    BY <1>1, FS_Interval
  <2>2. f \in [I -> Nat] /\ \A i \in I : f[i] = L(d, i)
    BY <1>2
  <2> HIDE DEF f, I
  <2>3. \E b \in Nat : \A i \in I : f[i] <= b
    BY <2>1, <2>2, FiniteBound
  <2> QED BY <2>2, <2>3 DEF I
<1> DEFINE Above(d, b) == \A i \in 1..Len(v.entries[d]) : L(d, i) <= b
           c == [d \in D |-> CHOOSE b \in Nat : Above(d, b)]
<1>5. \A d \in D : (CHOOSE b \in Nat : Above(d, b)) \in Nat /\ Above(d, CHOOSE b \in Nat : Above(d, b))
  <2>1. \A d \in D : \E b \in Nat : Above(d, b)
    BY <1>4
  <2> HIDE DEF Above
  <2> QED BY <2>1
<1>6. c \in [D -> Nat] /\ \A d \in D : Above(d, c[d])
  <2> HIDE DEF Above
  <2> QED BY <1>5
<1> HIDE DEF c
<1>7. PICK b \in Nat : \A d \in D : c[d] <= b
  <2> HIDE DEF D
  <2> QED BY <1>1, <1>6, FiniteBound
<1>8. T \in SUBSET Nat /\ T # {}
  BY <1>2
<1>9. \A x \in T : x <= b
  <2> SUFFICES ASSUME NEW x \in T PROVE x <= b
    OBVIOUS
  <2>1. CASE x = 0
    BY <2>1
  <2>2. CASE x # 0
    <3>1. PICK d \in D : \E i \in 1..Len(v.entries[d]) : x = L(d, i)
      BY <2>2
    <3>2. PICK i \in 1..Len(v.entries[d]) : x = L(d, i)
      BY <3>1
    <3>3. x <= c[d] /\ c[d] <= b /\ x \in Nat /\ c[d] \in Nat
      BY <1>2, <1>6, <1>7, <3>2
    <3> QED BY <3>3
  <2> QED BY <2>1, <2>2
<1>10. ASSUME NEW d \in D, NEW i \in 1..Len(v.entries[d])
       PROVE  L(d, i) \in T
  OBVIOUS
<1> HIDE DEF T, D
<1>11. PICK w \in T : \A x \in T : x <= w
  BY <1>8, <1>9, GreatestNatural
<1>12. Max(T) \in T /\ \A x \in T : Max(T) >= x
  <2>1. w \in T /\ \A x \in T : w >= x
    BY <1>8, <1>11
  <2> QED BY <2>1 DEF Max
<1>13. Max(T) \in Nat /\ \A x \in T : x <= Max(T)
  BY <1>8, <1>12
<1> QED BY <1>3, <1>10, <1>13 DEF D, L

LEMMA WithinSteps ==
  ASSUME NEW v \in Volumes
  PROVE  /\ \A h \in 0..MaxHops : Within(v)[h] \in Nat
         /\ Within(v)[0] = 0
         /\ \A h \in 1..MaxHops : Within(v)[h] = 1 + Widest(v) * Within(v)[h - 1]
<1>1. PICK w \in Nat : w = Widest(v)
  BY WidestBounds
<1> DEFINE n == MaxHops
           More(h, x) == 1 + w * x
           K(f) == f = [h \in 0..n |-> IF h = 0 THEN 0 ELSE More(h, f[h - 1])]
           g == [h \in 1..n |-> [x \in Nat |-> More(h, x)]]
           within == CHOOSE f : K(f)
<1>2. n \in Nat /\ \A h \in 1..n, x \in Nat : More(h, x) \in Nat
  BY ResolveAssumption
<1>3. Within(v) = within
  BY <1>1 DEF Within
<1> HIDE DEF More, n
<1>4. g \in [1..n -> [Nat -> Nat]] /\ \A h \in 1..n, x \in Nat : g[h][x] = More(h, x)
  BY <1>2
<1> HIDE DEF g
<1>5. PICK f \in [0..n -> Nat] : f[0] = 0 /\ \A h \in 1..n : f[h] = g[h][f[h - 1]]
  <2>1. Steps(n, Nat, 0, g)
    BY <1>2, <1>4 DEF Steps
  <2>2. PICK f : Takes(n, Nat, 0, g, f)
    BY <2>1, RecursionExists, Zenon
  <2> QED BY <2>2, Zenon DEF Takes
<1>6. K(f)
  <2>1. \A h \in 1..n : f[h - 1] \in Nat
    BY <1>2
  <2>2. \A h \in 0..n : f[h] = IF h = 0 THEN 0 ELSE More(h, f[h - 1])
    <3>1. \A h \in 1..n : f[h] = More(h, f[h - 1])
      BY <1>4, <1>5, <2>1, Zenon
    <3> QED BY <1>2, <1>5, <3>1
  <2>3. f = [h \in 0..n |-> f[h]]
    OBVIOUS
  <2> QED BY <2>2, <2>3
<1>7. K(within)
  <2> HIDE DEF K
  <2> QED BY <1>6, Zenon
<1>8. \A h \in 0..n : within[h] = IF h = 0 THEN 0 ELSE More(h, within[h - 1])
  <2> HIDE DEF within
  <2> QED BY <1>7
<1> HIDE DEF within, K
<1>9. within[0] = 0 /\ \A h \in 1..n : within[h] = More(h, within[h - 1])
  BY <1>2, <1>8
<1>10. \A h \in 0..n : within[h] \in Nat
  <2>1. within[0] \in Nat
    BY <1>9
  <2>2. \A h \in 1..n : within[h - 1] \in Nat => within[h] \in Nat
    BY <1>2, <1>9, Zenon
  <2> QED BY <1>2, <2>1, <2>2, StaysIn
<1> QED BY <1>1, <1>3, <1>9, <1>10 DEF More, n

(* Cost(v, k): the links a component of frame k may lead through.          *)
Cost(v, k) == IF k <= MaxHops + 1 THEN Within(v)[MaxHops + 1 - k] ELSE 0

Left(v, frames) ==
  LET sum[k \in 0..Len(frames)] ==
        IF k = 0 THEN 0 ELSE sum[k - 1] + Len(frames[k].parts) * Cost(v, k)
  IN sum[Len(frames)]

LEMMA CostSteps ==
  ASSUME NEW v \in Volumes, NEW k \in Nat \ {0}
  PROVE  /\ Cost(v, k) \in Nat
         /\ k <= MaxHops => Cost(v, k) = 1 + Widest(v) * Cost(v, k + 1)
         /\ k > MaxHops => Cost(v, k) = 0
<1>1. MaxHops \in Nat
  BY ResolveAssumption
<1>2. CASE k <= MaxHops
  <2>1. /\ MaxHops + 1 - k \in 1..MaxHops /\ MaxHops + 1 - k - 1 = MaxHops + 1 - (k + 1)
        /\ MaxHops + 1 - k \in 0..MaxHops /\ k <= MaxHops + 1 /\ k + 1 <= MaxHops + 1
    BY <1>1, <1>2
  <2> QED BY <1>1, <1>2, <2>1, WithinSteps DEF Cost
<1>3. CASE k = MaxHops + 1
  <2>1. MaxHops + 1 - k = 0 /\ 0 \in 0..MaxHops
    BY <1>1, <1>3
  <2> QED BY <1>1, <1>3, <2>1, WithinSteps DEF Cost
<1>4. CASE k > MaxHops + 1
  BY <1>1, <1>4 DEF Cost
<1> QED BY <1>1, <1>2, <1>3, <1>4

LEMMA LeftSums ==
  ASSUME NEW v \in Volumes, NEW s, IsStack(s)
  PROVE  \E u : /\ Left(v, s) = u[Len(s)] /\ u[0] = 0
                /\ \A k \in 0..Len(s) : u[k] \in Nat
                /\ \A k \in 1..Len(s) : u[k] = u[k - 1] + Len(s[k].parts) * Cost(v, k)
<1> DEFINE n == Len(s)
           Value(k) == Len(s[k].parts) * Cost(v, k)
           K(u) == u = [k \in 0..n |-> IF k = 0 THEN 0 ELSE u[k - 1] + Value(k)]
           sum == CHOOSE u : K(u)
           w == [k \in 1..n |-> Value(k)]
<1>1. n \in Nat
  BY DEF IsStack
<1>2. ASSUME NEW k \in 1..n
      PROVE  Value(k) \in Nat
  <2>1. Len(s[k].parts) \in Nat
    BY DEF IsStack
  <2>2. Cost(v, k) \in Nat
    BY <1>1, CostSteps
  <2> QED BY <2>1, <2>2
<1>3. Left(v, s) = sum[n]
  BY DEF Left
<1> HIDE DEF Value, n
<1>4. w \in [1..n -> Nat] /\ \A k \in 1..n : w[k] = Value(k)
  BY <1>2
<1> HIDE DEF w
<1> DEFINE J(u) == u = [k \in 0..n |-> IF k = 0 THEN 0 ELSE u[k - 1] + w[k]]
<1>5. PICK u : J(u)
  BY <1>1, <1>4, SumsExist
<1>6. K(u)
  <2>1. \A k \in 0..n : u[k] = IF k = 0 THEN 0 ELSE u[k - 1] + w[k]
    BY <1>5
  <2>2. \A k \in 0..n : u[k] = IF k = 0 THEN 0 ELSE u[k - 1] + Value(k)
    BY <1>1, <1>4, <2>1
  <2>3. u = [k \in 0..n |-> u[k]]
    BY <1>5
  <2> HIDE DEF J
  <2> QED BY <2>2, <2>3
<1>7. K(sum)
  <2> HIDE DEF K
  <2> QED BY <1>6, Zenon
<1>8. \A k \in 0..n : sum[k] = IF k = 0 THEN 0 ELSE sum[k - 1] + Value(k)
  <2> HIDE DEF sum
  <2> QED BY <1>7
<1> HIDE DEF sum, K, J
<1>9. sum[0] = 0 /\ \A k \in 1..n : sum[k] = sum[k - 1] + Value(k)
  BY <1>1, <1>8
<1>10. \A k \in 0..n : sum[k] \in Nat
  <2>1. sum[0] \in Nat /\ \A k \in 1..n : sum[k - 1] \in Nat => sum[k] \in Nat
    BY <1>1, <1>2, <1>9
  <2> QED BY <1>1, <2>1, StaysIn
<1> QED BY <1>3, <1>9, <1>10 DEF Value, n

LEMMA LeftGrows ==
  ASSUME NEW v \in Volumes, NEW s, NEW t, Extends(s, t)
  PROVE  /\ Left(v, t) \in Nat
         /\ Left(v, s) = Left(v, t) + Len(s[Len(s)].parts) * Cost(v, Len(s))
<1>1. PICK u : /\ Left(v, s) = u[Len(s)] /\ u[0] = 0
               /\ \A k \in 0..Len(s) : u[k] \in Nat
               /\ \A k \in 1..Len(s) : u[k] = u[k - 1] + Len(s[k].parts) * Cost(v, k)
  BY LeftSums DEF Extends
<1>2. PICK w : /\ Left(v, t) = w[Len(t)] /\ w[0] = 0
               /\ \A k \in 0..Len(t) : w[k] \in Nat
               /\ \A k \in 1..Len(t) : w[k] = w[k - 1] + Len(t[k].parts) * Cost(v, k)
  BY LeftSums DEF Extends
<1> DEFINE n == Len(t)
<1>3. n \in Nat /\ Len(s) = n + 1 /\ \A i \in 1..n : t[i].parts = s[i].parts
  BY DEF Extends, IsStack
<1>4. ASSUME NEW k \in 1..n, u[k - 1] = w[k - 1]
      PROVE  u[k] = w[k]
  <2>1. k \in 1..Len(s) /\ k \in 1..Len(t)
    BY <1>3
  <2>2. /\ u[k] = u[k - 1] + Len(s[k].parts) * Cost(v, k)
        /\ w[k] = w[k - 1] + Len(t[k].parts) * Cost(v, k)
        /\ t[k].parts = s[k].parts
    BY <1>1, <1>2, <1>3, <2>1, Zenon
  <2> QED BY <1>4, <2>2, Zenon
<1>5. n \in Nat /\ u[0] = w[0]
  BY <1>1, <1>2, <1>3
<1> HIDE DEF n
<1>6. \A k \in 0..n : u[k] = w[k]
  BY <1>4, <1>5, StaysEqual
<1>7. n \in 0..n /\ n + 1 \in 1..(n + 1) /\ (n + 1) - 1 = n
  BY <1>5
<1> QED BY <1>1, <1>2, <1>3, <1>6, <1>7 DEF n

---------------------------------------------------------------------------
(* The invariant *)

TypeInv ==
  /\ volume \in Volumes /\ op \in Ops /\ path \in Paths
  /\ stack \in Seq(FrameOf(volume))
  /\ Len(stack) \in 1..(MaxHops + 2)
  /\ followed \in Nat
  /\ outcome \in {"walking", "found", "tooManyLinks", "notDirectory", "notFound", "readError"}
  /\ outcome = "walking" => answer = "none"

(* The final link is followed in the innermost frame, and the record comes *)
(* back through the frames that wait for it: every frame follows final     *)
(* links unless it is the outermost one of a ReadLink, one that follows    *)
(* them never rests on a link, and one that does not waits for a link only *)
(* in the middle of its path.                                              *)
Following ==
  /\ \A i \in 1..Len(stack) :
       /\ stack[i].followFinal => stack[i].cur.kind # "link"
       /\ i > 1 => stack[i].followFinal
       /\ i < Len(stack) => stack[i].followFinal \/ stack[i].parts # << >>
  /\ stack[1].followFinal = (op \in FollowedOps)
  /\ outcome = "found" => Len(stack) = 1
  /\ followed >= Len(stack) - 1

(* What was followed and what the stack may still lead to stay within the  *)
(* bound, but for the link that led into a frame too deep.                 *)
WorkLeft ==
  followed + Left(volume, stack) <= MostLinks + (IF Len(stack) > MaxHops + 1 THEN 1 ELSE 0)

IInv == TypeInv /\ Following /\ WorkLeft

---------------------------------------------------------------------------
(* Frames and records *)

LEMMA FramesAreStacks ==
  ASSUME NEW v, NEW s \in Seq(FrameOf(v))
  PROVE  /\ IsStack(s)
         /\ \A i \in 1..Len(s) : s[i] \in FrameOf(v)
<1>1. Len(s) \in Nat /\ \A i \in 1..Len(s) : s[i] \in FrameOf(v)
  OBVIOUS
<1>2. \A x \in FrameOf(v) : x.parts \in Seq(Part)
  BY DEF FrameOf
<1> QED BY <1>1, <1>2, Zenon DEF IsStack

LEMMA TopFrame ==
  ASSUME TypeInv
  PROVE  /\ Len(stack) \in Nat /\ Len(stack) >= 1 /\ IsStack(stack) /\ MaxHops \in Nat
         /\ Top = stack[Len(stack)] /\ Top \in FrameOf(volume)
         /\ Top.cur \in RecordOf(volume) /\ Top.parts \in Seq(Part)
         /\ Top.followFinal \in BOOLEAN
         /\ volume \in Volumes
<1>1. Len(stack) \in Nat /\ Len(stack) >= 1 /\ MaxHops \in Nat
  BY ResolveAssumption DEF TypeInv
<1>2. IsStack(stack) /\ Top \in FrameOf(volume)
  BY <1>1, FramesAreStacks DEF TypeInv, Top
<1> QED BY <1>1, <1>2 DEF Top, FrameOf, TypeInv

LEMMA RootRecord ==
  ASSUME NEW v \in Volumes
  PROVE  v.root \in RecordOf(v) /\ v.root.kind = "dir"
BY ResolveAssumption

(* A frame for a record and the components of a path.                      *)
LEMMA NewFrame ==
  ASSUME NEW v, NEW start \in RecordOf(v), NEW parts \in Seq(Part), NEW ff \in BOOLEAN
  PROVE  /\ Frame(start, parts, ff) \in FrameOf(v)
         /\ Frame(start, parts, ff).cur = start
         /\ Frame(start, parts, ff).parts = parts
         /\ Frame(start, parts, ff).followFinal = ff
BY DEF Frame, FrameOf

LEMMA TailOfParts ==
  ASSUME NEW s \in Seq(Part), s # << >>
  PROVE  /\ Head(s) \in Part /\ Tail(s) \in Seq(Part)
         /\ Len(s) \in Nat /\ Len(s) >= 1 /\ Len(Tail(s)) = Len(s) - 1
         /\ Len(s) = 1 <=> Tail(s) = << >>
<1>1. Len(s) \in Nat /\ Len(s) >= 1
  OBVIOUS
<1>2. Head(s) \in Part /\ Tail(s) \in Seq(Part) /\ Len(Tail(s)) = Len(s) - 1
  BY <1>1
<1> PICK t \in Seq(Part) : t = Tail(s)
  BY <1>2
<1>3. Len(t) = 0 <=> t = << >>
  BY EmptySequence
<1> QED BY <1>1, <1>2, <1>3

(* The records of a directory lie in the image, and the first of those that *)
(* match a component is one of them.                                       *)
LEMMA ChildMatches ==
  ASSUME volume \in Volumes, NEW d \in RecordOf(volume), d.kind = "dir", NEW name,
         Matches(d, name) # {}
  PROVE  /\ Child(d, name) \in RecordOf(volume)
         /\ \E i \in Matches(d, name) : Child(d, name) = EntriesOf(d)[i]
<1>1. EntriesOf(d) \in Seq(RecordOf(volume))
  BY ResolveAssumption DEF EntriesOf, RecordOf
<1>2. Matches(d, name) \in SUBSET (1..Len(EntriesOf(d)))
  BY DEF Matches
<1>3. Len(EntriesOf(d)) \in Nat
  BY <1>1
<1> PICK M : M = Matches(d, name)
  OBVIOUS
<1>4. M \in SUBSET Nat /\ M # {}
  BY <1>2, <1>3
<1>5. PICK m \in M : \A j \in M : m <= j
  BY <1>4, LeastNatural
<1>6. Min(M) \in M
  BY <1>5 DEF Min
<1>7. Child(d, name) = EntriesOf(d)[Min(M)]
  BY DEF Child
<1> QED BY <1>1, <1>2, <1>6, <1>7

---------------------------------------------------------------------------
(* The steps, as what they do to the stack *)

(* The frames below frame n stay as they are.                              *)
Untouched(n) == \A i \in 1..(n - 1) : stack'[i] = stack[i]

(* A link is followed: the innermost frame waits for one that walks it.    *)
Pushed(n, e) ==
  /\ n <= MaxHops + 1 /\ outcome = "walking"
  /\ e \in RecordOf(volume) /\ e.kind = "link"
  /\ Base(e, Top.cur).kind # "link" /\ Len(SplitPath(e.target)) <= Widest(volume)
  /\ Top.parts # << >> /\ (Tail(Top.parts) # << >> \/ Top.followFinal)
  /\ stack' \in Seq(FrameOf(volume)) /\ Len(stack') = n + 1 /\ Untouched(n)
  /\ stack'[n].cur = Top.cur /\ stack'[n].parts = Tail(Top.parts)
  /\ stack'[n].followFinal = Top.followFinal
  /\ stack'[n + 1].cur = Base(e, Top.cur) /\ stack'[n + 1].parts = SplitPath(e.target)
  /\ stack'[n + 1].followFinal
  /\ followed' = followed + 1 /\ outcome' = outcome

(* A record is entered in the innermost frame.                             *)
Entered(n, e) ==
  /\ n <= MaxHops + 1 /\ outcome = "walking"
  /\ e \in RecordOf(volume) /\ ~(e.kind = "link" /\ (Tail(Top.parts) # << >> \/ Top.followFinal))
  /\ Top.parts # << >>
  /\ stack' \in Seq(FrameOf(volume)) /\ Len(stack') = n /\ Untouched(n)
  /\ stack'[n].cur = e /\ stack'[n].parts = Tail(Top.parts)
  /\ stack'[n].followFinal = Top.followFinal
  /\ followed' = followed /\ outcome' = outcome

(* The innermost frame returns to the one that waits for it.               *)
Popped(n) ==
  /\ 1 < n /\ n <= MaxHops + 1 /\ outcome = "walking" /\ Top.parts = << >>
  /\ stack' \in Seq(FrameOf(volume)) /\ Len(stack') = n - 1 /\ Untouched(n - 1)
  /\ stack'[n - 1].cur = Top.cur /\ stack'[n - 1].parts = stack[n - 1].parts
  /\ stack'[n - 1].followFinal = stack[n - 1].followFinal
  /\ followed' = followed /\ outcome' = outcome

LEMMA DescendShape ==
  ASSUME TypeInv, Descend, NEW n, n = Len(stack), NEW e, e = Child(Top.cur, Head(Top.parts))
  PROVE  /\ Top.cur.kind = "dir" /\ Matches(Top.cur, Head(Top.parts)) # {}
         /\ Pushed(n, e) \/ Entered(n, e)
<1>1. /\ n \in Nat /\ n >= 1 /\ n <= MaxHops + 1 /\ stack \in Seq(FrameOf(volume))
      /\ MaxHops \in Nat /\ outcome = "walking" /\ outcome' = outcome
      /\ Top = stack[n] /\ Top \in FrameOf(volume) /\ Top.parts # << >>
      /\ Top.cur.kind = "dir" /\ Matches(Top.cur, Head(Top.parts)) # {}
  BY TopFrame DEF Descend, InLoop, Stepping, Hops, TypeInv
<1>2. /\ Top.cur \in RecordOf(volume) /\ Top.parts \in Seq(Part) /\ Top.followFinal \in BOOLEAN
      /\ volume \in Volumes
  BY TopFrame
<1>3. e \in RecordOf(volume)
  BY <1>1, <1>2, ChildMatches
<1>4. Tail(Top.parts) \in Seq(Part) /\ (Len(Top.parts) = 1 <=> Tail(Top.parts) = << >>)
  BY <1>1, <1>2, TailOfParts
<1>5. Base(e, Top.cur) \in RecordOf(volume)
  BY <1>2, RootRecord DEF Base
<1>6. SplitPath(e.target) \in Seq(Part)
  <2>1. e.target \in Seq(Component)
    BY <1>3 DEF RecordOf
  <2> QED BY <2>1, SplitPathParts
<1>12. Base(e, Top.cur).kind # "link"
  BY <1>1, <1>2, RootRecord DEF Base
<1>13. Len(SplitPath(e.target)) <= Widest(volume)
  <2>1. PICK i \in Matches(Top.cur, Head(Top.parts)) : e = EntriesOf(Top.cur)[i]
    BY <1>1, <1>2, ChildMatches
  <2>2. Top.cur.node \in DOMAIN volume.entries
    BY <1>1, <1>2 DEF RecordOf
  <2>3. i \in 1..Len(volume.entries[Top.cur.node]) /\ e = volume.entries[Top.cur.node][i]
    BY <2>1 DEF Matches, EntriesOf
  <2> QED BY <1>2, <2>2, <2>3, WidestBounds
<1> DEFINE rest == [Top EXCEPT !.parts = Tail(Top.parts)]
           on == [rest EXCEPT !.cur = e]
           inner == Frame(Base(e, Top.cur), SplitPath(e.target), TRUE)
<1>7. /\ rest \in FrameOf(volume) /\ rest.cur = Top.cur /\ rest.parts = Tail(Top.parts)
      /\ rest.followFinal = Top.followFinal
      /\ on \in FrameOf(volume) /\ on.cur = e /\ on.parts = Tail(Top.parts)
      /\ on.followFinal = Top.followFinal
  BY <1>1, <1>3, <1>4 DEF FrameOf
<1>8. /\ inner \in FrameOf(volume) /\ inner.cur = Base(e, Top.cur)
      /\ inner.parts = SplitPath(e.target) /\ inner.followFinal
  <2> DEFINE b == Base(e, Top.cur)
             p == SplitPath(e.target)
  <2> HIDE DEF b, p
  <2>1. b \in RecordOf(volume) /\ p \in Seq(Part)
    BY <1>5, <1>6 DEF b, p
  <2>2. /\ Frame(b, p, TRUE) \in FrameOf(volume) /\ Frame(b, p, TRUE).cur = b
        /\ Frame(b, p, TRUE).parts = p /\ Frame(b, p, TRUE).followFinal
    BY <2>1 DEF Frame, FrameOf
  <2> QED BY <2>2 DEF b, p
<1>9. \/ /\ e.kind = "link" /\ (Tail(Top.parts) # << >> \/ Top.followFinal)
         /\ stack' = Append([stack EXCEPT ![n] = rest], inner) /\ followed' = followed + 1
      \/ /\ ~(e.kind = "link" /\ (Tail(Top.parts) # << >> \/ Top.followFinal))
         /\ stack' = [stack EXCEPT ![n] = on] /\ followed' = followed
  <2>1. MustFollow(e, Len(Top.parts) = 1, Top.followFinal)
          <=> e.kind = "link" /\ (Tail(Top.parts) # << >> \/ Top.followFinal)
    BY <1>4 DEF MustFollow
  <2>2. rest = [stack[n] EXCEPT !.parts = Tail(@)]
    BY <1>1
  <2>3. [stack EXCEPT ![n].parts = Tail(@)] = [stack EXCEPT ![n] = rest]
    BY <2>2
  <2>4. [stack EXCEPT ![n].cur = e, ![n].parts = Tail(@)] = [stack EXCEPT ![n] = on]
    BY <1>1
  <2> HIDE DEF rest, on, inner
  <2>5. \/ /\ MustFollow(e, Len(Top.parts) = 1, Top.followFinal)
           /\ stack' = Append([stack EXCEPT ![n].parts = Tail(@)],
                              Frame(Base(e, Top.cur), SplitPath(e.target), TRUE))
           /\ followed' = followed + 1
        \/ /\ ~MustFollow(e, Len(Top.parts) = 1, Top.followFinal)
           /\ stack' = [stack EXCEPT ![n].cur = e, ![n].parts = Tail(@)]
           /\ followed' = followed
    BY Zenon DEF Descend
  <2> QED BY <2>1, <2>3, <2>4, <2>5 DEF inner
<1> HIDE DEF rest, on, inner
<1>10. CASE /\ e.kind = "link" /\ (Tail(Top.parts) # << >> \/ Top.followFinal)
            /\ stack' = Append([stack EXCEPT ![n] = rest], inner) /\ followed' = followed + 1
  <2>1. /\ stack' \in Seq(FrameOf(volume)) /\ Len(stack') = n + 1
        /\ stack'[n] = rest /\ stack'[n + 1] = inner
        /\ \A i \in 1..(n - 1) : stack'[i] = stack[i]
    BY <1>1, <1>7, <1>8, <1>10
  <2> QED BY <1>1, <1>3, <1>7, <1>8, <1>10, <1>12, <1>13, <2>1 DEF Pushed, Untouched
<1>11. CASE /\ ~(e.kind = "link" /\ (Tail(Top.parts) # << >> \/ Top.followFinal))
            /\ stack' = [stack EXCEPT ![n] = on] /\ followed' = followed
  <2>1. /\ stack' \in Seq(FrameOf(volume)) /\ Len(stack') = n /\ stack'[n] = on
        /\ \A i \in 1..(n - 1) : stack'[i] = stack[i]
    BY <1>1, <1>7, <1>11
  <2> QED BY <1>1, <1>3, <1>7, <1>11, <2>1 DEF Entered, Untouched
<1> QED BY <1>1, <1>9, <1>10, <1>11

LEMMA ReturnShape ==
  ASSUME TypeInv, ReturnFrame, NEW n, n = Len(stack)
  PROVE  \/ Popped(n)
         \/ /\ n = 1 /\ Top.parts = << >> /\ outcome = "walking" /\ outcome' = "found"
            /\ UNCHANGED <<stack, followed>>
<1>1. /\ n \in Nat /\ n >= 1 /\ n <= MaxHops + 1 /\ stack \in Seq(FrameOf(volume))
      /\ MaxHops \in Nat /\ outcome = "walking" /\ Top = stack[n]
      /\ Top \in FrameOf(volume) /\ Top.parts = << >>
  BY TopFrame DEF ReturnFrame, Stepping, Hops, TypeInv
<1>2. CASE n = 1 /\ Return("found")
  BY <1>1, <1>2 DEF Return
<1>3. CASE /\ n > 1 /\ stack' = [Front(stack) EXCEPT ![n - 1].cur = Top.cur]
           /\ UNCHANGED <<outcome, followed>>
  <2>1. /\ Front(stack) \in Seq(FrameOf(volume)) /\ Len(Front(stack)) = n - 1
        /\ \A i \in 1..(n - 1) : Front(stack)[i] = stack[i]
    BY <1>1, <1>3 DEF Front
  <2> DEFINE f == [stack[n - 1] EXCEPT !.cur = Top.cur]
  <2>2. n - 1 \in 1..(n - 1) /\ n - 1 \in 1..Len(stack) /\ n - 1 \in Nat
    BY <1>1, <1>3
  <2>3. stack[n - 1] \in FrameOf(volume) /\ Top.cur \in RecordOf(volume)
    <3>1. stack[n - 1] \in FrameOf(volume)
      BY <1>1, <2>2
    <3> QED BY <3>1, TopFrame
  <2>4. /\ f \in FrameOf(volume) /\ f.cur = Top.cur /\ f.parts = stack[n - 1].parts
        /\ f.followFinal = stack[n - 1].followFinal
    BY <2>3 DEF FrameOf
  <2>5. stack' = [Front(stack) EXCEPT ![n - 1] = f]
    BY <1>3, <2>1, <2>2
  <2> HIDE DEF f
  <2>6. /\ stack' \in Seq(FrameOf(volume)) /\ Len(stack') = n - 1 /\ stack'[n - 1] = f
        /\ \A i \in 1..(n - 2) : stack'[i] = stack[i]
    <3> PICK s \in Seq(FrameOf(volume)) : s = Front(stack)
      BY <2>1
    <3>1. stack' = [s EXCEPT ![n - 1] = f] /\ Len(s) = n - 1 /\ \A i \in 1..(n - 1) : s[i] = stack[i]
      BY <2>1, <2>5
    <3> QED BY <2>2, <2>4, <3>1
  <2>7. Untouched(n - 1)
    BY <1>1, <2>6 DEF Untouched
  <2> QED BY <1>1, <1>3, <2>4, <2>6, <2>7 DEF Popped
<1> QED BY <1>2, <1>3 DEF ReturnFrame

---------------------------------------------------------------------------
(* The steps keep the invariant *)

LEMMA PrefixOf ==
  ASSUME NEW v, NEW s \in Seq(FrameOf(v)), NEW n \in Nat, Len(s) = n + 1
  PROVE  \E t \in Seq(FrameOf(v)) :
           Len(t) = n /\ (\A i \in 1..n : t[i] = s[i]) /\ Extends(s, t)
<1> DEFINE t == [i \in 1..n |-> s[i]]
<1>1. t \in Seq(FrameOf(v)) /\ Len(t) = n /\ \A i \in 1..n : t[i] = s[i]
  OBVIOUS
<1> HIDE DEF t
<1>2. Extends(s, t)
  BY <1>1, FramesAreStacks DEF Extends
<1> QED BY <1>1, <1>2

(* Stacks that agree below their last frame extend the same stack.         *)
LEMMA SamePrefix ==
  ASSUME NEW v, NEW s \in Seq(FrameOf(v)), NEW t \in Seq(FrameOf(v)), Len(s) = Len(t) + 1,
         \A i \in 1..Len(t) : t[i] = s[i]
  PROVE  Extends(s, t)
BY FramesAreStacks DEF Extends

LEMMA MostLinksNat ==
  ASSUME TypeInv
  PROVE  Len(SplitPath(path)) \in Nat /\ MostLinks \in Nat
<1>1. path \in Seq(Component)
  BY ResolveAssumption DEF TypeInv
<1>2. Len(SplitPath(path)) \in Nat
  BY <1>1, SplitPathParts
<1>3. Within(volume)[MaxHops] \in Nat
  BY ResolveAssumption, WithinSteps DEF TypeInv
<1> QED BY <1>2, <1>3 DEF MostLinks

LEMMA ProductNat ==
  ASSUME NEW a \in Nat, NEW b \in Nat
  PROVE  a * b \in Nat
OBVIOUS

(* A component that turns into the components of a target leaves room for  *)
(* the link just followed.                                                 *)
Afford(f, l, p, c, q, d, w, m) ==
  /\ {f, l, p, c, q, d, w, m} \subseteq Nat
  /\ p >= 1 /\ q <= w
  /\ c = 1 + w * d \/ (c = 0 /\ d = 0)
  /\ f + (l + p * c) <= m

LEMMA PushPays ==
  ASSUME NEW f, NEW l, NEW p, NEW c, NEW q, NEW d, NEW w, NEW m, Afford(f, l, p, c, q, d, w, m)
  PROVE  f + 1 + (l + (p - 1) * c + q * d) <= m + (IF c = 0 THEN 1 ELSE 0)
<1>0. /\ f \in Nat /\ l \in Nat /\ p \in Nat /\ c \in Nat /\ q \in Nat /\ d \in Nat /\ w \in Nat
      /\ m \in Nat /\ p >= 1 /\ q <= w /\ (c = 1 + w * d \/ (c = 0 /\ d = 0))
      /\ f + (l + p * c) <= m
  BY DEF Afford
<1>1. q * d \in Nat /\ w * d \in Nat /\ p * c \in Nat
  BY <1>0, ProductNat
<1>2. (p - 1) * c = p * c - c
  BY <1>0
<1>3. q * d <= w * d
  BY <1>0
<1>4. CASE c = 0 /\ d = 0
  BY <1>0, <1>4
<1>5. CASE c = 1 + w * d
  <2> PICK x \in Nat, y \in Nat, z \in Nat : x = p * c /\ y = q * d /\ z = w * d
    BY <1>1
  <2>1. c = 1 + z /\ y <= z /\ (p - 1) * c = x - c /\ f + (l + x) <= m
    BY <1>0, <1>2, <1>3, <1>5
  <2>2. f + 1 + (l + (x - c) + y) <= m
    BY <1>0, <2>1
  <2>3. f + 1 + (l + (p - 1) * c + q * d) <= m /\ ~(c = 0)
    BY <1>0, <2>1, <2>2
  <2> QED BY <1>0, <2>3
<1> QED BY <1>0, <1>4, <1>5

(* A component less leaves no less room.                                   *)
Covered(f, l, p, c, m) == {f, l, p, c, m} \subseteq Nat /\ f + (l + p * c) <= m

LEMMA EnterPays ==
  ASSUME NEW f, NEW l, NEW p, NEW c, NEW m, Covered(f, l, p, c, m)
  PROVE  f + (l + (p - 1) * c) <= m
<1>1. f \in Nat /\ l \in Nat /\ p \in Nat /\ c \in Nat /\ m \in Nat /\ f + (l + p * c) <= m
  BY DEF Covered
<1>2. p * c \in Nat /\ (p - 1) * c = p * c - c
  BY <1>1, ProductNat
<1> PICK x \in Nat : x = p * c
  BY <1>2
<1>3. (p - 1) * c = x - c /\ f + (l + x) <= m
  BY <1>1, <1>2
<1> QED BY <1>1, <1>3

Fixed == UNCHANGED <<volume, op, path, answer>>

(* The frame that is left has nothing to walk, so the rest of the stack has *)
(* the same components.                                                    *)
LEMMA PoppedExtends ==
  ASSUME TypeInv, NEW n, n = Len(stack), Popped(n)
  PROVE  Extends(stack, stack')
<1>1. /\ n \in Nat /\ n > 1 /\ stack \in Seq(FrameOf(volume))
      /\ stack' \in Seq(FrameOf(volume)) /\ Len(stack') = n - 1
  BY TopFrame DEF TypeInv, Popped
<1>2. ASSUME NEW i \in 1..Len(stack')
      PROVE  stack'[i].parts = stack[i].parts
  <2>1. CASE i = n - 1
    BY <2>1 DEF Popped
  <2>2. CASE i # n - 1
    <3>1. i \in 1..(n - 1 - 1)
      BY <1>1, <2>2
    <3> QED BY <3>1 DEF Popped, Untouched
  <2> QED BY <2>1, <2>2
<1>3. IsStack(stack) /\ IsStack(stack') /\ Len(stack) = Len(stack') + 1
  BY <1>1, FramesAreStacks
<1> QED BY <1>2, <1>3 DEF Extends

LEMMA PushedInv ==
  ASSUME IInv, Fixed, NEW n, n = Len(stack), NEW e, Pushed(n, e)
  PROVE  IInv'
<1>1. /\ n \in Nat /\ n >= 1 /\ n <= MaxHops + 1 /\ MaxHops \in Nat /\ Top = stack[n]
      /\ volume \in Volumes /\ Top.parts \in Seq(Part) /\ followed \in Nat
      /\ stack \in Seq(FrameOf(volume)) /\ Top.followFinal \in BOOLEAN
  BY TopFrame DEF IInv, TypeInv, Pushed
<1>2. TypeInv'
  <2>1. Len(stack') \in 1..(MaxHops + 2) /\ followed' \in Nat
    BY <1>1 DEF Pushed
  <2> QED BY <1>1, <2>1 DEF IInv, TypeInv, Pushed, Fixed
<1>3. Following'
  <2>1. ASSUME NEW i \in 1..Len(stack')
        PROVE  /\ stack'[i].followFinal => stack'[i].cur.kind # "link"
               /\ i > 1 => stack'[i].followFinal
               /\ i < Len(stack') => stack'[i].followFinal \/ stack'[i].parts # << >>
    <3>1. CASE i = n + 1
      BY <1>1, <3>1 DEF Pushed
    <3>2. CASE i = n
      <4>1. n \in 1..Len(stack) /\ (Top.followFinal => Top.cur.kind # "link")
        BY <1>1 DEF IInv, Following
      <4> QED BY <1>1, <3>2, <4>1 DEF Pushed, IInv, Following
    <3>3. CASE i \notin {n, n + 1}
      <4>1. i \in 1..(n - 1) /\ i \in 1..Len(stack) /\ i < Len(stack)
        BY <1>1, <3>3 DEF Pushed
      <4>2. stack'[i] = stack[i]
        BY <4>1 DEF Pushed, Untouched
      <4> QED BY <4>1, <4>2 DEF IInv, Following
    <3> QED BY <3>1, <3>2, <3>3
  <2>2. stack'[1].followFinal = stack[1].followFinal
    <3>1. CASE n = 1
      BY <1>1, <3>1 DEF Pushed
    <3>2. CASE n # 1
      <4>1. 1 \in 1..(n - 1)
        BY <1>1, <3>2
      <4> QED BY <4>1 DEF Pushed, Untouched
    <3> QED BY <3>1, <3>2
  <2>3. followed' >= Len(stack') - 1 /\ outcome' # "found"
    BY <1>1 DEF Pushed, IInv, Following
  <2>4. stack'[1].followFinal = (op' \in FollowedOps)
    BY <2>2, Zenon DEF IInv, Following, Fixed
  <2> QED BY <2>1, <2>3, <2>4 DEF Following
<1>4. WorkLeft'
  <2>1. PICK t \in Seq(FrameOf(volume)) :
          Len(t) = n - 1 /\ (\A i \in 1..(n - 1) : t[i] = stack[i]) /\ Extends(stack, t)
    <3>1. n - 1 \in Nat /\ Len(stack) = (n - 1) + 1
      BY <1>1
    <3> QED BY <1>1, <3>1, PrefixOf
  <2>2. PICK s \in Seq(FrameOf(volume)) :
          Len(s) = n /\ (\A i \in 1..n : s[i] = stack'[i]) /\ Extends(stack', s)
    BY <1>1, PrefixOf DEF Pushed
  <2>3. Extends(s, t)
    <3>1. \A i \in 1..Len(t) : t[i] = s[i]
      BY <1>1, <2>1, <2>2 DEF Pushed, Untouched
    <3>2. Len(s) = Len(t) + 1
      BY <1>1, <2>1, <2>2
    <3> QED BY <3>1, <3>2, SamePrefix
  <2>4. /\ s[n].parts = Tail(Top.parts) /\ Len(Tail(Top.parts)) = Len(Top.parts) - 1
        /\ Len(Top.parts) \in Nat /\ Len(Top.parts) >= 1
    <3>1. n \in 1..n
      BY <1>1
    <3> QED BY <1>1, <2>2, <3>1, TailOfParts DEF Pushed
  <2> PICK c, d, p, q, w, l, m : /\ c = Cost(volume, n) /\ d = Cost(volume, n + 1)
                 /\ p = Len(Top.parts) /\ q = Len(SplitPath(e.target)) /\ w = Widest(volume)
                 /\ l = Left(volume, t) /\ m = MostLinks
    OBVIOUS
  <2>5. /\ l \in Nat /\ Left(volume, stack) = l + p * c
        /\ Left(volume, s) = l + (p - 1) * c
        /\ Left(volume, stack') = Left(volume, s) + q * d
    <3>1. Left(volume, stack) = l + p * c /\ l \in Nat
      BY <1>1, <2>1, LeftGrows
    <3>2. Left(volume, s) = l + (p - 1) * c
      BY <1>1, <2>2, <2>3, <2>4, LeftGrows
    <3>3. Left(volume, stack') = Left(volume, s) + q * d
      BY <1>1, <2>2, LeftGrows DEF Pushed
    <3> QED BY <3>1, <3>2, <3>3
  <2>6. /\ c \in Nat /\ d \in Nat
        /\ n <= MaxHops => c = 1 + w * d
        /\ n > MaxHops => c = 0 /\ d = 0
    <3>1. n \in Nat \ {0} /\ n + 1 \in Nat \ {0} /\ (n > MaxHops => n + 1 > MaxHops)
      BY <1>1
    <3> QED BY <1>1, <3>1, CostSteps
  <2>7. q \in Nat /\ w \in Nat /\ q <= w /\ p \in Nat /\ p >= 1
    <3>1. e.target \in Seq(Component)
      BY DEF Pushed, RecordOf
    <3>2. q \in Nat
      BY <3>1, SplitPathParts
    <3> QED BY <1>1, <2>4, <3>2, WidestBounds DEF Pushed
  <2>8. MostLinks' = m /\ volume' = volume /\ followed' = followed + 1
    BY DEF MostLinks, Fixed, Pushed
  <2>12. m \in Nat
    BY MostLinksNat DEF IInv
  <2>9. followed + (l + p * c) <= m
    <3>1. ~(n > MaxHops + 1)
      BY <1>1
    <3>2. followed + (l + p * c) <= m + (IF n > MaxHops + 1 THEN 1 ELSE 0)
      BY <2>5 DEF IInv, WorkLeft
    <3>3. (IF n > MaxHops + 1 THEN 1 ELSE 0) = 0
      BY <3>1
    <3> QED BY <2>12, <3>2, <3>3
  <2>10. followed + 1 + (l + (p - 1) * c + q * d) <= m + (IF c = 0 THEN 1 ELSE 0)
    <3>1. c = 1 + w * d \/ (c = 0 /\ d = 0)
      BY <1>1, <2>6
    <3>2. l \in Nat /\ c \in Nat /\ d \in Nat /\ p \in Nat /\ q \in Nat /\ w \in Nat /\ m \in Nat
      BY <2>5, <2>6, <2>7, <2>12
    <3>3. Afford(followed, l, p, c, q, d, w, m)
      BY <1>1, <2>7, <2>9, <3>1, <3>2 DEF Afford
    <3> QED BY <3>3, PushPays
  <2>11. c = 0 <=> n + 1 > MaxHops + 1
    <3>1. n <= MaxHops => c >= 1
      <4>1. w * d \in Nat
        BY <2>6, <2>7, ProductNat
      <4> QED BY <2>6, <4>1
    <3> QED BY <1>1, <2>6, <3>1
  <2> QED BY <2>5, <2>8, <2>10, <2>11 DEF WorkLeft, Pushed
<1> QED BY <1>2, <1>3, <1>4 DEF IInv

LEMMA EnteredInv ==
  ASSUME IInv, Fixed, NEW n, n = Len(stack), NEW e, Entered(n, e)
  PROVE  IInv'
<1>1. /\ n \in Nat /\ n >= 1 /\ n <= MaxHops + 1 /\ MaxHops \in Nat /\ Top = stack[n]
      /\ volume \in Volumes /\ Top.parts \in Seq(Part) /\ followed \in Nat
      /\ stack \in Seq(FrameOf(volume)) /\ Top.followFinal \in BOOLEAN
  BY TopFrame DEF IInv, TypeInv, Entered
<1>2. TypeInv'
  <2>1. Len(stack') \in 1..(MaxHops + 2) /\ followed' \in Nat
    BY <1>1 DEF Entered
  <2> QED BY <1>1, <2>1 DEF IInv, TypeInv, Entered, Fixed
<1>3. Following'
  <2>1. ASSUME NEW i \in 1..Len(stack')
        PROVE  /\ stack'[i].followFinal => stack'[i].cur.kind # "link"
               /\ i > 1 => stack'[i].followFinal
               /\ i < Len(stack') => stack'[i].followFinal \/ stack'[i].parts # << >>
    <3>1. CASE i = n
      <4>1. n \in 1..Len(stack) /\ Len(stack') = n
        BY <1>1 DEF Entered
      <4>2. n > 1 => Top.followFinal
        BY <1>1, <4>1 DEF IInv, Following
      <4> QED BY <1>1, <3>1, <4>1, <4>2 DEF Entered
    <3>2. CASE i # n
      <4>1. i \in 1..(n - 1) /\ i \in 1..Len(stack) /\ i < Len(stack)
        BY <1>1, <3>2 DEF Entered
      <4>2. stack'[i] = stack[i]
        BY <4>1 DEF Entered, Untouched
      <4> QED BY <4>1, <4>2 DEF IInv, Following
    <3> QED BY <3>1, <3>2
  <2>2. stack'[1].followFinal = stack[1].followFinal
    <3>1. CASE n = 1
      BY <1>1, <3>1 DEF Entered
    <3>2. CASE n # 1
      <4>1. 1 \in 1..(n - 1)
        BY <1>1, <3>2
      <4> QED BY <4>1 DEF Entered, Untouched
    <3> QED BY <3>1, <3>2
  <2>3. followed' >= Len(stack') - 1 /\ outcome' # "found"
    BY <1>1 DEF Entered, IInv, Following
  <2>4. stack'[1].followFinal = (op' \in FollowedOps)
    BY <2>2, Zenon DEF IInv, Following, Fixed
  <2> QED BY <2>1, <2>3, <2>4 DEF Following
<1>4. WorkLeft'
  <2>1. PICK t \in Seq(FrameOf(volume)) :
          Len(t) = n - 1 /\ (\A i \in 1..(n - 1) : t[i] = stack[i]) /\ Extends(stack, t)
    <3>1. n - 1 \in Nat /\ Len(stack) = (n - 1) + 1
      BY <1>1
    <3> QED BY <1>1, <3>1, PrefixOf
  <2>2. Extends(stack', t)
    <3>1. \A i \in 1..Len(t) : t[i] = stack'[i]
      BY <1>1, <2>1 DEF Entered, Untouched
    <3>2. Len(stack') = Len(t) + 1 /\ stack' \in Seq(FrameOf(volume))
      BY <1>1, <2>1 DEF Entered
    <3> QED BY <3>1, <3>2, SamePrefix
  <2>3. /\ stack'[n].parts = Tail(Top.parts) /\ Len(Tail(Top.parts)) = Len(Top.parts) - 1
        /\ Len(Top.parts) \in Nat /\ Len(Top.parts) >= 1
    BY <1>1, TailOfParts DEF Entered
  <2> PICK c, p, l, m : /\ c = Cost(volume, n) /\ p = Len(Top.parts)
                        /\ l = Left(volume, t) /\ m = MostLinks
    OBVIOUS
  <2>4. c \in Nat
    BY <1>1, CostSteps
  <2>5. l \in Nat /\ Left(volume, stack) = l + p * c /\ Left(volume, stack') = l + (p - 1) * c
    <3>1. Left(volume, stack) = l + p * c /\ l \in Nat
      BY <1>1, <2>1, LeftGrows
    <3>2. Left(volume, stack') = l + (p - 1) * c
      BY <1>1, <2>2, <2>3, LeftGrows DEF Entered
    <3> QED BY <3>1, <3>2
  <2>6. p * c \in Nat /\ (p - 1) * c = p * c - c
    BY <2>3, <2>4
  <2>7. MostLinks' = m /\ volume' = volume /\ followed' = followed /\ m \in Nat
    BY MostLinksNat DEF MostLinks, Fixed, Entered, IInv
  <2> PICK allow \in {0, 1} : allow = IF n > MaxHops + 1 THEN 1 ELSE 0
    OBVIOUS
  <2>8. followed + (l + p * c) <= m + allow
    BY <2>5 DEF IInv, WorkLeft
  <2>9. followed + (l + (p - 1) * c) <= m + allow
    <3>1. Covered(followed, l, p, c, m + allow)
      BY <1>1, <2>3, <2>4, <2>5, <2>7, <2>8 DEF Covered
    <3> QED BY <3>1, EnterPays
  <2> QED BY <2>5, <2>7, <2>9 DEF WorkLeft, Entered
<1> QED BY <1>2, <1>3, <1>4 DEF IInv

LEMMA PoppedInv ==
  ASSUME IInv, Fixed, NEW n, n = Len(stack), Popped(n)
  PROVE  IInv'
<1>1. /\ n \in Nat /\ n > 1 /\ n <= MaxHops + 1 /\ MaxHops \in Nat /\ Top = stack[n]
      /\ volume \in Volumes /\ Top.parts = << >> /\ followed \in Nat
      /\ stack \in Seq(FrameOf(volume)) /\ Len(stack') = n - 1
  BY TopFrame DEF IInv, TypeInv, Popped
<1>2. TypeInv'
  <2>1. Len(stack') \in 1..(MaxHops + 2) /\ followed' \in Nat
    BY <1>1 DEF Popped
  <2> QED BY <1>1, <2>1 DEF IInv, TypeInv, Popped, Fixed
<1>3. Following'
  <2>1. ASSUME NEW i \in 1..Len(stack')
        PROVE  /\ stack'[i].followFinal => stack'[i].cur.kind # "link"
               /\ i > 1 => stack'[i].followFinal
               /\ i < Len(stack') => stack'[i].followFinal \/ stack'[i].parts # << >>
    <3>1. CASE i = n - 1
      <4>1. n \in 1..Len(stack) /\ n - 1 \in 1..Len(stack)
        BY <1>1
      <4>2. Top.cur.kind # "link" /\ (n - 1 > 1 => stack[n - 1].followFinal)
        BY <1>1, <4>1 DEF IInv, Following
      <4> QED BY <1>1, <3>1, <4>2 DEF Popped
    <3>2. CASE i # n - 1
      <4>1. i \in 1..(n - 1 - 1) /\ i \in 1..Len(stack) /\ i < Len(stack)
        BY <1>1, <3>2
      <4>2. stack'[i] = stack[i]
        BY <4>1 DEF Popped, Untouched
      <4> QED BY <4>1, <4>2 DEF IInv, Following
    <3> QED BY <3>1, <3>2
  <2>2. stack'[1].followFinal = stack[1].followFinal
    <3>1. CASE n - 1 = 1
      BY <1>1, <3>1 DEF Popped
    <3>2. CASE n - 1 # 1
      <4>1. 1 \in 1..(n - 1 - 1)
        BY <1>1, <3>2
      <4> QED BY <4>1 DEF Popped, Untouched
    <3> QED BY <3>1, <3>2
  <2>3. followed' >= Len(stack') - 1 /\ outcome' # "found"
    BY <1>1 DEF Popped, IInv, Following
  <2>4. stack'[1].followFinal = (op' \in FollowedOps)
    BY <2>2, Zenon DEF IInv, Following, Fixed
  <2> QED BY <2>1, <2>3, <2>4 DEF Following
<1>4. WorkLeft'
  <2>1. Extends(stack, stack')
    BY <1>1, PoppedExtends DEF IInv
  <2>2. Left(volume, stack') \in Nat /\ Left(volume, stack) = Left(volume, stack') + 0 * Cost(volume, n)
    BY <1>1, <2>1, LeftGrows
  <2>3. 0 * Cost(volume, n) = 0
    BY <1>1, CostSteps
  <2>4. ~(n > MaxHops + 1) /\ ~(n - 1 > MaxHops + 1)
    BY <1>1
  <2>5. MostLinks' = MostLinks /\ volume' = volume /\ followed' = followed
    BY DEF MostLinks, Fixed, Popped
  <2>6. followed + Left(volume, stack') <= MostLinks + (IF n > MaxHops + 1 THEN 1 ELSE 0)
    BY <2>2, <2>3 DEF IInv, WorkLeft
  <2> QED BY <1>1, <2>4, <2>5, <2>6 DEF WorkLeft
<1> QED BY <1>2, <1>3, <1>4 DEF IInv

LEMMA InitIInv == Init => IInv
<1> SUFFICES ASSUME Init PROVE IInv
  OBVIOUS
<1> PICK p : p = SplitPath(path)
  OBVIOUS
<1>1. /\ volume \in Volumes /\ MaxHops \in Nat /\ op \in Ops /\ path \in Paths
      /\ p \in Seq(Part) /\ Len(p) \in Nat /\ MostLinks \in Nat
      /\ stack = <<Frame(volume.root, p, op \in FollowedOps)>>
  <2>1. volume \in Volumes /\ MaxHops \in Nat /\ path \in Seq(Component)
    BY ResolveAssumption DEF Init
  <2>2. p \in Seq(Part)
    BY <2>1, SplitPathParts
  <2>3. Within(volume)[MaxHops] \in Nat
    BY <2>1, WithinSteps
  <2>4. MostLinks \in Nat
    BY <2>2, <2>3 DEF MostLinks
  <2> QED BY <2>1, <2>2, <2>4 DEF Init
<1> DEFINE first == Frame(volume.root, p, op \in FollowedOps)
<1>2. /\ first \in FrameOf(volume) /\ first.cur = volume.root /\ first.parts = p
      /\ first.followFinal = (op \in FollowedOps) /\ first.cur.kind = "dir"
  <2> DEFINE ff == op \in FollowedOps
  <2>1. ff \in BOOLEAN
    OBVIOUS
  <2> HIDE DEF ff
  <2>2. /\ Frame(volume.root, p, ff) \in FrameOf(volume)
        /\ Frame(volume.root, p, ff).cur = volume.root
        /\ Frame(volume.root, p, ff).parts = p
        /\ Frame(volume.root, p, ff).followFinal = ff
        /\ volume.root.kind = "dir"
    BY <1>1, <2>1, RootRecord, NewFrame
  <2> QED BY <2>2, Zenon DEF ff
<1> HIDE DEF first
<1>3. stack = <<first>>
  BY <1>1 DEF first
<1>4. /\ stack \in Seq(FrameOf(volume)) /\ Len(stack) = 1 /\ stack[1] = first
  BY <1>2, <1>3
<1>5. TypeInv
  BY <1>1, <1>4 DEF TypeInv, Init
<1>6. Following
  <2>1. outcome = "walking" /\ followed = 0
    BY DEF Init
  <2> QED BY <1>2, <1>4, <2>1 DEF Following
<1>7. WorkLeft
  <2>1. PICK t \in Seq(FrameOf(volume)) : Len(t) = 0 /\ Extends(stack, t)
    <3>1. Len(stack) = 0 + 1 /\ 0 \in Nat
      BY <1>4
    <3> QED BY <1>4, <3>1, PrefixOf
  <2> PICK c : c = Cost(volume, 1)
    OBVIOUS
  <2>3. Left(volume, stack) = Left(volume, t) + Len(p) * c
    <3>1. Left(volume, stack)
            = Left(volume, t) + Len(stack[Len(stack)].parts) * Cost(volume, Len(stack))
      BY <1>1, <2>1, LeftGrows, Zenon
    <3>2. Len(stack) = 1 /\ stack[1].parts = p
      BY <1>2, <1>4
    <3> QED BY <3>1, <3>2, Zenon
  <2>4. Left(volume, t) = 0
    BY <1>1, <2>1, LeftSums, FramesAreStacks
  <2>5. c = Within(volume)[MaxHops]
    BY <1>1 DEF Cost
  <2>6. MostLinks = Len(p) * c
    BY <2>5 DEF MostLinks
  <2>7. followed = 0 /\ ~(Len(stack) > MaxHops + 1)
    BY <1>1, <1>4 DEF Init
  <2> QED BY <1>1, <2>3, <2>4, <2>6, <2>7 DEF WorkLeft
<1> QED BY <1>5, <1>6, <1>7 DEF IInv

(* The steps that end the walk or answer the call keep the frames.         *)
Quiet ==
  /\ UNCHANGED <<volume, op, path, stack, followed>>
  /\ \/ outcome' \in {"found", "tooManyLinks", "notDirectory", "notFound", "readError"}
     \/ UNCHANGED <<outcome, answer>>
     \/ UNCHANGED outcome /\ outcome # "walking"
  /\ outcome' = "found" => outcome = "found" \/ Len(stack) = 1

LEMMA QuietInv ==
  ASSUME IInv, Quiet
  PROVE  IInv'
<1>1. TypeInv'
  BY DEF IInv, TypeInv, Quiet
<1>2. Following'
  BY DEF IInv, Following, Quiet
<1>3. WorkLeft'
  BY DEF IInv, WorkLeft, Quiet, MostLinks
<1> QED BY <1>1, <1>2, <1>3 DEF IInv

LEMMA NextIInv == IInv /\ [Next]_vars => IInv'
<1> SUFFICES ASSUME IInv, [Next]_vars PROVE IInv'
  OBVIOUS
<1> PICK n : n = Len(stack)
  OBVIOUS
<1>1. CASE Descend
  <2> PICK e : e = Child(Top.cur, Head(Top.parts))
    OBVIOUS
  <2>1. Pushed(n, e) \/ Entered(n, e)
    BY <1>1, DescendShape DEF IInv
  <2>2. Fixed
    BY <1>1 DEF Descend, InLoop, Stepping, Fixed
  <2> QED BY <2>1, <2>2, PushedInv, EnteredInv
<1>2. CASE ReturnFrame
  <2>1. Fixed
    BY <1>2 DEF ReturnFrame, Stepping, Fixed
  <2>2. CASE Popped(n)
    BY <2>1, <2>2, PoppedInv
  <2>3. CASE /\ n = 1 /\ Top.parts = << >> /\ outcome = "walking" /\ outcome' = "found"
             /\ UNCHANGED <<stack, followed>>
    BY <2>1, <2>3, QuietInv DEF Quiet, Fixed
  <2> QED BY <1>2, <2>2, <2>3, ReturnShape DEF IInv
<1>3. CASE TooManyLinks \/ NotDirectory \/ NotFound \/ ReadFails
  <2>1. Quiet
    BY <1>3 DEF TooManyLinks, NotDirectory, NotFound, ReadFails, InLoop, Stepping, Return, Quiet
  <2> QED BY <2>1, QuietInv
<1>4. CASE Serve \/ UNCHANGED vars
  <2>1. Quiet
    BY <1>4 DEF Serve, vars, Quiet
  <2> QED BY <2>1, QuietInv
<1> QED BY <1>1, <1>2, <1>3, <1>4 DEF Next, Step

---------------------------------------------------------------------------
(* The theorems *)

(* Every variable holds a value of the code's type, through the recursion  *)
(* of resolveFrom (fs.go:144-207).                                         *)
THEOREM ResolveTyped == Spec => []TypeOK
<1>1. IInv => TypeOK
  <2> SUFFICES ASSUME TypeInv PROVE TypeOK
    BY DEF IInv
  <2>1. ASSUME NEW i \in 1..Len(stack)
        PROVE  /\ stack[i].cur.kind \in {"dir", "file", "link"}
               /\ stack[i].followFinal \in BOOLEAN
               /\ \A k \in 1..Len(stack[i].parts) : stack[i].parts[k] # << >>
    <3>1. stack[i] \in FrameOf(volume)
      BY DEF TypeInv
    <3>2. stack[i].parts \in Seq(Part)
      BY <3>1 DEF FrameOf
    <3>3. \A k \in 1..Len(stack[i].parts) : stack[i].parts[k] # << >>
      BY <3>2 DEF Part
    <3> QED BY <3>1, <3>3 DEF FrameOf, RecordOf
  <2> QED BY <2>1 DEF TypeInv, TypeOK
<1> QED BY InitIInv, NextIInv, <1>1, PTL DEF Spec

(* fs.go:159-164: however many links a path leads through and however they *)
(* nest, ReadFile, ListDir, Stat and OpenFile are never served a link.     *)
THEOREM LinksAreFollowed == Spec => []NeverServesALink
<1>1. IInv => NeverServesALink
  <2> SUFFICES ASSUME IInv, outcome = "found", op \in FollowedOps
               PROVE  Top.cur.kind # "link"
    BY DEF NeverServesALink
  <2>1. Len(stack) = 1 /\ 1 \in 1..Len(stack)
    BY DEF IInv, Following
  <2>2. stack[1].followFinal
    BY DEF IInv, Following
  <2> QED BY <2>1, <2>2 DEF IInv, Following, Top
<1> QED BY InitIInv, NextIInv, <1>1, PTL DEF Spec

(* fs.go:156: whatever the links of an image are, cycles among them, a     *)
(* call follows no more than MostLinks of them.                            *)
THEOREM WorkIsBounded == Spec => []WorkBounded
<1>1. IInv => WorkBounded
  <2> SUFFICES ASSUME IInv PROVE WorkBounded
    OBVIOUS
  <2>1. volume \in Volumes /\ IsStack(stack) /\ Len(stack) \in Nat /\ MaxHops \in Nat
    BY TopFrame DEF IInv
  <2>2. Left(volume, stack) \in Nat
    <3>1. Len(stack) \in 0..Len(stack)
      BY <2>1
    <3> QED BY <2>1, <3>1, LeftSums
  <2>3. outcome = "found" => ~(Len(stack) > MaxHops + 1)
    <3>1. outcome = "found" => Len(stack) = 1
      BY DEF IInv, Following
    <3>2. ~(1 > MaxHops + 1)
      BY <2>1
    <3> QED BY <3>1, <3>2, Zenon
  <2>4. followed \in Nat /\ MostLinks \in Nat
    BY MostLinksNat DEF IInv, TypeInv
  <2>5. followed <= MostLinks + (IF Len(stack) > MaxHops + 1 THEN 1 ELSE 0)
    BY <2>2, <2>4 DEF IInv, WorkLeft
  <2> QED BY <2>3, <2>4, <2>5 DEF WorkBounded
<1> QED BY InitIInv, NextIInv, <1>1, PTL DEF Spec

---------------------------------------------------------------------------
(* The recursion walks the path as PathWalk reads it *)

LEMMA SameNames ==
  ASSUME NEW p, NEW s, NEW t
  PROVE  Meaning!SplitPath(p) = SplitPath(p) /\ (Meaning!EqualFold(s, t) <=> EqualFold(s, t))
BY DEF Meaning!SplitPath, SplitPath, Meaning!EqualFold, EqualFold, Meaning!Folded, Folded,
   Meaning!ToUpper, ToUpper, Meaning!Lower, Lower

(* The records a component names are those at the places it matches.       *)
LEMMA NamedMatches ==
  ASSUME NEW name
  PROVE  Meaning!Named(name) = {EntriesOf(Top.cur)[i] : i \in Matches(Top.cur, name)}
<1> DEFINE recs == EntriesOf(Top.cur)
           all == {recs[i] : i \in 1..Len(recs)}
           exact == {e \in all : e.name = name}
           folded == {e \in all : EqualFold(e.name, name)}
           exactAt == {i \in 1..Len(recs) : recs[i].name = name}
           foldedAt == {i \in 1..Len(recs) : EqualFold(recs[i].name, name)}
<1>1. Meaning!Named(name) = IF exact # {} THEN exact ELSE folded
  BY SameNames DEF Meaning!Named, EntriesOf
<1>2. Matches(Top.cur, name) = IF exactAt # {} THEN exactAt ELSE foldedAt
  BY DEF Matches
<1> HIDE DEF recs
<1>3. exact = {recs[i] : i \in exactAt} /\ folded = {recs[i] : i \in foldedAt}
  OBVIOUS
<1>4. exact # {} <=> exactAt # {}
  BY <1>3
<1> QED BY <1>1, <1>2, <1>3, <1>4 DEF recs

LEMMA InitMaps == Init => Meaning!Init
<1> SUFFICES ASSUME Init PROVE Meaning!Init
  OBVIOUS
<1>1. IInv
  BY InitIInv
<1>2. IsStack(stack) /\ Top = stack[Len(stack)]
  BY <1>1, TopFrame DEF IInv
<1>3. Len(stack) = 1 /\ Top.cur = volume.root /\ stack[1].parts = SplitPath(path)
  BY <1>2 DEF Init, Frame
<1>4. Todo = SplitPath(path)
  BY <1>2, <1>3, RemainingOfOne, Zenon DEF Todo
<1> QED BY <1>3, <1>4, SameNames DEF Meaning!Init, Init

(* What the innermost frame and the ones below it leave to walk.           *)
LEMMA TodoSplits ==
  ASSUME TypeInv, NEW n, n = Len(stack)
  PROVE  \E t \in Seq(FrameOf(volume)) :
           /\ Len(t) = n - 1 /\ (\A i \in 1..(n - 1) : t[i] = stack[i])
           /\ Extends(stack, t)
           /\ Remaining(t) \in Seq(Part) /\ Todo = Top.parts \o Remaining(t)
<1>1. n \in Nat /\ n >= 1 /\ stack \in Seq(FrameOf(volume)) /\ Top = stack[n]
  BY TopFrame DEF TypeInv
<1>2. PICK t \in Seq(FrameOf(volume)) :
        Len(t) = n - 1 /\ (\A i \in 1..(n - 1) : t[i] = stack[i]) /\ Extends(stack, t)
  <2>1. n - 1 \in Nat /\ Len(stack) = (n - 1) + 1
    BY <1>1
  <2> QED BY <1>1, <2>1, PrefixOf
<1>3. Remaining(t) \in Seq(Part) /\ Remaining(stack) = stack[Len(stack)].parts \o Remaining(t)
  BY <1>2, RemainingGrows
<1> QED BY <1>1, <1>2, <1>3, Zenon DEF Todo

(* A list that begins with the components of a frame.                      *)
LEMMA JoinedParts ==
  ASSUME NEW s \in Seq(Part), NEW t \in Seq(Part), s # << >>
  PROVE  /\ s \o t # << >> /\ Head(s \o t) = Head(s) /\ Tail(s \o t) = Tail(s) \o t
         /\ Len(s \o t) > 1 <=> (Tail(s) # << >> \/ t # << >>)
<1>1. s \o t \in Seq(Part) /\ Len(s \o t) = Len(s) + Len(t) /\ Len(s) \in Nat /\ Len(t) \in Nat
  OBVIOUS
<1>2. Len(s) >= 1 /\ (Len(s) = 1 <=> Tail(s) = << >>)
  BY TailOfParts
<1>3. Len(t) = 0 <=> t = << >>
  BY EmptySequence
<1>4. s \o t # << >> /\ Head(s \o t) = Head(s)
  BY <1>1, <1>2
<1>5. Tail(s \o t) = Tail(s) \o t
  <2> PICK a, b : a = Tail(s \o t) /\ b = Tail(s) \o t
    OBVIOUS
  <2>1. a \in Seq(Part) /\ Len(a) = Len(s) + Len(t) - 1
    BY <1>1, <1>2
  <2>2. b \in Seq(Part) /\ Len(b) = Len(s) + Len(t) - 1
    BY <1>1, <1>2
  <2>3. \A i \in 1..(Len(s) + Len(t) - 1) : a[i] = b[i]
    BY <1>1, <1>2
  <2>4. a = b
    BY <2>1, <2>2, <2>3
  <2> QED BY <2>4
<1>6. Len(s \o t) > 1 <=> (Tail(s) # << >> \/ t # << >>)
  <2> PICK a \in Nat, b \in Nat : a = Len(s) /\ b = Len(t)
    BY <1>1
  <2>1. a >= 1 /\ Len(s \o t) = a + b
    BY <1>1, <1>2
  <2>2. Len(s \o t) > 1 <=> (~(a = 1) \/ ~(b = 0))
    BY <2>1
  <2> QED BY <1>2, <1>3, <2>2, Zenon
<1> QED BY <1>4, <1>5, <1>6

MeansStep == Meaning!Walk \/ Meaning!Fail \/ Meaning!Arrive

(* A frame follows the link at the end of its path just when the walk      *)
(* replaces it: a waiting frame has a component left or follows it too.    *)
LEMMA FollowsAsReplaced ==
  ASSUME IInv, Top.parts # << >>, NEW e
  PROVE  Meaning!Replaced(e)
           <=> e.kind = "link" /\ (Tail(Top.parts) # << >> \/ Top.followFinal)
<1> PICK n : n = Len(stack)
  OBVIOUS
<1>1. /\ n \in Nat /\ n >= 1 /\ stack \in Seq(FrameOf(volume)) /\ Top = stack[n]
      /\ Top.parts \in Seq(Part)
  BY TopFrame DEF IInv, TypeInv
<1>2. PICK t \in Seq(FrameOf(volume)) :
        /\ Len(t) = n - 1 /\ (\A i \in 1..(n - 1) : t[i] = stack[i])
        /\ Extends(stack, t)
        /\ Remaining(t) \in Seq(Part) /\ Todo = Top.parts \o Remaining(t)
  BY TodoSplits DEF IInv
<1>3. Len(Todo) > 1 <=> (Tail(Top.parts) # << >> \/ Remaining(t) # << >>)
  BY <1>1, <1>2, JoinedParts
<1>4. CASE n = 1
  <2>1. Remaining(t) = << >>
    <3>1. IsStack(t) /\ Len(t) = 0
      BY <1>2, <1>4 DEF Extends
    <3> QED BY <3>1, RemainingSums
  <2>2. Top.followFinal = (op \in FollowedOps)
    BY <1>1, <1>4 DEF IInv, Following
  <2> QED BY <1>3, <2>1, <2>2, Zenon DEF Meaning!Replaced
<1>5. CASE n > 1
  <2>1. Top.followFinal
    <3>1. n \in 1..Len(stack)
      BY <1>1
    <3> QED BY <1>1, <1>5, <3>1 DEF IInv, Following
  <2>2. op \in FollowedOps \/ Remaining(t) # << >>
    <3>1. op \in FollowedOps \/ stack[1].parts # << >>
      <4>1. 1 \in 1..Len(stack) /\ 1 < Len(stack)
        BY <1>1, <1>5
      <4> QED BY <4>1 DEF IInv, Following
    <3>2. IsStack(t) /\ Len(t) >= 1 /\ t[1] = stack[1]
      <4>1. Len(t) >= 1 /\ 1 \in 1..(n - 1)
        BY <1>1, <1>2, <1>5
      <4> QED BY <1>2, <4>1 DEF Extends
    <3> QED BY <3>1, <3>2, RemainingOutermost
  <2> QED BY <1>3, <2>1, <2>2 DEF Meaning!Replaced
<1> QED BY <1>1, <1>4, <1>5

LEMMA DescendWalks ==
  ASSUME IInv, Descend
  PROVE  Meaning!Walk
<1> PICK n, e : n = Len(stack) /\ e = Child(Top.cur, Head(Top.parts))
  OBVIOUS
<1>1. /\ Top.cur.kind = "dir" /\ Matches(Top.cur, Head(Top.parts)) # {}
      /\ Pushed(n, e) \/ Entered(n, e)
  BY DescendShape DEF IInv
<1>2. /\ n \in Nat /\ n >= 1 /\ stack \in Seq(FrameOf(volume)) /\ Top = stack[n]
      /\ Top.parts \in Seq(Part) /\ Top.parts # << >> /\ volume \in Volumes
      /\ Top.cur \in RecordOf(volume)
  BY <1>1, TopFrame DEF IInv, TypeInv, Pushed, Entered
<1>3. UNCHANGED <<volume, op, path, outcome>> /\ outcome = "walking"
  BY DEF Descend, InLoop, Stepping
<1>4. PICK t \in Seq(FrameOf(volume)) :
        /\ Len(t) = n - 1 /\ (\A i \in 1..(n - 1) : t[i] = stack[i])
        /\ Extends(stack, t)
        /\ Remaining(t) \in Seq(Part) /\ Todo = Top.parts \o Remaining(t)
  BY TodoSplits DEF IInv
<1>5. /\ Todo # << >> /\ Head(Todo) = Head(Top.parts)
      /\ Tail(Todo) = Tail(Top.parts) \o Remaining(t)
  BY <1>2, <1>4, JoinedParts
<1>6. e \in Meaning!Named(Head(Todo))
  <2>1. PICK i \in Matches(Top.cur, Head(Top.parts)) : e = EntriesOf(Top.cur)[i]
    BY <1>1, <1>2, ChildMatches
  <2> QED BY <1>5, <2>1, NamedMatches
<1>7. CASE Pushed(n, e)
  <2>1. Meaning!Replaced(e)
    BY <1>7, FollowsAsReplaced DEF Pushed
  <2>2. Top'.cur = Base(e, Top.cur)
    BY <1>7 DEF Pushed, Top
  <2>3. Todo' = SplitPath(e.target) \o Tail(Todo)
    <3>1. PICK s \in Seq(FrameOf(volume)) :
            Len(s) = n /\ (\A i \in 1..n : s[i] = stack'[i]) /\ Extends(stack', s)
      BY <1>2, <1>7, PrefixOf DEF Pushed
    <3>2. Extends(s, t) /\ s[Len(s)].parts = Tail(Top.parts)
      <4>1. \A i \in 1..Len(t) : t[i] = s[i]
        BY <1>2, <1>4, <1>7, <3>1 DEF Pushed, Untouched
      <4>2. Len(s) = Len(t) + 1
        BY <1>2, <1>4, <3>1
      <4>3. s[Len(s)].parts = Tail(Top.parts)
        BY <1>2, <1>7, <3>1 DEF Pushed
      <4> QED BY <4>1, <4>2, <4>3, SamePrefix
    <3>3. Remaining(s) = Tail(Todo)
      BY <1>5, <3>2, RemainingGrows
    <3>4. Remaining(stack') = SplitPath(e.target) \o Remaining(s)
      <4>1. stack'[Len(stack')].parts = SplitPath(e.target)
        BY <1>7 DEF Pushed
      <4> QED BY <3>1, <4>1, RemainingGrows
    <3> QED BY <3>3, <3>4 DEF Todo
  <2>4. followed' = followed + 1
    BY <1>7 DEF Pushed
  <2>5. Todo' = Meaning!SplitPath(e.target) \o Tail(Todo)
    BY <2>3, SameNames, Zenon
  <2> QED BY <1>1, <1>3, <1>5, <1>6, <2>1, <2>2, <2>4, <2>5 DEF Meaning!Walk, Base
<1>8. CASE Entered(n, e)
  <2>1. ~Meaning!Replaced(e)
    BY <1>8, FollowsAsReplaced DEF Entered
  <2>2. Top'.cur = e
    BY <1>8 DEF Entered, Top
  <2>3. Todo' = Tail(Todo)
    <3>1. Extends(stack', t)
      <4>1. \A i \in 1..Len(t) : t[i] = stack'[i]
        BY <1>2, <1>4, <1>8 DEF Entered, Untouched
      <4>2. Len(stack') = Len(t) + 1 /\ stack' \in Seq(FrameOf(volume))
        BY <1>2, <1>4, <1>8 DEF Entered
      <4> QED BY <4>1, <4>2, SamePrefix
    <3>2. stack'[Len(stack')].parts = Tail(Top.parts)
      BY <1>8 DEF Entered
    <3> QED BY <1>5, <3>1, <3>2, RemainingGrows DEF Todo
  <2>4. followed' = followed
    BY <1>8 DEF Entered
  <2> QED BY <1>1, <1>3, <1>5, <1>6, <2>1, <2>2, <2>3, <2>4 DEF Meaning!Walk
<1> QED BY <1>1, <1>7, <1>8

LEMMA ReturnWalks ==
  ASSUME IInv, ReturnFrame
  PROVE  Meaning!Arrive \/ UNCHANGED Meaning!vars
<1> PICK n : n = Len(stack)
  OBVIOUS
<1>1. UNCHANGED <<volume, op, path>>
  BY DEF ReturnFrame, Stepping
<1>2. IsStack(stack) /\ Top = stack[n] /\ stack \in Seq(FrameOf(volume)) /\ n \in Nat
  BY TopFrame DEF IInv, TypeInv
<1>3. CASE Popped(n)
  <2>1. Top'.cur = Top.cur
    BY <1>3 DEF Popped, Top
  <2>2. Todo' = Todo
    <3>1. Extends(stack, stack') /\ stack[Len(stack)].parts = << >>
      BY <1>2, <1>3, PoppedExtends DEF IInv, Popped
    <3>2. Remaining(stack') \in Seq(Part) /\ Remaining(stack) = << >> \o Remaining(stack')
      BY <3>1, RemainingGrows
    <3>3. Remaining(stack) = Remaining(stack')
      BY <3>2
    <3> QED BY <3>3 DEF Todo
  <2> QED BY <1>1, <1>3, <2>1, <2>2 DEF Meaning!vars, Popped
<1>4. CASE /\ n = 1 /\ Top.parts = << >> /\ outcome = "walking" /\ outcome' = "found"
           /\ UNCHANGED <<stack, followed>>
  <2>1. Todo = << >>
    BY <1>2, <1>4, RemainingOfOne DEF Todo
  <2>2. Todo' = Todo /\ Top'.cur = Top.cur
    BY <1>4 DEF Todo, Top
  <2> QED BY <1>1, <1>4, <2>1, <2>2 DEF Meaning!Arrive
<1> QED BY <1>3, <1>4, ReturnShape DEF IInv

LEMMA FailureFails ==
  ASSUME IInv, TooManyLinks \/ NotDirectory \/ NotFound \/ ReadFails
  PROVE  Meaning!Fail
<1>1. /\ outcome = "walking" /\ UNCHANGED <<volume, op, path, stack, followed>>
  BY DEF TooManyLinks, NotDirectory, NotFound, ReadFails, InLoop, Stepping, Return
<1>2. Todo' = Todo /\ Top'.cur = Top.cur
  BY <1>1 DEF Todo, Top
<1>3. CASE TooManyLinks
  <2>1. Hops > MaxHops /\ outcome' = "tooManyLinks"
    BY <1>3 DEF TooManyLinks, Return
  <2>2. followed > MaxHops
    <3>1. followed >= Hops /\ followed \in Nat /\ Hops \in Int /\ MaxHops \in Nat
      BY TopFrame DEF IInv, Following, TypeInv, Hops
    <3> QED BY <2>1, <3>1
  <2> QED BY <1>1, <1>2, <2>1, <2>2 DEF Meaning!Fail
<1>4. CASE NotDirectory \/ NotFound \/ ReadFails
  <2>1. Top.parts # << >> /\ Top.parts \in Seq(Part)
    BY <1>4, TopFrame DEF NotDirectory, NotFound, ReadFails, InLoop, IInv
  <2>2. Todo # << >> /\ Head(Todo) = Head(Top.parts)
    <3>1. \E r \in Seq(Part) : Todo = Top.parts \o r
      BY TodoSplits DEF IInv
    <3> QED BY <2>1, <3>1, JoinedParts
  <2>3. CASE NotDirectory
    BY <1>1, <1>2, <2>2, <2>3 DEF NotDirectory, Return, Meaning!Fail
  <2>4. CASE NotFound
    <3>1. Meaning!Named(Head(Todo)) = {}
      BY <2>2, <2>4, NamedMatches DEF NotFound
    <3> QED BY <1>1, <1>2, <2>2, <2>4, <3>1 DEF NotFound, Return, Meaning!Fail
  <2>5. CASE ReadFails
    BY <1>1, <1>2, <2>2, <2>5 DEF ReadFails, Return, Meaning!Fail
  <2> QED BY <1>4, <2>3, <2>4, <2>5
<1> QED BY <1>3, <1>4

LEMMA StepMaps == IInv /\ [Next]_vars => [MeansStep]_(Meaning!vars)
<1> SUFFICES ASSUME IInv, [Next]_vars PROVE MeansStep \/ UNCHANGED Meaning!vars
  OBVIOUS
<1>1. CASE Descend
  BY <1>1, DescendWalks DEF MeansStep
<1>2. CASE ReturnFrame
  BY <1>2, ReturnWalks DEF MeansStep
<1>3. CASE TooManyLinks \/ NotDirectory \/ NotFound \/ ReadFails
  BY <1>3, FailureFails DEF MeansStep
<1>4. CASE Serve \/ UNCHANGED vars
  <2>1. UNCHANGED <<volume, op, path, stack, followed, outcome>>
    BY <1>4 DEF Serve, vars
  <2> QED BY <2>1 DEF Meaning!vars, Todo, Top
<1> QED BY <1>1, <1>2, <1>3, <1>4 DEF Next, Step

(* fs.go:144-207: resolveFrom searches the directories that the path, with *)
(* each link in it replaced by its target, leads through, for the same     *)
(* names in the same order, and fails only for the walk's own reasons.     *)
THEOREM RecursionWalksThePath == Spec => WalksThePath
<1>1. Spec => Meaning!Init /\ [][MeansStep]_(Meaning!vars)
  BY InitMaps, InitIInv, NextIInv, StepMaps, PTL DEF Spec
<1> QED BY <1>1 DEF WalksThePath, Meaning!Spec, MeansStep
=============================================================================
