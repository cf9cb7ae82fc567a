--------------------------- MODULE OpeningProofs ---------------------------
(***************************************************************************)
(* What readVolume and chooseTree establish, for every image: which images *)
(* are opened, which descriptors and which tree are used, and who closes   *)
(* the file. The calls on the opened image (Listing) change none of it.    *)
(* ListDir reads out of the areas of a record what was mastered into them: *)
(* entry by entry (Areas read back), area by area (The areas a record was  *)
(* written to), and what they say together is the name, target and mode.   *)
(***************************************************************************)
EXTENDS Listing, DataLemmas, TLAPS

---------------------------------------------------------------------------
(* The inductive invariant *)

\* The scan goes on behind a descriptor that neither ends nor refuses the set.
Passed(d) ==
  /\ d.type \notin {"foreign", "terminator"}
  /\ d.type = "primary" => d.root # "corrupt"

IsPrimary(j) == image[j].type = "primary"
HasJolietRoot(j) == image[j].type = "joliet" /\ image[j].root # "corrupt"

Ranges ==
  /\ image \in Seq(Descriptor)
  /\ via \in Calls
  /\ pc \in {"start", "scan", "choose", "opened", "failed"}
  /\ sector \in Nat \ {0} /\ pvd \in Nat /\ joliet \in Nat

\* All descriptors before the sector were passed, and lie in the image.
Scanned ==
  \A j \in 1..(sector - 1) : j <= Len(image) /\ Passed(image[j])

\* pvd and joliet are the last of their kinds among the descriptors passed.
PvdIsLast ==
  /\ pvd = 0 \/ (pvd \in 1..(sector - 1) /\ IsPrimary(pvd))
  /\ \A j \in 1..(sector - 1) : IsPrimary(j) => j <= pvd

JolietIsLast ==
  /\ joliet = 0 \/ (joliet \in 1..(sector - 1) /\ HasJolietRoot(joliet))
  /\ \A j \in 1..(sector - 1) : HasJolietRoot(j) => j <= joliet

BlockSizeOfPvd ==
  pvd # 0 => blockSize = EffectiveBlockSize(image[pvd].blockSize)

\* Where the opening stands, and what it says of the descriptors.
Verdict ==
  /\ pc \in {"start", "scan", "choose"} => err = "nil"
  /\ pc \in {"choose", "opened"} => sector <= Len(image) /\ TerminatedAt(sector)
  /\ pc = "failed" /\ err # "fault" => ~\E k \in 1..Len(image) : TerminatedAt(k)

HandleKept ==
  /\ pc = "start" => handle = IF via = "OpenFile" THEN "none" ELSE "open"
  /\ pc \in {"scan", "choose"} => handle = "open"
  /\ FailureReleasesTheFile

IInv ==
  /\ Ranges
  /\ Scanned
  /\ PvdIsLast
  /\ JolietIsLast
  /\ BlockSizeOfPvd
  /\ Verdict
  /\ HandleKept
  /\ TreeByPrecedence

---------------------------------------------------------------------------
(* Facts about the descriptors *)

\* The descriptor the scan looks at is one.
LEMMA HereIsADescriptor ==
  ASSUME Ranges, sector <= Len(image)
  PROVE  image[sector] \in Descriptor
  BY DEF Ranges

\* Before the end of what was passed no set of descriptors is complete.
LEMMA NotTerminatedBefore ==
  ASSUME Ranges, Scanned, NEW k \in Nat \ {0}, k < sector
  PROVE  ~TerminatedAt(k)
  BY DEF Ranges, Scanned, Passed, TerminatedAt

\* Nor does one end behind a descriptor that is not passed.
LEMMA NotTerminatedBehind ==
  ASSUME Ranges, ~Passed(image[sector]), NEW k \in Nat, k > sector
  PROVE  ~TerminatedAt(k)
  BY sector \in 1..(k - 1) DEF Ranges, Passed, TerminatedAt

\* Two complete sets of one image end at the same descriptor.
LEMMA OneTerminator ==
  ASSUME NEW i \in Nat \ {0}, NEW k \in Nat \ {0}, TerminatedAt(i), TerminatedAt(k)
  PROVE  i = k
  <1>1. ~(i < k)
    BY i < k => i \in 1..(k - 1) DEF TerminatedAt
  <1>2. ~(k < i)
    BY k < i => k \in 1..(i - 1) DEF TerminatedAt
  <1> QED BY <1>1, <1>2

---------------------------------------------------------------------------
(* Sequences put together of others *)

\* What FlattenSeq puts together, one sequence after another.
LEMMA FlattenIs ==
  ASSUME NEW S, NEW s \in Seq(Seq(S))
  PROVE  \E u : /\ u[0] = << >> /\ \A k \in 1..Len(s) : u[k] = u[k - 1] \o s[k]
                /\ \A k \in 0..Len(s) : u[k] \in Seq(S)
                /\ FlattenSeq(s) = u[Len(s)]
  <1>1. PICK Q : Q = Seq(S)
    OBVIOUS
  <1>2. s \in Seq(Q)
    BY <1>1
  <1>3. PICK n \in Nat : n = Len(s)
    BY <1>2
  <1>4. \A q, r \in Q : q \o r \in Q
    BY <1>1
  <1>5. << >> \in Q
    BY <1>1
  <1>6. \A k \in 1..n : s[k] \in Q
    BY <1>2, <1>3
  <1> DEFINE g == [k \in 1..n |-> [q \in Q |-> q \o s[k]]]
             Rec(f) == f = [i \in 1..n |-> IF i = 1 THEN s[i] ELSE f[i - 1] \o s[i]]
             flat == CHOOSE f : Rec(f)
  <1>7. Steps(n, Q, << >>, g)
    <2>1. g \in [1..n -> [Q -> Q]]
      BY <1>4, <1>6
    <2> HIDE DEF g
    <2> QED BY <1>5, <2>1 DEF Steps
  <1>8. PICK u : Takes(n, Q, << >>, g, u)
    <2> HIDE DEF g
    <2> QED BY <1>7, RecursionExists
  <1>9. u \in [0..n -> Q] /\ u[0] = << >> /\ \A k \in 1..n : u[k] = g[k][u[k - 1]]
    <2> HIDE DEF g
    <2> QED BY <1>8 DEF Takes
  <1>10. \A k \in 1..n : u[k - 1] \in Q /\ u[k] = u[k - 1] \o s[k]
    <2> TAKE k \in 1..n
    <2>1. k - 1 \in 0..n
      OBVIOUS
    <2>2. u[k - 1] \in Q
      <3> HIDE DEF g
      <3> QED BY <1>9, <2>1
    <2>3. g[k][u[k - 1]] = u[k - 1] \o s[k]
      BY <2>2
    <2> HIDE DEF g
    <2> QED BY <1>9, <2>2, <2>3
  <1>11. \A k \in 0..n : u[k] \in Q
    <2> HIDE DEF g
    <2> QED BY <1>9
  <1>12. CASE n = 0
    <2>1. s = << >>
      BY <1>2, <1>3, <1>12, EmptySequence
    <2>2. FlattenSeq(s) = << >>
      BY <1>3, <1>12, <2>1 DEF FlattenSeq
    <2> HIDE DEF g
    <2> QED BY <1>1, <1>3, <1>9, <1>10, <1>11, <1>12, <2>2
  <1>13. CASE n # 0
    <2>1. FlattenSeq(s) = flat[n]
      BY <1>3, <1>13 DEF FlattenSeq
    <2>2. PICK h : h = [i \in 1..n |-> u[i]]
      OBVIOUS
    <2>3. Rec(h)
      <3>1. ASSUME NEW i \in 1..n
            PROVE  u[i] = IF i = 1 THEN s[i] ELSE h[i - 1] \o s[i]
        <4>1. CASE i = 1
          <5>1. u[i] = u[0] \o s[i]
            <6>1. u[i] = u[i - 1] \o s[i]
              BY <1>10
            <6>2. i - 1 = 0
              BY <4>1
            <6> QED BY <6>1, <6>2
          <5>2. PICK x \in Q : x = s[i]
            BY <1>6
          <5>3. << >> \o x = x
            BY <1>1
          <5> QED BY <1>9, <4>1, <5>1, <5>2, <5>3
        <4>2. CASE i # 1
          <5>1. i - 1 \in 1..n
            BY <4>2
          <5> QED BY <1>10, <2>2, <4>2, <5>1
        <4> QED BY <4>1, <4>2
      <3> QED BY <2>2, <3>1
    <2>4. Rec(flat)
      <3> HIDE DEF Rec
      <3> QED BY <2>3
    <2>5. PICK v : v = flat
      OBVIOUS
    <2>6. Rec(v)
      <3> HIDE DEF Rec, flat
      <3> QED BY <2>4, <2>5
    <2> HIDE DEF g, flat
    <2>7. PICK w : w = [k \in 0..n |-> IF k = 0 THEN << >> ELSE v[k]]
      OBVIOUS
    <2>8. w[0] = u[0] /\ w[n] = flat[n]
      BY <1>9, <1>13, <2>5, <2>7
    <2>9. ASSUME NEW k \in 1..n, w[k - 1] = u[k - 1]
          PROVE  w[k] = u[k]
      <3>1. w[k] = v[k]
        BY <2>7
      <3>2. CASE k = 1
        <4>1. v[k] = s[k]
          BY <2>6, <3>2
        <4>2. u[k] = s[k]
          <5>1. PICK x \in Q : x = s[k]
            BY <1>6
          <5>2. << >> \o x = x
            BY <1>1
          <5>3. u[k] = u[k - 1] \o s[k]
            BY <1>10
          <5>4. u[k - 1] = << >>
            BY <1>9, <3>2
          <5> HIDE DEF Rec
          <5> QED BY <5>1, <5>2, <5>3, <5>4
        <4> QED BY <3>1, <4>1, <4>2
      <3>3. CASE k # 1
        <4>1. v[k] = v[k - 1] \o s[k]
          BY <2>6, <3>3
        <4>2. w[k - 1] = v[k - 1]
          <5>1. k - 1 \in 0..n /\ k - 1 # 0
            BY <3>3
          <5> HIDE DEF Rec
          <5> QED BY <2>7, <5>1
        <4>3. u[k] = u[k - 1] \o s[k]
          BY <1>10
        <4> HIDE DEF Rec
        <4> QED BY <2>9, <3>1, <4>1, <4>2, <4>3
      <3> QED BY <3>2, <3>3
    <2>10. \A k \in 0..n : w[k] = u[k]
      <3> DEFINE D == {k \in 0..n : w[k] = u[k]}
      <3>1. 0 \in D
        BY <2>8
      <3>2. ASSUME NEW k \in 1..n, k - 1 \in D
            PROVE  k \in D
        <4>1. w[k - 1] = u[k - 1] /\ k \in 0..n
          BY <3>2
        <4>2. w[k] = u[k]
          BY <2>9, <4>1
        <4> QED BY <4>1, <4>2
      <3> HIDE DEF D
      <3>3. \A k \in 0..n : k \in D
        BY <3>1, <3>2, InductionTo
      <3> QED BY <3>3 DEF D
    <2>11. flat[n] = u[n]
      BY <2>8, <2>10
    <2> HIDE DEF Rec
    <2> QED BY <1>1, <1>3, <1>9, <1>10, <1>11, <2>1, <2>11
  <1> QED BY <1>12, <1>13

\* Sequences of sequences, one behind the other.
LEMMA FlattenJoin ==
  ASSUME NEW S, NEW a \in Seq(Seq(S)), NEW b \in Seq(Seq(S))
  PROVE  /\ FlattenSeq(a \o b) = FlattenSeq(a) \o FlattenSeq(b)
         /\ FlattenSeq(a) \in Seq(S)
  <1>1. PICK Q : Q = Seq(S)
    OBVIOUS
  <1>2. a \in Seq(Q) /\ b \in Seq(Q)
    BY <1>1
  <1>3. PICK m \in Nat : m = Len(a)
    BY <1>2
  <1>4. PICK n \in Nat : n = Len(b)
    BY <1>2
  <1>5. PICK l \in Nat : l = m + n
    OBVIOUS
  <1>6. PICK c : c = a \o b
    OBVIOUS
  <1>7. /\ c \in Seq(Q) /\ Len(c) = l
        /\ \A i \in 1..m : c[i] = a[i]
        /\ \A i \in 1..n : c[m + i] = b[i]
    BY <1>2, <1>3, <1>4, <1>5, <1>6, Joined
  <1>8. c \in Seq(Seq(S))
    BY <1>1, <1>7
  <1>9. PICK u : /\ u[0] = << >> /\ \A k \in 1..Len(a) : u[k] = u[k - 1] \o a[k]
                 /\ \A k \in 0..Len(a) : u[k] \in Seq(S)
                 /\ FlattenSeq(a) = u[Len(a)]
    BY FlattenIs
  <1>10. PICK v : /\ v[0] = << >> /\ \A k \in 1..Len(b) : v[k] = v[k - 1] \o b[k]
                  /\ \A k \in 0..Len(b) : v[k] \in Seq(S)
                  /\ FlattenSeq(b) = v[Len(b)]
    BY FlattenIs
  <1>11. PICK w : /\ w[0] = << >> /\ \A k \in 1..Len(c) : w[k] = w[k - 1] \o c[k]
                  /\ \A k \in 0..Len(c) : w[k] \in Seq(S)
                  /\ FlattenSeq(c) = w[Len(c)]
    BY <1>8, FlattenIs
  <1>12. \A k \in 1..m : u[k] = u[k - 1] \o a[k]
    BY <1>3, <1>9
  <1>13. \A k \in 0..m : u[k] \in Q
    BY <1>1, <1>3, <1>9
  <1>14. \A k \in 1..n : v[k] = v[k - 1] \o b[k]
    BY <1>4, <1>10
  <1>15. \A k \in 0..n : v[k] \in Q
    BY <1>1, <1>4, <1>10
  <1>16. \A k \in 1..l : w[k] = w[k - 1] \o c[k]
    BY <1>7, <1>11
  <1>17. \A k \in 0..m : w[k] = u[k]
    <2>1. ASSUME NEW k \in 1..m, w[k - 1] = u[k - 1]
          PROVE  w[k] = u[k]
      <3>1. k \in 1..l
        BY <1>5
      <3>2. w[k] = w[k - 1] \o c[k] /\ u[k] = u[k - 1] \o a[k] /\ c[k] = a[k]
        BY <1>7, <1>12, <1>16, <3>1
      <3> QED BY <2>1, <3>2
    <2>2. w[0] = u[0]
      BY <1>9, <1>11
    <2> DEFINE D == {k \in 0..m : w[k] = u[k]}
    <2>3. 0 \in D /\ \A k \in 1..m : k - 1 \in D => k \in D
      BY <2>1, <2>2
    <2> HIDE DEF D
    <2>4. \A k \in 0..m : k \in D
      BY <2>3, InductionTo
    <2> QED BY <2>4 DEF D
  <1> DEFINE G == {k \in 0..n : w[m + k] = u[m] \o v[k]}
  <1>18. 0 \in G
    <2>1. PICK x \in Q : x = u[m]
      BY <1>13
    <2>2. x \o << >> = x
      BY <1>1
    <2>3. m + 0 = m /\ m \in 0..m
      OBVIOUS
    <2>4. w[m + 0] = u[m] \o v[0]
      BY <1>10, <1>17, <2>1, <2>2, <2>3
    <2>5. 0 \in 0..n
      OBVIOUS
    <2> QED BY <2>4, <2>5, Zenon
  <1>19. ASSUME NEW k \in 1..n, k - 1 \in G
         PROVE  k \in G
    <2>1. m + k \in 1..l /\ (m + k) - 1 = m + (k - 1) /\ k - 1 \in 0..n /\ m \in 0..m
      BY <1>5
    <2>2. w[m + k] = w[(m + k) - 1] \o c[m + k]
      BY <1>16, <2>1
    <2>3. w[(m + k) - 1] = u[m] \o v[k - 1]
      BY <1>19, <2>1
    <2>4. PICK x \in Seq(S), y \in Seq(S), z \in Seq(S) : x = u[m] /\ y = v[k - 1] /\ z = b[k]
      <3>1. b[k] \in Q /\ u[m] \in Q /\ v[k - 1] \in Q
        BY <1>2, <1>4, <1>13, <1>15, <2>1
      <3> QED BY <1>1, <3>1
    <2>5. (x \o y) \o z = x \o (y \o z)
      BY JoinAgain
    <2>6. v[k] = y \o z
      BY <1>14, <2>4
    <2>7. c[m + k] = z
      BY <1>7, <2>4
    <2>8. w[m + k] = u[m] \o v[k]
      BY <2>2, <2>3, <2>4, <2>5, <2>6, <2>7
    <2>9. k \in 0..n
      OBVIOUS
    <2> QED BY <2>8, <2>9
  <1>20. w[l] = u[m] \o v[n]
    <2> HIDE DEF G
    <2>1. \A k \in 0..n : k \in G
      BY <1>18, <1>19, InductionTo
    <2>2. n \in G
      BY <2>1
    <2> QED BY <1>5, <2>2 DEF G
  <1>21. u[m] \in Q
    BY <1>13
  <1> QED BY <1>1, <1>3, <1>4, <1>6, <1>7, <1>9, <1>10, <1>11, <1>20, <1>21

\* A single sequence, and none.
LEMMA FlattenOne ==
  ASSUME NEW S, NEW e \in Seq(S)
  PROVE  FlattenSeq(<<e>>) = e
  <1>1. PICK Q : Q = Seq(S)
    OBVIOUS
  <1>2. PICK s : s = <<e>>
    OBVIOUS
  <1>3. s \in Seq(Q) /\ Len(s) = 1 /\ s[1] = e
    BY <1>1, <1>2
  <1>4. s \in Seq(Seq(S))
    BY <1>1, <1>3
  <1>5. PICK u : /\ u[0] = << >> /\ \A k \in 1..Len(s) : u[k] = u[k - 1] \o s[k]
                 /\ \A k \in 0..Len(s) : u[k] \in Seq(S)
                 /\ FlattenSeq(s) = u[Len(s)]
    BY <1>4, FlattenIs
  <1>6. 1 \in 1..Len(s) /\ 1 - 1 = 0
    BY <1>3
  <1>7. u[1] = << >> \o e
    BY <1>3, <1>5, <1>6
  <1>8. << >> \o e = e
    OBVIOUS
  <1> QED BY <1>2, <1>3, <1>5, <1>7, <1>8

\* Nothing put together is nothing.
LEMMA FlattenNone == FlattenSeq(<< >>) = << >>
  BY DEF FlattenSeq

---------------------------------------------------------------------------
(* System Use Areas: what is cut from them by the lengths they claim *)

\* What ElementsAt collects, one position after another.
LEMMA ElementsAtIs ==
  ASSUME NEW S, NEW s \in Seq(S), NEW I
  PROVE  \E u : /\ u[0] = << >>
                /\ \A k \in 1..Len(s) : u[k] = IF k \in I THEN Append(u[k - 1], s[k]) ELSE u[k - 1]
                /\ ElementsAt(s, I) = u[Len(s)]
  <1> DEFINE n == Len(s)
             next(i, q) == IF i \in I THEN Append(q, s[i]) ELSE q
             step == [i \in 1..n |-> [q \in Seq(S) |-> next(i, q)]]
             Rec(f) == f = [i \in 0..n |-> IF i = 0 THEN << >> ELSE next(i, f[i - 1])]
             upTo == CHOOSE f : Rec(f)
  <1>1. n \in Nat
    OBVIOUS
  <1>2. \A i \in 1..n : \A q \in Seq(S) : next(i, q) \in Seq(S)
    OBVIOUS
  <1>3. Steps(n, Seq(S), << >>, step)
    <2>1. step \in [1..n -> [Seq(S) -> Seq(S)]]
      <3> HIDE DEF next, n
      <3> QED BY <1>2
    <2>2. << >> \in Seq(S)
      OBVIOUS
    <2> HIDE DEF step, n
    <2> QED BY <1>1, <2>1, <2>2 DEF Steps
  <1>4. PICK f : Takes(n, Seq(S), << >>, step, f)
    <2> HIDE DEF step, n
    <2> QED BY <1>3, RecursionExists
  <1>5. f \in [0..n -> Seq(S)] /\ f[0] = << >> /\ \A i \in 1..n : f[i] = step[i][f[i - 1]]
    <2> HIDE DEF step, n
    <2> QED BY <1>4 DEF Takes
  <1>6. \A i \in 1..n : f[i] = next(i, f[i - 1])
    <2> TAKE i \in 1..n
    <2> HIDE DEF n, next
    <2>1. f[i - 1] \in Seq(S)
      BY <1>1, <1>5
    <2> QED BY <1>5, <2>1
  <1>7. Rec(f)
    <2> HIDE DEF n, next
    <2> QED BY <1>1, <1>5, <1>6
  <1>8. PICK u : u = upTo
    OBVIOUS
  <1>9. Rec(u)
    <2>1. Rec(upTo)
      <3> HIDE DEF Rec
      <3> QED BY <1>7
    <2> HIDE DEF upTo, Rec
    <2> QED BY <1>8, <2>1
  <1>10. ElementsAt(s, I) = u[n]
    BY <1>8 DEF ElementsAt
  <1> HIDE DEF upTo, n, next
  <1>11. u[0] = << >> /\ \A i \in 1..n : u[i] = next(i, u[i - 1])
    BY <1>1, <1>9
  <1>12. \A k \in 1..Len(s) : u[k] = IF k \in I THEN Append(u[k - 1], s[k]) ELSE u[k - 1]
    BY <1>11 DEF n, next
  <1> QED BY <1>10, <1>11, <1>12 DEF n

\* What stands at some positions of a sequence is a sequence of these elements.
LEMMA ElementsAtTyped ==
  ASSUME NEW S, NEW s \in Seq(S), NEW I, NEW T, \A i \in 1..Len(s) : i \in I => s[i] \in T
  PROVE  ElementsAt(s, I) \in Seq(T)
  <1>1. PICK u : /\ u[0] = << >>
                 /\ \A k \in 1..Len(s) : u[k] = IF k \in I THEN Append(u[k - 1], s[k]) ELSE u[k - 1]
                 /\ ElementsAt(s, I) = u[Len(s)]
    BY ElementsAtIs
  <1>2. PICK n \in Nat : n = Len(s)
    OBVIOUS
  <1>3. PICK Q : Q = Seq(T)
    OBVIOUS
  <1>4. << >> \in Q /\ \A q \in Q : \A x \in T : Append(q, x) \in Q
    BY <1>3
  <1>5. u[0] \in Q /\ \A k \in 1..n : u[k - 1] \in Q => u[k] \in Q
    BY <1>1, <1>2, <1>4
  <1>6. \A k \in 0..n : u[k] \in Q
    BY <1>5, StaysIn
  <1> QED BY <1>1, <1>2, <1>3, <1>6

\* What stands at all positions of a sequence is the sequence.
LEMMA AllElements ==
  ASSUME NEW S, NEW s \in Seq(S), NEW I, \A i \in 1..Len(s) : i \in I
  PROVE  ElementsAt(s, I) = s
  <1>1. PICK u : /\ u[0] = << >>
                 /\ \A k \in 1..Len(s) : u[k] = IF k \in I THEN Append(u[k - 1], s[k]) ELSE u[k - 1]
                 /\ ElementsAt(s, I) = u[Len(s)]
    BY ElementsAtIs
  <1>2. PICK n \in Nat : n = Len(s)
    OBVIOUS
  <1>3. PICK G : G = {k \in 0..n : u[k] \in Seq(S) /\ Len(u[k]) = k /\ \A i \in 1..k : u[k][i] = s[i]}
    OBVIOUS
  <1>4. 0 \in G
    <2>1. 0 \in 0..n /\ \A i \in 1..0 : u[0][i] = s[i]
      OBVIOUS
    <2>2. << >> \in Seq(S) /\ Len(<< >>) = 0
      OBVIOUS
    <2>3. u[0] \in Seq(S) /\ Len(u[0]) = 0
      BY <1>1, <2>2
    <2> QED BY <1>3, <2>1, <2>3, Zenon
  <1>5. \A k \in 1..n : k - 1 \in G => k \in G
    <2> TAKE k \in 1..n
    <2> HAVE k - 1 \in G
    <2>1. PICK v \in Seq(S) : v = u[k - 1] /\ Len(v) = k - 1 /\ \A i \in 1..(k - 1) : v[i] = s[i]
      BY <1>3
    <2>2. u[k] = Append(v, s[k]) /\ s[k] \in S
      <3>1. k \in 1..Len(s)
        BY <1>2
      <3>2. u[k] = Append(u[k - 1], s[k])
        BY <1>1, <3>1
      <3>3. s[k] \in S
        BY <3>1
      <3> QED BY <2>1, <3>2, <3>3
    <2>3. PICK t : t = Append(v, s[k])
      OBVIOUS
    <2>4. t \in Seq(S) /\ Len(t) = k /\ t[k] = s[k] /\ \A i \in 1..(k - 1) : t[i] = v[i]
      BY <2>1, <2>2, <2>3
    <2>5. \A i \in 1..k : t[i] = s[i]
      BY <2>1, <2>4
    <2>6. k \in 0..n
      BY <1>2
    <2> QED BY <1>3, <2>2, <2>3, <2>4, <2>5, <2>6
  <1>6. \A k \in 0..n : k \in G
    BY <1>2, <1>4, <1>5, InductionTo
  <1>7. u[n] \in Seq(S) /\ Len(u[n]) = n /\ \A i \in 1..n : u[n][i] = s[i]
    BY <1>2, <1>3, <1>6
  <1> QED BY <1>1, <1>2, <1>7, SameElements

\* A part of a sequence, from where it may already be over.
LEMMA PartTyped ==
  ASSUME NEW S, NEW s \in Seq(S), NEW m \in Nat, NEW n \in Nat, n <= Len(s)
  PROVE  /\ SubSeq(s, m + 1, n) \in Seq(S)
         /\ Len(SubSeq(s, m + 1, n)) = IF m < n THEN n - m ELSE 0
  OBVIOUS

ByteString == Seq(0..255)

\* A byte string of at least n bytes has bytes up to there.
LEMMA BytesAre ==
  ASSUME NEW d \in ByteString
  PROVE  Len(d) \in Nat /\ \A i \in 1..Len(d) : d[i] \in Nat /\ d[i] <= 255
  <1>1. PICK B : B = 0..255
    OBVIOUS
  <1>2. d \in Seq(B)
    BY <1>1 DEF ByteString
  <1>3. Len(d) \in Nat /\ \A i \in 1..Len(d) : d[i] \in B
    BY <1>2
  <1>4. \A x \in B : x \in Nat /\ x <= 255
    BY <1>1
  <1> QED BY <1>3, <1>4

\* The payload of the entry at an offset, if it is one of those looked for.
Found(sua, sig, n, o) ==
  IF <<sua[o + 1], sua[o + 2]>> = sig /\ sua[o + 3] >= n + 4
  THEN <<SubSeq(sua, o + 5, o + sua[o + 3])>> ELSE << >>

\* The payloads found in an area from each offset on. They are bytes, as many as were asked for.
LEMMA OfIs ==
  ASSUME NEW sua \in ByteString, NEW sig, NEW n \in Nat
  PROVE  \E u : /\ \A o \in 0..Len(sua) : u[o] \in Seq({d \in ByteString : n <= Len(d)})
                /\ \A o \in 0..Len(sua) : u[o] = IF ~Whole(sua, o) THEN << >>
                                                 ELSE Found(sua, sig, n, o) \o u[o + sua[o + 3]]
                /\ Of(sua, sig, n) = u[0]
  <1>0. Len(sua) \in Nat /\ \A i \in 1..Len(sua) : sua[i] \in 0..255
    <2>1. PICK B : B = 0..255
      OBVIOUS
    <2>2. sua \in Seq(B)
      BY <2>1 DEF ByteString
    <2>3. Len(sua) \in Nat /\ \A i \in 1..Len(sua) : sua[i] \in B
      BY <2>2
    <2> QED BY <2>1, <2>3
  <1> DEFINE T == Seq({d \in ByteString : n <= Len(d)})
             l == Len(sua)
             P == {o \in 0..l : Whole(sua, o)}
             Fits(o) == <<sua[o + 1], sua[o + 2]>> = sig /\ sua[o + 3] >= n + 4
             data(o) == SubSeq(sua, o + 5, o + sua[o + 3])
             found(o, q) == IF Fits(o) THEN <<data(o)>> \o q ELSE q
             nx == [o \in P |-> o + sua[o + 3]]
             g == [o \in P |-> [q \in T |-> found(o, q)]]
             Rec(f) == f = [o \in 0..l |-> IF ~Whole(sua, o) THEN << >> ELSE found(o, f[o + sua[o + 3]])]
             from == CHOOSE f : Rec(f)
  <1>1. l \in Nat /\ \A i \in 1..l : sua[i] \in 0..255
    BY <1>0
  <1>2. ASSUME NEW o \in P
        PROVE  /\ sua[o + 3] \in Nat
               /\ o + sua[o + 3] \in 0..l /\ o < o + sua[o + 3]
               /\ Fits(o) => data(o) \in ByteString /\ n <= Len(data(o))
    <2>1. o \in Nat /\ o + 4 <= l /\ sua[o + 3] >= 4 /\ o + sua[o + 3] <= l
      BY <1>1 DEF Whole
    <2>2. sua[o + 3] \in 0..255
      BY <1>1, <2>1
    <2>3. ASSUME sua[o + 3] >= n + 4
          PROVE  data(o) \in ByteString /\ n <= Len(data(o))
      <3>1. PICK e \in Nat : e = sua[o + 3] /\ o + e <= l /\ n + 4 <= e
        <4> HIDE DEF P, l
        <4> QED BY <2>1, <2>2, <2>3
      <3>2. o + 4 \in Nat /\ o + e \in Nat /\ (o + 4) + 1 = o + 5
        BY <2>1, <3>1
      <3>3. SubSeq(sua, (o + 4) + 1, o + e) \in Seq(0..255)
            /\ Len(SubSeq(sua, (o + 4) + 1, o + e)) = IF o + 4 < o + e THEN (o + e) - (o + 4) ELSE 0
        <4>1. PICK B : B = 0..255
          OBVIOUS
        <4>2. sua \in Seq(B)
          BY <4>1 DEF ByteString
        <4>3. PICK x \in Nat : x = o + 4
          BY <3>2
        <4>4. PICK y \in Nat : y = o + e
          BY <3>2
        <4>5. y <= Len(sua)
          BY <3>1, <4>4
        <4> HIDE DEF P, l, data, Fits, T
        <4>6. SubSeq(sua, x + 1, y) \in Seq(B) /\ Len(SubSeq(sua, x + 1, y)) = IF x < y THEN y - x ELSE 0
          BY <4>2, <4>5, PartTyped
        <4> QED BY <4>1, <4>3, <4>4, <4>6
      <3>4. data(o) = SubSeq(sua, (o + 4) + 1, o + e)
        BY <3>1, <3>2
      <3>5. n <= IF o + 4 < o + e THEN (o + e) - (o + 4) ELSE 0
        <4>1. o \in Nat
          BY <2>1
        <4> HIDE DEF P, l, data, Fits
        <4> QED BY <3>1, <4>1
      <3> HIDE DEF data
      <3> QED BY <3>3, <3>4, <3>5 DEF ByteString
    <2>4. Fits(o) => data(o) \in ByteString /\ n <= Len(data(o))
      <3> HIDE DEF data, P
      <3> QED BY <2>3
    <2> HIDE DEF data, l, P, Fits
    <2>5. PICK e \in Nat : e = sua[o + 3]
      BY <2>2
    <2>6. o + e \in 0..l /\ o < o + e
      BY <1>1, <2>1, <2>5
    <2> QED BY <2>4, <2>5, <2>6
  <1>3. \A o \in P : \A q \in T : found(o, q) \in T
    <2> TAKE o \in P
    <2> TAKE q \in T
    <2>1. CASE Fits(o)
      <3>1. <<data(o)>> \in T
        <4> HIDE DEF data, Fits, P
        <4> QED BY <1>2, <2>1
      <3> HIDE DEF data, Fits, P
      <3> QED BY <2>1, <3>1
    <2> QED BY <2>1
  <1>4. Forward(l, P, nx)
    <2>1. nx \in [P -> 0..l] /\ \A o \in P : o < nx[o]
      <3> HIDE DEF P, l, data, Fits
      <3> QED BY <1>2
    <2>2. P \in SUBSET (0..l)
      OBVIOUS
    <2> HIDE DEF P, l, nx
    <2> QED BY <1>1, <2>1, <2>2 DEF Forward
  <1>5. << >> \in T
    OBVIOUS
  <1>6. WalkSteps(P, T, << >>, g)
    <2>1. g \in [P -> [T -> T]]
      <3> HIDE DEF P, T, found
      <3> QED BY <1>3
    <2> HIDE DEF P, T, g
    <2> QED BY <1>5, <2>1 DEF WalkSteps
  <1>7. PICK f : Walks(0, l, P, nx, T, << >>, g, f)
    <2> HIDE DEF P, T, l, nx, g
    <2> QED BY <1>4, <1>6, WalkExists
  <1>8. f \in [0..l -> T] /\ \A o \in 0..l : f[o] = IF o \in P THEN g[o][f[nx[o]]] ELSE << >>
    <2> HIDE DEF P, T, l, nx, g
    <2> QED BY <1>7 DEF Walks
  <1>9. ASSUME NEW o \in 0..l
        PROVE  f[o] = IF ~Whole(sua, o) THEN << >> ELSE found(o, f[o + sua[o + 3]])
    <2>1. CASE o \in P
      <3>1. f[o] = g[o][f[nx[o]]]
        <4> HIDE DEF P, T, l, nx, g
        <4> QED BY <1>8, <2>1
      <3>2. nx[o] = o + sua[o + 3] /\ nx[o] \in 0..l
        <4> HIDE DEF P, l
        <4> QED BY <1>2, <2>1
      <3>3. f[nx[o]] \in T
        <4> HIDE DEF P, T, l, nx, g
        <4> QED BY <1>8, <3>2
      <3>4. g[o][f[nx[o]]] = found(o, f[nx[o]])
        <4> HIDE DEF P, T, l, nx, found
        <4> QED BY <2>1, <3>3
      <3>5. Whole(sua, o)
        BY <2>1
      <3> HIDE DEF P, T, l, nx, found, g
      <3> QED BY <3>1, <3>2, <3>4, <3>5
    <2>2. CASE o \notin P
      <3>1. ~Whole(sua, o)
        BY <2>2
      <3>2. f[o] = << >>
        <4> HIDE DEF P, T, l, nx, g
        <4> QED BY <1>8, <2>2
      <3> QED BY <3>1, <3>2
    <2> QED BY <2>1, <2>2
  <1>10. Rec(f)
    <2>1. f = [o \in 0..l |-> f[o]]
      <3> HIDE DEF P, T, l, nx, g
      <3> QED BY <1>8
    <2> HIDE DEF l, found
    <2> QED BY <1>9, <2>1
  <1>11. Rec(from)
    <2> HIDE DEF Rec
    <2> QED BY <1>10
  <1>12. Of(sua, sig, n) = from[0]
    BY DEF Of
  <1>13. PICK u : u = from
    OBVIOUS
  <1>14. Rec(u)
    <2> HIDE DEF Rec, from
    <2> QED BY <1>11, <1>13
  <1>15. ASSUME NEW o \in 0..l, o \in P => u[nx[o]] \in T
         PROVE  u[o] \in T
    <2>1. CASE o \in P
      <3>1. nx[o] = o + sua[o + 3]
        <4> HIDE DEF P
        <4> QED BY <2>1
      <3>2. Whole(sua, o)
        BY <2>1
      <3>3. u[o] = found(o, u[o + sua[o + 3]])
        <4> HIDE DEF P, T, nx, found, l, g
        <4> QED BY <1>14, <3>2
      <3>4. PICK q \in T : q = u[o + sua[o + 3]]
        <4> HIDE DEF P, T, nx
        <4> QED BY <1>15, <2>1, <3>1
      <3> HIDE DEF P, T, found, nx
      <3> QED BY <1>3, <2>1, <3>3, <3>4
    <2>2. CASE o \notin P
      <3>1. ~Whole(sua, o)
        BY <2>2
      <3>2. u[o] = << >>
        <4> HIDE DEF P, T, nx, found, l, g
        <4> QED BY <1>14, <3>1
      <3> HIDE DEF T
      <3> QED BY <1>5, <3>2
    <2> QED BY <2>1, <2>2
  <1>16. \A o \in 0..l : u[o] \in T
    <2> HIDE DEF P, T, l, nx
    <2> QED BY <1>4, <1>15, WalkStays
  <1>17. ASSUME NEW o \in 0..l
         PROVE  u[o] = IF ~Whole(sua, o) THEN << >> ELSE Found(sua, sig, n, o) \o u[o + sua[o + 3]]
    <2>1. CASE o \in P
      <3>1. Whole(sua, o) /\ o + sua[o + 3] \in 0..l
        <4> HIDE DEF l
        <4> QED BY <1>2, <2>1
      <3>2. u[o] = found(o, u[o + sua[o + 3]])
        <4> HIDE DEF P, T, nx, found, l, g
        <4> QED BY <1>14, <3>1
      <3>3. PICK q \in T : q = u[o + sua[o + 3]]
        <4> HIDE DEF P, T, nx, found, l, g
        <4> QED BY <1>16, <3>1
      <3>4. << >> \o q = q
        OBVIOUS
      <3>5. found(o, q) = Found(sua, sig, n, o) \o q
        <4> HIDE DEF T, P
        <4> QED BY <3>4 DEF Found
      <3> HIDE DEF P, T, nx, found, l, g
      <3> QED BY <3>1, <3>2, <3>3, <3>5
    <2>2. CASE o \notin P
      <3>1. ~Whole(sua, o)
        BY <2>2
      <3>2. u[o] = << >>
        <4> HIDE DEF P, T, nx, found, l, g
        <4> QED BY <1>14, <3>1
      <3> QED BY <3>1, <3>2
    <2> QED BY <2>1, <2>2
  <1>18. \A o \in 0..l : u[o] \in Seq({d \in ByteString : n <= Len(d)})
    BY <1>16
  <1>19. Of(sua, sig, n) = u[0]
    BY <1>12, <1>13
  <1> HIDE DEF from, T, P, nx, g, found
  <1> QED BY <1>17, <1>18, <1>19

\* The payloads found in an area are bytes, as many as were asked for.
LEMMA PayloadsTyped ==
  ASSUME NEW sua \in ByteString, NEW sig, NEW n \in Nat
  PROVE  Of(sua, sig, n) \in Seq({d \in ByteString : n <= Len(d)})
  <1>1. PICK u : /\ \A o \in 0..Len(sua) : u[o] \in Seq({d \in ByteString : n <= Len(d)})
                 /\ Of(sua, sig, n) = u[0]
    BY OfIs
  <1>2. 0 \in 0..Len(sua)
    BY BytesAre
  <1> QED BY <1>1, <1>2

\* A continuation area is claimed by naturals, and the claim of an area with
\* no entry of its kind is empty.
LEMMA CEEntryTyped ==
  ASSUME NEW a \in ByteString
  PROVE  CEEntry(a).block \in Nat /\ CEEntry(a).offset \in Nat /\ CEEntry(a).length \in Nat
  <1>1. PICK found : found = Of(a, CE, 24)
    OBVIOUS
  <1>2. PICK D : D = {d \in ByteString : 24 <= Len(d)}
    OBVIOUS
  <1>3. found \in Seq(D)
    BY <1>1, <1>2, PayloadsTyped
  <1>4. CASE found = << >>
    BY <1>1, <1>4 DEF CEEntry
  <1>5. CASE found # << >>
    <2>1. Len(found) \in Nat /\ Len(found) # 0
      BY <1>3, <1>5, EmptySequence
    <2>2. found[1] \in D
      BY <1>3, <2>1
    <2>3. PICK d \in ByteString : d = found[1] /\ 24 <= Len(d)
      BY <1>2, <2>2
    <2>4. \A i \in 1..24 : d[i] \in Nat
      BY <2>3, BytesAre
    <2>5. LE32(d, 0) \in Nat /\ LE32(d, 8) \in Nat /\ LE32(d, 16) \in Nat
      BY <2>4 DEF LE32, LE16
    <2>6. CEEntry(a) = [block |-> LE32(d, 0), offset |-> LE32(d, 8), length |-> LE32(d, 16)]
      BY <1>1, <1>5, <2>3 DEF CEEntry
    <2> HIDE DEF LE32
    <2> QED BY <2>5, <2>6
  <1> QED BY <1>4, <1>5

\* The bytes to skip are one byte's number.
LEMMA SkipTyped ==
  ASSUME NEW a \in ByteString
  PROVE  /\ DetectSUSPSkip(a).skip \in Nat /\ DetectSUSPSkip(a).skip <= 255
         /\ DetectSUSPSkip(a).found \in BOOLEAN
  <1>1. PICK sps : sps = Of(a, SP, 3)
    OBVIOUS
  <1>2. PICK D : D = {d \in ByteString : 3 <= Len(d)}
    OBVIOUS
  <1>3. sps \in Seq(D)
    BY <1>1, <1>2, PayloadsTyped
  <1>4. PICK I : I = {i \in DOMAIN sps : sps[i][1] = 190 /\ sps[i][2] = 239}
    OBVIOUS
  <1>5. PICK found : found = ElementsAt(sps, I)
    OBVIOUS
  <1>6. \A i \in 1..Len(sps) : i \in I => sps[i] \in D
    BY <1>3
  <1>7. found \in Seq(D)
    BY <1>3, <1>5, <1>6, ElementsAtTyped
  <1>8. DetectSUSPSkip(a) = IF found = << >> THEN [skip |-> 0, found |-> FALSE]
                            ELSE [skip |-> found[1][3], found |-> TRUE]
    BY <1>1, <1>4, <1>5 DEF DetectSUSPSkip
  <1>9. CASE found = << >>
    BY <1>8, <1>9
  <1>10. CASE found # << >>
    <2>1. Len(found) \in Nat /\ Len(found) # 0
      BY <1>7, <1>10, EmptySequence
    <2>2. found[1] \in D
      BY <1>7, <2>1
    <2>3. PICK d \in ByteString : d = found[1] /\ 3 <= Len(d)
      BY <1>2, <2>2
    <2>4. d[3] \in Nat /\ d[3] <= 255
      BY <2>3, BytesAre
    <2> QED BY <1>8, <1>10, <2>3, <2>4
  <1> QED BY <1>9, <1>10

\* The mode is a uint16, whatever the area holds.
LEMMA ModeTyped ==
  ASSUME NEW a \in ByteString
  PROVE  ParseRockRidge(a).mode \in Nat /\ ParseRockRidge(a).mode <= 65535
  <1>1. PICK modes : modes = Of(a, PX, 4)
    OBVIOUS
  <1>2. PICK D : D = {d \in ByteString : 4 <= Len(d)}
    OBVIOUS
  <1>3. modes \in Seq(D)
    BY <1>1, <1>2, PayloadsTyped
  <1>4. ParseRockRidge(a).mode = IF modes = << >> THEN 0 ELSE LE16(Last(modes), 0)
    BY <1>1 DEF ParseRockRidge
  <1>5. CASE modes = << >>
    BY <1>4, <1>5
  <1>6. CASE modes # << >>
    <2>1. PICK n \in Nat : n = Len(modes) /\ n # 0
      BY <1>3, <1>6, EmptySequence
    <2>2. modes[n] \in D
      BY <1>3, <2>1
    <2>3. PICK d \in ByteString : d = Last(modes) /\ 4 <= Len(d)
      BY <1>2, <2>1, <2>2 DEF Last
    <2>4. d[1] \in Nat /\ d[1] <= 255 /\ d[2] \in Nat /\ d[2] <= 255
      BY <2>3, BytesAre
    <2>5. LE16(d, 0) \in Nat /\ LE16(d, 0) <= 65535
      BY <2>4 DEF LE16
    <2> QED BY <1>4, <1>6, <2>3, <2>5
  <1> QED BY <1>5, <1>6

---------------------------------------------------------------------------
(* The invariant is established *)

\* Every initial state has the invariant.
LEMMA InitHolds == Init => IInv
  <1> SUFFICES ASSUME Init PROVE IInv
    OBVIOUS
  <1>1. Ranges
    BY OpeningAssumption DEF Init, Ranges, Calls
  <1>2. Scanned /\ PvdIsLast /\ JolietIsLast /\ BlockSizeOfPvd
    BY DEF Init, Scanned, PvdIsLast, JolietIsLast, BlockSizeOfPvd
  <1>3. Verdict /\ HandleKept /\ TreeByPrecedence
    BY DEF Init, Verdict, HandleKept, FailureReleasesTheFile, TreeByPrecedence
  <1> QED BY <1>1, <1>2, <1>3 DEF IInv

---------------------------------------------------------------------------
(* The invariant is preserved *)

\* A refusal keeps it if no set of descriptors is complete.
LEMMA FailKeeps ==
  ASSUME IInv, NEW e, Fail(e), pc = "scan",
         e # "fault" => ~\E k \in 1..Len(image) : TerminatedAt(k)
  PROVE  IInv'
  <1> USE DEF Fail
  <1>1. Ranges' /\ Scanned'
    BY DEF IInv, Ranges, Scanned, Passed
  <1>2. PvdIsLast' /\ JolietIsLast' /\ BlockSizeOfPvd'
    BY DEF IInv, PvdIsLast, JolietIsLast, BlockSizeOfPvd, IsPrimary, HasJolietRoot
  <1>3. Verdict'
    BY DEF Verdict, TerminatedAt
  <1>4. HandleKept' /\ TreeByPrecedence'
    BY DEF IInv, Ranges, Calls, HandleKept, AfterFailure, FailureReleasesTheFile, TreeByPrecedence
  <1> QED BY <1>1, <1>2, <1>3, <1>4 DEF IInv

\* A refusal at a descriptor that is not passed: none before it ended the set.
LEMMA NoneTerminated ==
  ASSUME IInv, ~Passed(image[sector]), ~TerminatedAt(sector)
  PROVE  ~\E k \in 1..Len(image) : TerminatedAt(k)
  <1> SUFFICES ASSUME NEW k \in 1..Len(image) PROVE ~TerminatedAt(k)
    OBVIOUS
  <1>1. Ranges /\ Scanned /\ sector \in Nat /\ k \in Nat \ {0}
    BY DEF IInv, Ranges
  <1>2. CASE k < sector
    BY <1>1, <1>2, NotTerminatedBefore
  <1>3. CASE k > sector
    BY <1>1, <1>3, NotTerminatedBehind
  <1> QED BY <1>1, <1>2, <1>3

\* A descriptor that is passed keeps it, whatever roots are taken from it.
LEMMA AdvanceKeeps ==
  ASSUME IInv, pc = "scan", sector <= Len(image), Passed(image[sector]), NextSector,
         pvd' = IF IsPrimary(sector) THEN sector ELSE pvd,
         joliet' = IF HasJolietRoot(sector) THEN sector ELSE joliet,
         blockSize' = IF IsPrimary(sector) THEN EffectiveBlockSize(image[sector].blockSize)
                      ELSE blockSize
  PROVE  IInv'
  <1> USE DEF NextSector
  <1>1. sector \in Nat \ {0} /\ sector' = sector + 1 /\ image' = image
    BY DEF IInv, Ranges
  <1>2. 1..(sector' - 1) = 1..(sector - 1) \cup {sector} /\ sector \in 1..(sector' - 1)
    BY <1>1
  <1>3. Ranges'
    BY <1>1 DEF IInv, Ranges
  <1>4. Scanned'
    BY <1>1, <1>2 DEF IInv, Scanned, Passed
  <1>5. PvdIsLast'
    <2>1. CASE IsPrimary(sector)
      BY <1>1, <1>2, <2>1 DEF PvdIsLast, IsPrimary
    <2>2. CASE ~IsPrimary(sector)
      BY <1>1, <1>2, <2>2 DEF IInv, PvdIsLast, IsPrimary
    <2> QED BY <2>1, <2>2
  <1>6. JolietIsLast'
    <2>1. CASE HasJolietRoot(sector)
      BY <1>1, <1>2, <2>1 DEF JolietIsLast, HasJolietRoot
    <2>2. CASE ~HasJolietRoot(sector)
      BY <1>1, <1>2, <2>2 DEF IInv, JolietIsLast, HasJolietRoot
    <2> QED BY <2>1, <2>2
  <1>7. BlockSizeOfPvd'
    BY <1>1 DEF IInv, BlockSizeOfPvd
  <1>8. Verdict' /\ HandleKept' /\ TreeByPrecedence'
    BY DEF IInv, Verdict, HandleKept, FailureReleasesTheFile, TreeByPrecedence
  <1> QED BY <1>3, <1>4, <1>5, <1>6, <1>7, <1>8 DEF IInv

\* A step of the opening or a close keeps it.
LEMMA StepHolds == IInv /\ [Next]_vars => IInv'
  <1> SUFFICES ASSUME IInv, [Next]_vars PROVE IInv'
    OBVIOUS
  <1>1. CASE Start
    <2>1. Ranges' /\ Scanned' /\ PvdIsLast' /\ JolietIsLast' /\ BlockSizeOfPvd'
      BY <1>1 DEF Start, IInv, Ranges, Scanned, Passed, PvdIsLast, JolietIsLast, BlockSizeOfPvd,
                  IsPrimary, HasJolietRoot
    <2>2. Verdict' /\ HandleKept' /\ TreeByPrecedence'
      BY <1>1 DEF Start, IInv, Verdict, HandleKept, FailureReleasesTheFile, TreeByPrecedence
    <2> QED BY <2>1, <2>2 DEF IInv
  <1>2. CASE StartFails
    <2>1. Ranges' /\ Scanned' /\ PvdIsLast' /\ JolietIsLast' /\ BlockSizeOfPvd'
      BY <1>2 DEF StartFails, IInv, Ranges, Scanned, Passed, PvdIsLast, JolietIsLast, BlockSizeOfPvd,
                  IsPrimary, HasJolietRoot
    <2>2. Verdict' /\ HandleKept' /\ TreeByPrecedence'
      BY <1>2 DEF StartFails, Verdict, HandleKept, FailureReleasesTheFile, TreeByPrecedence
    <2> QED BY <2>1, <2>2 DEF IInv
  <1>3. CASE ReadFails
    BY <1>3, FailKeeps DEF ReadFails, Scanning
  <1>4. CASE ImageEnds
    <2>1. ~\E k \in 1..Len(image) : TerminatedAt(k)
      BY <1>4, NotTerminatedBefore DEF ImageEnds, IInv, Ranges
    <2> QED BY <1>4, <2>1, FailKeeps DEF ImageEnds, Scanning
  <1>5. CASE Foreign
    <2>1. ~Passed(image[sector]) /\ ~TerminatedAt(sector)
      BY <1>5 DEF Foreign, Here, Passed, TerminatedAt
    <2> QED BY <1>5, <2>1, NoneTerminated, FailKeeps DEF Foreign, Scanning
  <1>6. CASE Primary
    <2>1. CASE Here.root = "corrupt"
      <3>1. ~Passed(image[sector]) /\ ~TerminatedAt(sector)
        BY <1>6, <2>1 DEF Primary, Here, Passed, TerminatedAt
      <3> QED BY <1>6, <2>1, <3>1, NoneTerminated, FailKeeps DEF Primary, Scanning
    <2>2. CASE Here.root # "corrupt"
      <3>1. Passed(image[sector]) /\ IsPrimary(sector) /\ ~HasJolietRoot(sector)
        BY <1>6, <2>2 DEF Primary, Here, Passed, IsPrimary, HasJolietRoot
      <3> QED BY <1>6, <2>2, <3>1, AdvanceKeeps DEF Primary, Scanning, Here
    <2> QED BY <2>1, <2>2
  <1>7. CASE Supplement
    <2>1. Passed(image[sector]) /\ ~IsPrimary(sector)
      BY <1>7 DEF Supplement, Here, Passed, IsPrimary
    <2>2. IsJoliet(Here) <=> HasJolietRoot(sector)
      BY DEF IsJoliet, Here, HasJolietRoot
    <2> QED BY <1>7, <2>1, <2>2, AdvanceKeeps DEF Supplement, Scanning
  <1>8. CASE Terminator
    <2>1. ~Passed(image[sector]) /\ sector \in Nat \ {0}
      BY <1>8 DEF Terminator, Here, Passed, IInv, Ranges
    <2>2. CASE ~Complete
      <3>1. ~TerminatedAt(sector)
        BY <2>1, <2>2 DEF Complete, TerminatedAt, IInv, PvdIsLast, IsPrimary
      <3> QED BY <1>8, <2>1, <2>2, <3>1, NoneTerminated, FailKeeps DEF Terminator, Scanning
    <2>3. CASE Complete
      <3>1. TerminatedAt(sector)
        <4>1. pvd \in 1..(sector - 1) /\ image[pvd].type = "primary"
          BY <2>1, <2>3 DEF Complete, IInv, PvdIsLast, IsPrimary
        <4>2. \A j \in 1..(sector - 1) : Passed(image[j])
          BY DEF IInv, Scanned
        <4> QED BY <1>8, <4>1, <4>2 DEF Terminator, Scanning, Here, Passed, TerminatedAt
      <3>2. pc' = "choose" /\ UNCHANGED <<image, via, sector, pvd, joliet, blockSize, handle, tree, err>>
        BY <1>8, <2>3 DEF Terminator
      <3>3. Ranges' /\ Scanned' /\ PvdIsLast' /\ JolietIsLast' /\ BlockSizeOfPvd'
        BY <3>2 DEF IInv, Ranges, Scanned, Passed, PvdIsLast, JolietIsLast, BlockSizeOfPvd,
                    IsPrimary, HasJolietRoot
      <3>4. Verdict'
        BY <1>8, <3>1, <3>2 DEF Terminator, Scanning, IInv, Verdict, TerminatedAt
      <3>5. HandleKept' /\ TreeByPrecedence'
        BY <1>8, <3>2 DEF Terminator, Scanning, IInv, HandleKept, FailureReleasesTheFile, TreeByPrecedence
      <3> QED BY <3>3, <3>4, <3>5 DEF IInv
    <2> QED BY <2>2, <2>3
  <1>9. CASE NoTerminator
    <2>1. ~\E k \in 1..Len(image) : TerminatedAt(k)
      <3> SUFFICES ASSUME NEW k \in 1..Len(image), TerminatedAt(k) PROVE FALSE
        OBVIOUS
      <3>1. Ranges /\ Scanned
        BY DEF IInv
      <3>2. k <= MaxSectors
        BY DEF TerminatedAt
      <3>3. k \in Nat \ {0} /\ k < sector
        BY <1>9, <3>1, <3>2, OpeningAssumption DEF NoTerminator, Ranges
      <3> QED BY <3>1, <3>3, NotTerminatedBefore
    <2> QED BY <1>9, <2>1, FailKeeps DEF NoTerminator
  <1>10. CASE ChooseTree
    <2>1. pc = "choose" /\ pc' = "opened" /\ UNCHANGED <<image, via, sector, pvd, joliet, blockSize, handle>>
      BY <1>10 DEF ChooseTree
    <2>2. Ranges' /\ Scanned' /\ PvdIsLast' /\ JolietIsLast' /\ BlockSizeOfPvd'
      BY <2>1 DEF IInv, Ranges, Scanned, Passed, PvdIsLast, JolietIsLast, BlockSizeOfPvd,
                  IsPrimary, HasJolietRoot
    <2>3. Verdict'
      BY <2>1 DEF IInv, Verdict, TerminatedAt
    <2>4. HandleKept'
      BY <2>1 DEF HandleKept, FailureReleasesTheFile
    <2>5. TreeByPrecedence'
      <3>1. err = "nil"
        BY <2>1 DEF IInv, Verdict
      <3>2. PICK readable \in BOOLEAN :
              /\ tree' = Choice(readable /\ SUSPOf(image[pvd]).found)
              /\ err' = IF readable THEN err ELSE "fault"
        BY <1>10 DEF ChooseTree
      <3>3. (readable /\ SUSPOf(image[pvd]).found) <=> tree' = "rockRidge"
        BY <3>2 DEF Choice
      <3> QED BY <2>1, <3>1, <3>2, <3>3 DEF Choice, TreeByPrecedence
    <2> QED BY <2>2, <2>3, <2>4, <2>5 DEF IInv
  <1>11. CASE Close
    <2>1. pc = "opened" /\ UNCHANGED <<image, via, pc, sector, pvd, joliet, blockSize, tree, err>>
      BY <1>11 DEF Close
    <2>2. Ranges' /\ Scanned' /\ PvdIsLast' /\ JolietIsLast' /\ BlockSizeOfPvd'
      BY <2>1 DEF IInv, Ranges, Scanned, Passed, PvdIsLast, JolietIsLast, BlockSizeOfPvd,
                  IsPrimary, HasJolietRoot
    <2>3. Verdict' /\ TreeByPrecedence'
      BY <2>1 DEF IInv, Verdict, TerminatedAt, TreeByPrecedence
    <2>4. HandleKept'
      BY <2>1 DEF HandleKept, FailureReleasesTheFile
    <2> QED BY <2>2, <2>3, <2>4 DEF IInv
  <1>12. CASE UNCHANGED vars
    <2>1. Ranges' /\ Scanned' /\ PvdIsLast' /\ JolietIsLast' /\ BlockSizeOfPvd'
      BY <1>12 DEF vars, IInv, Ranges, Scanned, Passed, PvdIsLast, JolietIsLast, BlockSizeOfPvd,
                   IsPrimary, HasJolietRoot
    <2>2. Verdict' /\ HandleKept' /\ TreeByPrecedence'
      BY <1>12 DEF vars, IInv, Verdict, TerminatedAt, HandleKept, FailureReleasesTheFile, TreeByPrecedence
    <2> QED BY <2>1, <2>2 DEF IInv
  <1> QED BY <1>1, <1>2, <1>3, <1>4, <1>5, <1>6, <1>7, <1>8, <1>9, <1>10, <1>11, <1>12
             DEF Next, OpenStep

---------------------------------------------------------------------------
(* Types of the opening *)

\* A byte is a natural up to 255.
LEMMA ByteRange ==
  ASSUME NEW x
  PROVE  x \in 0..255 <=> x \in Nat /\ x <= 255
  OBVIOUS

\* The "." records of a directory are records of it.
LEMMA DotsTyped ==
  ASSUME NEW d \in Descriptor, Dots(d) # << >>
  PROVE  d.root = "dir" /\ Dots(d)[1] \in FileRecord
  <1>1. PICK I : I = {i \in DOMAIN d.files : d.files[i].id = Self}
    OBVIOUS
  <1>2. d.root = "dir" /\ Dots(d) = ElementsAt(d.files, I)
    BY <1>1, Zenon DEF Dots
  <1>3. PICK R : R = FileRecord
    OBVIOUS
  <1>4. d.files \in Seq(R)
    BY <1>3 DEF Descriptor
  <1>5. \A i \in 1..Len(d.files) : i \in I => d.files[i] \in R
    BY <1>4
  <1>6. PICK dots : dots = ElementsAt(d.files, I)
    OBVIOUS
  <1>7. dots \in Seq(R)
    BY <1>4, <1>5, <1>6, ElementsAtTyped
  <1>8. dots # << >>
    BY <1>2, <1>6, Zenon
  <1>9. Len(dots) \in Nat /\ Len(dots) # 0
    BY <1>7, <1>8, EmptySequence
  <1>10. dots[1] \in R
    BY <1>7, <1>9
  <1> QED BY <1>2, <1>3, <1>6, <1>10, Zenon

\* The numbers of a directory's records are those of its "." record.
LEMMA SUSPTyped ==
  ASSUME NEW d \in Descriptor
  PROVE  /\ SUSPOf(d).skip \in Nat /\ SUSPOf(d).skip <= 255
         /\ SUSPOf(d).found \in BOOLEAN
  <1>1. PICK dots : dots = Dots(d)
    OBVIOUS
  <1>2. SUSPOf(d) = IF dots = << >> THEN [skip |-> 0, found |-> FALSE] ELSE DetectSUSPSkip(dots[1].sua)
    BY <1>1, Zenon DEF SUSPOf
  <1>3. CASE dots = << >>
    <2>1. SUSPOf(d) = [skip |-> 0, found |-> FALSE]
      BY <1>2, <1>3, Zenon
    <2> QED BY <2>1
  <1>4. CASE dots # << >>
    <2>1. dots[1].sua \in ByteString
      <3>1. dots[1] \in FileRecord
        BY <1>1, <1>4, DotsTyped, Zenon
      <3> QED BY <3>1 DEF FileRecord, ByteString
    <2> QED BY <1>2, <1>4, <2>1, SkipTyped
  <1> QED BY <1>3, <1>4

\* The types, with the range of a byte stated by its ends.
OpenTypes ==
  /\ sector \in Nat /\ sector <= MaxSectors + 1
  /\ blockSize \in Nat
  /\ handle \in {"none", "open", "closed"}
  /\ tree \in {"none", "rockRidge", "joliet", "base"}
  /\ suspSkip \in Nat /\ suspSkip <= 255
  /\ err \in {"nil", "fault", "EOF", "badDescriptor", "corrupt"}

\* They hold before the opening.
LEMMA InitTypes == Init => OpenTypes
  BY OpeningAssumption DEF Init, OpenTypes, Calls

\* A refusal keeps the types.
LEMMA FailTypes ==
  ASSUME OpenTypes, NEW e \in {"fault", "EOF", "badDescriptor", "corrupt"}, Fail(e)
  PROVE  OpenTypes'
  BY DEF OpenTypes, Fail, AfterFailure

\* The primary descriptor of an image that is about to be opened.
LEMMA PvdIsADescriptor ==
  ASSUME IInv, pc \in {"choose", "opened"}
  PROVE  /\ image[pvd] \in Descriptor
         /\ joliet # 0 => image[joliet] \in Descriptor
  <1>1. sector \in 1..Len(image) /\ TerminatedAt(sector) /\ image \in Seq(Descriptor)
    BY DEF IInv, Ranges, Verdict
  <1>2. pvd \in 1..(sector - 1)
    BY <1>1 DEF IInv, PvdIsLast, TerminatedAt, IsPrimary
  <1>3. joliet # 0 => joliet \in 1..(sector - 1)
    BY DEF IInv, JolietIsLast
  <1> QED BY <1>1, <1>2, <1>3

\* A step of the opening or a close keeps the types.
LEMMA StepTypes == IInv /\ OpenTypes /\ [Next]_vars => OpenTypes'
  <1> SUFFICES ASSUME IInv, OpenTypes, [Next]_vars PROVE OpenTypes'
    OBVIOUS
  <1>1. CASE Start
    BY <1>1 DEF Start, OpenTypes
  <1>2. CASE StartFails
    BY <1>2 DEF StartFails, OpenTypes
  <1>3. CASE ReadFails
    BY <1>3, FailTypes DEF ReadFails
  <1>4. CASE ImageEnds
    BY <1>4, FailTypes DEF ImageEnds
  <1>5. CASE Foreign
    BY <1>5, FailTypes DEF Foreign
  <1>6. CASE Primary
    <2>1. CASE Here.root = "corrupt"
      BY <1>6, <2>1, FailTypes DEF Primary
    <2>2. CASE Here.root # "corrupt"
      <3>1. Here \in Descriptor
        BY <1>6, HereIsADescriptor DEF Primary, Here, IInv
      <3>2. EffectiveBlockSize(Here.blockSize) \in Nat
        BY <3>1, OpeningAssumption DEF Descriptor, EffectiveBlockSize
      <3>3. /\ blockSize' = EffectiveBlockSize(Here.blockSize)
            /\ sector' = sector + 1 /\ sector <= MaxSectors
            /\ UNCHANGED <<handle, tree, suspSkip, err>>
        BY <1>6, <2>2 DEF Primary, NextSector, Scanning
      <3> HIDE DEF EffectiveBlockSize
      <3> QED BY <3>2, <3>3, OpeningAssumption DEF OpenTypes
    <2> QED BY <2>1, <2>2
  <1>7. CASE Supplement
    <2>1. sector' = sector + 1 /\ sector <= MaxSectors
          /\ UNCHANGED <<blockSize, handle, tree, suspSkip, err>>
      BY <1>7 DEF Supplement, NextSector, Scanning
    <2> QED BY <2>1, OpeningAssumption DEF OpenTypes
  <1>8. CASE Terminator
    <2>1. CASE ~Complete
      BY <1>8, <2>1, FailTypes DEF Terminator
    <2>2. CASE Complete
      BY <1>8, <2>2 DEF Terminator, OpenTypes
    <2> QED BY <2>1, <2>2
  <1>9. CASE NoTerminator
    BY <1>9, FailTypes DEF NoTerminator
  <1>10. CASE ChooseTree
    <2>1. SUSPOf(image[pvd]).skip \in Nat /\ SUSPOf(image[pvd]).skip <= 255
      BY <1>10, PvdIsADescriptor, SUSPTyped DEF ChooseTree
    <2>2. /\ tree' \in {"rockRidge", "joliet", "base"}
          /\ suspSkip' = SUSPOf(image[pvd]).skip \/ suspSkip' = suspSkip
          /\ err' = err \/ err' = "fault"
          /\ UNCHANGED <<sector, blockSize, handle>>
      BY <1>10 DEF ChooseTree, Choice
    <2> QED BY <2>1, <2>2 DEF OpenTypes
  <1>11. CASE Close
    BY <1>11 DEF Close, OpenTypes
  <1>12. CASE UNCHANGED vars
    BY <1>12 DEF vars, OpenTypes
  <1> QED BY <1>1, <1>2, <1>3, <1>4, <1>5, <1>6, <1>7, <1>8, <1>9, <1>10, <1>11, <1>12
             DEF Next, OpenStep

\* The skip of chooseTree is what the primary tree says, and is for its records alone.
SkipKept ==
  suspSkip = IF pc = "opened" /\ tree = "rockRidge" THEN SUSPOf(image[pvd]).skip ELSE 0

\* Only chooseTree sets it.
LEMMA SkipStays == SkipKept /\ [Next]_vars => SkipKept'
  <1> SUFFICES ASSUME SkipKept, [Next]_vars PROVE SkipKept'
    OBVIOUS
  <1>1. CASE ChooseTree
    <2>1. /\ pc = "choose" /\ pc' = "opened" /\ UNCHANGED <<image, pvd>>
          /\ suspSkip' = IF tree' = "rockRidge" THEN SUSPOf(image[pvd]).skip ELSE suspSkip
      BY <1>1 DEF ChooseTree
    <2>2. suspSkip = 0
      BY <2>1 DEF SkipKept
    <2>3. SUSPOf(image'[pvd']) = SUSPOf(image[pvd])
      BY <2>1
    <2> QED BY <2>1, <2>2, <2>3 DEF SkipKept
  <1>2. CASE pc # "opened" /\ pc' # "opened" /\ UNCHANGED suspSkip
    BY <1>2 DEF SkipKept
  <1>3. CASE UNCHANGED <<image, pc, pvd, tree, suspSkip>>
    <2>1. SUSPOf(image'[pvd']) = SUSPOf(image[pvd])
      BY <1>3
    <2> QED BY <1>3, <2>1 DEF SkipKept
  <1>4. ChooseTree \/ (pc # "opened" /\ pc' # "opened" /\ UNCHANGED suspSkip)
        \/ UNCHANGED <<image, pc, pvd, tree, suspSkip>>
    BY DEF Next, OpenStep, vars, Start, StartFails, Scanning, ReadFails, ImageEnds, Foreign, Primary,
           Supplement, Terminator, NoTerminator, Close, Fail, NextSector
  <1> QED BY <1>1, <1>2, <1>3, <1>4

\* With the invariant they are the types of the module.
LEMMA OpenTypesAreTypes == IInv /\ OpenTypes => TypeOK
  <1> SUFFICES ASSUME IInv, OpenTypes PROVE TypeOK
    OBVIOUS
  <1>1. sector \in 1..(MaxSectors + 1) /\ pvd \in 0..MaxSectors /\ joliet \in 0..MaxSectors
    BY OpeningAssumption DEF OpenTypes, IInv, Ranges, PvdIsLast, JolietIsLast
  <1>2. suspSkip \in 0..255
    BY ByteRange DEF OpenTypes
  <1> QED BY <1>1, <1>2 DEF TypeOK, OpenTypes, IInv, Ranges

---------------------------------------------------------------------------
(* The areas of a record, from what its System Use Area says alone *)

\* Does collectSUSP look for an area behind this one, and is it in the image?
Goes(a, bs) == CEEntry(a).length # 0 /\ CEEntry(a).length <= bs
Begins(a, bs) == CEEntry(a).block * bs + CEEntry(a).offset
Held(a, bs) == Begins(a, bs) + CEEntry(a).length <= Len(Bytes)

NextArea(a, bs) ==
  IF Held(a, bs) THEN SubSeq(Bytes, Begins(a, bs) + 1, Begins(a, bs) + CEEntry(a).length) ELSE << >>

\* Each area leads to the next; and what all of them up to one hold.
Chain(a, bs) ==
  LET c[k \in 0..MaxAreas] == IF k = 0 THEN a ELSE NextArea(c[k - 1], bs) IN c

UpTo(a, bs) ==
  LET all[k \in 0..MaxAreas] == IF k = 0 THEN a ELSE all[k - 1] \o Chain(a, bs)[k] IN all

\* The next area consists of bytes, as those before it do.
LEMMA NextAreaTyped ==
  ASSUME NEW a \in ByteString, NEW bs \in Nat
  PROVE  NextArea(a, bs) \in ByteString
  <1>1. PICK x \in Nat : x = CEEntry(a).length
    BY CEEntryTyped
  <1>2. PICK y \in Nat : y = Begins(a, bs)
    BY CEEntryTyped DEF Begins
  <1>3. PICK B : B = 0..255
    OBVIOUS
  <1>4. Bytes \in Seq(B)
    BY <1>3, ListingAssumption, Zenon
  <1>5. CASE y + x <= Len(Bytes)
    <2>1. y + x \in Nat
      OBVIOUS
    <2>2. SubSeq(Bytes, y + 1, y + x) \in Seq(B)
      BY <1>4, <1>5, <2>1, PartTyped
    <2>3. NextArea(a, bs) = SubSeq(Bytes, y + 1, y + x)
      BY <1>1, <1>2, <1>5 DEF NextArea, Held
    <2> QED BY <1>3, <2>2, <2>3 DEF ByteString
  <1>6. CASE ~(y + x <= Len(Bytes))
    <2>1. NextArea(a, bs) = << >>
      BY <1>1, <1>2, <1>6 DEF NextArea, Held
    <2> QED BY <2>1 DEF ByteString
  <1> QED BY <1>5, <1>6

\* The areas of a record.
LEMMA ChainIs ==
  ASSUME NEW a \in ByteString, NEW bs \in Nat
  PROVE  /\ Chain(a, bs)[0] = a
         /\ \A k \in 1..MaxAreas : Chain(a, bs)[k] = NextArea(Chain(a, bs)[k - 1], bs)
         /\ \A k \in 0..MaxAreas : Chain(a, bs)[k] \in ByteString
  <1> DEFINE n == MaxAreas
             step == [k \in 1..n |-> [q \in ByteString |-> NextArea(q, bs)]]
             Rec(f) == f = [k \in 0..n |-> IF k = 0 THEN a ELSE NextArea(f[k - 1], bs)]
             c == CHOOSE f : Rec(f)
  <1>1. n \in Nat
    BY ListingAssumption, Zenon
  <1>2. \A q \in ByteString : NextArea(q, bs) \in ByteString
    BY NextAreaTyped
  <1>3. Steps(n, ByteString, a, step)
    <2>1. step \in [1..n -> [ByteString -> ByteString]]
      BY <1>2
    <2> HIDE DEF step, n
    <2> QED BY <1>1, <2>1 DEF Steps
  <1>4. PICK f : Takes(n, ByteString, a, step, f)
    <2> HIDE DEF step, n
    <2> QED BY <1>3, RecursionExists
  <1>5. f \in [0..n -> ByteString] /\ f[0] = a /\ \A k \in 1..n : f[k] = step[k][f[k - 1]]
    <2> HIDE DEF step, n
    <2> QED BY <1>4 DEF Takes
  <1>6. \A k \in 1..n : f[k] = NextArea(f[k - 1], bs)
    <2> TAKE k \in 1..n
    <2> HIDE DEF n
    <2>1. f[k - 1] \in ByteString
      BY <1>1, <1>5
    <2> QED BY <1>5, <2>1
  <1>7. Rec(f)
    <2> HIDE DEF n
    <2> QED BY <1>1, <1>5, <1>6
  <1>8. PICK u : u = c
    OBVIOUS
  <1>9. Rec(u)
    <2>1. Rec(c)
      <3> HIDE DEF Rec
      <3> QED BY <1>7
    <2> HIDE DEF c, Rec
    <2> QED BY <1>8, <2>1
  <1>10. Chain(a, bs) = u
    BY <1>8 DEF Chain
  <1> HIDE DEF c, n
  <1>11. u[0] = a /\ \A k \in 1..n : u[k] = NextArea(u[k - 1], bs)
    BY <1>1, <1>9
  <1>12. \A k \in 0..n : u[k] \in ByteString
    <2>1. u[0] \in ByteString /\ \A k \in 1..n : u[k - 1] \in ByteString => u[k] \in ByteString
      BY <1>2, <1>11
    <2> QED BY <1>1, <2>1, StaysIn
  <1> QED BY <1>10, <1>11, <1>12 DEF n

\* What they hold, put together.
LEMMA UpToIs ==
  ASSUME NEW a \in ByteString, NEW bs \in Nat
  PROVE  /\ UpTo(a, bs)[0] = a
         /\ \A k \in 1..MaxAreas : UpTo(a, bs)[k] = UpTo(a, bs)[k - 1] \o Chain(a, bs)[k]
         /\ \A k \in 0..MaxAreas : UpTo(a, bs)[k] \in ByteString
  <1> DEFINE n == MaxAreas
             next(k, q) == q \o Chain(a, bs)[k]
             step == [k \in 1..n |-> [q \in ByteString |-> next(k, q)]]
             Rec(f) == f = [k \in 0..n |-> IF k = 0 THEN a ELSE next(k, f[k - 1])]
             all == CHOOSE f : Rec(f)
  <1>1. n \in Nat
    BY ListingAssumption, Zenon
  <1>2. ASSUME NEW k \in 1..n, NEW q \in ByteString
        PROVE  next(k, q) \in ByteString
    <2>1. PICK B : B = 0..255
      OBVIOUS
    <2>2. PICK d : d = Chain(a, bs)[k]
      OBVIOUS
    <2>3. d \in ByteString
      BY <2>2, ChainIs
    <2>4. d \in Seq(B) /\ q \in Seq(B)
      BY <2>1, <2>3 DEF ByteString
    <2>5. q \o d \in Seq(B)
      BY <2>4
    <2> QED BY <2>1, <2>2, <2>5 DEF ByteString
  <1>3. Steps(n, ByteString, a, step)
    <2>1. step \in [1..n -> [ByteString -> ByteString]]
      <3> HIDE DEF next
      <3> QED BY <1>2
    <2> HIDE DEF step, n
    <2> QED BY <1>1, <2>1 DEF Steps
  <1>4. PICK f : Takes(n, ByteString, a, step, f)
    <2> HIDE DEF step, n
    <2> QED BY <1>3, RecursionExists
  <1>5. f \in [0..n -> ByteString] /\ f[0] = a /\ \A k \in 1..n : f[k] = step[k][f[k - 1]]
    <2> HIDE DEF step, n
    <2> QED BY <1>4 DEF Takes
  <1>6. \A k \in 1..n : f[k] = next(k, f[k - 1])
    <2> TAKE k \in 1..n
    <2> HIDE DEF n, next
    <2>1. f[k - 1] \in ByteString
      BY <1>1, <1>5
    <2> QED BY <1>5, <2>1
  <1>7. Rec(f)
    <2> HIDE DEF n, next
    <2> QED BY <1>1, <1>5, <1>6
  <1>8. PICK u : u = all
    OBVIOUS
  <1>9. Rec(u)
    <2>1. Rec(all)
      <3> HIDE DEF Rec
      <3> QED BY <1>7
    <2> HIDE DEF all, Rec
    <2> QED BY <1>8, <2>1
  <1>10. UpTo(a, bs) = u
    BY <1>8 DEF UpTo
  <1>11. u[0] = a /\ \A k \in 1..n : u[k] = next(k, u[k - 1])
    <2> HIDE DEF all, n, next
    <2> QED BY <1>1, <1>9
  <1>12. \A k \in 0..n : u[k] \in ByteString
    <2> HIDE DEF all, n, next
    <2>1. u[0] \in ByteString /\ \A k \in 1..n : u[k - 1] \in ByteString => u[k] \in ByteString
      BY <1>2, <1>11
    <2> QED BY <1>1, <2>1, StaysIn
  <1> QED BY <1>10, <1>11, <1>12

---------------------------------------------------------------------------
(* The listing *)

\* rr was read from the first k + 1 areas of a record, which were followed as far as
\* they lead; cut says that they led further and could not be read.
Gathers(a, bs, k, rr, cut) ==
  /\ rr = ParseRockRidge(UpTo(a, bs)[k])
  /\ \A j \in 0..(k - 1) : Goes(Chain(a, bs)[j], bs) /\ Held(Chain(a, bs)[j], bs)
  /\ IF cut THEN k < MaxAreas /\ Goes(Chain(a, bs)[k], bs)
     ELSE k = MaxAreas \/ ~Goes(Chain(a, bs)[k], bs)

(* fs.go:83-114: what is shown of a record is read from its own System Use *)
(* Area and the areas this one leads to, one after another and nothing     *)
(* else; if it is not cut, they were followed to the end of the chain or   *)
(* to the bound.                                                           *)
ShowsOwnAreas ==
  \A i \in 1..Len(listed) :
    /\ listed[i].name = EffectiveName(Files[i], listed[i].rr)
    /\ \E k \in 0..MaxAreas :
         Gathers(SystemUse(Files[i]), blockSize, k, listed[i].rr, listed[i].cut)

\* The same of one entry, and that it is the one of its record.
AreaOf(f, skip) == SubSeq(f.sua, skip + 1, Len(f.sua))

NameIn(t, f, rr) ==
  IF rr.hasName THEN rr.name ELSE IF t = "joliet" THEN JolietName(f.id) ELSE CleanName(f.id)

Shows(e, f, t, skip, bs) ==
  /\ e.lba = f.lba /\ e.isDir = f.isDir
  /\ e.name = NameIn(t, f, e.rr)
  /\ \E k \in 0..MaxAreas : Gathers(AreaOf(f, skip), bs, k, e.rr, e.cut)

\* What collectSUSP has followed so far.
Followed(a, bs) ==
  /\ cur = Chain(a, bs)[areas] /\ susp = UpTo(a, bs)[areas]
  /\ \A j \in 0..(areas - 1) : Goes(Chain(a, bs)[j], bs) /\ Held(Chain(a, bs)[j], bs)

ListRanges ==
  /\ stage \in {"idle", "entry", "follow", "done", "failed"}
  /\ stage # "idle" => pc = "opened"
  /\ susp \in ByteString /\ cur \in ByteString
  /\ areas \in Nat /\ areas <= MaxAreas
  /\ Len(listed) \in Nat /\ listed \in Seq(Elements(listed))

Counted ==
  /\ stage \in {"idle", "failed"} => Len(listed) = 0
  /\ stage \in {"entry", "follow", "done"} => Len(listed) <= Len(Files)
  /\ stage = "follow" => Len(listed) < Len(Files)
  /\ stage = "done" => Len(listed) = Len(Files)

AllShown == \A i \in 1..Len(listed) : Shows(listed[i], Files[i], tree, suspSkip, blockSize)

LInv ==
  /\ ListRanges
  /\ Counted
  /\ AllShown
  /\ stage = "follow" => Followed(AreaOf(Entry, suspSkip), blockSize)

\* The records to list, none of which is "." or "..".
LEMMA FilesTyped ==
  ASSUME IInv, pc = "opened"
  PROVE  Len(Files) \in Nat /\ \A i \in 1..Len(Files) : Files[i] \in FileRecord /\ ~IsSpecial(Files[i])
  <1>1. Root \in Descriptor
    BY PvdIsADescriptor DEF Root, IInv, TreeByPrecedence
  <1>2. PICK R : R = FileRecord
    OBVIOUS
  <1>3. PICK s : s = Root.files
    OBVIOUS
  <1>4. s \in Seq(R)
    BY <1>1, <1>2, <1>3 DEF Descriptor
  <1>5. PICK I : I = {i \in DOMAIN s : ~IsSpecial(s[i])}
    OBVIOUS
  <1>6. Files = ElementsAt(s, I)
    BY <1>3, <1>5 DEF Files
  <1>7. PICK T : T = {r \in R : ~IsSpecial(r)}
    OBVIOUS
  <1>8. \A i \in 1..Len(s) : i \in I => s[i] \in T
    <2> TAKE i \in 1..Len(s)
    <2>1. s[i] \in R
      BY <1>4
    <2>2. i \in I => ~IsSpecial(s[i])
      BY <1>5
    <2> QED BY <1>7, <2>1, <2>2
  <1>9. ElementsAt(s, I) \in Seq(T)
    BY <1>4, <1>8, ElementsAtTyped
  <1>10. \A x \in T : x \in FileRecord /\ ~IsSpecial(x)
    BY <1>2, <1>7
  <1>11. Len(Files) \in Nat /\ \A i \in 1..Len(Files) : Files[i] \in T
    BY <1>6, <1>9
  <1> QED BY <1>10, <1>11

\* Their areas are bytes.
LEMMA AreaOfTyped ==
  ASSUME NEW f \in FileRecord, NEW skip \in Nat
  PROVE  AreaOf(f, skip) \in ByteString
  <1>1. PICK B : B = 0..255
    OBVIOUS
  <1>2. f.sua \in Seq(B)
    BY <1>1 DEF FileRecord
  <1>3. Len(f.sua) \in Nat /\ Len(f.sua) <= Len(f.sua)
    BY <1>2
  <1>4. SubSeq(f.sua, skip + 1, Len(f.sua)) \in Seq(B)
    BY <1>2, <1>3, PartTyped
  <1> QED BY <1>1, <1>4 DEF AreaOf, ByteString

\* A sequence with one more element.
LEMMA OneMore ==
  ASSUME NEW s, NEW e, s \in Seq(Elements(s))
  PROVE  /\ Len(Append(s, e)) = Len(s) + 1
         /\ Append(s, e)[Len(s) + 1] = e
         /\ \A i \in 1..Len(s) : Append(s, e)[i] = s[i]
         /\ Append(s, e) \in Seq(Elements(Append(s, e)))
  <1>1. PICK S : S = Elements(s)
    OBVIOUS
  <1>2. PICK T : T = S \cup {e}
    OBVIOUS
  <1>3. s \in Seq(T) /\ e \in T
    BY <1>1, <1>2
  <1>4. PICK t : t = Append(s, e)
    OBVIOUS
  <1>5. t \in Seq(T) /\ Len(t) = Len(s) + 1 /\ t[Len(s) + 1] = e /\ \A i \in 1..Len(s) : t[i] = s[i]
    BY <1>3, <1>4
  <1>6. PICK n \in Nat : n = Len(t)
    BY <1>5
  <1>7. t \in [1..n -> Elements(t)]
    BY <1>5, <1>6 DEF Elements
  <1>8. t \in Seq(Elements(t))
    BY <1>7, FunctionIsSequence
  <1> QED BY <1>4, <1>5, <1>8

\* LInv holds before the first call.
LEMMA InitList == ListInit => LInv
  <1> SUFFICES ASSUME ListInit PROVE LInv
    OBVIOUS
  <1>1. PICK B : B = 0..255
    OBVIOUS
  <1>2. << >> \in ByteString
    <2>1. << >> \in Seq(B)
      OBVIOUS
    <2> QED BY <1>1, <2>1 DEF ByteString
  <1>3. Len(<< >>) = 0 /\ << >> \in Seq(Elements(<< >>))
    OBVIOUS
  <1>4. 0 <= MaxAreas
    BY ListingAssumption
  <1>5. ListRanges
    BY <1>2, <1>3, <1>4 DEF ListInit, ListRanges
  <1>6. Counted /\ AllShown
    BY <1>3 DEF ListInit, Counted, AllShown
  <1> QED BY <1>5, <1>6 DEF ListInit, LInv

\* A step that leaves the listing alone, in an image that is open: only a close.
LEMMA OpenedStays ==
  ASSUME IInv, Next, pc = "opened"
  PROVE  UNCHANGED <<image, pc, pvd, joliet, tree, suspSkip, blockSize>>
  BY DEF Next, OpenStep, Start, StartFails, ReadFails, ImageEnds, Foreign, Primary, Supplement,
         Terminator, NoTerminator, ChooseTree, Close, Scanning

\* What a step that leaves the tree alone leaves of the invariant.
LEMMA FilesStay ==
  ASSUME UNCHANGED <<image, pvd, joliet, tree>>
  PROVE  Files' = Files
  BY DEF Files, Root, IsSpecial

\* A step of the opening, or a close, keeps LInv.
LEMMA OpeningKeepsList ==
  ASSUME IInv, LInv, Next, UNCHANGED listVars
  PROVE  LInv'
  <1>1. CASE stage = "idle"
    <2>1. ListRanges' /\ Len(listed) = 0 /\ stage' = "idle" /\ listed' = listed
      BY <1>1 DEF LInv, ListRanges, Counted, listVars
    <2>2. Counted' /\ AllShown'
      BY <2>1 DEF Counted, AllShown
    <2> QED BY <2>1, <2>2 DEF LInv
  <1>2. CASE stage # "idle"
    <2>1. UNCHANGED <<image, pc, pvd, joliet, tree, suspSkip, blockSize>>
      BY <1>2, OpenedStays DEF LInv, ListRanges
    <2>2. Files' = Files
      BY <2>1, FilesStay
    <2>3. ListRanges' /\ Counted'
      BY <2>1, <2>2 DEF LInv, ListRanges, Counted, listVars
    <2>4. AllShown'
      BY <2>1, <2>2 DEF LInv, AllShown, listVars
    <2>5. stage' = "follow" => Followed(AreaOf(Entry, suspSkip), blockSize)'
      BY <2>1, <2>2 DEF LInv, Followed, Entry, listVars
    <2> QED BY <2>3, <2>4, <2>5 DEF LInv
  <1> QED BY <1>1, <1>2

\* A record that is shown was followed to the end of its areas, or is cut.
LEMMA ShowKeeps ==
  ASSUME IInv, OpenTypes, LInv, UNCHANGED vars, stage = "follow", NEW cut, Show(cut),
         IF cut THEN areas < MaxAreas /\ Goes(cur, blockSize)
         ELSE areas = MaxAreas \/ ~Goes(cur, blockSize)
  PROVE  LInv'
  <1>1. PICK n \in Nat : n = Len(listed)
    BY DEF LInv, ListRanges
  <1>2. n < Len(Files) /\ Len(Files) \in Nat /\ pc = "opened"
    BY <1>1, FilesTyped DEF LInv, ListRanges, Counted
  <1>3. PICK f : f = Files[n + 1]
    OBVIOUS
  <1>4. PICK rr : rr = ParseRockRidge(susp)
    OBVIOUS
  <1>5. PICK e : e = [name |-> EffectiveName(f, rr), isDir |-> f.isDir, lba |-> f.lba, rr |-> rr, cut |-> cut]
    OBVIOUS
  <1>6. listed' = Append(listed, e) /\ stage' = "entry" /\ UNCHANGED <<susp, cur, areas>>
    BY <1>1, <1>3, <1>4, <1>5 DEF Show, Entry
  <1>7. /\ Len(listed') = n + 1 /\ listed'[n + 1] = e /\ \A i \in 1..n : listed'[i] = listed[i]
        /\ listed' \in Seq(Elements(listed'))
    BY <1>1, <1>6, OneMore DEF LInv, ListRanges
  <1>8. UNCHANGED <<image, pc, pvd, joliet, tree, suspSkip, blockSize>>
    BY DEF vars
  <1>9. Files' = Files
    BY <1>8, FilesStay
  <1>10. ListRanges'
    BY <1>2, <1>6, <1>7, <1>8 DEF LInv, ListRanges
  <1>11. Counted'
    BY <1>2, <1>6, <1>7, <1>9 DEF Counted
  <1>12. Shows(e, f, tree, suspSkip, blockSize)
    <2>1. PICK a : a = AreaOf(f, suspSkip)
      OBVIOUS
    <2>2. Followed(a, blockSize)
      BY <1>1, <1>3, <2>1 DEF LInv, Entry
    <2>3. PICK k : k = areas
      OBVIOUS
    <2>4. k \in 0..MaxAreas
      BY <2>3, ListingAssumption DEF LInv, ListRanges
    <2>5. Gathers(a, blockSize, k, rr, cut)
      BY <1>4, <2>2, <2>3 DEF Followed, Gathers
    <2>6. e.rr = rr /\ e.cut = cut /\ e.lba = f.lba /\ e.isDir = f.isDir /\ e.name = EffectiveName(f, rr)
      BY <1>5
    <2>7. e.name = NameIn(tree, f, e.rr)
      BY <2>6 DEF EffectiveName, NameIn
    <2> QED BY <2>1, <2>4, <2>5, <2>6, <2>7 DEF Shows
  <1>13. AllShown'
    <2>1. \A i \in 1..n : Shows(listed[i], Files[i], tree, suspSkip, blockSize)
      BY <1>1 DEF LInv, AllShown
    <2>2. \A i \in 1..(n + 1) : i \in 1..n \/ i = n + 1
      OBVIOUS
    <2>3. \A i \in 1..(n + 1) : Shows(listed'[i], Files[i], tree, suspSkip, blockSize)
      BY <1>3, <1>7, <1>12, <2>1, <2>2
    <2> QED BY <1>7, <1>8, <1>9, <2>3 DEF AllShown
  <1> QED BY <1>6, <1>10, <1>11, <1>13 DEF LInv

\* What collectSUSP looks at, in the terms of the areas.
LEMMA GoesOn ==
  ASSUME LInv
  PROVE  /\ Followable(CEEntry(cur)) <=> areas < MaxAreas /\ Goes(cur, blockSize)
         /\ InImage(CEEntry(cur)) <=> Held(cur, blockSize)
         /\ InImage(CEEntry(cur)) => Area(CEEntry(cur)) = NextArea(cur, blockSize)
  BY DEF Followable, Goes, InImage, Offset, Held, Begins, Area, NextArea

\* The listing's own steps leave the opening alone.
LEMMA ListStepReads == ListStep => UNCHANGED vars
  BY DEF ListStep, ListDir, BeginEntry, FollowArea, EndOfAreas, AreaUnreadable, ListedAll, Reading

\* Every step of the listing keeps LInv.
LEMMA ListStepKeeps ==
  ASSUME IInv, OpenTypes, LInv, ListStep
  PROVE  LInv'
  <1>1. UNCHANGED vars
    BY ListStepReads
  <1>2. UNCHANGED <<image, pc, pvd, joliet, tree, suspSkip, blockSize>>
    BY <1>1 DEF vars
  <1>3. Files' = Files
    BY <1>2, FilesStay
  <1>4. PICK m \in Nat : m = MaxAreas
    BY ListingAssumption, Zenon
  <1>5. suspSkip \in Nat /\ blockSize \in Nat
    BY DEF OpenTypes
  <1>6. CASE ListDir
    <2>1. stage = "idle" /\ pc = "opened" /\ stage' \in {"failed", "entry"}
          /\ UNCHANGED <<listed, susp, cur, areas>>
      BY <1>6 DEF ListDir
    <2>2. Len(Files) \in Nat /\ Len(listed) = 0
      BY <2>1, FilesTyped DEF LInv, Counted
    <2>3. ListRanges' /\ Counted'
      BY <1>2, <1>3, <2>1, <2>2 DEF LInv, ListRanges, Counted
    <2>4. AllShown'
      BY <2>1, <2>2 DEF AllShown
    <2> QED BY <2>1, <2>3, <2>4 DEF LInv
  <1>7. CASE BeginEntry
    <2>1. stage = "entry" /\ Len(listed) < Len(Files) /\ stage' = "follow" /\ listed' = listed
          /\ areas' = 0 /\ susp' = SystemUse(Entry) /\ cur' = SystemUse(Entry)
      BY <1>7 DEF BeginEntry
    <2>2. PICK n \in Nat : n = Len(listed)
      BY DEF LInv, ListRanges
    <2>3. pc = "opened" /\ Len(Files) \in Nat /\ Entry \in FileRecord
      BY <2>1, <2>2, FilesTyped DEF LInv, ListRanges, Entry
    <2>4. PICK a \in ByteString : a = AreaOf(Entry, suspSkip)
      BY <1>5, <2>3, AreaOfTyped
    <2>5. SystemUse(Entry) = a
      BY <2>4 DEF SystemUse, AreaOf
    <2>6. ListRanges'
      BY <1>2, <1>4, <2>1, <2>3, <2>5 DEF LInv, ListRanges
    <2>7. Counted' /\ AllShown'
      BY <1>2, <1>3, <2>1, <2>2, <2>3 DEF LInv, Counted, AllShown
    <2>8. Entry' = Entry
      BY <1>3, <2>1 DEF Entry
    <2>9. Followed(a, blockSize)'
      <3>1. Chain(a, blockSize)[0] = a /\ UpTo(a, blockSize)[0] = a
        BY <1>5, ChainIs, UpToIs
      <3>2. \A j \in 0..(0 - 1) : FALSE
        OBVIOUS
      <3> QED BY <1>2, <2>1, <2>5, <3>1, <3>2 DEF Followed
    <2> QED BY <1>2, <2>4, <2>6, <2>7, <2>8, <2>9 DEF LInv
  <1>8. CASE FollowArea
    <2>1. /\ stage = "follow" /\ Followable(CEEntry(cur)) /\ InImage(CEEntry(cur))
          /\ susp' = susp \o Area(CEEntry(cur)) /\ cur' = Area(CEEntry(cur))
          /\ areas' = areas + 1 /\ UNCHANGED <<stage, listed>>
      BY <1>8 DEF FollowArea, Collected
    <2>2. PICK n \in Nat : n = Len(listed)
      BY DEF LInv, ListRanges
    <2>3. pc = "opened" /\ Entry \in FileRecord
      BY <2>1, <2>2, FilesTyped DEF LInv, ListRanges, Counted, Entry
    <2>4. PICK a \in ByteString : a = AreaOf(Entry, suspSkip)
      BY <1>5, <2>3, AreaOfTyped
    <2>5. PICK c : c = Chain(a, blockSize)
      OBVIOUS
    <2>6. PICK u : u = UpTo(a, blockSize)
      OBVIOUS
    <2>7. /\ \A j \in 1..m : c[j] = NextArea(c[j - 1], blockSize) /\ u[j] = u[j - 1] \o c[j]
          /\ \A j \in 0..m : c[j] \in ByteString /\ u[j] \in ByteString
      <3>1. PICK bs \in Nat : bs = blockSize
        BY <1>5
      <3>2. c = Chain(a, bs) /\ u = UpTo(a, bs)
        BY <2>5, <2>6, <3>1
      <3>3. /\ \A j \in 1..m : c[j] = NextArea(c[j - 1], bs)
            /\ \A j \in 0..m : c[j] \in ByteString
        <4>1. /\ \A j \in 1..m : Chain(a, bs)[j] = NextArea(Chain(a, bs)[j - 1], bs)
              /\ \A j \in 0..m : Chain(a, bs)[j] \in ByteString
          BY <1>4, ChainIs
        <4> QED BY <3>2, <4>1
      <3>4. /\ \A j \in 1..m : u[j] = u[j - 1] \o c[j]
            /\ \A j \in 0..m : u[j] \in ByteString
        <4>1. /\ \A j \in 1..m : UpTo(a, bs)[j] = UpTo(a, bs)[j - 1] \o Chain(a, bs)[j]
              /\ \A j \in 0..m : UpTo(a, bs)[j] \in ByteString
          BY <1>4, UpToIs
        <4> QED BY <3>2, <4>1
      <3> QED BY <3>1, <3>3, <3>4
    <2>8. PICK k \in Nat : k = areas
      BY DEF LInv, ListRanges
    <2>9. /\ cur = c[k] /\ susp = u[k]
          /\ \A j \in 0..(k - 1) : Goes(c[j], blockSize) /\ Held(c[j], blockSize)
      BY <2>1, <2>4, <2>5, <2>6, <2>8 DEF LInv, Followed
    <2>10. k < m /\ Goes(c[k], blockSize) /\ Held(c[k], blockSize)
           /\ Area(CEEntry(cur)) = NextArea(c[k], blockSize)
      BY <1>4, <2>1, <2>8, <2>9, GoesOn
    <2>11. k + 1 \in 1..m /\ k + 1 \in 0..m /\ (k + 1) - 1 = k
      BY <2>10
    <2>12. c[k + 1] = NextArea(c[k], blockSize) /\ u[k + 1] = u[k] \o c[k + 1]
      BY <2>7, <2>11
    <2>13. cur' = c[k + 1] /\ susp' = u[k + 1] /\ areas' = k + 1
      BY <2>1, <2>8, <2>9, <2>10, <2>12
    <2>14. cur' \in ByteString /\ susp' \in ByteString
      BY <2>7, <2>11, <2>13
    <2>15. ListRanges'
      BY <1>2, <1>4, <2>1, <2>10, <2>13, <2>14 DEF LInv, ListRanges
    <2>16. Counted' /\ AllShown'
      BY <1>2, <1>3, <2>1 DEF LInv, Counted, AllShown
    <2>17. Entry' = Entry
      BY <1>3, <2>1 DEF Entry
    <2>18. Followed(a, blockSize)'
      <3>1. \A j \in 0..((k + 1) - 1) : j \in 0..(k - 1) \/ j = k
        OBVIOUS
      <3>2. \A j \in 0..((k + 1) - 1) : Goes(c[j], blockSize) /\ Held(c[j], blockSize)
        BY <2>9, <2>10, <3>1
      <3> QED BY <1>2, <2>5, <2>6, <2>13, <3>2 DEF Followed
    <2> QED BY <1>2, <2>4, <2>15, <2>16, <2>17, <2>18 DEF LInv
  <1>9. CASE EndOfAreas
    <2>1. stage = "follow" /\ ~Followable(CEEntry(cur)) /\ Show(FALSE)
      BY <1>9 DEF EndOfAreas
    <2>2. areas \in Nat /\ areas <= MaxAreas
      BY DEF LInv, ListRanges
    <2>3. areas = MaxAreas \/ ~Goes(cur, blockSize)
      BY <1>4, <2>1, <2>2, GoesOn
    <2> QED BY <1>1, <2>1, <2>3, ShowKeeps
  <1>10. CASE AreaUnreadable
    <2>1. stage = "follow" /\ Followable(CEEntry(cur)) /\ Show(TRUE)
      BY <1>10 DEF AreaUnreadable
    <2>2. areas < MaxAreas /\ Goes(cur, blockSize)
      BY <2>1, GoesOn
    <2> QED BY <1>1, <2>1, <2>2, ShowKeeps
  <1>11. CASE ListedAll
    <2>1. stage = "entry" /\ Len(listed) = Len(Files) /\ stage' = "done" /\ UNCHANGED <<listed, susp, cur, areas>>
      BY <1>11 DEF ListedAll
    <2>2. pc = "opened" /\ Len(Files) \in Nat
      BY <2>1, FilesTyped DEF LInv, ListRanges
    <2>3. ListRanges' /\ Counted' /\ AllShown'
      BY <1>2, <1>3, <2>1, <2>2 DEF LInv, ListRanges, Counted, AllShown
    <2> QED BY <2>1, <2>3 DEF LInv
  <1> QED BY <1>6, <1>7, <1>8, <1>9, <1>10, <1>11 DEF ListStep

\* LInv is inductive with the invariants of the opening.
LEMMA ListInductive == ListSpec => [](IInv /\ OpenTypes /\ LInv)
  <1>1. ListInit => IInv /\ OpenTypes /\ LInv
    BY InitHolds, InitTypes, InitList DEF ListInit
  <1>2. IInv /\ OpenTypes /\ LInv /\ [ListNext]_<<vars, listVars>> => (IInv /\ OpenTypes /\ LInv)'
    <2> SUFFICES ASSUME IInv, OpenTypes, LInv, [ListNext]_<<vars, listVars>>
                 PROVE  IInv' /\ OpenTypes' /\ LInv'
      OBVIOUS
    <2>1. [Next]_vars
      BY ListStepReads DEF ListNext
    <2>2. IInv' /\ OpenTypes'
      BY <2>1, StepHolds, StepTypes
    <2>3. CASE Next /\ UNCHANGED listVars
      BY <2>2, <2>3, OpeningKeepsList
    <2>4. CASE ListStep
      BY <2>2, <2>4, ListStepKeeps
    <2>5. CASE UNCHANGED <<vars, listVars>>
      <3>1. UNCHANGED <<image, pc, pvd, joliet, tree, suspSkip, blockSize>> /\ UNCHANGED listVars
        BY <2>5 DEF vars
      <3>2. Files' = Files
        BY <3>1, FilesStay
      <3>3. ListRanges' /\ Counted' /\ AllShown'
        BY <3>1, <3>2 DEF LInv, ListRanges, Counted, AllShown, listVars
      <3>4. stage' = "follow" => Followed(AreaOf(Entry, suspSkip), blockSize)'
        BY <3>1, <3>2 DEF LInv, Followed, Entry, listVars
      <3>5. LInv'
        BY <3>3, <3>4 DEF LInv
      <3> QED BY <2>2, <3>5
    <2>6. ListStep \/ (Next /\ UNCHANGED listVars) \/ UNCHANGED <<vars, listVars>>
      BY DEF ListNext
    <2> QED BY <2>3, <2>4, <2>5, <2>6
  <1> QED BY <1>1, <1>2, PTL DEF ListSpec

---------------------------------------------------------------------------
(* What each element of a sequence stands for, put together *)

Over(s, g) == FlattenSeq([i \in 1..Len(s) |-> g[s[i]]])

\* Over sequences, one behind the other.
LEMMA OverJoin ==
  ASSUME NEW S, NEW T, NEW g \in [S -> Seq(T)], NEW a \in Seq(S), NEW b \in Seq(S)
  PROVE  Over(a \o b, g) = Over(a, g) \o Over(b, g) /\ Over(a, g) \in Seq(T)
  <1>1. PICK Q : Q = Seq(T)
    OBVIOUS
  <1>2. \A x \in S : g[x] \in Q
    BY <1>1
  <1>3. PICK m \in Nat : m = Len(a)
    OBVIOUS
  <1>4. PICK n \in Nat : n = Len(b)
    OBVIOUS
  <1>5. PICK ga : ga = [i \in 1..m |-> g[a[i]]]
    OBVIOUS
  <1>6. PICK gb : gb = [i \in 1..n |-> g[b[i]]]
    OBVIOUS
  <1>7. PICK c : c = a \o b
    OBVIOUS
  <1>8. c \in Seq(S) /\ Len(c) = m + n /\ (\A i \in 1..m : c[i] = a[i]) /\ \A i \in 1..n : c[m + i] = b[i]
    BY <1>3, <1>4, <1>7, Joined
  <1>9. PICK gc : gc = [i \in 1..(m + n) |-> g[c[i]]]
    OBVIOUS
  <1>10. ga \in Seq(Q) /\ Len(ga) = m
    <2>1. ga \in [1..m -> Q]
      BY <1>2, <1>3, <1>5
    <2> QED BY <2>1, FunctionIsSequence
  <1>11. gb \in Seq(Q) /\ Len(gb) = n
    <2>1. gb \in [1..n -> Q]
      BY <1>2, <1>4, <1>6
    <2> QED BY <2>1, FunctionIsSequence
  <1>12. gc \in Seq(Q) /\ Len(gc) = m + n
    <2>1. PICK l \in Nat : l = m + n
      OBVIOUS
    <2>2. gc \in [1..l -> Q]
      BY <1>2, <1>8, <1>9, <2>1
    <2> QED BY <2>1, <2>2, FunctionIsSequence
  <1>13. gc = ga \o gb
    <2>1. PICK d : d = ga \o gb
      OBVIOUS
    <2>2. d \in Seq(Q) /\ Len(d) = m + n /\ (\A i \in 1..m : d[i] = ga[i]) /\ \A i \in 1..n : d[m + i] = gb[i]
      <3>1. PICK x \in Seq(Q) : x = ga /\ Len(x) = m
        BY <1>10
      <3>2. PICK y \in Seq(Q) : y = gb /\ Len(y) = n
        BY <1>11
      <3>3. d = x \o y
        BY <2>1, <3>1, <3>2
      <3>4. /\ x \o y \in Seq(Q) /\ Len(x \o y) = Len(x) + Len(y)
            /\ \A i \in 1..Len(x) : (x \o y)[i] = x[i]
            /\ \A i \in 1..Len(y) : (x \o y)[Len(x) + i] = y[i]
        BY Joined
      <3> QED BY <3>1, <3>2, <3>3, <3>4
    <2>3. ASSUME NEW i \in 1..(m + n)
          PROVE  gc[i] = d[i]
      <3>1. gc[i] = g[c[i]]
        BY <1>9
      <3>2. CASE i \in 1..m
        BY <1>5, <1>8, <2>2, <3>1, <3>2
      <3>3. CASE i \notin 1..m
        <4>1. PICK j \in 1..n : i = m + j
          <5>1. i - m \in 1..n /\ i = m + (i - m)
            BY <3>3
          <5> QED BY <5>1
        <4>2. c[i] = b[j] /\ d[i] = gb[j] /\ gb[j] = g[b[j]]
          BY <1>6, <1>8, <2>2, <4>1
        <4> QED BY <3>1, <4>2
      <3> QED BY <3>2, <3>3
    <2>4. Len(gc) = Len(d) /\ \A i \in 1..Len(gc) : gc[i] = d[i]
      BY <1>12, <2>2, <2>3
    <2>5. gc = d
      BY <1>12, <2>2, <2>4, SameElements
    <2> QED BY <2>1, <2>5
  <1>14. ga \in Seq(Seq(T)) /\ gb \in Seq(Seq(T))
    BY <1>1, <1>10, <1>11
  <1>15. FlattenSeq(ga \o gb) = FlattenSeq(ga) \o FlattenSeq(gb) /\ FlattenSeq(ga) \in Seq(T)
    BY <1>14, FlattenJoin
  <1>16. Over(a, g) = FlattenSeq(ga) /\ Over(b, g) = FlattenSeq(gb)
    BY <1>3, <1>4, <1>5, <1>6 DEF Over
  <1>17. Over(c, g) = FlattenSeq(gc)
    BY <1>8, <1>9 DEF Over
  <1> QED BY <1>7, <1>13, <1>15, <1>16, <1>17

\* Over a single element, and over none.
LEMMA OverOne ==
  ASSUME NEW S, NEW T, NEW g \in [S -> Seq(T)], NEW e \in S
  PROVE  Over(<<e>>, g) = g[e]
  <1>1. PICK s : s = <<e>>
    OBVIOUS
  <1>2. s \in Seq(S) /\ Len(s) = 1 /\ s[1] = e
    BY <1>1
  <1>3. [i \in 1..1 |-> g[s[i]]] = <<g[e]>>
    <2>1. PICK x : x = g[e]
      OBVIOUS
    <2>2. \A i \in 1..1 : g[s[i]] = x
      BY <1>2, <2>1
    <2>3. PICK q : q = [i \in 1..1 |-> g[s[i]]]
      OBVIOUS
    <2>4. q = [i \in 1..1 |-> x]
      BY <2>2, <2>3
    <2>5. q \in Seq({x}) /\ Len(q) = 1
      <3>1. q \in [1..1 -> {x}]
        BY <2>4
      <3> QED BY <3>1, FunctionIsSequence
    <2>6. q = <<q[1]>>
      BY <2>5, SingleElement
    <2>7. q[1] = x
      BY <2>4
    <2> QED BY <2>1, <2>3, <2>6, <2>7
  <1>4. FlattenSeq(<<g[e]>>) = g[e]
    <2>1. g[e] \in Seq(T)
      OBVIOUS
    <2> QED BY <2>1, FlattenOne
  <1>5. Over(s, g) = FlattenSeq([i \in 1..1 |-> g[s[i]]])
    BY <1>2 DEF Over
  <1> QED BY <1>1, <1>3, <1>4, <1>5

\* Over no element there is nothing.
LEMMA OverNone ==
  ASSUME NEW g
  PROVE  Over(<< >>, g) = << >>
  <1>1. [i \in 1..Len(<< >>) |-> g[<< >>[i]]] = << >>
    OBVIOUS
  <1> QED BY <1>1, FlattenNone DEF Over

\* The entries of a signature are those of each entry that has it.
LEMMA WithIs ==
  ASSUME NEW S, NEW s \in Seq(S), NEW sig
  PROVE  With(s, sig) = Over(s, [e \in S |-> IF e.sig = sig THEN <<e>> ELSE << >>])
  <1>1. PICK n \in Nat : n = Len(s)
    OBVIOUS
  <1>2. PICK I : I = {i \in DOMAIN s : s[i].sig = sig}
    OBVIOUS
  <1>3. PICK g : g = [e \in S |-> IF e.sig = sig THEN <<e>> ELSE << >>]
    OBVIOUS
  <1>4. PICK p : p = [i \in 1..n |-> g[s[i]]]
    OBVIOUS
  <1>5. \A i \in 1..n : s[i] \in S /\ (i \in I <=> s[i].sig = sig)
    BY <1>1, <1>2
  <1>6. \A i \in 1..n : p[i] = IF i \in I THEN <<s[i]>> ELSE << >>
    BY <1>3, <1>4, <1>5
  <1>7. p \in Seq(Seq(S))
    <2>1. PICK Q : Q = Seq(S)
      OBVIOUS
    <2>2. << >> \in Q /\ \A e \in S : <<e>> \in Q
      BY <2>1
    <2>3. \A i \in 1..n : p[i] \in Q
      BY <1>5, <1>6, <2>2
    <2>4. p \in [1..n -> Q]
      BY <1>4, <2>3
    <2> QED BY <2>1, <2>4, FunctionIsSequence
  <1>8. Len(p) = n
    BY <1>4
  <1>9. PICK u : /\ u[0] = << >> /\ \A k \in 1..Len(p) : u[k] = u[k - 1] \o p[k]
                 /\ \A k \in 0..Len(p) : u[k] \in Seq(S)
                 /\ FlattenSeq(p) = u[Len(p)]
    BY <1>7, FlattenIs
  <1>10. PICK v : /\ v[0] = << >>
                  /\ \A k \in 1..Len(s) : v[k] = IF k \in I THEN Append(v[k - 1], s[k]) ELSE v[k - 1]
                  /\ ElementsAt(s, I) = v[Len(s)]
    BY ElementsAtIs
  <1> DEFINE D == {k \in 0..n : v[k] = u[k]}
  <1>11. 0 \in D
    BY <1>9, <1>10
  <1>12. ASSUME NEW k \in 1..n, k - 1 \in D
         PROVE  k \in D
    <2>1. PICK q \in Seq(S) : q = u[k - 1] /\ q = v[k - 1]
      <3>1. k - 1 \in 0..n
        OBVIOUS
      <3>2. u[k - 1] \in Seq(S)
        BY <1>8, <1>9, <3>1
      <3> QED BY <1>12, <3>2
    <2>2. u[k] = q \o p[k]
      BY <1>8, <1>9, <2>1
    <2>3. v[k] = IF k \in I THEN Append(q, s[k]) ELSE q
      BY <1>1, <1>10, <2>1
    <2>4. q \o << >> = q /\ q \o <<s[k]>> = Append(q, s[k])
      BY <1>5
    <2>5. p[k] = IF k \in I THEN <<s[k]>> ELSE << >>
      BY <1>6
    <2>6. v[k] = u[k]
      BY <2>2, <2>3, <2>4, <2>5
    <2> QED BY <2>6
  <1> HIDE DEF D
  <1>13. \A k \in 0..n : k \in D
    BY <1>11, <1>12, InductionTo
  <1>14. v[n] = u[n]
    BY <1>13 DEF D
  <1>15. With(s, sig) = v[n]
    BY <1>1, <1>2, <1>10 DEF With
  <1>16. Over(s, g) = u[n]
    BY <1>1, <1>4, <1>8, <1>9 DEF Over
  <1> QED BY <1>3, <1>14, <1>15, <1>16

\* Parts of sequences that were put together.
LEMMA PartBehind ==
  ASSUME NEW S, NEW a \in Seq(S), NEW b \in Seq(S), NEW i \in Nat \ {0}, NEW j \in Nat, j <= Len(b)
  PROVE  SubSeq(a \o b, Len(a) + i, Len(a) + j) = SubSeq(b, i, j)
  <1>1. PICK m \in Nat : m = Len(a)
    OBVIOUS
  <1>2. PICK c : c = a \o b
    OBVIOUS
  <1>3. c \in Seq(S) /\ Len(c) = m + Len(b) /\ \A k \in 1..Len(b) : c[m + k] = b[k]
    BY <1>1, <1>2, Joined
  <1>4. PICK x : x = SubSeq(c, m + i, m + j)
    OBVIOUS
  <1>5. PICK y : y = SubSeq(b, i, j)
    OBVIOUS
  <1>6. PICK l \in Nat : l = IF i <= j THEN (j - i) + 1 ELSE 0
    <2>1. (IF i <= j THEN (j - i) + 1 ELSE 0) \in Nat
      OBVIOUS
    <2> QED BY <2>1
  <1>7. x \in Seq(S) /\ Len(x) = l /\ \A k \in 1..l : x[k] = c[(m + i) + (k - 1)]
    BY <1>3, <1>4, <1>6
  <1>8. y \in Seq(S) /\ Len(y) = l /\ \A k \in 1..l : y[k] = b[i + (k - 1)]
    BY <1>5, <1>6
  <1>9. ASSUME NEW k \in 1..l
        PROVE  x[k] = y[k]
    <2>1. i + (k - 1) \in 1..Len(b) /\ (m + i) + (k - 1) = m + (i + (k - 1))
      BY <1>6
    <2> QED BY <1>3, <1>7, <1>8, <2>1
  <1>10. x = y
    BY <1>7, <1>8, <1>9, SameElements
  <1> QED BY <1>1, <1>2, <1>4, <1>5, <1>10

\* A part of the front one is a part of it as it was.
LEMMA PartWithin ==
  ASSUME NEW S, NEW a \in Seq(S), NEW b \in Seq(S), NEW i \in Nat \ {0}, NEW j \in Nat, j <= Len(a)
  PROVE  SubSeq(a \o b, i, j) = SubSeq(a, i, j)
  <1>1. PICK c : c = a \o b
    OBVIOUS
  <1>2. c \in Seq(S) /\ Len(c) = Len(a) + Len(b) /\ \A k \in 1..Len(a) : c[k] = a[k]
    BY <1>1, Joined
  <1>3. PICK x : x = SubSeq(c, i, j)
    OBVIOUS
  <1>4. PICK y : y = SubSeq(a, i, j)
    OBVIOUS
  <1>5. PICK l \in Nat : l = IF i <= j THEN (j - i) + 1 ELSE 0
    <2>1. (IF i <= j THEN (j - i) + 1 ELSE 0) \in Nat
      OBVIOUS
    <2> QED BY <2>1
  <1>6. x \in Seq(S) /\ Len(x) = l /\ \A k \in 1..l : x[k] = c[i + (k - 1)]
    BY <1>2, <1>3, <1>5
  <1>7. y \in Seq(S) /\ Len(y) = l /\ \A k \in 1..l : y[k] = a[i + (k - 1)]
    BY <1>4, <1>5
  <1>8. ASSUME NEW k \in 1..l
        PROVE  x[k] = y[k]
    <2>1. i + (k - 1) \in 1..Len(a)
      BY <1>5
    <2> QED BY <1>2, <1>6, <1>7, <2>1
  <1>9. x = y
    BY <1>6, <1>7, <1>8, SameElements
  <1> QED BY <1>1, <1>3, <1>4, <1>9

\* Bytes, one behind the other.
LEMMA BytesJoin ==
  ASSUME NEW a \in ByteString, NEW b \in ByteString
  PROVE  /\ a \o b \in ByteString /\ Len(a \o b) = Len(a) + Len(b)
         /\ Len(a) \in Nat /\ Len(b) \in Nat
         /\ \A i \in 1..Len(a) : (a \o b)[i] = a[i]
         /\ \A i \in 1..Len(b) : (a \o b)[Len(a) + i] = b[i]
         /\ \A i \in Nat \ {0} : \A j \in Nat :
              /\ j <= Len(b) => SubSeq(a \o b, Len(a) + i, Len(a) + j) = SubSeq(b, i, j)
              /\ j <= Len(a) => SubSeq(a \o b, i, j) = SubSeq(a, i, j)
  <1>1. PICK B : B = 0..255
    OBVIOUS
  <1>2. a \in Seq(B) /\ b \in Seq(B)
    BY <1>1 DEF ByteString
  <1>3. /\ a \o b \in Seq(B) /\ Len(a \o b) = Len(a) + Len(b)
        /\ \A i \in 1..Len(a) : (a \o b)[i] = a[i]
        /\ \A i \in 1..Len(b) : (a \o b)[Len(a) + i] = b[i]
    BY <1>2, Joined
  <1>4. Len(a) \in Nat /\ Len(b) \in Nat
    BY <1>2
  <1>5. \A i \in Nat \ {0} : \A j \in Nat :
          /\ j <= Len(b) => SubSeq(a \o b, Len(a) + i, Len(a) + j) = SubSeq(b, i, j)
          /\ j <= Len(a) => SubSeq(a \o b, i, j) = SubSeq(a, i, j)
    BY <1>2, PartBehind, PartWithin
  <1> QED BY <1>1, <1>3, <1>4, <1>5 DEF ByteString

\* An entry at the beginning of an area is found first, and then those behind it.
LEMMA OfBehind ==
  ASSUME NEW x \in ByteString, NEW rest \in ByteString, 4 <= Len(x), x[3] = Len(x), NEW sig, NEW n \in Nat
  PROVE  Of(x \o rest, sig, n) = Found(x, sig, n, 0) \o Of(rest, sig, n)
  <1>1. PICK y \in ByteString : y = x \o rest
    BY BytesJoin
  <1>2. PICK l \in Nat : l = Len(x)
    BY BytesJoin
  <1>3. PICK r \in Nat : r = Len(rest)
    BY BytesJoin
  <1>4. /\ y \in ByteString /\ Len(y) = l + r
        /\ \A i \in 1..l : y[i] = x[i]
        /\ \A i \in 1..r : y[l + i] = rest[i]
    BY <1>1, <1>2, <1>3, BytesJoin
  <1>5. \A i \in Nat \ {0} : \A j \in Nat :
          /\ j <= r => SubSeq(y, l + i, l + j) = SubSeq(rest, i, j)
          /\ j <= l => SubSeq(y, i, j) = SubSeq(x, i, j)
    <2>1. \A i \in Nat \ {0} : \A j \in Nat :
            /\ j <= Len(rest) => SubSeq(x \o rest, Len(x) + i, Len(x) + j) = SubSeq(rest, i, j)
            /\ j <= Len(x) => SubSeq(x \o rest, i, j) = SubSeq(x, i, j)
      BY BytesJoin
    <2> QED BY <1>1, <1>2, <1>3, <2>1
  <1>6. PICK u : /\ \A o \in 0..Len(y) : u[o] \in Seq({d \in ByteString : n <= Len(d)})
                 /\ \A o \in 0..Len(y) : u[o] = IF ~Whole(y, o) THEN << >>
                                               ELSE Found(y, sig, n, o) \o u[o + y[o + 3]]
                 /\ Of(y, sig, n) = u[0]
    BY OfIs
  <1>7. PICK v : /\ \A o \in 0..Len(rest) : v[o] = IF ~Whole(rest, o) THEN << >>
                                                  ELSE Found(rest, sig, n, o) \o v[o + rest[o + 3]]
                 /\ Of(rest, sig, n) = v[0]
    BY OfIs
  <1> DEFINE P == {o \in 0..r : Whole(rest, o)}
             nx == [o \in P |-> o + rest[o + 3]]
             same == [o \in 0..r |-> u[l + o] = v[o]]
  <1>8. ASSUME NEW o \in P
        PROVE  /\ rest[o + 3] \in Nat /\ rest[o + 3] >= 4
               /\ o + rest[o + 3] \in 0..r /\ o < o + rest[o + 3] /\ o \in 0..r
    <2>1. o \in 0..r /\ Whole(rest, o)
      OBVIOUS
    <2>2. o + 4 <= r /\ rest[o + 3] >= 4 /\ o + rest[o + 3] <= r
      BY <1>3, <2>1 DEF Whole
    <2>3. o + 3 \in 1..Len(rest)
      BY <1>3, <2>1, <2>2
    <2>4. rest[o + 3] \in Nat
      BY <2>3, BytesAre
    <2> HIDE DEF P
    <2>5. PICK e \in Nat : e = rest[o + 3]
      BY <2>4
    <2> QED BY <2>1, <2>2, <2>5
  <1>9. Forward(r, P, nx)
    <2>1. nx \in [P -> 0..r] /\ \A o \in P : o < nx[o]
      <3> HIDE DEF P
      <3> QED BY <1>8
    <2>2. P \in SUBSET (0..r)
      OBVIOUS
    <2> HIDE DEF P, nx
    <2> QED BY <2>1, <2>2 DEF Forward
  <1>10. ASSUME NEW o \in 0..r
         PROVE  Whole(y, l + o) <=> Whole(rest, o)
    <2>1. (l + o) + 4 <= l + r <=> o + 4 <= r
      OBVIOUS
    <2>2. CASE o + 4 <= r
      <3>1. o + 3 \in 1..r /\ l + (o + 3) = (l + o) + 3
        BY <2>2
      <3>2. y[(l + o) + 3] = rest[o + 3]
        BY <1>4, <3>1
      <3>3. rest[o + 3] \in Nat
        BY <1>3, <3>1, BytesAre
      <3>4. PICK e \in Nat : e = rest[o + 3]
        BY <3>3
      <3>5. (l + o) + e <= l + r <=> o + e <= r
        OBVIOUS
      <3> QED BY <1>3, <1>4, <2>1, <3>2, <3>4, <3>5 DEF Whole
    <2>3. CASE ~(o + 4 <= r)
      BY <1>3, <1>4, <2>1, <2>3 DEF Whole
    <2> QED BY <2>2, <2>3
  <1>11. ASSUME NEW o \in 0..r, o \in P => same[nx[o]] \in {TRUE}
         PROVE  same[o] \in {TRUE}
    <2>1. l + o \in 0..Len(y) /\ o \in 0..Len(rest)
      BY <1>3, <1>4
    <2>2. CASE o \in P
      <3>1. PICK e \in Nat : e = rest[o + 3]
        <4> HIDE DEF P
        <4> QED BY <1>8, <2>2
      <3>2. e >= 4 /\ o + e \in 0..r
        <4> HIDE DEF P
        <4> QED BY <1>8, <2>2, <3>1
      <3>3. Whole(rest, o) /\ Whole(y, l + o)
        BY <1>10, <2>2
      <3>4. nx[o] = o + e
        <4> HIDE DEF P
        <4> QED BY <2>2, <3>1
      <3>5. u[l + (o + e)] = v[o + e]
        <4>1. same[o + e]
          <5> HIDE DEF P, nx, same
          <5> QED BY <1>11, <2>2, <3>4
        <4> HIDE DEF P, nx
        <4> QED BY <3>2, <4>1
      <3> HIDE DEF P, nx
      <3>6. o + 1 \in 1..r /\ o + 2 \in 1..r /\ o + 3 \in 1..r
        BY <3>2
      <3>7. y[l + (o + 1)] = rest[o + 1] /\ y[l + (o + 2)] = rest[o + 2] /\ y[l + (o + 3)] = e
        BY <1>4, <3>1, <3>6
      <3>8. l + (o + 1) = (l + o) + 1 /\ l + (o + 2) = (l + o) + 2 /\ l + (o + 3) = (l + o) + 3
            /\ l + (o + 5) = (l + o) + 5 /\ l + (o + e) = (l + o) + e
        OBVIOUS
      <3>9. y[(l + o) + 1] = rest[o + 1] /\ y[(l + o) + 2] = rest[o + 2] /\ y[(l + o) + 3] = e
        BY <3>7, <3>8
      <3>10. SubSeq(y, (l + o) + 5, (l + o) + e) = SubSeq(rest, o + 5, o + e)
        <4>1. o + 5 \in Nat \ {0} /\ o + e \in Nat /\ o + e <= r
          BY <3>2
        <4>2. SubSeq(y, l + (o + 5), l + (o + e)) = SubSeq(rest, o + 5, o + e)
          BY <1>5, <4>1
        <4> QED BY <3>8, <4>2
      <3>11. Found(y, sig, n, l + o) = Found(rest, sig, n, o)
        BY <3>1, <3>9, <3>10 DEF Found
      <3>12. u[l + o] = Found(y, sig, n, l + o) \o u[(l + o) + e]
        BY <1>6, <2>1, <3>3, <3>9
      <3>13. v[o] = Found(rest, sig, n, o) \o v[o + e]
        BY <1>7, <2>1, <3>1, <3>3
      <3>14. u[l + o] = v[o]
        BY <3>5, <3>8, <3>11, <3>12, <3>13
      <3> QED BY <3>14
    <2>3. CASE o \notin P
      <3>1. ~Whole(rest, o) /\ ~Whole(y, l + o)
        BY <1>10, <2>3
      <3>2. u[l + o] = << >> /\ v[o] = << >>
        BY <1>6, <1>7, <2>1, <3>1
      <3> QED BY <3>2
    <2> QED BY <2>2, <2>3
  <1>12. \A o \in 0..r : same[o] \in {TRUE}
    <2> HIDE DEF P, nx, same
    <2> QED BY <1>9, <1>11, WalkStays
  <1>13. u[l] = v[0]
    <2>1. 0 \in 0..r /\ l + 0 = l
      OBVIOUS
    <2>2. same[0]
      <3> HIDE DEF same
      <3> QED BY <1>12, <2>1
    <2> QED BY <2>1, <2>2
  <1> HIDE DEF P, nx, same
  <1>14. y[1] = x[1] /\ y[2] = x[2] /\ y[3] = l
    BY <1>2, <1>4
  <1>15. Whole(y, 0)
    BY <1>2, <1>4, <1>14 DEF Whole
  <1>16. Found(y, sig, n, 0) = Found(x, sig, n, 0)
    <2>1. SubSeq(y, 5, l) = SubSeq(x, 5, l)
      <3>1. 5 \in Nat \ {0} /\ l <= l
        OBVIOUS
      <3> QED BY <1>5, <3>1
    <2>2. 0 + 1 = 1 /\ 0 + 2 = 2 /\ 0 + 3 = 3 /\ 0 + 5 = 5 /\ 0 + l = l
      OBVIOUS
    <2>3. Found(y, sig, n, 0) = IF <<y[1], y[2]>> = sig /\ y[3] >= n + 4 THEN <<SubSeq(y, 5, 0 + y[3])>> ELSE << >>
      BY <2>2 DEF Found
    <2>4. Found(x, sig, n, 0) = IF <<x[1], x[2]>> = sig /\ x[3] >= n + 4 THEN <<SubSeq(x, 5, 0 + x[3])>> ELSE << >>
      BY <2>2 DEF Found
    <2>5. x[3] = l /\ 0 + y[3] = l /\ 0 + x[3] = l
      BY <1>2, <1>14
    <2>6. SubSeq(y, 5, 0 + y[3]) = SubSeq(x, 5, 0 + x[3])
      BY <2>1, <2>5
    <2>7. PICK p : p = <<y[1], y[2]>>
      OBVIOUS
    <2>8. p = <<x[1], x[2]>>
      BY <1>14, <2>7
    <2>9. PICK d : d = SubSeq(y, 5, 0 + y[3])
      OBVIOUS
    <2>10. Found(y, sig, n, 0) = IF p = sig /\ l >= n + 4 THEN <<d>> ELSE << >>
      BY <1>14, <2>3, <2>7, <2>9, Zenon
    <2>11. Found(x, sig, n, 0) = IF p = sig /\ l >= n + 4 THEN <<d>> ELSE << >>
      BY <2>4, <2>5, <2>6, <2>8, <2>9, Zenon
    <2> QED BY <2>10, <2>11
  <1>17. u[0] = Found(y, sig, n, 0) \o u[l]
    <2>1. 0 \in 0..Len(y) /\ y[0 + 3] = l /\ 0 + l = l
      BY <1>4, <1>14
    <2> QED BY <1>6, <1>15, <2>1
  <1> QED BY <1>1, <1>6, <1>7, <1>13, <1>16, <1>17

\* In an area too short for an entry nothing is found.
LEMMA OfTooShort ==
  ASSUME NEW x \in ByteString, Len(x) < 4, NEW sig, NEW n \in Nat
  PROVE  Of(x, sig, n) = << >>
  <1>1. PICK u : /\ \A o \in 0..Len(x) : u[o] = IF ~Whole(x, o) THEN << >>
                                               ELSE Found(x, sig, n, o) \o u[o + x[o + 3]]
                 /\ Of(x, sig, n) = u[0]
    BY OfIs
  <1>2. 0 \in 0..Len(x) /\ ~Whole(x, 0)
    BY BytesAre DEF Whole
  <1> QED BY <1>1, <1>2

---------------------------------------------------------------------------
(* The components of a link *)

\* Does a component lie whole behind an offset, and which one is it?
WholeComponent(comps, o) == ~(o + 2 > Len(comps) \/ o + 2 + comps[o + 2] > Len(comps))
ComponentAt(comps, o) ==
  [flags |-> comps[o + 1], text |-> Text(SubSeq(comps, o + 3, o + 2 + comps[o + 2]))]

\* Behind a whole component the walk goes on within the entry.
LEMMA ComponentsGoOn ==
  ASSUME NEW comps \in ByteString, NEW o \in 0..Len(comps), WholeComponent(comps, o)
  PROVE  /\ comps[o + 2] \in Nat /\ o + 2 <= Len(comps)
         /\ o + 2 + comps[o + 2] \in 0..Len(comps) /\ o < o + 2 + comps[o + 2]
  <1>1. PICK l \in Nat : l = Len(comps)
    BY BytesAre
  <1>2. o + 2 \in 1..Len(comps)
    BY <1>1 DEF WholeComponent
  <1>3. PICK e \in Nat : e = comps[o + 2]
    BY <1>2, BytesAre
  <1>4. o + 2 + e <= l
    BY <1>1, <1>3 DEF WholeComponent
  <1> QED BY <1>1, <1>2, <1>3, <1>4

\* The components found from each offset on.
LEMMA ComponentsIs ==
  ASSUME NEW comps \in ByteString
  PROVE  \E u : /\ \A o \in 0..Len(comps) :
                     u[o] = IF WholeComponent(comps, o)
                            THEN <<ComponentAt(comps, o)>> \o u[o + 2 + comps[o + 2]] ELSE << >>
                /\ Components(comps) = u[0]
  <1> DEFINE l == Len(comps)
             C == {ComponentAt(comps, o) : o \in 0..l}
             T == Seq(C)
             P == {o \in 0..l : WholeComponent(comps, o)}
             found(o, q) == <<ComponentAt(comps, o)>> \o q
             nx == [o \in P |-> o + 2 + comps[o + 2]]
             g == [o \in P |-> [q \in T |-> found(o, q)]]
             Rec(f) == f = [i \in 0..l |->
                              IF i + 2 > l \/ i + 2 + comps[i + 2] > l THEN << >>
                              ELSE << [flags |-> comps[i + 1],
                                       text |-> Text(SubSeq(comps, i + 3, i + 2 + comps[i + 2]))] >>
                                   \o f[i + 2 + comps[i + 2]]]
             from == CHOOSE f : Rec(f)
  <1>1. l \in Nat
    BY BytesAre
  <1>2. ASSUME NEW o \in P
        PROVE  o + 2 + comps[o + 2] \in 0..l /\ o < o + 2 + comps[o + 2] /\ o \in 0..l
    <2>1. o \in 0..l /\ WholeComponent(comps, o)
      OBVIOUS
    <2> HIDE DEF P
    <2> QED BY <2>1, ComponentsGoOn
  <1>3. Forward(l, P, nx)
    <2>1. nx \in [P -> 0..l] /\ \A o \in P : o < nx[o]
      <3> HIDE DEF P, l
      <3> QED BY <1>2
    <2>2. P \in SUBSET (0..l)
      OBVIOUS
    <2> HIDE DEF P, l, nx
    <2> QED BY <1>1, <2>1, <2>2 DEF Forward
  <1>4. << >> \in T
    OBVIOUS
  <1>5. \A o \in P : \A q \in T : found(o, q) \in T
    <2> TAKE o \in P
    <2> TAKE q \in T
    <2>1. ComponentAt(comps, o) \in C
      BY <1>2
    <2> HIDE DEF C, P
    <2> QED BY <2>1
  <1>6. WalkSteps(P, T, << >>, g)
    <2>1. g \in [P -> [T -> T]]
      <3> HIDE DEF P, T, found
      <3> QED BY <1>5
    <2> HIDE DEF P, T, g
    <2> QED BY <1>4, <2>1 DEF WalkSteps
  <1>7. PICK f : Walks(0, l, P, nx, T, << >>, g, f)
    <2> HIDE DEF P, T, l, nx, g
    <2> QED BY <1>3, <1>6, WalkExists
  <1>8. f \in [0..l -> T] /\ \A o \in 0..l : f[o] = IF o \in P THEN g[o][f[nx[o]]] ELSE << >>
    <2> HIDE DEF P, T, l, nx, g
    <2> QED BY <1>7 DEF Walks
  <1>9. ASSUME NEW o \in 0..l
        PROVE  f[o] = IF WholeComponent(comps, o) THEN found(o, f[o + 2 + comps[o + 2]]) ELSE << >>
    <2>1. CASE o \in P
      <3>1. f[o] = g[o][f[nx[o]]]
        <4> HIDE DEF P, T, l, nx, g
        <4> QED BY <1>8, <2>1
      <3>2. nx[o] = o + 2 + comps[o + 2] /\ nx[o] \in 0..l
        <4> HIDE DEF P, l
        <4> QED BY <1>2, <2>1
      <3>3. f[nx[o]] \in T
        <4> HIDE DEF P, T, l, nx, g
        <4> QED BY <1>8, <3>2
      <3>4. g[o][f[nx[o]]] = found(o, f[nx[o]])
        <4> HIDE DEF P, T, l, nx, found
        <4> QED BY <2>1, <3>3
      <3>5. WholeComponent(comps, o)
        BY <2>1
      <3> HIDE DEF P, T, l, nx, found, g
      <3> QED BY <3>1, <3>2, <3>4, <3>5
    <2>2. CASE o \notin P
      <3>1. ~WholeComponent(comps, o)
        BY <2>2
      <3>2. f[o] = << >>
        <4> HIDE DEF P, T, l, nx, g
        <4> QED BY <1>8, <2>2
      <3> QED BY <3>1, <3>2
    <2> QED BY <2>1, <2>2
  <1>10. Rec(f)
    <2>1. f = [o \in 0..l |-> f[o]]
      <3> HIDE DEF P, T, l, nx, g
      <3> QED BY <1>8
    <2>2. \A o \in 0..l : f[o] = IF o + 2 > l \/ o + 2 + comps[o + 2] > l THEN << >>
                                 ELSE << [flags |-> comps[o + 1],
                                          text |-> Text(SubSeq(comps, o + 3, o + 2 + comps[o + 2]))] >>
                                      \o f[o + 2 + comps[o + 2]]
      BY <1>9, Zenon DEF WholeComponent, ComponentAt
    <2> HIDE DEF l
    <2> QED BY <2>1, <2>2, Zenon
  <1>11. Rec(from)
    <2> HIDE DEF Rec
    <2> QED BY <1>10
  <1>12. Components(comps) = from[0]
    BY DEF Components
  <1>13. PICK u : u = from
    OBVIOUS
  <1>14. Rec(u)
    <2> HIDE DEF Rec, from
    <2> QED BY <1>11, <1>13
  <1>15. ASSUME NEW o \in 0..l
         PROVE  u[o] = IF WholeComponent(comps, o)
                       THEN <<ComponentAt(comps, o)>> \o u[o + 2 + comps[o + 2]] ELSE << >>
    <2>1. u[o] = IF o + 2 > l \/ o + 2 + comps[o + 2] > l THEN << >>
                 ELSE << [flags |-> comps[o + 1],
                          text |-> Text(SubSeq(comps, o + 3, o + 2 + comps[o + 2]))] >>
                      \o u[o + 2 + comps[o + 2]]
      <3> HIDE DEF l
      <3> QED BY <1>14, Zenon
    <2> QED BY <2>1, Zenon DEF WholeComponent, ComponentAt
  <1> HIDE DEF from, T, P, nx, g, found, Rec
  <1> QED BY <1>12, <1>13, <1>15

\* A whole component at the beginning of an entry is found first, and then those behind it.
LEMMA ComponentsBehind ==
  ASSUME NEW x \in ByteString, NEW rest \in ByteString, 2 <= Len(x), x[2] + 2 = Len(x)
  PROVE  Components(x \o rest) = <<ComponentAt(x, 0)>> \o Components(rest)
  <1>1. PICK y \in ByteString : y = x \o rest
    BY BytesJoin
  <1>2. PICK l \in Nat : l = Len(x)
    BY BytesJoin
  <1>3. PICK r \in Nat : r = Len(rest)
    BY BytesJoin
  <1>4. /\ Len(y) = l + r
        /\ \A i \in 1..l : y[i] = x[i]
        /\ \A i \in 1..r : y[l + i] = rest[i]
    BY <1>1, <1>2, <1>3, BytesJoin
  <1>5. \A i \in Nat \ {0} : \A j \in Nat :
          /\ j <= r => SubSeq(y, l + i, l + j) = SubSeq(rest, i, j)
          /\ j <= l => SubSeq(y, i, j) = SubSeq(x, i, j)
    <2>1. \A i \in Nat \ {0} : \A j \in Nat :
            /\ j <= Len(rest) => SubSeq(x \o rest, Len(x) + i, Len(x) + j) = SubSeq(rest, i, j)
            /\ j <= Len(x) => SubSeq(x \o rest, i, j) = SubSeq(x, i, j)
      BY BytesJoin
    <2> QED BY <1>1, <1>2, <1>3, <2>1
  <1>6. PICK u : /\ \A o \in 0..Len(y) :
                      u[o] = IF WholeComponent(y, o)
                             THEN <<ComponentAt(y, o)>> \o u[o + 2 + y[o + 2]] ELSE << >>
                 /\ Components(y) = u[0]
    BY ComponentsIs
  <1>7. PICK v : /\ \A o \in 0..Len(rest) :
                      v[o] = IF WholeComponent(rest, o)
                             THEN <<ComponentAt(rest, o)>> \o v[o + 2 + rest[o + 2]] ELSE << >>
                 /\ Components(rest) = v[0]
    BY ComponentsIs
  <1> DEFINE P == {o \in 0..r : WholeComponent(rest, o)}
             nx == [o \in P |-> o + 2 + rest[o + 2]]
             same == [o \in 0..r |-> u[l + o] = v[o]]
  <1>8. ASSUME NEW o \in P
        PROVE  /\ rest[o + 2] \in Nat /\ o + 2 <= r
               /\ o + 2 + rest[o + 2] \in 0..r /\ o < o + 2 + rest[o + 2] /\ o \in 0..r
    <2>1. o \in 0..Len(rest) /\ WholeComponent(rest, o)
      BY <1>3
    <2> HIDE DEF P
    <2> QED BY <1>3, <2>1, ComponentsGoOn
  <1>9. Forward(r, P, nx)
    <2>1. nx \in [P -> 0..r] /\ \A o \in P : o < nx[o]
      <3> HIDE DEF P
      <3> QED BY <1>8
    <2>2. P \in SUBSET (0..r)
      OBVIOUS
    <2> HIDE DEF P, nx
    <2> QED BY <2>1, <2>2 DEF Forward
  <1>10. ASSUME NEW o \in 0..r
         PROVE  WholeComponent(y, l + o) <=> WholeComponent(rest, o)
    <2>1. (l + o) + 2 > l + r <=> o + 2 > r
      OBVIOUS
    <2>2. CASE o + 2 <= r
      <3>1. o + 2 \in 1..r /\ l + (o + 2) = (l + o) + 2
        BY <2>2
      <3>2. y[(l + o) + 2] = rest[o + 2]
        BY <1>4, <3>1
      <3>3. rest[o + 2] \in Nat
        BY <1>3, <3>1, BytesAre
      <3>4. PICK e \in Nat : e = rest[o + 2]
        BY <3>3
      <3>5. (l + o) + 2 + e > l + r <=> o + 2 + e > r
        OBVIOUS
      <3> QED BY <1>3, <1>4, <2>1, <3>2, <3>4, <3>5 DEF WholeComponent
    <2>3. CASE ~(o + 2 <= r)
      <3>1. o + 2 > r /\ (l + o) + 2 > l + r
        BY <2>3
      <3> QED BY <1>3, <1>4, <3>1 DEF WholeComponent
    <2> QED BY <2>2, <2>3
  <1>11. ASSUME NEW o \in 0..r, o \in P => same[nx[o]] \in {TRUE}
         PROVE  same[o] \in {TRUE}
    <2>1. l + o \in 0..Len(y) /\ o \in 0..Len(rest)
      BY <1>3, <1>4
    <2>2. CASE o \in P
      <3>1. PICK e \in Nat : e = rest[o + 2]
        <4> HIDE DEF P
        <4> QED BY <1>8, <2>2
      <3>2. o + 2 <= r /\ o + 2 + e \in 0..r
        <4> HIDE DEF P
        <4> QED BY <1>8, <2>2, <3>1
      <3>3. WholeComponent(rest, o) /\ WholeComponent(y, l + o)
        BY <1>10, <2>2
      <3>4. nx[o] = o + 2 + e
        <4> HIDE DEF P
        <4> QED BY <2>2, <3>1
      <3>5. u[l + (o + 2 + e)] = v[o + 2 + e]
        <4>1. same[o + 2 + e]
          <5> HIDE DEF P, nx, same
          <5> QED BY <1>11, <2>2, <3>4
        <4> HIDE DEF P, nx
        <4> QED BY <3>2, <4>1
      <3> HIDE DEF P, nx
      <3>6. o + 1 \in 1..r /\ o + 2 \in 1..r
        BY <3>2
      <3>7. y[l + (o + 1)] = rest[o + 1] /\ y[l + (o + 2)] = e
        BY <1>4, <3>1, <3>6
      <3>8. l + (o + 1) = (l + o) + 1 /\ l + (o + 2) = (l + o) + 2 /\ l + (o + 3) = (l + o) + 3
            /\ l + (o + 2 + e) = (l + o) + 2 + e
        OBVIOUS
      <3>9. y[(l + o) + 1] = rest[o + 1] /\ y[(l + o) + 2] = e
        BY <3>7, <3>8
      <3>10. SubSeq(y, (l + o) + 3, (l + o) + 2 + e) = SubSeq(rest, o + 3, o + 2 + e)
        <4>1. o + 3 \in Nat \ {0} /\ o + 2 + e \in Nat /\ o + 2 + e <= r
          BY <3>2
        <4>2. SubSeq(y, l + (o + 3), l + (o + 2 + e)) = SubSeq(rest, o + 3, o + 2 + e)
          BY <1>5, <4>1
        <4> QED BY <3>8, <4>2
      <3>11. ComponentAt(y, l + o) = ComponentAt(rest, o)
        BY <3>1, <3>9, <3>10, Zenon DEF ComponentAt
      <3>12. u[l + o] = <<ComponentAt(y, l + o)>> \o u[(l + o) + 2 + e]
        BY <1>6, <2>1, <3>3, <3>9
      <3>13. v[o] = <<ComponentAt(rest, o)>> \o v[o + 2 + e]
        BY <1>7, <2>1, <3>1, <3>3
      <3>14. u[l + o] = v[o]
        BY <3>5, <3>8, <3>11, <3>12, <3>13
      <3> QED BY <3>14
    <2>3. CASE o \notin P
      <3>1. ~WholeComponent(rest, o) /\ ~WholeComponent(y, l + o)
        BY <1>10, <2>3
      <3>2. u[l + o] = << >> /\ v[o] = << >>
        BY <1>6, <1>7, <2>1, <3>1
      <3> QED BY <3>2
    <2> QED BY <2>2, <2>3
  <1>12. \A o \in 0..r : same[o] \in {TRUE}
    <2> HIDE DEF P, nx, same
    <2> QED BY <1>9, <1>11, WalkStays
  <1>13. u[l] = v[0]
    <2>1. 0 \in 0..r /\ l + 0 = l
      OBVIOUS
    <2>2. same[0]
      <3> HIDE DEF same
      <3> QED BY <1>12, <2>1
    <2> QED BY <2>1, <2>2
  <1> HIDE DEF P, nx, same
  <1>14. PICK e \in Nat : e = x[2] /\ e + 2 = l
    <2>1. 2 \in 1..Len(x)
      BY <1>2
    <2> QED BY <1>2, <2>1, BytesAre
  <1>15. y[1] = x[1] /\ y[2] = e
    <2>1. 1 \in 1..l /\ 2 \in 1..l
      BY <1>14
    <2> QED BY <1>4, <1>14, <2>1
  <1>16. 0 + 1 = 1 /\ 0 + 2 = 2 /\ 0 + 3 = 3 /\ 0 + 2 + e = l
    BY <1>14
  <1>17. WholeComponent(y, 0)
    BY <1>4, <1>14, <1>15, <1>16 DEF WholeComponent
  <1>18. ComponentAt(y, 0) = ComponentAt(x, 0)
    <2>1. SubSeq(y, 3, l) = SubSeq(x, 3, l)
      <3>1. 3 \in Nat \ {0} /\ l <= l
        OBVIOUS
      <3> QED BY <1>5, <3>1
    <2>2. ComponentAt(y, 0) = [flags |-> y[1], text |-> Text(SubSeq(y, 3, l))]
      BY <1>15, <1>16, Zenon DEF ComponentAt
    <2>3. ComponentAt(x, 0) = [flags |-> x[1], text |-> Text(SubSeq(x, 3, l))]
      BY <1>14, <1>16, Zenon DEF ComponentAt
    <2> QED BY <1>15, <2>1, <2>2, <2>3, Zenon
  <1>19. u[0] = <<ComponentAt(y, 0)>> \o u[l]
    <2>1. 0 \in 0..Len(y) /\ 0 + 2 + y[0 + 2] = l
      BY <1>4, <1>15, <1>16
    <2> QED BY <1>6, <1>17, <2>1
  <1> QED BY <1>1, <1>6, <1>7, <1>13, <1>18, <1>19

\* An entry without a component.
LEMMA NoComponents == Components(<< >>) = << >>
  <1>1. << >> \in ByteString
    BY DEF ByteString
  <1>2. PICK u : /\ \A o \in 0..Len(<< >>) :
                      u[o] = IF WholeComponent(<< >>, o)
                             THEN <<ComponentAt(<< >>, o)>> \o u[o + 2 + << >>[o + 2]] ELSE << >>
                 /\ Components(<< >>) = u[0]
    BY <1>1, ComponentsIs
  <1>3. 0 \in 0..Len(<< >>) /\ ~WholeComponent(<< >>, 0)
    BY DEF WholeComponent
  <1> QED BY <1>2, <1>3

---------------------------------------------------------------------------
(* Areas read back *)

\* The entries that can be written, and the bytes of each.
Entries == {e \in SUSPEntry : Writable(e)}
EntryBytes(e) == LET p == Payload(e) IN e.sig \o <<Len(p) + 4, 1>> \o p

\* A small natural is an octet, and octets are small naturals.
LEMMA Octets ==
  /\ ByteString = Seq(Octet)
  /\ \A x \in Nat : x <= 255 => x \in Octet
  /\ \A x \in Octet : x \in Nat /\ x <= 255
  <1>1. ByteString = Seq(Octet)
    BY DEF ByteString, Octet
  <1>2. \A x \in Nat : x <= 255 => x \in Octet
    BY ByteRange DEF Octet
  <1>3. \A x \in Octet : x \in Nat /\ x <= 255
    BY DEF Octet
  <1> QED BY <1>1, <1>2, <1>3

\* The signatures are different pairs of octets.
LEMMA Signatures ==
  /\ NM # PX /\ NM # SL /\ NM # CE /\ PX # SL /\ PX # CE /\ SL # CE
  /\ \A sig \in {NM, PX, SL, CE} : sig[1] \in Octet /\ sig[2] \in Octet /\ sig = <<sig[1], sig[2]>>
  <1>1. NM[1] = 78 /\ NM[2] = 77 /\ PX[1] = 80 /\ PX[2] = 88 /\ SL[1] = 83 /\ SL[2] = 76 /\ CE[1] = 67 /\ CE[2] = 69
    BY DEF NM, PX, SL, CE
  <1>2. NM = <<NM[1], NM[2]>> /\ PX = <<PX[1], PX[2]>> /\ SL = <<SL[1], SL[2]>> /\ CE = <<CE[1], CE[2]>>
    BY DEF NM, PX, SL, CE
  <1>3. NM # PX /\ NM # SL /\ NM # CE /\ PX # SL /\ PX # CE /\ SL # CE
    BY <1>1
  <1>4. 78 \in Octet /\ 77 \in Octet /\ 80 \in Octet /\ 88 \in Octet /\ 83 \in Octet /\ 76 \in Octet
        /\ 67 \in Octet /\ 69 \in Octet
    BY Octets
  <1>5. ASSUME NEW sig \in {NM, PX, SL, CE}
        PROVE  sig[1] \in Octet /\ sig[2] \in Octet /\ sig = <<sig[1], sig[2]>>
    <2>1. CASE sig = NM
      BY <1>1, <1>2, <1>4, <2>1
    <2>2. CASE sig = PX
      BY <1>1, <1>2, <1>4, <2>2
    <2>3. CASE sig = SL
      BY <1>1, <1>2, <1>4, <2>3
    <2>4. CASE sig = CE
      BY <1>1, <1>2, <1>4, <2>4
    <2> QED BY <2>1, <2>2, <2>3, <2>4
  <1> QED BY <1>3, <1>5

\* What an entry of each kind consists of.
LEMMA EntryKinds ==
  ASSUME NEW e \in SUSPEntry
  PROVE  /\ e.sig = NM => e.bytes \in ByteString
         /\ e.sig = PX => e.mode \in Nat
         /\ e.sig = SL => e.comps \in Seq(Component)
         /\ e.sig = CE => e.block \in Nat /\ e.offset \in Nat /\ e.length \in Nat
         /\ e.sig[1] \in Octet /\ e.sig[2] \in Octet /\ e.sig = <<e.sig[1], e.sig[2]>>
  <1>1. PICK Bs : Bs = Seq(Octet)
    OBVIOUS
  <1>2. PICK Cs : Cs = Seq(Component)
    OBVIOUS
  <1>3. PICK known : known = {NM, PX, SL, CE}
    OBVIOUS
  <1>4. \/ e \in [sig : {NM}, bytes : Bs]
        \/ e \in [sig : {PX}, mode : Nat]
        \/ e \in [sig : {SL}, comps : Cs]
        \/ e \in [sig : {CE}, block : Nat, offset : Nat, length : Nat]
        \/ e \in [sig : Octet \X Octet \ known, data : Bs]
    BY <1>1, <1>2, <1>3 DEF SUSPEntry
  <1>5. /\ NM # PX /\ NM # SL /\ NM # CE /\ PX # SL /\ PX # CE /\ SL # CE
        /\ NM \in known /\ PX \in known /\ SL \in known /\ CE \in known
        /\ \A sig \in known : sig[1] \in Octet /\ sig[2] \in Octet /\ sig = <<sig[1], sig[2]>>
    BY <1>3, Signatures, Zenon
  <1>6. CASE e \in [sig : {NM}, bytes : Bs]
    <2>1. e.sig = NM /\ e.bytes \in Bs
      BY <1>6
    <2> QED BY <1>1, <1>5, <2>1, Octets, Zenon
  <1>7. CASE e \in [sig : {PX}, mode : Nat]
    <2>1. e.sig = PX /\ e.mode \in Nat
      BY <1>7
    <2> QED BY <1>5, <2>1, Zenon
  <1>8. CASE e \in [sig : {SL}, comps : Cs]
    <2>1. e.sig = SL /\ e.comps \in Cs
      BY <1>8
    <2> QED BY <1>2, <1>5, <2>1, Zenon
  <1>9. CASE e \in [sig : {CE}, block : Nat, offset : Nat, length : Nat]
    <2>1. e.sig = CE /\ e.block \in Nat /\ e.offset \in Nat /\ e.length \in Nat
      BY <1>9
    <2> QED BY <1>5, <2>1, Zenon
  <1>10. CASE e \in [sig : Octet \X Octet \ known, data : Bs]
    <2>1. e.sig \in Octet \X Octet /\ e.sig \notin known
      BY <1>10
    <2>2. e.sig[1] \in Octet /\ e.sig[2] \in Octet /\ e.sig = <<e.sig[1], e.sig[2]>>
      BY <2>1
    <2> QED BY <1>5, <2>1, <2>2, Zenon
  <1> QED BY <1>4, <1>6, <1>7, <1>8, <1>9, <1>10, Zenon

\* The bytes of an entry: its signature, its length, and its payload at the end.
LEMMA EntryIs ==
  ASSUME NEW e \in Entries
  PROVE  /\ EntryBytes(e) \in ByteString
         /\ Len(EntryBytes(e)) = Len(Payload(e)) + 4 /\ Len(Payload(e)) \in Nat
         /\ EntryBytes(e)[3] = Len(EntryBytes(e))
         /\ <<EntryBytes(e)[1], EntryBytes(e)[2]>> = e.sig
         /\ SubSeq(EntryBytes(e), 5, Len(EntryBytes(e))) = Payload(e)
         /\ Payload(e) \in ByteString
  <1>1. PICK B : B = Octet
    OBVIOUS
  <1>2. e \in SUSPEntry /\ Writable(e)
    BY DEF Entries
  <1>3. PICK p : p = Payload(e)
    OBVIOUS
  <1>4. p \in Seq(B) /\ Len(p) <= 251
    <2>1. Payload(e) \in Seq(Octet) /\ Len(Payload(e)) <= 251
      BY <1>2 DEF Writable
    <2> QED BY <1>1, <1>3, <2>1
  <1>15. PICK n \in Nat : n = Len(p) /\ n <= 251
    BY <1>4
  <1>5. PICK a \in B, b \in B : e.sig = <<a, b>>
    BY <1>1, <1>2, EntryKinds, Zenon
  <1>6. n + 4 \in B /\ 1 \in B
    <2>1. n + 4 \in Nat /\ n + 4 <= 255
      BY <1>15
    <2> QED BY <1>1, <2>1, Octets
  <1>7. PICK h : h = <<a, b, n + 4, 1>>
    OBVIOUS
  <1>8. h \in Seq(B) /\ Len(h) = 4 /\ h[1] = a /\ h[2] = b /\ h[3] = n + 4 /\ h[4] = 1
    BY <1>5, <1>6, <1>7
  <1>9. <<a, b>> \o <<n + 4, 1>> = h
    <2>1. PICK q : q = <<a, b>> \o <<n + 4, 1>>
      OBVIOUS
    <2>2. q \in Seq(B) /\ Len(q) = 4 /\ q[1] = a /\ q[2] = b /\ q[3] = n + 4 /\ q[4] = 1
      BY <1>6, <2>1
    <2>3. \A i \in 1..Len(q) : i = 1 \/ i = 2 \/ i = 3 \/ i = 4
      BY <2>2
    <2>4. \A i \in 1..Len(q) : q[i] = h[i]
      BY <1>8, <2>2, <2>3
    <2>5. q = h
      BY <1>8, <2>2, <2>4, SameElements
    <2> QED BY <2>1, <2>5
  <1>10. EntryBytes(e) = h \o p
    BY <1>3, <1>15, <1>5, <1>9 DEF EntryBytes
  <1>11. /\ h \o p \in Seq(B) /\ Len(h \o p) = 4 + n
         /\ \A i \in 1..Len(h) : (h \o p)[i] = h[i]
    <2>1. /\ h \o p \in Seq(B) /\ Len(h \o p) = Len(h) + Len(p)
          /\ \A i \in 1..Len(h) : (h \o p)[i] = h[i]
      <3>1. h \in Seq(B) /\ p \in Seq(B)
        BY <1>4, <1>8
      <3> QED BY <3>1, Joined, Zenon
    <2> QED BY <1>15, <1>8, <2>1
  <1>12. SubSeq(h \o p, 5, 4 + n) = p
    <2>1. SubSeq(h \o p, Len(h) + 1, Len(h \o p)) = p
      BY <1>4, <1>8, TakenApart
    <2> QED BY <1>8, <1>11, <2>1
  <1> HIDE DEF EntryBytes
  <1>13. EntryBytes(e) \in ByteString /\ Payload(e) \in ByteString
    BY <1>1, <1>3, <1>4, <1>10, <1>11, Octets
  <1>14. (h \o p)[1] = a /\ (h \o p)[2] = b /\ (h \o p)[3] = 4 + n
    BY <1>8, <1>11
  <1> QED BY <1>3, <1>15, <1>5, <1>10, <1>11, <1>12, <1>13, <1>14

\* A sequence with an element is that element and the rest.
LEMMA FirstAndRest ==
  ASSUME NEW S, NEW s \in Seq(S), NEW k \in Nat, Len(s) = k + 1
  PROVE  \E e \in S : \E t \in Seq(S) : s = <<e>> \o t /\ Len(t) = k
  <1>1. PICK e \in S : e = s[1]
    OBVIOUS
  <1>2. PICK t : t = Tail(s)
    OBVIOUS
  <1>3. t \in Seq(S) /\ Len(t) = k /\ \A i \in 1..k : t[i] = s[i + 1]
    BY <1>2
  <1>4. PICK q : q = <<e>> \o t
    OBVIOUS
  <1>5. q \in Seq(S) /\ Len(q) = k + 1 /\ q[1] = e /\ \A i \in 1..k : q[i + 1] = t[i]
    BY <1>3, <1>4
  <1>6. ASSUME NEW i \in 1..(k + 1)
        PROVE  s[i] = q[i]
    <2>1. CASE i = 1
      BY <1>1, <1>5, <2>1
    <2>2. CASE i # 1
      <3>1. i - 1 \in 1..k /\ (i - 1) + 1 = i
        BY <2>2
      <3> QED BY <1>3, <1>5, <3>1
    <2> QED BY <2>1, <2>2
  <1>7. s = q
    BY <1>5, <1>6, SameElements
  <1> QED BY <1>3, <1>4, <1>7

\* An area written is the bytes of its entries.
LEMMA BytewiseIs ==
  ASSUME NEW es \in Seq(Entries)
  PROVE  Bytewise(es) = Over(es, [e \in Entries |-> EntryBytes(e)])
  <1>1. PICK n : n = Len(es)
    OBVIOUS
  <1>2. PICK g : g = [e \in Entries |-> EntryBytes(e)]
    OBVIOUS
  <1>3. \A i \in 1..n : es[i] \in Entries
    BY <1>1
  <1>4. \A i \in 1..n : g[es[i]] = EntryBytes(es[i])
    <2> HIDE DEF EntryBytes
    <2> QED BY <1>2, <1>3
  <1>5. [i \in 1..n |-> LET p == Payload(es[i]) IN es[i].sig \o <<Len(p) + 4, 1>> \o p] = [i \in 1..n |-> g[es[i]]]
    BY <1>4, Zenon DEF EntryBytes
  <1> QED BY <1>1, <1>2, <1>5, Zenon DEF Bytewise, Over

\* Entries that follow others are written behind them.
LEMMA BytewiseJoin ==
  ASSUME NEW a \in Seq(Entries), NEW b \in Seq(Entries)
  PROVE  /\ Bytewise(a \o b) = Bytewise(a) \o Bytewise(b)
         /\ Bytewise(a) \in ByteString
  <1>1. PICK B : B = Octet
    OBVIOUS
  <1>2. PICK g : g = [e \in Entries |-> EntryBytes(e)]
    OBVIOUS
  <1>3. g \in [Entries -> Seq(B)]
    <2>1. \A e \in Entries : EntryBytes(e) \in Seq(B)
      BY <1>1, EntryIs, Octets
    <2> QED BY <1>2, <2>1
  <1>4. a \o b \in Seq(Entries)
    BY Joined
  <1>5. Bytewise(a \o b) = Over(a \o b, g) /\ Bytewise(a) = Over(a, g) /\ Bytewise(b) = Over(b, g)
    BY <1>2, <1>4, BytewiseIs
  <1>6. Over(a \o b, g) = Over(a, g) \o Over(b, g) /\ Over(a, g) \in Seq(B)
    <2>1. PICK S : S = Entries
      OBVIOUS
    <2>2. g \in [S -> Seq(B)] /\ a \in Seq(S) /\ b \in Seq(S)
      BY <1>3, <2>1
    <2> QED BY <2>2, OverJoin
  <1> QED BY <1>1, <1>5, <1>6, Octets

\* A single entry is written as it is, and none leaves no byte.
LEMMA BytewiseOne ==
  ASSUME NEW e \in Entries
  PROVE  Bytewise(<<e>>) = EntryBytes(e) /\ Bytewise(<< >>) = << >>
  <1>1. PICK B : B = Octet
    OBVIOUS
  <1>2. PICK g : g = [x \in Entries |-> EntryBytes(x)]
    OBVIOUS
  <1>3. g \in [Entries -> Seq(B)] /\ g[e] = EntryBytes(e)
    <2>1. \A x \in Entries : EntryBytes(x) \in Seq(B)
      BY <1>1, EntryIs, Octets
    <2> HIDE DEF EntryBytes
    <2> QED BY <1>2, <2>1
  <1>4. <<e>> \in Seq(Entries) /\ << >> \in Seq(Entries)
    OBVIOUS
  <1>5. Bytewise(<<e>>) = Over(<<e>>, g) /\ Bytewise(<< >>) = Over(<< >>, g)
    BY <1>2, <1>4, BytewiseIs
  <1>6. Over(<<e>>, g) = g[e]
    BY <1>3, OverOne
  <1> QED BY <1>3, <1>5, <1>6, OverNone

\* Numbers are cut into bytes of eight bits.
LEMMA ByteCut ==
  ASSUME NEW v \in Nat
  PROVE  /\ v % 256 \in Nat /\ v \div 256 \in Nat /\ v = (v % 256) + 256 * (v \div 256)
         /\ v \div 65536 = (v \div 256) \div 256
         /\ v \div 16777216 = (v \div 65536) \div 256
  OBVIOUS

\* The bytes of a number in both orders.
LEMMA BothIs ==
  ASSUME NEW v \in Nat
  PROVE  /\ Both(v) \in Seq(Nat) /\ Len(Both(v)) = 8
         /\ Both(v)[1] = v % 256 /\ Both(v)[2] = (v \div 256) % 256
         /\ Both(v)[3] = (v \div 65536) % 256 /\ Both(v)[4] = v \div 16777216
  <1>1. PICK q \in Nat, r \in Nat, s \in Nat, t \in Nat :
          q = v % 256 /\ r = (v \div 256) % 256 /\ s = (v \div 65536) % 256 /\ t = v \div 16777216
    OBVIOUS
  <1>2. PICK b : b = <<q, r, s, t>>
    OBVIOUS
  <1>3. b \in Seq(Nat) /\ Len(b) = 4 /\ b[1] = q /\ b[2] = r /\ b[3] = s /\ b[4] = t
    BY <1>2
  <1>4. Reverse(b) \in Seq(Nat) /\ Len(Reverse(b)) = 4
    BY <1>3 DEF Reverse
  <1>5. Both(v) = b \o Reverse(b)
    <2>1. b = <<v % 256, (v \div 256) % 256, (v \div 65536) % 256, v \div 16777216>>
      BY <1>1, <1>2
    <2> QED BY <2>1 DEF Both
  <1>6. PICK c : c = Reverse(b)
    OBVIOUS
  <1>7. /\ b \o c \in Seq(Nat) /\ Len(b \o c) = Len(b) + Len(c)
        /\ \A i \in 1..Len(b) : (b \o c)[i] = b[i]
    <2>1. b \in Seq(Nat) /\ c \in Seq(Nat)
      BY <1>3, <1>4, <1>6
    <2> QED BY <2>1, Joined, Zenon
  <1> QED BY <1>1, <1>3, <1>4, <1>5, <1>6, <1>7, SMTT(30)

\* A number read from its bytes.
LEMMA BothRead ==
  ASSUME NEW v \in Nat, NEW p, NEW i \in Nat,
         p[i + 1] = v % 256, p[i + 2] = (v \div 256) % 256,
         p[i + 3] = (v \div 65536) % 256, p[i + 4] = v \div 16777216
  PROVE  /\ LE32(p, i) = v
         /\ v < 65536 => LE16(p, i) = v
  <1>1. PICK q \in Nat, r \in Nat : q = v \div 256 /\ r = v % 256 /\ v = r + 256 * q
    BY ByteCut
  <1>2. PICK q2 \in Nat, r2 \in Nat : q2 = v \div 65536 /\ r2 = q % 256 /\ q = r2 + 256 * q2
    <2>1. v \div 65536 = q \div 256
      BY <1>1, ByteCut
    <2>2. q % 256 \in Nat /\ q \div 256 \in Nat /\ q = (q % 256) + 256 * (q \div 256)
      BY ByteCut
    <2> QED BY <2>1, <2>2
  <1>3. PICK q3 \in Nat, r3 \in Nat : q3 = v \div 16777216 /\ r3 = q2 % 256 /\ q2 = r3 + 256 * q3
    <2>1. v \div 16777216 = q2 \div 256
      BY <1>2, ByteCut
    <2>2. q2 % 256 \in Nat /\ q2 \div 256 \in Nat /\ q2 = (q2 % 256) + 256 * (q2 \div 256)
      BY ByteCut
    <2> QED BY <2>1, <2>2
  <1>4. p[i + 1] = r /\ p[i + 2] = r2 /\ p[i + 3] = r3 /\ p[i + 4] = q3
    BY <1>1, <1>2, <1>3
  <1>5. LE16(p, i) = r + 256 * r2
    BY <1>4 DEF LE16
  <1>6. LE16(p, i + 2) = r3 + 256 * q3
    <2>1. (i + 2) + 1 = i + 3 /\ (i + 2) + 2 = i + 4
      OBVIOUS
    <2> QED BY <1>4, <2>1 DEF LE16
  <1>7. LE32(p, i) = (r + 256 * r2) + 65536 * (r3 + 256 * q3)
    BY <1>5, <1>6 DEF LE32
  <1>8. LE32(p, i) = v
    BY <1>1, <1>2, <1>3, <1>7
  <1>9. v < 65536 => q2 = 0
    BY <1>1, <1>2
  <1> QED BY <1>1, <1>2, <1>5, <1>8, <1>9

\* The same from the bytes that were written.
LEMMA BothReadAt ==
  ASSUME NEW v \in Nat, NEW p, NEW i \in Nat, \A k \in 1..Len(Both(v)) : p[i + k] = Both(v)[k]
  PROVE  /\ LE32(p, i) = v
         /\ v < 65536 => LE16(p, i) = v
  <1>1. PICK b : b = Both(v)
    OBVIOUS
  <1>2. Len(b) = 8 /\ b[1] = v % 256 /\ b[2] = (v \div 256) % 256
        /\ b[3] = (v \div 65536) % 256 /\ b[4] = v \div 16777216
    BY <1>1, BothIs, SMTT(30)
  <1>3. \A k \in 1..Len(b) : p[i + k] = b[k]
    BY <1>1
  <1>4. 1 \in 1..Len(b) /\ 2 \in 1..Len(b) /\ 3 \in 1..Len(b) /\ 4 \in 1..Len(b)
    BY <1>2
  <1>5. p[i + 1] = b[1] /\ p[i + 2] = b[2] /\ p[i + 3] = b[3] /\ p[i + 4] = b[4]
    BY <1>3, <1>4, Zenon
  <1>6. /\ p[i + 1] = v % 256 /\ p[i + 2] = (v \div 256) % 256
        /\ p[i + 3] = (v \div 65536) % 256 /\ p[i + 4] = v \div 16777216
    BY <1>2, <1>5
  <1> QED BY <1>6, BothRead

\* What the payload of an entry of each kind is.
LEMMA PayloadKinds ==
  ASSUME NEW e
  PROVE  /\ e.sig = NM => Payload(e) = << 0 >> \o e.bytes
         /\ e.sig = PX => Payload(e) = Both(e.mode)
         /\ e.sig = SL => Payload(e) = << 0 >> \o Encoded(e.comps)
         /\ e.sig = CE => Payload(e) = Both(e.block) \o Both(e.offset) \o Both(e.length)
         /\ e.sig = SP => Payload(e) = e.data
  <1>1. NM # PX /\ NM # SL /\ NM # CE /\ PX # SL /\ PX # CE /\ SL # CE
    BY Signatures, Zenon
  <1>2. SP # NM /\ SP # PX /\ SP # SL /\ SP # CE
    <2>1. NM[1] = 78 /\ PX[1] = 80 /\ SL[1] = 83 /\ SL[2] = 76 /\ CE[1] = 67 /\ SP[1] = 83 /\ SP[2] = 80
      BY DEF NM, PX, SL, CE, SP
    <2> QED BY <2>1
  <1> QED BY <1>1, <1>2, Zenon DEF Payload

\* A byte before others.
LEMMA ByteBefore ==
  ASSUME NEW S, NEW b \in Seq(S), NEW x
  PROVE  /\ Tail(<<x>> \o b) = b /\ Len(<<x>> \o b) = Len(b) + 1
  <1>1. PICK q : q = <<x>> \o b
    OBVIOUS
  <1>2. q \in Seq(S \cup {x}) /\ Len(q) = Len(b) + 1 /\ \A i \in 1..Len(b) : q[i + 1] = b[i]
    BY <1>1
  <1>3. Tail(q) \in Seq(S \cup {x}) /\ Len(Tail(q)) = Len(b) /\ \A i \in 1..Len(b) : Tail(q)[i] = q[i + 1]
    BY <1>2
  <1>4. b \in Seq(S \cup {x})
    OBVIOUS
  <1>5. Tail(q) = b
    BY <1>2, <1>3, <1>4, SameElements
  <1> QED BY <1>1, <1>2, <1>5

\* What is read from the payload of a name, of a mode and of the place of an area.
LEMMA NamePayload ==
  ASSUME NEW e \in Entries, e.sig = NM
  PROVE  1 <= Len(Payload(e)) /\ Tail(Payload(e)) = e.bytes /\ e.bytes \in ByteString
  <1>1. e \in SUSPEntry
    BY DEF Entries
  <1>2. e.bytes \in ByteString
    BY <1>1, EntryKinds, Zenon
  <1>3. Payload(e) = << 0 >> \o e.bytes
    BY PayloadKinds, Zenon
  <1>4. PICK b : b = e.bytes
    OBVIOUS
  <1>5. b \in Seq(Octet) /\ Len(b) \in Nat
    BY <1>2, <1>4, Octets
  <1>6. Tail(<< 0 >> \o b) = b /\ Len(<< 0 >> \o b) = Len(b) + 1
    BY <1>5, ByteBefore
  <1> QED BY <1>2, <1>3, <1>4, <1>5, <1>6

\* The bytes parseRockRidge takes a mode from are those of the mode that was written.
LEMMA ModePayload ==
  ASSUME NEW e \in Entries, e.sig = PX
  PROVE  4 <= Len(Payload(e)) /\ LE16(Payload(e), 0) = e.mode /\ e.mode \in Nat
  <1>1. e \in SUSPEntry /\ Writable(e)
    BY DEF Entries
  <1>2. e.mode \in Nat
    BY <1>1, EntryKinds, Zenon
  <1>3. e.mode < 65536
    BY <1>1 DEF Writable
  <1>4. PICK v \in Nat : v = e.mode /\ v < 65536
    BY <1>2, <1>3
  <1>5. Payload(e) = Both(v)
    <2>1. Payload(e) = Both(e.mode)
      BY PayloadKinds, Zenon
    <2> QED BY <1>4, <2>1
  <1>6. PICK p : p = Both(v)
    OBVIOUS
  <1>7. Len(p) = 8
    BY <1>6, BothIs
  <1>8. LE16(p, 0) = v
    <2>1. 0 \in Nat /\ \A k \in 1..Len(p) : 0 + k = k
      OBVIOUS
    <2>2. \A k \in 1..Len(p) : p[0 + k] = p[k]
      BY <2>1
    <2>3. \A k \in 1..Len(Both(v)) : p[0 + k] = Both(v)[k]
      BY <1>6, <2>2
    <2> QED BY <1>4, <2>1, <2>3, BothReadAt
  <1> QED BY <1>4, <1>5, <1>6, <1>7, <1>8

\* The places of the elements of three sequences that were put together.
LEMMA ThreeParts ==
  ASSUME NEW S, NEW a \in Seq(S), NEW b \in Seq(S), NEW c \in Seq(S)
  PROVE  /\ Len(a \o b \o c) = Len(a) + Len(b) + Len(c)
         /\ \A i \in 1..Len(a) : (a \o b \o c)[0 + i] = a[i]
         /\ \A i \in 1..Len(b) : (a \o b \o c)[Len(a) + i] = b[i]
         /\ \A i \in 1..Len(c) : (a \o b \o c)[Len(a) + Len(b) + i] = c[i]
  <1>1. /\ a \o b \in Seq(S) /\ Len(a \o b) = Len(a) + Len(b)
        /\ \A i \in 1..Len(a) : (a \o b)[i] = a[i]
        /\ \A i \in 1..Len(b) : (a \o b)[Len(a) + i] = b[i]
        /\ \A i \in (Len(a) + 1)..(Len(a) + Len(b)) : (a \o b)[i] = b[i - Len(a)]
    BY Joined
  <1>2. PICK m \in Nat, n \in Nat, l \in Nat : m = Len(a) /\ n = Len(b) /\ l = Len(c)
    OBVIOUS
  <1>3. PICK ab \in Seq(S) : ab = a \o b
    BY <1>1
  <1>4. Len(ab) = m + n /\ (\A i \in 1..m : ab[i] = a[i]) /\ \A i \in 1..n : ab[m + i] = b[i]
    BY <1>1, <1>2, <1>3
  <1>5. /\ ab \o c \in Seq(S) /\ Len(ab \o c) = Len(ab) + Len(c)
        /\ \A i \in 1..Len(ab) : (ab \o c)[i] = ab[i]
        /\ \A i \in 1..Len(c) : (ab \o c)[Len(ab) + i] = c[i]
        /\ \A i \in (Len(ab) + 1)..(Len(ab) + Len(c)) : (ab \o c)[i] = c[i - Len(ab)]
    BY Joined
  <1>6. PICK p : p = ab \o c
    OBVIOUS
  <1>7. Len(p) = m + n + l /\ (\A i \in 1..(m + n) : p[i] = ab[i]) /\ \A i \in 1..l : p[m + n + i] = c[i]
    BY <1>2, <1>4, <1>5, <1>6
  <1>8. ASSUME NEW i \in 1..m
        PROVE  p[0 + i] = a[i]
    <2>1. i \in 1..(m + n) /\ 0 + i = i
      OBVIOUS
    <2> QED BY <1>4, <1>7, <2>1
  <1>9. ASSUME NEW i \in 1..n
        PROVE  p[m + i] = b[i]
    <2>1. m + i \in 1..(m + n)
      OBVIOUS
    <2> QED BY <1>4, <1>7, <2>1
  <1>10. p = a \o b \o c
    BY <1>3, <1>6
  <1> QED BY <1>2, <1>7, <1>8, <1>9, <1>10, Zenon

\* The bytes ceEntry takes a block, an offset and a length from are those that were written.
LEMMA PlacePayload ==
  ASSUME NEW e \in Entries, e.sig = CE
  PROVE  /\ 24 <= Len(Payload(e))
         /\ LE32(Payload(e), 0) = e.block /\ LE32(Payload(e), 8) = e.offset /\ LE32(Payload(e), 16) = e.length
         /\ e.block \in Nat /\ e.offset \in Nat /\ e.length \in Nat
  <1>1. e \in SUSPEntry
    BY DEF Entries
  <1>2. PICK x \in Nat, y \in Nat, z \in Nat : x = e.block /\ y = e.offset /\ z = e.length
    BY <1>1, EntryKinds, Zenon
  <1>3. PICK p : p = Both(x) \o Both(y) \o Both(z)
    OBVIOUS
  <1>4. Payload(e) = p
    BY <1>2, <1>3, PayloadKinds, Zenon
  <1>5. /\ Both(x) \in Seq(Nat) /\ Len(Both(x)) = 8 /\ Both(y) \in Seq(Nat) /\ Len(Both(y)) = 8
        /\ Both(z) \in Seq(Nat) /\ Len(Both(z)) = 8
    BY BothIs
  <1>6. PICK n \in Nat : n = 8
    OBVIOUS
  <1>7. /\ Len(p) = n + n + n
        /\ \A i \in 1..Len(Both(x)) : p[0 + i] = Both(x)[i]
        /\ \A i \in 1..Len(Both(y)) : p[n + i] = Both(y)[i]
        /\ \A i \in 1..Len(Both(z)) : p[n + n + i] = Both(z)[i]
    <2>1. /\ Len(Both(x)) = n /\ Len(Both(y)) = n /\ Len(Both(z)) = n
      BY <1>5, <1>6
    <2>2. PICK a \in Seq(Nat), b \in Seq(Nat), c \in Seq(Nat) : a = Both(x) /\ b = Both(y) /\ c = Both(z)
      BY <1>5
    <2>3. /\ Len(a \o b \o c) = Len(a) + Len(b) + Len(c)
          /\ \A i \in 1..Len(a) : (a \o b \o c)[0 + i] = a[i]
          /\ \A i \in 1..Len(b) : (a \o b \o c)[Len(a) + i] = b[i]
          /\ \A i \in 1..Len(c) : (a \o b \o c)[Len(a) + Len(b) + i] = c[i]
      BY ThreeParts
    <2>4. p = a \o b \o c /\ Len(a) = n /\ Len(b) = n /\ Len(c) = n
      BY <1>3, <2>1, <2>2
    <2> QED BY <2>2, <2>3, <2>4, Zenon
  <1>8. 0 \in Nat /\ n \in Nat /\ n + n \in Nat
    OBVIOUS
  <1>9. LE32(p, 0) = x /\ LE32(p, n) = y /\ LE32(p, n + n) = z
    <2>1. LE32(p, 0) = x
      BY <1>7, <1>8, BothReadAt
    <2>2. LE32(p, n) = y
      BY <1>7, <1>8, BothReadAt
    <2>3. LE32(p, n + n) = z
      BY <1>7, <1>8, BothReadAt
    <2> QED BY <2>1, <2>2, <2>3
  <1>10. 24 <= Len(p) /\ n = 8 /\ n + n = 16
    BY <1>6, <1>7
  <1>11. LE32(p, 0) = x /\ LE32(p, 8) = y /\ LE32(p, 16) = z
    BY <1>9, <1>10
  <1> QED BY <1>2, <1>4, <1>10, <1>11, Zenon

\* Sequences can be built from the front, an element at a time.
LEMMA FromTheFront ==
  ASSUME NEW S, NEW G, << >> \in G,
         \A e \in S : \A t \in Seq(S) : t \in G => <<e>> \o t \in G
  PROVE  \A s \in Seq(S) : s \in G
  <1> SUFFICES ASSUME NEW n \in Nat
               PROVE  \A s \in Seq(S) : Len(s) = n => s \in G
    OBVIOUS
  <1> DEFINE D == {k \in 0..n : \A s \in Seq(S) : Len(s) = k => s \in G}
  <1>1. 0 \in D
    BY EmptySequence
  <1>2. ASSUME NEW k \in 1..n, k - 1 \in D
        PROVE  k \in D
    <2>1. ASSUME NEW s \in Seq(S), Len(s) = k
          PROVE  s \in G
      <3>1. PICK j \in Nat : j = k - 1
        OBVIOUS
      <3>2. Len(s) = j + 1
        BY <2>1, <3>1
      <3>3. PICK e \in S : \E t \in Seq(S) : s = <<e>> \o t /\ Len(t) = j
        BY <3>2, FirstAndRest
      <3>4. PICK t \in Seq(S) : s = <<e>> \o t /\ Len(t) = j
        BY <3>3
      <3>5. t \in G
        BY <1>2, <3>1, <3>4
      <3> QED BY <3>4, <3>5
    <2> QED BY <2>1
  <1> HIDE DEF D
  <1>3. \A k \in 0..n : k \in D
    BY <1>1, <1>2, InductionTo
  <1> QED BY <1>3 DEF D

\* A function applied to each element of a sequence.
Each(s, g) == [i \in 1..Len(s) |-> g[s[i]]]

\* Applied to sequences one behind the other.
LEMMA EachJoin ==
  ASSUME NEW S, NEW Q, NEW g \in [S -> Q], NEW a \in Seq(S), NEW b \in Seq(S)
  PROVE  Each(a \o b, g) = Each(a, g) \o Each(b, g) /\ Each(a, g) \in Seq(Q)
  <1>2. \A x \in S : g[x] \in Q
    OBVIOUS
  <1>3. PICK m \in Nat : m = Len(a)
    OBVIOUS
  <1>4. PICK n \in Nat : n = Len(b)
    OBVIOUS
  <1>5. PICK ga : ga = [i \in 1..m |-> g[a[i]]]
    OBVIOUS
  <1>6. PICK gb : gb = [i \in 1..n |-> g[b[i]]]
    OBVIOUS
  <1>7. PICK c : c = a \o b
    OBVIOUS
  <1>8. c \in Seq(S) /\ Len(c) = m + n /\ (\A i \in 1..m : c[i] = a[i]) /\ \A i \in 1..n : c[m + i] = b[i]
    BY <1>3, <1>4, <1>7, Joined
  <1>9. PICK gc : gc = [i \in 1..(m + n) |-> g[c[i]]]
    OBVIOUS
  <1>10. ga \in Seq(Q) /\ Len(ga) = m
    <2>1. ga \in [1..m -> Q]
      BY <1>2, <1>3, <1>5
    <2> QED BY <2>1, FunctionIsSequence
  <1>11. gb \in Seq(Q) /\ Len(gb) = n
    <2>1. gb \in [1..n -> Q]
      BY <1>2, <1>4, <1>6
    <2> QED BY <2>1, FunctionIsSequence
  <1>12. gc \in Seq(Q) /\ Len(gc) = m + n
    <2>1. PICK l \in Nat : l = m + n
      OBVIOUS
    <2>2. gc \in [1..l -> Q]
      BY <1>2, <1>8, <1>9, <2>1
    <2> QED BY <2>1, <2>2, FunctionIsSequence
  <1>13. gc = ga \o gb
    <2>1. PICK d : d = ga \o gb
      OBVIOUS
    <2>2. d \in Seq(Q) /\ Len(d) = m + n /\ (\A i \in 1..m : d[i] = ga[i]) /\ \A i \in 1..n : d[m + i] = gb[i]
      <3>1. PICK x \in Seq(Q) : x = ga /\ Len(x) = m
        BY <1>10
      <3>2. PICK y \in Seq(Q) : y = gb /\ Len(y) = n
        BY <1>11
      <3>3. d = x \o y
        BY <2>1, <3>1, <3>2
      <3>4. /\ x \o y \in Seq(Q) /\ Len(x \o y) = Len(x) + Len(y)
            /\ \A i \in 1..Len(x) : (x \o y)[i] = x[i]
            /\ \A i \in 1..Len(y) : (x \o y)[Len(x) + i] = y[i]
        BY Joined
      <3> QED BY <3>1, <3>2, <3>3, <3>4
    <2>3. ASSUME NEW i \in 1..(m + n)
          PROVE  gc[i] = d[i]
      <3>1. gc[i] = g[c[i]]
        BY <1>9
      <3>2. CASE i \in 1..m
        BY <1>5, <1>8, <2>2, <3>1, <3>2
      <3>3. CASE i \notin 1..m
        <4>1. PICK j \in 1..n : i = m + j
          <5>1. i - m \in 1..n /\ i = m + (i - m)
            BY <3>3
          <5> QED BY <5>1
        <4>2. c[i] = b[j] /\ d[i] = gb[j] /\ gb[j] = g[b[j]]
          BY <1>6, <1>8, <2>2, <4>1
        <4> QED BY <3>1, <4>2
      <3> QED BY <3>2, <3>3
    <2>4. Len(gc) = Len(d) /\ \A i \in 1..Len(gc) : gc[i] = d[i]
      BY <1>12, <2>2, <2>3
    <2>5. gc = d
      BY <1>12, <2>2, <2>4, SameElements
    <2> QED BY <2>1, <2>5
  <1>14. Each(a, g) = ga /\ Each(b, g) = gb /\ Each(c, g) = gc
    BY <1>3, <1>4, <1>5, <1>6, <1>8, <1>9 DEF Each
  <1> QED BY <1>7, <1>10, <1>13, <1>14

\* Applied to a single element, and to none.
LEMMA EachOne ==
  ASSUME NEW S, NEW Q, NEW g \in [S -> Q], NEW e \in S
  PROVE  Each(<<e>>, g) = <<g[e]>> /\ Each(<< >>, g) = << >>
  <1>1. PICK s : s = <<e>>
    OBVIOUS
  <1>2. s \in Seq(S) /\ Len(s) = 1 /\ s[1] = e
    BY <1>1
  <1>3. [i \in 1..1 |-> g[s[i]]] = <<g[e]>>
    <2>1. PICK x : x = g[e]
      OBVIOUS
    <2>2. \A i \in 1..1 : g[s[i]] = x
      BY <1>2, <2>1
    <2>3. PICK q : q = [i \in 1..1 |-> g[s[i]]]
      OBVIOUS
    <2>4. q = [i \in 1..1 |-> x]
      BY <2>2, <2>3
    <2>5. q \in Seq({x}) /\ Len(q) = 1
      <3>1. q \in [1..1 -> {x}]
        BY <2>4
      <3> QED BY <3>1, FunctionIsSequence
    <2>6. q = <<q[1]>>
      BY <2>5, SingleElement
    <2>7. q[1] = x
      BY <2>4
    <2> QED BY <2>1, <2>3, <2>6, <2>7
  <1>4. Each(s, g) = [i \in 1..1 |-> g[s[i]]]
    BY <1>2 DEF Each
  <1>5. Each(<< >>, g) = << >>
    BY DEF Each
  <1> QED BY <1>1, <1>3, <1>4, <1>5

\* The entries of a signature in two areas, and of a single entry.
LEMMA WithJoin ==
  ASSUME NEW S, NEW a \in Seq(S), NEW b \in Seq(S), NEW sig
  PROVE  With(a \o b, sig) = With(a, sig) \o With(b, sig)
  <1>1. PICK g : g = [e \in S |-> IF e.sig = sig THEN <<e>> ELSE << >>]
    OBVIOUS
  <1>2. g \in [S -> Seq(S)]
    <2>1. \A e \in S : (IF e.sig = sig THEN <<e>> ELSE << >>) \in Seq(S)
      OBVIOUS
    <2> QED BY <1>1, <2>1
  <1>3. PICK c \in Seq(S) : c = a \o b
    BY Joined
  <1>4. With(a, sig) = Over(a, g) /\ With(b, sig) = Over(b, g) /\ With(c, sig) = Over(c, g)
    BY <1>1, WithIs
  <1>5. Over(a \o b, g) = Over(a, g) \o Over(b, g) /\ Over(a, g) \in Seq(S)
    <2>1. PICK T : T = S
      OBVIOUS
    <2>2. g \in [S -> Seq(T)]
      BY <1>2, <2>1
    <2>3. Over(a \o b, g) = Over(a, g) \o Over(b, g) /\ Over(a, g) \in Seq(T)
      BY <2>2, OverJoin
    <2> QED BY <2>1, <2>3
  <1> QED BY <1>3, <1>4, <1>5

\* The entries of a signature are some of the entries.
LEMMA WithStays ==
  ASSUME NEW S, NEW s \in Seq(S), NEW sig
  PROVE  With(s, sig) \in Seq(S)
  <1>1. PICK I : I = {i \in DOMAIN s : s[i].sig = sig}
    OBVIOUS
  <1>2. PICK T : T = S
    OBVIOUS
  <1>3. \A i \in 1..Len(s) : i \in I => s[i] \in T
    BY <1>2
  <1>4. ElementsAt(s, I) \in Seq(T)
    BY <1>3, ElementsAtTyped
  <1> QED BY <1>1, <1>2, <1>4, Zenon DEF With

\* Of a single entry, and of none.
LEMMA WithOne ==
  ASSUME NEW e, NEW sig
  PROVE  /\ With(<<e>>, sig) = IF e.sig = sig THEN <<e>> ELSE << >>
         /\ With(<< >>, sig) = << >>
  <1>1. PICK S : S = {e}
    OBVIOUS
  <1>2. PICK g : g = [x \in S |-> IF x.sig = sig THEN <<x>> ELSE << >>]
    OBVIOUS
  <1>3. g \in [S -> Seq(S)] /\ e \in S
    <2>1. \A x \in S : (IF x.sig = sig THEN <<x>> ELSE << >>) \in Seq(S)
      OBVIOUS
    <2> QED BY <1>1, <1>2, <2>1
  <1>4. <<e>> \in Seq(S) /\ << >> \in Seq(S)
    BY <1>3
  <1>5. With(<<e>>, sig) = Over(<<e>>, g) /\ With(<< >>, sig) = Over(<< >>, g)
    <2>1. PICK s \in Seq(S), t \in Seq(S) : s = <<e>> /\ t = << >>
      BY <1>4
    <2>2. With(s, sig) = Over(s, g) /\ With(t, sig) = Over(t, g)
      BY <1>2, WithIs
    <2> QED BY <2>1, <2>2
  <1>6. Over(<<e>>, g) = g[e] /\ Over(<< >>, g) = << >>
    BY <1>3, OverOne, OverNone
  <1> QED BY <1>2, <1>3, <1>5, <1>6

\* What is found in the bytes of one entry.
LEMMA FoundEntry ==
  ASSUME NEW e \in Entries, NEW sig, NEW n \in Nat, e.sig = sig => n <= Len(Payload(e))
  PROVE  Found(EntryBytes(e), sig, n, 0) = IF e.sig = sig THEN <<Payload(e)>> ELSE << >>
  <1>1. PICK x : x = EntryBytes(e)
    OBVIOUS
  <1>2. PICK p : p = Payload(e)
    OBVIOUS
  <1>3. /\ Len(x) = Len(p) + 4 /\ Len(p) \in Nat /\ x[3] = Len(x)
        /\ <<x[1], x[2]>> = e.sig /\ SubSeq(x, 5, Len(x)) = p
    BY <1>1, <1>2, EntryIs
  <1>4. 0 + 1 = 1 /\ 0 + 2 = 2 /\ 0 + 3 = 3 /\ 0 + 5 = 5 /\ 0 + x[3] = x[3]
    BY <1>3
  <1>5. Found(x, sig, n, 0) = IF <<x[1], x[2]>> = sig /\ x[3] >= n + 4 THEN <<SubSeq(x, 5, x[3])>> ELSE << >>
    BY <1>4 DEF Found
  <1>6. e.sig = sig => x[3] >= n + 4
    BY <1>2, <1>3
  <1> QED BY <1>1, <1>2, <1>3, <1>5, <1>6

\* The shortest sequences.
LEMMA Shortest ==
  ASSUME NEW S
  PROVE  << >> \in Seq(S) /\ \A e \in S : <<e>> \in Seq(S)
  OBVIOUS

\* An area of written entries is read as it was written, up to a padding shorter than an entry.
LEMMA OfWritten ==
  ASSUME NEW pad \in ByteString, Len(pad) < 4, NEW sig, NEW n \in Nat,
         \A e \in Entries : e.sig = sig => n <= Len(Payload(e))
  PROVE  \A es \in Seq(Entries) :
           Of(Bytewise(es) \o pad, sig, n) = Each(With(es, sig), [e \in Entries |-> Payload(e)])
  <1>1. PICK g : g = [e \in Entries |-> Payload(e)]
    OBVIOUS
  <1>2. g \in [Entries -> ByteString] /\ \A e \in Entries : g[e] = Payload(e)
    <2>1. \A e \in Entries : Payload(e) \in ByteString
      BY EntryIs
    <2> QED BY <1>1, <2>1
  <1> DEFINE G == {es \in Seq(Entries) : Of(Bytewise(es) \o pad, sig, n) = Each(With(es, sig), g)}
  <1>3. << >> \in G
    <2>1. PICK es \in Seq(Entries) : es = << >>
      BY Shortest
    <2>2. Bytewise(es) = << >> /\ With(es, sig) = << >> /\ Each(<< >>, g) = << >>
      <3>1. Bytewise(<< >>) = << >>
        <4>1. [i \in 1..Len(<< >>) |-> LET p == Payload(<< >>[i]) IN << >>[i].sig \o <<Len(p) + 4, 1>> \o p] = << >>
          OBVIOUS
        <4> QED BY <4>1, FlattenNone DEF Bytewise
      <3>2. Each(<< >>, g) = << >>
        BY DEF Each
      <3> QED BY <2>1, <3>1, <3>2, WithOne
    <2>3. << >> \o pad = pad
      BY DEF ByteString
    <2>4. Of(Bytewise(es) \o pad, sig, n) = << >>
      BY <2>2, <2>3, OfTooShort
    <2>5. Of(Bytewise(es) \o pad, sig, n) = Each(With(es, sig), g)
      BY <2>2, <2>4
    <2> QED BY <2>1, <2>5
  <1>4. ASSUME NEW e \in Entries, NEW t \in Seq(Entries), t \in G
        PROVE  <<e>> \o t \in G
    <2>1. PICK o \in Seq(Entries) : o = <<e>>
      BY Shortest
    <2>2. PICK x \in ByteString : x = EntryBytes(e)
      BY EntryIs
    <2>3. PICK y \in ByteString : y = Bytewise(t)
      BY BytewiseJoin
    <2>4. Bytewise(o \o t) = x \o y
      <3>1. Bytewise(o) = x
        BY <2>1, <2>2, BytewiseOne
      <3>2. Bytewise(o \o t) = Bytewise(o) \o Bytewise(t)
        BY BytewiseJoin
      <3> QED BY <2>3, <3>1, <3>2
    <2>5. (x \o y) \o pad = x \o (y \o pad) /\ y \o pad \in ByteString
      <3>1. PICK B : B = Octet
        OBVIOUS
      <3>2. x \in Seq(B) /\ y \in Seq(B) /\ pad \in Seq(B)
        BY <3>1, Octets, Zenon
      <3>3. (x \o y) \o pad = x \o (y \o pad)
        BY <3>2, JoinAgain
      <3>4. y \o pad \in Seq(B)
        BY <3>2, Joined
      <3> QED BY <3>1, <3>3, <3>4, Octets, Zenon
    <2>6. 4 <= Len(x) /\ x[3] = Len(x)
      BY <2>2, EntryIs
    <2>7. Of(x \o (y \o pad), sig, n) = Found(x, sig, n, 0) \o Of(y \o pad, sig, n)
      BY <2>5, <2>6, OfBehind
    <2>8. Found(x, sig, n, 0) = IF e.sig = sig THEN <<g[e]>> ELSE << >>
      BY <1>2, <2>2, FoundEntry
    <2>9. Of(y \o pad, sig, n) = Each(With(t, sig), g)
      BY <1>4, <2>3
    <2>10. With(o \o t, sig) = With(o, sig) \o With(t, sig)
      BY WithJoin
    <2>11. With(o, sig) = IF e.sig = sig THEN <<e>> ELSE << >>
      BY <2>1, WithOne
    <2>12. With(o, sig) \in Seq(Entries) /\ With(t, sig) \in Seq(Entries)
      BY WithStays
    <2>13. PICK a \in Seq(Entries), b \in Seq(Entries) : a = With(o, sig) /\ b = With(t, sig)
      BY <2>10, <2>12
    <2>14. Each(a \o b, g) = Each(a, g) \o Each(b, g) /\ Each(a, g) \in Seq(ByteString)
      <3>1. PICK S : S = Entries
        OBVIOUS
      <3>2. PICK Q : Q = ByteString
        OBVIOUS
      <3>3. g \in [S -> Q] /\ a \in Seq(S) /\ b \in Seq(S)
        BY <1>2, <3>1, <3>2
      <3>4. Each(a \o b, g) = Each(a, g) \o Each(b, g) /\ Each(a, g) \in Seq(Q)
        BY <3>3, EachJoin
      <3> QED BY <3>2, <3>4
    <2>15. Each(a, g) = IF e.sig = sig THEN <<g[e]>> ELSE << >>
      BY <1>2, <2>11, <2>13, EachOne
    <2>16. Of(x \o (y \o pad), sig, n) = Each(With(o \o t, sig), g)
      BY <2>7, <2>8, <2>9, <2>10, <2>13, <2>14, <2>15
    <2>17. o \o t \in Seq(Entries)
      BY Joined
    <2>18. o \o t \in G
      BY <2>4, <2>5, <2>16, <2>17
    <2> QED BY <2>1, <2>18
  <1> HIDE DEF G
  <1>5. \A es \in Seq(Entries) : es \in G
    BY <1>3, <1>4, FromTheFront
  <1> QED BY <1>1, <1>5 DEF G

\* The bytes of a component of a link.
ComponentBytes(c) == <<c.flags, Len(c.bytes)>> \o c.bytes
Components8 == {c \in Component : Len(c.bytes) <= 255}

\* A component is read from its bytes as it was written, and its length is told by them.
LEMMA ComponentIs ==
  ASSUME NEW c \in Components8
  PROVE  /\ ComponentBytes(c) \in ByteString /\ 2 <= Len(ComponentBytes(c))
         /\ ComponentBytes(c)[2] + 2 = Len(ComponentBytes(c))
         /\ ComponentAt(ComponentBytes(c), 0) = [flags |-> c.flags, text |-> Text(c.bytes)]
  <1>1. PICK B : B = Octet
    OBVIOUS
  <1>2. PICK b \in Seq(B) : b = c.bytes /\ Len(b) <= 255
    BY <1>1 DEF Components8, Component
  <1>3. PICK f : f = c.flags
    OBVIOUS
  <1>4. f \in B
    <2>1. f \in {0, 1, 2, 4, 8}
      BY <1>3 DEF Components8, Component
    <2>2. f \in Nat /\ f <= 255
      BY <2>1
    <2> QED BY <1>1, <2>2, Octets
  <1>5. PICK n \in Nat : n = Len(b) /\ n <= 255
    BY <1>2
  <1>6. n \in B
    BY <1>1, <1>5, Octets
  <1>7. PICK h : h = <<f, n>>
    OBVIOUS
  <1>8. h \in Seq(B) /\ Len(h) = 2 /\ h[1] = f /\ h[2] = n
    BY <1>4, <1>6, <1>7
  <1>9. PICK x : x = h \o b
    OBVIOUS
  <1>10. /\ x \in Seq(B) /\ Len(x) = Len(h) + Len(b)
         /\ \A i \in 1..Len(h) : x[i] = h[i]
    <2>1. b \in Seq(B) /\ h \in Seq(B)
      BY <1>2, <1>8
    <2> QED BY <1>9, <2>1, Joined
  <1>11. Len(x) = n + 2 /\ x[1] = f /\ x[2] = n
    BY <1>5, <1>8, <1>10
  <1>12. SubSeq(x, 3, n + 2) = b
    <2>1. SubSeq(x, Len(h) + 1, Len(x)) = b
      BY <1>8, <1>9, TakenApart
    <2> QED BY <1>8, <1>11, <2>1
  <1>13. ComponentBytes(c) = x
    BY <1>2, <1>3, <1>5, <1>7, <1>9 DEF ComponentBytes
  <1>14. ComponentAt(x, 0) = [flags |-> f, text |-> Text(b)]
    <2>1. 0 + 1 = 1 /\ 0 + 2 = 2 /\ 0 + 3 = 3 /\ 2 + n = n + 2 /\ 0 + 2 + n = n + 2
      OBVIOUS
    <2>2. ComponentAt(x, 0) = [flags |-> x[1], text |-> Text(SubSeq(x, 3, n + 2))]
      BY <1>11, <2>1 DEF ComponentAt
    <2> QED BY <1>11, <1>12, <2>2
  <1>15. x \in ByteString
    BY <1>1, <1>10, Octets
  <1> QED BY <1>2, <1>3, <1>11, <1>13, <1>14, <1>15

\* The bytes of components are those of each, one behind the other.
LEMMA EncodedIs ==
  ASSUME NEW cs \in Seq(Components8)
  PROVE  Encoded(cs) = Over(cs, [c \in Components8 |-> ComponentBytes(c)])
  <1>1. PICK n : n = Len(cs)
    OBVIOUS
  <1>2. PICK g : g = [c \in Components8 |-> ComponentBytes(c)]
    OBVIOUS
  <1>3. \A i \in 1..n : cs[i] \in Components8
    BY <1>1
  <1>4. \A i \in 1..n : g[cs[i]] = ComponentBytes(cs[i])
    <2> HIDE DEF ComponentBytes
    <2> QED BY <1>2, <1>3
  <1>5. [i \in 1..n |-> <<cs[i].flags, Len(cs[i].bytes)>> \o cs[i].bytes] = [i \in 1..n |-> g[cs[i]]]
    BY <1>4, Zenon DEF ComponentBytes
  <1> QED BY <1>1, <1>2, <1>5, Zenon DEF Encoded, Over

\* What components say, each for itself.
Said == [c \in Components8 |-> [flags |-> c.flags, text |-> Text(c.bytes)]]

\* A list of components says what each of them does.
LEMMA DecodedIs ==
  ASSUME NEW cs \in Seq(Components8)
  PROVE  Decoded(cs) = Each(cs, Said)
  <1>1. PICK n : n = Len(cs)
    OBVIOUS
  <1>2. \A i \in 1..n : cs[i] \in Components8
    BY <1>1
  <1>3. \A i \in 1..n : Said[cs[i]] = [flags |-> cs[i].flags, text |-> Text(cs[i].bytes)]
    BY <1>2 DEF Said
  <1>4. [i \in 1..n |-> [flags |-> cs[i].flags, text |-> Text(cs[i].bytes)]] = [i \in 1..n |-> Said[cs[i]]]
    BY <1>3, Zenon
  <1> QED BY <1>1, <1>4, Zenon DEF Decoded, Each

\* The components of an entry are read as they were written.
LEMMA EncodedRead ==
  \A cs \in Seq(Components8) :
    Components(Encoded(cs)) = Decoded(cs) /\ Encoded(cs) \in ByteString
  <1>1. PICK S : S = Components8
    OBVIOUS
  <1>2. PICK B : B = Octet
    OBVIOUS
  <1>3. PICK g : g = [c \in Components8 |-> ComponentBytes(c)]
    OBVIOUS
  <1>4. g \in [S -> Seq(B)] /\ \A c \in S : g[c] = ComponentBytes(c)
    <2>1. \A c \in Components8 : ComponentBytes(c) \in Seq(B)
      BY <1>2, ComponentIs, Octets
    <2> HIDE DEF ComponentBytes
    <2> QED BY <1>1, <1>3, <2>1
  <1>5. PICK Q : Q = {Said[c] : c \in S}
    OBVIOUS
  <1>6. Said \in [S -> Q]
    BY <1>1, <1>5 DEF Said
  <1>7. \A c \in S : Said[c] = [flags |-> c.flags, text |-> Text(c.bytes)]
    BY <1>1 DEF Said
  <1> DEFINE G == {cs \in Seq(S) : Components(Over(cs, g)) = Each(cs, Said)}
  <1>8. << >> \in G
    <2>1. << >> \in Seq(S)
      BY Shortest
    <2>2. Over(<< >>, g) = << >>
      BY OverNone
    <2>3. Each(<< >>, Said) = << >>
      BY DEF Each
    <2>4. Components(Over(<< >>, g)) = Each(<< >>, Said)
      BY <2>2, <2>3, NoComponents
    <2> QED BY <2>1, <2>4
  <1>9. ASSUME NEW c \in S, NEW t \in Seq(S), t \in G
        PROVE  <<c>> \o t \in G
    <2>1. PICK o \in Seq(S) : o = <<c>>
      BY Shortest
    <2>2. Over(o \o t, g) = Over(o, g) \o Over(t, g) /\ Over(o, g) \in Seq(B)
      BY <1>4, OverJoin
    <2>3. Over(t, g) \in Seq(B)
      BY <1>4, OverJoin
    <2>4. PICK x \in ByteString, y \in ByteString : x = ComponentBytes(c) /\ y = Over(t, g)
      <3>1. Over(t, g) \in ByteString
        BY <1>2, <2>3, Octets
      <3>2. ComponentBytes(c) \in ByteString
        BY <1>1, ComponentIs
      <3> QED BY <3>1, <3>2
    <2>5. Over(o, g) = x
      BY <1>4, <2>1, <2>4, OverOne
    <2>6. 2 <= Len(x) /\ x[2] + 2 = Len(x) /\ ComponentAt(x, 0) = Said[c]
      BY <1>1, <1>7, <2>4, ComponentIs
    <2>7. Components(x \o y) = <<ComponentAt(x, 0)>> \o Components(y)
      BY <2>6, ComponentsBehind
    <2>8. Components(y) = Each(t, Said)
      BY <1>9, <2>4
    <2>9. Each(o \o t, Said) = Each(o, Said) \o Each(t, Said) /\ Each(o, Said) \in Seq(Q)
      BY <1>6, EachJoin
    <2>10. Each(o, Said) = <<Said[c]>>
      BY <1>6, <2>1, EachOne
    <2>11. Components(Over(o \o t, g)) = Each(o \o t, Said)
      BY <2>2, <2>4, <2>5, <2>6, <2>7, <2>8, <2>9, <2>10
    <2>12. o \o t \in Seq(S)
      BY Joined
    <2>13. o \o t \in G
      BY <2>11, <2>12
    <2> QED BY <2>1, <2>13
  <1> HIDE DEF G
  <1>10. \A cs \in Seq(S) : cs \in G
    BY <1>8, <1>9, FromTheFront
  <1>11. ASSUME NEW cs \in Seq(Components8)
         PROVE  Components(Encoded(cs)) = Decoded(cs) /\ Encoded(cs) \in ByteString
    <2>1. Encoded(cs) = Over(cs, g)
      BY <1>3, EncodedIs
    <2>2. Decoded(cs) = Each(cs, Said)
      BY DecodedIs
    <2>3. cs \in Seq(S)
      BY <1>1
    <2>4. Components(Over(cs, g)) = Each(cs, Said)
      BY <1>10, <2>3 DEF G
    <2>5. Over(cs, g) \in Seq(B)
      BY <1>4, <2>3, OverJoin
    <2> QED BY <1>2, <2>1, <2>2, <2>4, <2>5, Octets
  <1> QED BY <1>11

\* What is read from the payload of an entry of a link.
LEMMA LinkPayload ==
  ASSUME NEW e \in Entries, e.sig = SL
  PROVE  /\ 1 <= Len(Payload(e)) /\ Components(Tail(Payload(e))) = Decoded(e.comps)
         /\ e.comps \in Seq(Components8)
  <1>1. e \in SUSPEntry /\ Writable(e)
    BY DEF Entries
  <1>2. PICK cs \in Seq(Component) : cs = e.comps
    BY <1>1, EntryKinds, Zenon
  <1>3. \A i \in 1..Len(cs) : cs[i] \in Components8
    <2>1. \A i \in 1..Len(e.comps) : Len(e.comps[i].bytes) <= 255
      BY <1>1 DEF Writable
    <2>2. \A i \in 1..Len(cs) : cs[i] \in Component /\ Len(cs[i].bytes) <= 255
      BY <1>2, <2>1
    <2> QED BY <2>2 DEF Components8
  <1>4. cs \in Seq(Components8)
    <2>1. PICK S : S = Components8
      OBVIOUS
    <2>2. cs \in [1..Len(cs) -> S] /\ Len(cs) \in Nat
      BY <1>3, <2>1
    <2>3. cs \in Seq(S)
      BY <2>2, FunctionIsSequence
    <2> QED BY <2>1, <2>3
  <1>5. PICK b \in ByteString : b = Encoded(cs) /\ Components(b) = Decoded(cs)
    BY <1>4, EncodedRead
  <1>6. Payload(e) = << 0 >> \o b
    <2>1. Payload(e) = << 0 >> \o Encoded(e.comps)
      BY PayloadKinds, Zenon
    <2> QED BY <1>2, <1>5, <2>1
  <1>7. b \in Seq(Octet) /\ Len(b) \in Nat
    BY <1>5, Octets
  <1>8. Tail(<< 0 >> \o b) = b /\ Len(<< 0 >> \o b) = Len(b) + 1
    BY <1>7, ByteBefore
  <1>9. Tail(Payload(e)) = b /\ 1 <= Len(Payload(e))
    BY <1>6, <1>7, <1>8
  <1>10. Components(Tail(Payload(e))) = Decoded(e.comps) /\ e.comps \in Seq(Components8)
    BY <1>2, <1>4, <1>5, <1>9
  <1> QED BY <1>9, <1>10, Zenon

\* As many elements as there were, each from the one of its place.
LEMMA EachIs ==
  ASSUME NEW S, NEW s \in Seq(S), NEW g
  PROVE  /\ Len(Each(s, g)) = Len(s) /\ \A i \in 1..Len(s) : Each(s, g)[i] = g[s[i]]
         /\ Each(s, g) = << >> <=> s = << >>
  <1>1. PICK n \in Nat : n = Len(s)
    OBVIOUS
  <1>2. PICK t : t = [i \in 1..n |-> g[s[i]]]
    OBVIOUS
  <1>3. Len(t) = n /\ \A i \in 1..n : t[i] = g[s[i]]
    BY <1>2
  <1>4. Each(s, g) = t
    BY <1>1, <1>2 DEF Each
  <1>5. t = << >> <=> n = 0
    BY <1>2, <1>3
  <1>6. s = << >> <=> n = 0
    BY <1>1, EmptySequence
  <1> QED BY <1>1, <1>3, <1>4, <1>5, <1>6

\* The entries of a signature have it.
LEMMA WithTyped ==
  ASSUME NEW es \in Seq(Entries), NEW sig
  PROVE  /\ With(es, sig) \in Seq(Entries)
         /\ \A i \in 1..Len(With(es, sig)) : With(es, sig)[i] \in Entries /\ With(es, sig)[i].sig = sig
  <1>1. PICK S : S = Entries
    OBVIOUS
  <1>2. PICK T : T = {e \in S : e.sig = sig}
    OBVIOUS
  <1>3. PICK I : I = {i \in DOMAIN es : es[i].sig = sig}
    OBVIOUS
  <1>4. \A i \in 1..Len(es) : i \in I => es[i] \in T
    BY <1>1, <1>2, <1>3
  <1>5. es \in Seq(S)
    BY <1>1
  <1>6. PICK w \in Seq(T) : w = ElementsAt(es, I)
    BY <1>4, <1>5, ElementsAtTyped
  <1>7. With(es, sig) = w
    BY <1>3, <1>6 DEF With
  <1>8. \A i \in 1..Len(w) : w[i] \in S /\ w[i].sig = sig
    BY <1>2
  <1>9. w \in Seq(S)
    BY <1>2, Widened
  <1> QED BY <1>1, <1>7, <1>8, <1>9

\* The bytes that may pad an area.
LEMMA Padding ==
  ASSUME NEW pad \in {<< >>, << 0 >>}
  PROVE  pad \in ByteString /\ Len(pad) < 4
  <1>1. 0 \in Octet
    BY Octets
  <1>2. PICK B : B = Octet
    OBVIOUS
  <1>3. pad \in Seq(B) /\ Len(pad) < 4
    <2>1. << >> \in Seq(B) /\ << 0 >> \in Seq(B)
      BY <1>1, <1>2, Shortest
    <2>2. CASE pad = << >>
      BY <2>1, <2>2
    <2>3. CASE pad = << 0 >>
      BY <2>1, <2>3
    <2> QED BY <2>2, <2>3
  <1> QED BY <1>2, <1>3, Octets

\* The payloads of entries, each for itself.
Payloads == [e \in Entries |-> Payload(e)]

\* As many payloads as there are entries, each of the one of its place.
LEMMA PayloadsRead ==
  ASSUME NEW w \in Seq(Entries)
  PROVE  /\ Len(Each(w, Payloads)) = Len(w) /\ (Each(w, Payloads) = << >> <=> w = << >>)
         /\ \A i \in 1..Len(w) : Each(w, Payloads)[i] = Payload(w[i])
  <1>1. PICK g : g = Payloads
    OBVIOUS
  <1>2. /\ Len(Each(w, g)) = Len(w) /\ \A i \in 1..Len(w) : Each(w, g)[i] = g[w[i]]
        /\ Each(w, g) = << >> <=> w = << >>
    BY EachIs
  <1>3. \A i \in 1..Len(w) : g[w[i]] = Payload(w[i])
    BY <1>1 DEF Payloads
  <1> QED BY <1>1, <1>2, <1>3

\* What parseRockRidge makes of an area that was written.
LEMMA RockRidgeRead ==
  ASSUME NEW es \in Seq(Entries), NEW pad \in {<< >>, << 0 >>}
  PROVE  LET rr == ParseRockRidge(Bytewise(es) \o pad) IN
         /\ rr.hasName <=> With(es, NM) # << >>
         /\ rr.name = SaidName(es)
         /\ rr.mode = SaidMode(es)
         /\ rr.symlink = Target(SaidLink(es))
  <1>1. PICK area : area = Bytewise(es) \o pad
    OBVIOUS
  <1>2. PICK names : names = Of(area, NM, 1)
    OBVIOUS
  <1>3. PICK modes : modes = Of(area, PX, 4)
    OBVIOUS
  <1>4. PICK links : links = Of(area, SL, 1)
    OBVIOUS
  <1>5. PICK wn \in Seq(Entries) : wn = With(es, NM) /\ \A i \in 1..Len(wn) : wn[i] \in Entries /\ wn[i].sig = NM
    BY WithTyped
  <1>6. PICK wm \in Seq(Entries) : wm = With(es, PX) /\ \A i \in 1..Len(wm) : wm[i] \in Entries /\ wm[i].sig = PX
    BY WithTyped
  <1>7. PICK wl \in Seq(Entries) : wl = With(es, SL) /\ \A i \in 1..Len(wl) : wl[i] \in Entries /\ wl[i].sig = SL
    BY WithTyped
  <1>8. /\ Len(names) = Len(wn) /\ (names = << >> <=> wn = << >>)
        /\ \A i \in 1..Len(wn) : names[i] = Payload(wn[i])
    <2>1. 1 \in Nat /\ \A e \in Entries : e.sig = NM => 1 <= Len(Payload(e))
      BY NamePayload
    <2>2. names = Of(Bytewise(es) \o pad, NM, 1)
      BY <1>1, <1>2
    <2>3. pad \in ByteString /\ Len(pad) < 4
      BY Padding
    <2>4. Of(Bytewise(es) \o pad, NM, 1) = Each(With(es, NM), Payloads)
      BY <2>1, <2>3, OfWritten, Zenon DEF Payloads
    <2>5. names = Each(wn, Payloads)
      BY <1>5, <2>2, <2>4, Zenon
    <2>6. /\ Len(Each(wn, Payloads)) = Len(wn) /\ (Each(wn, Payloads) = << >> <=> wn = << >>)
          /\ \A i \in 1..Len(wn) : Each(wn, Payloads)[i] = Payload(wn[i])
      BY PayloadsRead
    <2> QED BY <2>5, <2>6, Zenon
  <1>9. /\ Len(modes) = Len(wm) /\ (modes = << >> <=> wm = << >>)
        /\ \A i \in 1..Len(wm) : modes[i] = Payload(wm[i])
    <2>1. 4 \in Nat /\ \A e \in Entries : e.sig = PX => 4 <= Len(Payload(e))
      BY ModePayload
    <2>2. modes = Of(Bytewise(es) \o pad, PX, 4)
      BY <1>1, <1>3
    <2>3. pad \in ByteString /\ Len(pad) < 4
      BY Padding
    <2>4. Of(Bytewise(es) \o pad, PX, 4) = Each(With(es, PX), Payloads)
      BY <2>1, <2>3, OfWritten, Zenon DEF Payloads
    <2>5. modes = Each(wm, Payloads)
      BY <1>6, <2>2, <2>4, Zenon
    <2>6. /\ Len(Each(wm, Payloads)) = Len(wm) /\ (Each(wm, Payloads) = << >> <=> wm = << >>)
          /\ \A i \in 1..Len(wm) : Each(wm, Payloads)[i] = Payload(wm[i])
      BY PayloadsRead
    <2> QED BY <2>5, <2>6, Zenon
  <1>10. /\ Len(links) = Len(wl) /\ (links = << >> <=> wl = << >>)
         /\ \A i \in 1..Len(wl) : links[i] = Payload(wl[i])
    <2>1. 1 \in Nat /\ \A e \in Entries : e.sig = SL => 1 <= Len(Payload(e))
      BY LinkPayload
    <2>2. links = Of(Bytewise(es) \o pad, SL, 1)
      BY <1>1, <1>4
    <2>3. pad \in ByteString /\ Len(pad) < 4
      BY Padding
    <2>4. Of(Bytewise(es) \o pad, SL, 1) = Each(With(es, SL), Payloads)
      BY <2>1, <2>3, OfWritten, Zenon DEF Payloads
    <2>5. links = Each(wl, Payloads)
      BY <1>7, <2>2, <2>4, Zenon
    <2>6. /\ Len(Each(wl, Payloads)) = Len(wl) /\ (Each(wl, Payloads) = << >> <=> wl = << >>)
          /\ \A i \in 1..Len(wl) : Each(wl, Payloads)[i] = Payload(wl[i])
      BY PayloadsRead
    <2> QED BY <2>5, <2>6, Zenon
  <1>11. FlattenSeq([i \in 1..Len(names) |-> Text(Tail(names[i]))]) = SaidName(es)
    <2>1. \A i \in 1..Len(wn) : Text(Tail(names[i])) = Text(wn[i].bytes)
      BY <1>5, <1>8, NamePayload
    <2>2. [i \in 1..Len(wn) |-> Text(Tail(names[i]))] = [i \in 1..Len(wn) |-> Text(wn[i].bytes)]
      BY <2>1, Zenon
    <2>3. SaidName(es) = FlattenSeq([i \in 1..Len(wn) |-> Text(wn[i].bytes)])
      BY <1>5, Zenon DEF SaidName
    <2> QED BY <1>8, <2>2, <2>3, Zenon
  <1>12. FlattenSeq([i \in 1..Len(links) |-> Components(Tail(links[i]))]) = SaidLink(es)
    <2>1. \A i \in 1..Len(wl) : Components(Tail(links[i])) = Decoded(wl[i].comps)
      BY <1>7, <1>10, LinkPayload
    <2>2. [i \in 1..Len(wl) |-> Components(Tail(links[i]))] = [i \in 1..Len(wl) |-> Decoded(wl[i].comps)]
      BY <2>1, Zenon
    <2>3. SaidLink(es) = FlattenSeq([i \in 1..Len(wl) |-> Decoded(wl[i].comps)])
      BY <1>7, Zenon DEF SaidLink
    <2> QED BY <1>10, <2>2, <2>3, Zenon
  <1>13. (IF modes = << >> THEN 0 ELSE LE16(Last(modes), 0)) = SaidMode(es)
    <2>1. CASE wm = << >>
      BY <1>6, <1>9, <2>1 DEF SaidMode
    <2>2. CASE wm # << >>
      <3>1. Len(wm) \in 1..Len(wm)
        BY <2>2, EmptySequence
      <3>2. Last(modes) = Payload(wm[Len(wm)])
        BY <1>9, <3>1 DEF Last
      <3>3. LE16(Last(modes), 0) = wm[Len(wm)].mode
        BY <1>6, <3>1, <3>2, ModePayload
      <3>4. SaidMode(es) = wm[Len(wm)].mode
        BY <1>6, <2>2 DEF SaidMode, Last
      <3> QED BY <1>9, <2>2, <3>3, <3>4
    <2> QED BY <2>1, <2>2
  <1>14. ParseRockRidge(area) =
           [hasName |-> names # << >>, name |-> SaidName(es), hasMode |-> modes # << >>,
            mode |-> SaidMode(es), isSymlink |-> links # << >>, symlink |-> Target(SaidLink(es))]
    BY <1>2, <1>3, <1>4, <1>11, <1>12, <1>13, Zenon DEF ParseRockRidge
  <1>15. PICK rr : rr = ParseRockRidge(area)
    OBVIOUS
  <1>16. (rr.hasName <=> With(es, NM) # << >>) /\ rr.name = SaidName(es) /\ rr.mode = SaidMode(es)
         /\ rr.symlink = Target(SaidLink(es))
    <2>1. rr.hasName = (names # << >>) /\ rr.name = SaidName(es) /\ rr.mode = SaidMode(es)
          /\ rr.symlink = Target(SaidLink(es))
      BY <1>14, <1>15
    <2> QED BY <1>5, <1>8, <2>1
  <1> QED BY <1>1, <1>15, <1>16

\* What detectSUSPSkip makes of an area that was written.
LEMMA SkipRead ==
  ASSUME NEW es \in Seq(Entries), NEW pad \in {<< >>, << 0 >>}
  PROVE  DetectSUSPSkip(Bytewise(es) \o pad) =
           IF With(es, SP) = << >> THEN [skip |-> 0, found |-> FALSE]
           ELSE [skip |-> With(es, SP)[1].data[3], found |-> TRUE]
  <1>1. PICK area : area = Bytewise(es) \o pad
    OBVIOUS
  <1>2. PICK sps : sps = Of(area, SP, 3)
    OBVIOUS
  <1>3. PICK w \in Seq(Entries) : w = With(es, SP) /\ \A i \in 1..Len(w) : w[i] \in Entries /\ w[i].sig = SP
    BY WithTyped
  <1>4. \A e \in Entries : e.sig = SP => /\ Len(Payload(e)) = 3 /\ Payload(e)[1] = 190 /\ Payload(e)[2] = 239
                                         /\ Payload(e) = e.data
    <2> TAKE e \in Entries
    <2> HAVE e.sig = SP
    <2>1. Writable(e)
      BY DEF Entries
    <2>2. Payload(e) = e.data
      BY PayloadKinds, Zenon
    <2>3. Len(e.data) = 3 /\ e.data[1] = 190 /\ e.data[2] = 239
      BY <2>1 DEF Writable
    <2> QED BY <2>2, <2>3, Zenon
  <1>5. /\ Len(sps) = Len(w) /\ (sps = << >> <=> w = << >>)
        /\ \A i \in 1..Len(w) : sps[i] = Payload(w[i])
    <2>1. 3 \in Nat /\ \A e \in Entries : e.sig = SP => 3 <= Len(Payload(e))
      BY <1>4
    <2>2. sps = Of(Bytewise(es) \o pad, SP, 3)
      BY <1>1, <1>2
    <2>3. pad \in ByteString /\ Len(pad) < 4
      BY Padding
    <2>4. Of(Bytewise(es) \o pad, SP, 3) = Each(With(es, SP), Payloads)
      BY <2>1, <2>3, OfWritten, Zenon DEF Payloads
    <2>5. sps = Each(w, Payloads)
      BY <1>3, <2>2, <2>4, Zenon
    <2>6. /\ Len(Each(w, Payloads)) = Len(w) /\ (Each(w, Payloads) = << >> <=> w = << >>)
          /\ \A i \in 1..Len(w) : Each(w, Payloads)[i] = Payload(w[i])
      BY PayloadsRead
    <2> QED BY <2>5, <2>6, Zenon
  <1>6. PICK found : found = ElementsAt(sps, {i \in DOMAIN sps : sps[i][1] = 190 /\ sps[i][2] = 239})
    OBVIOUS
  <1>7. DetectSUSPSkip(area) = IF found = << >> THEN [skip |-> 0, found |-> FALSE]
                               ELSE [skip |-> found[1][3], found |-> TRUE]
    BY <1>2, <1>6, Zenon DEF DetectSUSPSkip
  <1>8. found = sps
    <2>1. PICK D : D = ByteString
      OBVIOUS
    <2>2. sps \in Seq(D)
      <3>1. \A i \in 1..Len(w) : Payload(w[i]) \in D
        BY <1>3, <2>1, EntryIs
      <3>2. sps \in Seq({d \in ByteString : 3 <= Len(d)})
        <4>1. area \in ByteString
          <5>1. PICK B : B = Octet
            OBVIOUS
          <5>2. Bytewise(es) \in Seq(B) /\ pad \in Seq(B)
            BY <5>1, BytewiseJoin, Shortest, Padding, Octets, Zenon
          <5>3. Bytewise(es) \o pad \in Seq(B)
            BY <5>2, Joined
          <5> QED BY <1>1, <5>1, <5>3, Octets, Zenon
        <4> QED BY <1>2, <4>1, PayloadsTyped
      <3>3. PICK T : T = {d \in ByteString : 3 <= Len(d)}
        OBVIOUS
      <3>4. sps \in Seq(T) /\ \A x \in T : x \in D
        BY <2>1, <3>2, <3>3
      <3> QED BY <3>4
    <2>3. \A i \in DOMAIN sps : sps[i][1] = 190 /\ sps[i][2] = 239
      <3> TAKE i \in DOMAIN sps
      <3>1. i \in 1..Len(w)
        BY <1>5, <2>2
      <3>2. w[i] \in Entries /\ w[i].sig = SP /\ sps[i] = Payload(w[i])
        BY <1>3, <1>5, <3>1
      <3>3. Payload(w[i])[1] = 190 /\ Payload(w[i])[2] = 239
        BY <1>4, <3>2
      <3> QED BY <3>2, <3>3
    <2>4. PICK I : I = {i \in DOMAIN sps : sps[i][1] = 190 /\ sps[i][2] = 239}
      OBVIOUS
    <2>5. \A i \in 1..Len(sps) : i \in I
      BY <2>2, <2>3, <2>4
    <2>6. ElementsAt(sps, I) = sps
      BY <2>2, <2>5, AllElements
    <2> QED BY <1>6, <2>4, <2>6, Zenon
  <1>9. CASE w = << >>
    BY <1>1, <1>3, <1>5, <1>7, <1>8, <1>9, Zenon
  <1>10. CASE w # << >>
    <2>1. 1 \in 1..Len(w)
      BY <1>10, EmptySequence
    <2>2. sps[1] = w[1].data
      <3>1. w[1] \in Entries /\ w[1].sig = SP /\ sps[1] = Payload(w[1])
        BY <1>3, <1>5, <2>1
      <3>2. Payload(w[1]) = w[1].data
        BY <1>4, <3>1
      <3> QED BY <3>1, <3>2
    <2> QED BY <1>1, <1>3, <1>5, <1>7, <1>8, <1>10, <2>2, Zenon
  <1> QED BY <1>9, <1>10

\* What ceEntry makes of an area that was written.
LEMMA ContinuationRead ==
  ASSUME NEW es \in Seq(Entries), NEW pad \in {<< >>, << 0 >>}
  PROVE  LET ce == CEEntry(Bytewise(es) \o pad) IN
         /\ With(es, CE) = << >> => ce.length = 0
         /\ With(es, CE) # << >> => /\ ce = [block |-> CEOf(es).block, offset |-> CEOf(es).offset,
                                             length |-> CEOf(es).length]
                                    /\ CEOf(es).block \in Nat /\ CEOf(es).offset \in Nat /\ CEOf(es).length \in Nat
  <1>1. PICK area : area = Bytewise(es) \o pad
    OBVIOUS
  <1>2. PICK found : found = Of(area, CE, 24)
    OBVIOUS
  <1>3. PICK w \in Seq(Entries) : w = With(es, CE) /\ \A i \in 1..Len(w) : w[i] \in Entries /\ w[i].sig = CE
    BY WithTyped
  <1>4. /\ Len(found) = Len(w) /\ (found = << >> <=> w = << >>)
        /\ \A i \in 1..Len(w) : found[i] = Payload(w[i])
    <2>1. 24 \in Nat /\ \A e \in Entries : e.sig = CE => 24 <= Len(Payload(e))
      BY PlacePayload
    <2>2. found = Of(Bytewise(es) \o pad, CE, 24)
      BY <1>1, <1>2
    <2>3. pad \in ByteString /\ Len(pad) < 4
      BY Padding
    <2>4. Of(Bytewise(es) \o pad, CE, 24) = Each(With(es, CE), Payloads)
      BY <2>1, <2>3, OfWritten, Zenon DEF Payloads
    <2>5. found = Each(w, Payloads)
      BY <1>3, <2>2, <2>4, Zenon
    <2>6. /\ Len(Each(w, Payloads)) = Len(w) /\ (Each(w, Payloads) = << >> <=> w = << >>)
          /\ \A i \in 1..Len(w) : Each(w, Payloads)[i] = Payload(w[i])
      BY PayloadsRead
    <2> QED BY <2>5, <2>6, Zenon
  <1>5. CASE w = << >>
    <2>1. CEEntry(area) = [block |-> 0, offset |-> 0, length |-> 0]
      BY <1>2, <1>4, <1>5 DEF CEEntry
    <2> QED BY <1>1, <1>3, <1>5, <2>1
  <1>6. CASE w # << >>
    <2>1. 1 \in 1..Len(w)
      BY <1>6, EmptySequence
    <2>2. PICK e \in Entries : e = w[1] /\ e.sig = CE
      BY <1>3, <2>1
    <2>3. found[1] = Payload(e) /\ found # << >>
      BY <1>4, <1>6, <2>1, <2>2
    <2>4. /\ LE32(Payload(e), 0) = e.block /\ LE32(Payload(e), 8) = e.offset /\ LE32(Payload(e), 16) = e.length
          /\ e.block \in Nat /\ e.offset \in Nat /\ e.length \in Nat
      BY <2>2, PlacePayload
    <2>5. CEEntry(area) = [block |-> e.block, offset |-> e.offset, length |-> e.length]
      <3>1. CEEntry(area) = [block |-> LE32(found[1], 0), offset |-> LE32(found[1], 8), length |-> LE32(found[1], 16)]
        BY <1>2, <2>3 DEF CEEntry
      <3> QED BY <2>3, <2>4, <3>1
    <2>6. CEOf(es) = e
      BY <1>3, <2>2 DEF CEOf
    <2> QED BY <1>1, <1>3, <1>6, <2>4, <2>5, <2>6
  <1> QED BY <1>5, <1>6

---------------------------------------------------------------------------
(* The target of a link *)

SLState == [target : Seq(Character), comp : Seq(Character)]
Slash(t) == IF t # << >> /\ Last(t) # "/" THEN <<"/">> ELSE << >>

\* The word of a component as it is spelled.
Word(c) ==
  CASE c.flags = 2 -> <<".">> [] c.flags = 4 -> <<".", ".">> [] c.flags = 8 -> <<"/">> [] OTHER -> c.text

\* The words that are not text.
LEMMA Words ==
  /\ << >> \in Seq(Character) /\ <<"/">> \in Seq(Character) /\ <<".">> \in Seq(Character) /\ <<".", ".">> \in Seq(Character)
  /\ <<"/">> # << >> /\ <<".">> # << >> /\ <<".", ".">> # << >>
  /\ Last(<<"/">>) = "/" /\ Last(<<".">>) # "/" /\ Last(<<".", ".">>) # "/"
  <1>1. PICK S : S = Character
    OBVIOUS
  <1>2. PICK dot : dot = "."
    OBVIOUS
  <1>3. PICK slash : slash = "/"
    OBVIOUS
  <1>4. dot \in S /\ slash \in S /\ dot # slash
    <2>1. "." \in Character /\ "/" \in Character
      BY DEF Character
    <2>2. "." # "/"
      OBVIOUS
    <2> QED BY <1>1, <1>2, <1>3, <2>1, <2>2, Zenon
  <1>5. << >> \in Seq(S) /\ <<slash>> \in Seq(S) /\ <<dot>> \in Seq(S) /\ <<dot, dot>> \in Seq(S)
    BY <1>4
  <1>6. Len(<<slash>>) = 1 /\ Len(<<dot>>) = 1 /\ Len(<<dot, dot>>) = 2
    OBVIOUS
  <1>7. <<slash>>[1] = slash /\ <<dot>>[1] = dot /\ <<dot, dot>>[2] = dot
    OBVIOUS
  <1>8. Last(<<slash>>) = slash /\ Last(<<dot>>) = dot /\ Last(<<dot, dot>>) = dot
    BY <1>6, <1>7 DEF Last
  <1>9. <<slash>> # << >> /\ <<dot>> # << >> /\ <<dot, dot>> # << >>
    BY <1>6
  <1> QED BY <1>1, <1>2, <1>3, <1>4, <1>5, <1>8, <1>9

\* A component has at most one of the flags.
LEMMA FlagsAre ==
  ASSUME NEW c \in LinkPart
  PROVE  /\ c.flags \in {0, 1, 2, 4, 8} /\ c.text \in Seq(Character)
         /\ Continues(c) <=> c.flags = 1
         /\ IsCur(c) <=> c.flags = 2
         /\ IsPar(c) <=> c.flags = 4
         /\ IsRoot(c) <=> c.flags = 8
  <1>1. c.flags \in {0, 1, 2, 4, 8} /\ c.text \in Seq(Character)
    <2>1. c.flags \in {0, 1, 2, 4, 8} /\ c.text \in Seq(STRING)
      BY DEF LinkPart
    <2>2. STRING \subseteq Character
      BY DEF Character
    <2> QED BY <2>1, <2>2, Widened
  <1>2. PICK f : f = c.flags
    OBVIOUS
  <1>3. ((f \div 1) % 2 = 1 <=> f = 1) /\ ((f \div 2) % 2 = 1 <=> f = 2)
        /\ ((f \div 4) % 2 = 1 <=> f = 4) /\ ((f \div 8) % 2 = 1 <=> f = 8)
    <2>1. CASE f = 0
      BY <2>1
    <2>2. CASE f = 1
      BY <2>2
    <2>3. CASE f = 2
      BY <2>3
    <2>4. CASE f = 4
      BY <2>4
    <2>5. CASE f = 8
      BY <2>5
    <2> QED BY <1>1, <1>2, <2>1, <2>2, <2>3, <2>4, <2>5
  <1>4. Flag(c, 1) = ((f \div 1) % 2 = 1) /\ Flag(c, 2) = ((f \div 2) % 2 = 1)
        /\ Flag(c, 4) = ((f \div 4) % 2 = 1) /\ Flag(c, 8) = ((f \div 8) % 2 = 1)
    BY <1>2, Zenon DEF Flag
  <1>5. (Flag(c, 1) <=> f = 1) /\ (Flag(c, 2) <=> f = 2) /\ (Flag(c, 4) <=> f = 4) /\ (Flag(c, 8) <=> f = 8)
    BY <1>3, <1>4, Zenon
  <1>6. (Continues(c) <=> f = 1) /\ (IsCur(c) <=> f = 2)
    BY <1>5, Zenon DEF Continues, IsCur
  <1>7. f # 2 \/ f # 4
    OBVIOUS
  <1>8. f # 2 \/ f # 8
    OBVIOUS
  <1>9. f # 4 \/ f # 8
    OBVIOUS
  <1>10. IsPar(c) <=> f = 4
    BY <1>5, <1>6, <1>7, Zenon DEF IsPar
  <1>11. IsRoot(c) <=> f = 8
    BY <1>5, <1>6, <1>8, <1>9, <1>10, Zenon DEF IsRoot
  <1> QED BY <1>1, <1>2, <1>6, <1>10, <1>11, Zenon

\* The text a component adds.
LEMMA TextOfComponent ==
  ASSUME NEW c \in LinkPart
  PROVE  /\ ComponentText(c) \in Seq(Character) /\ Word(c) \in Seq(Character)
         /\ ComponentText(c) = IF c.flags = 8 THEN << >> ELSE Word(c)
         /\ c.flags = 8 => Word(c) = <<"/">>
         /\ c.flags \in {0, 1} => Word(c) = c.text
         /\ c.flags \in {2, 4} => Word(c) # << >> /\ Last(Word(c)) # "/"
  <1>1. /\ c.flags \in {0, 1, 2, 4, 8} /\ c.text \in Seq(Character)
        /\ Continues(c) <=> c.flags = 1
        /\ IsCur(c) <=> c.flags = 2
        /\ IsPar(c) <=> c.flags = 4
        /\ IsRoot(c) <=> c.flags = 8
    BY FlagsAre
  <1>2. CASE c.flags = 2
    <2>1. ComponentText(c) = <<".">> /\ Word(c) = <<".">>
      BY <1>1, <1>2 DEF ComponentText, Word
    <2>2. <<".">> \in Seq(Character) /\ <<".">> # << >> /\ Last(<<".">>) # "/"
      BY Words
    <2>3. c.flags # 8 /\ c.flags \notin {0, 1}
      BY <1>2
    <2> QED BY <2>1, <2>2, <2>3
  <1>3. CASE c.flags = 4
    <2>1. c.flags # 2
      BY <1>3
    <2>2. ComponentText(c) = <<".", ".">> /\ Word(c) = <<".", ".">>
      BY <1>1, <1>3, <2>1 DEF ComponentText, Word
    <2>3. <<".", ".">> \in Seq(Character) /\ <<".", ".">> # << >> /\ Last(<<".", ".">>) # "/"
      BY Words
    <2>4. c.flags # 8 /\ c.flags \notin {0, 1}
      BY <1>3
    <2> QED BY <2>2, <2>3, <2>4
  <1>4. CASE c.flags = 8
    <2>1. c.flags # 2 /\ c.flags # 4
      BY <1>4
    <2>2. ComponentText(c) = << >> /\ Word(c) = <<"/">>
      BY <1>1, <1>4, <2>1 DEF ComponentText, Word
    <2>3. << >> \in Seq(Character) /\ <<"/">> \in Seq(Character)
      BY Words
    <2>4. c.flags \notin {0, 1} /\ c.flags \notin {2, 4}
      BY <1>4
    <2> QED BY <1>4, <2>2, <2>3, <2>4
  <1>5. CASE c.flags \in {0, 1}
    <2>1. c.flags # 2 /\ c.flags # 4 /\ c.flags # 8
      BY <1>5
    <2>2. ComponentText(c) = c.text /\ Word(c) = c.text
      BY <1>1, <2>1 DEF ComponentText, Word
    <2> QED BY <1>1, <2>1, <2>2
  <1> QED BY <1>1, <1>2, <1>3, <1>4, <1>5

\* One more component, by its flag.
LEMMA ComponentAdded ==
  ASSUME NEW c \in LinkPart, NEW sl \in SLState
  PROVE  /\ AddComponent(sl, c) \in SLState
         /\ c.flags = 8 /\ sl.target = << >> /\ sl.comp = << >> =>
              AddComponent(sl, c) = [target |-> <<"/">>, comp |-> << >>]
         /\ c.flags = 1 => AddComponent(sl, c) = [target |-> sl.target, comp |-> sl.comp \o Word(c)]
         /\ c.flags \in {0, 2, 4} =>
              AddComponent(sl, c) = [target |-> (sl.target \o Slash(sl.target)) \o (sl.comp \o Word(c)), comp |-> << >>]
  <1>1. PICK t \in Seq(Character), m \in Seq(Character) : t = sl.target /\ m = sl.comp /\ sl = [target |-> t, comp |-> m]
    BY DEF SLState
  <1>2. PICK w \in Seq(Character) : w = ComponentText(c)
    BY TextOfComponent
  <1>3. /\ c.flags \in {0, 1, 2, 4, 8}
        /\ Continues(c) <=> c.flags = 1
        /\ IsRoot(c) <=> c.flags = 8
    BY FlagsAre
  <1>4. PICK s \in Seq(Character) : s = Slash(t)
    BY Words DEF Slash
  <1>5. /\ StartsAtRoot(sl, c) => AddComponent(sl, c) = [target |-> <<"/">>, comp |-> m]
        /\ ~StartsAtRoot(sl, c) /\ Continues(c) => AddComponent(sl, c) = [target |-> t, comp |-> m \o w]
        /\ ~StartsAtRoot(sl, c) /\ ~Continues(c) => AddComponent(sl, c) = [target |-> (t \o s) \o (m \o w), comp |-> << >>]
    BY <1>1, <1>2, <1>4 DEF AddComponent, Slash
  <1>6. StartsAtRoot(sl, c) <=> c.flags = 8 /\ t = << >> /\ m = << >>
    BY <1>1, <1>3 DEF StartsAtRoot
  <1>7. m \o w \in Seq(Character) /\ (t \o s) \o (m \o w) \in Seq(Character) /\ <<"/">> \in Seq(Character) /\ << >> \in Seq(Character)
    <2>1. PICK S : S = Character
      OBVIOUS
    <2>2. t \in Seq(S) /\ s \in Seq(S) /\ m \in Seq(S) /\ w \in Seq(S)
      BY <2>1
    <2>3. t \o s \in Seq(S) /\ m \o w \in Seq(S)
      BY <2>2
    <2>4. (t \o s) \o (m \o w) \in Seq(S)
      BY <2>3
    <2> QED BY <2>1, <2>3, <2>4, Words
  <1>8. AddComponent(sl, c) \in SLState
    <2>1. \A x \in Seq(Character) : \A y \in Seq(Character) : [target |-> x, comp |-> y] \in SLState
      BY DEF SLState
    <2>2. StartsAtRoot(sl, c) \/ (~StartsAtRoot(sl, c) /\ Continues(c)) \/ (~StartsAtRoot(sl, c) /\ ~Continues(c))
      OBVIOUS
    <2> QED BY <1>5, <1>7, <2>1, <2>2
  <1>9. c.flags # 8 => w = Word(c)
    BY <1>2, TextOfComponent
  <1>10. CASE c.flags = 8
    <2>1. c.flags # 1 /\ c.flags \notin {0, 2, 4}
      BY <1>10
    <2> QED BY <1>1, <1>5, <1>6, <1>8, <2>1
  <1>11. CASE c.flags = 1
    <2>1. c.flags # 8 /\ c.flags \notin {0, 2, 4}
      BY <1>11
    <2> QED BY <1>1, <1>3, <1>5, <1>6, <1>8, <1>9, <1>11, <2>1
  <1>12. CASE c.flags \in {0, 2, 4}
    <2>1. c.flags # 8 /\ c.flags # 1
      BY <1>12
    <2>2. AddComponent(sl, c) = [target |-> (t \o s) \o (m \o w), comp |-> << >>]
      BY <1>3, <1>5, <1>6, <2>1
    <2> QED BY <1>1, <1>4, <1>8, <1>9, <2>1, <2>2
  <1> QED BY <1>3, <1>10, <1>11, <1>12

\* The loop over the components of a link.
LEMMA TargetIs ==
  ASSUME NEW comps \in Seq(LinkPart)
  PROVE  \E u : /\ u[0] = [target |-> << >>, comp |-> << >>]
                /\ \A k \in 1..Len(comps) : u[k] = AddComponent(u[k - 1], comps[k])
                /\ \A k \in 0..Len(comps) : u[k] \in SLState
                /\ Target(comps) = u[Len(comps)].target
  <1>1. PICK b : b = [target |-> << >>, comp |-> << >>]
    OBVIOUS
  <1>2. b \in SLState
    BY <1>1, Shortest DEF SLState
  <1>3. PICK S : S = [target : Seq(Character), comp : Seq(Character)]
    OBVIOUS
  <1>4. S = SLState
    BY <1>3 DEF SLState
  <1>5. PICK n \in Nat : n = Len(comps)
    OBVIOUS
  <1>6. PICK add : add = [i \in 1..n |-> [sl \in S |-> AddComponent(sl, comps[i])]]
    OBVIOUS
  <1>7. \A i \in 1..n : \A sl \in S : add[i][sl] = AddComponent(sl, comps[i]) /\ add[i][sl] \in S
    <2> TAKE i \in 1..n
    <2> TAKE sl \in S
    <2>1. comps[i] \in LinkPart
      BY <1>5
    <2>2. add[i][sl] = AddComponent(sl, comps[i])
      BY <1>6
    <2>3. AddComponent(sl, comps[i]) \in SLState
      BY <1>4, <2>1, ComponentAdded
    <2> QED BY <1>4, <2>2, <2>3
  <1>8. add \in [1..n -> [S -> S]]
    <2>1. \A i \in 1..n : add[i] \in [S -> S]
      <3> TAKE i \in 1..n
      <3>1. add[i] = [sl \in S |-> AddComponent(sl, comps[i])]
        BY <1>6
      <3>2. add[i] = [sl \in S |-> add[i][sl]]
        BY <3>1
      <3> QED BY <1>7, <3>2
    <2>2. add = [i \in 1..n |-> add[i]]
      BY <1>6
    <2> QED BY <2>1, <2>2
  <1>9. Steps(n, S, b, add)
    BY <1>2, <1>4, <1>8 DEF Steps
  <1>10. PICK f : Takes(n, S, b, add, f)
    BY <1>9, RecursionExists
  <1> DEFINE loop == CHOOSE h : h = [i \in 0..n |-> IF i = 0 THEN b ELSE add[i][h[i - 1]]]
  <1>11. f \in [0..n -> S] /\ f[0] = b /\ \A k \in 1..n : f[k] = add[k][f[k - 1]]
    BY <1>10 DEF Takes
  <1>12. f = [i \in 0..n |-> IF i = 0 THEN b ELSE add[i][f[i - 1]]]
    <2>1. f = [i \in 0..n |-> f[i]]
      BY <1>11
    <2>2. \A i \in 0..n : f[i] = IF i = 0 THEN b ELSE add[i][f[i - 1]]
      BY <1>11
    <2> QED BY <2>1, <2>2
  <1>13. PICK u : u = loop
    OBVIOUS
  <1>14. u = [i \in 0..n |-> IF i = 0 THEN b ELSE add[i][u[i - 1]]]
    BY <1>12, <1>13, Zenon
  <1> HIDE DEF loop
  <1>15. u[0] = b /\ \A k \in 1..n : u[k] = add[k][u[k - 1]]
    <2>1. \A i \in 0..n : u[i] = IF i = 0 THEN b ELSE add[i][u[i - 1]]
      BY <1>14
    <2> QED BY <2>1
  <1>16. \A k \in 0..n : u[k] \in S
    <2>1. u[0] \in S
      BY <1>2, <1>4, <1>15
    <2>2. \A k \in 1..n : u[k - 1] \in S => u[k] \in S
      BY <1>7, <1>15
    <2> QED BY <2>1, <2>2, StaysIn
  <1>17. \A k \in 1..n : u[k] = AddComponent(u[k - 1], comps[k])
    <2> TAKE k \in 1..n
    <2>1. u[k - 1] \in S
      BY <1>16
    <2> QED BY <1>7, <1>15, <2>1
  <1>18. Target(comps) = u[n].target
    <2>1. b = [target |-> << >>, comp |-> << >>]
      BY <1>1
    <2>2. add = [i \in 1..Len(comps) |-> [sl \in [target : Seq(Character), comp : Seq(Character)] |-> AddComponent(sl, comps[i])]]
      BY <1>3, <1>5, <1>6, Zenon
    <2>3. Target(comps) = (CHOOSE h : h = [i \in 0..Len(comps) |-> IF i = 0 THEN b ELSE add[i][h[i - 1]]])[Len(comps)].target
      BY <2>1, <2>2, Zenon DEF Target
    <2> QED BY <1>5, <1>13, <2>3, Zenon DEF loop
  <1> QED BY <1>1, <1>4, <1>5, <1>15, <1>16, <1>17, <1>18

\* Nothing before or behind a sequence.
LEMMA NothingAdded ==
  ASSUME NEW S, NEW s \in Seq(S)
  PROVE  s \o << >> = s /\ << >> \o s = s
  OBVIOUS

\* The end of sequences that were put together.
LEMMA LastJoined ==
  ASSUME NEW S, NEW a \in Seq(S), NEW b \in Seq(S), b # << >>
  PROVE  a \o b # << >> /\ Last(a \o b) = Last(b)
  <1>1. Len(b) \in Nat /\ Len(b) # 0
    BY EmptySequence
  <1>2. PICK c : c = a \o b
    OBVIOUS
  <1>3. Len(a) \in Nat /\ Len(c) = Len(a) + Len(b) /\ \A i \in 1..Len(b) : c[Len(a) + i] = b[i]
    BY <1>2
  <1>4. Len(b) \in 1..Len(b)
    BY <1>1
  <1>5. c[Len(c)] = b[Len(b)]
    BY <1>3, <1>4
  <1>6. c # << >>
    BY <1>1, <1>3
  <1> QED BY <1>2, <1>5, <1>6 DEF Last

\* A sequence that begins like another is that one and the rest.
LEMMA BeginsWith ==
  ASSUME NEW S, NEW s \in Seq(S), NEW a \in Seq(S), Len(a) <= Len(s), \A i \in 1..Len(a) : s[i] = a[i]
  PROVE  s = a \o SubSeq(s, Len(a) + 1, Len(s)) /\ SubSeq(s, Len(a) + 1, Len(s)) \in Seq(S)
  <1>1. PICK m \in Nat : m = Len(a)
    OBVIOUS
  <1>2. PICK l \in Nat : Len(s) = m + l
    <2>1. Len(s) \in Nat /\ Len(s) - m \in Nat /\ Len(s) = m + (Len(s) - m)
      BY <1>1
    <2> QED BY <2>1
  <1>3. \A i \in 1..l : m + i \in 1..Len(s) /\ s[m + i] \in S
    BY <1>2
  <1>4. PICK r : r = SubSeq(s, Len(a) + 1, Len(s))
    OBVIOUS
  <1>5. r \in Seq(S) /\ Len(r) = l
    BY <1>1, <1>2, <1>4
  <1>6. \A i \in 1..l : r[i] = s[m + i]
    BY <1>1, <1>2, <1>4
  <1>7. PICK q : q = a \o r
    OBVIOUS
  <1>8. /\ q \in Seq(S) /\ Len(q) = Len(a) + Len(r)
        /\ \A i \in 1..Len(a) : q[i] = a[i]
        /\ \A i \in 1..Len(r) : q[Len(a) + i] = r[i]
    BY <1>5, <1>7
  <1>9. ASSUME NEW i \in 1..Len(s)
        PROVE  s[i] = q[i]
    <2>1. CASE i \in 1..m
      BY <1>1, <1>8, <2>1
    <2>2. CASE i \notin 1..m
      <3>1. PICK j \in 1..l : i = m + j
        <4>1. i - m \in 1..l /\ i = m + (i - m)
          BY <1>2, <2>2
        <4> QED BY <4>1
      <3> QED BY <1>1, <1>5, <1>6, <1>8, <3>1
    <2> QED BY <2>1, <2>2
  <1>10. Len(s) = Len(q)
    BY <1>1, <1>2, <1>5, <1>8
  <1>11. s = q
    BY <1>8, <1>9, <1>10, SameElements
  <1> QED BY <1>4, <1>5, <1>7, <1>11

\* What each component of a link is spelled as.
Between(link, i) == IF i = 1 \/ link[i - 1].flags \in {1, 8} THEN << >> ELSE <<"/">>
Parts(link) == [i \in 1..Len(link) |-> Between(link, i) \o Word(link[i])]

\* The parts of a spelled link are characters, one part for each component.
LEMMA PartsTyped ==
  ASSUME NEW link \in Seq(LinkPart)
  PROVE  /\ Parts(link) \in Seq(Seq(Character)) /\ Len(Parts(link)) = Len(link)
         /\ \A i \in 1..Len(link) : Parts(link)[i] = Between(link, i) \o Word(link[i])
         /\ \A i \in 1..Len(link) : Between(link, i) \in Seq(Character) /\ Word(link[i]) \in Seq(Character)
  <1>1. PICK n \in Nat : n = Len(link)
    OBVIOUS
  <1>2. ASSUME NEW i \in 1..n
        PROVE  /\ Between(link, i) \in Seq(Character) /\ Word(link[i]) \in Seq(Character)
               /\ Between(link, i) \o Word(link[i]) \in Seq(Character)
    <2>1. link[i] \in LinkPart
      BY <1>1
    <2>2. PICK w \in Seq(Character) : w = Word(link[i])
      BY <2>1, TextOfComponent
    <2>3. PICK b \in Seq(Character) : b = Between(link, i)
      BY Words DEF Between
    <2>4. b \o w \in Seq(Character)
      BY Joined
    <2> QED BY <2>2, <2>3, <2>4
  <1>3. PICK Q : Q = Seq(Character)
    OBVIOUS
  <1>4. PICK p : p = Parts(link)
    OBVIOUS
  <1>5. p \in [1..n -> Q] /\ \A i \in 1..n : p[i] = Between(link, i) \o Word(link[i])
    BY <1>1, <1>2, <1>3, <1>4 DEF Parts
  <1>6. p \in Seq(Q) /\ Len(p) = n
    BY <1>5, FunctionIsSequence
  <1> QED BY <1>1, <1>2, <1>3, <1>4, <1>5, <1>6

\* A link is spelled by its parts.
LEMMA SpelledIs ==
  ASSUME NEW link
  PROVE  Spelled(link) = FlattenSeq(Parts(link))
  BY Zenon DEF Spelled, Parts, Between, Word

\* A link without an end begins as it is spelled.
LEMMA SpelledJoin ==
  ASSUME NEW a \in Seq(LinkPart), NEW b \in Seq(LinkPart)
  PROVE  \E r \in Seq(Character) : Spelled(a \o b) = Spelled(a) \o r
  <1>1. PICK c \in Seq(LinkPart) : c = a \o b
    BY Joined
  <1>2. PICK m \in Nat : m = Len(a)
    OBVIOUS
  <1>3. m <= Len(c) /\ \A i \in 1..m : c[i] = a[i]
    BY <1>1, <1>2, Joined
  <1>4. PICK Q : Q = Seq(Character)
    OBVIOUS
  <1>5. PICK p \in Seq(Q), q \in Seq(Q) : /\ p = Parts(a) /\ q = Parts(c) /\ Len(p) = m /\ Len(q) = Len(c)
    BY <1>2, <1>4, PartsTyped
  <1>6. ASSUME NEW i \in 1..m
        PROVE  q[i] = p[i]
    <2>1. i \in 1..Len(c) /\ i \in 1..Len(a)
      BY <1>2, <1>3
    <2>2. q[i] = Between(c, i) \o Word(c[i]) /\ p[i] = Between(a, i) \o Word(a[i])
      BY <1>5, <2>1, PartsTyped
    <2>3. c[i] = a[i]
      BY <1>3
    <2>4. Between(c, i) = Between(a, i)
      <3>1. CASE i = 1
        BY <3>1 DEF Between
      <3>2. CASE i # 1
        <4>1. i - 1 \in 1..m
          BY <3>2
        <4>2. c[i - 1] = a[i - 1]
          BY <1>3, <4>1
        <4> QED BY <4>2 DEF Between
      <3> QED BY <3>1, <3>2
    <2> QED BY <2>2, <2>3, <2>4
  <1>7. PICK s \in Seq(Q) : q = p \o s
    <2>1. Len(p) <= Len(q) /\ \A i \in 1..Len(p) : q[i] = p[i]
      BY <1>3, <1>5, <1>6
    <2>2. q = p \o SubSeq(q, Len(p) + 1, Len(q)) /\ SubSeq(q, Len(p) + 1, Len(q)) \in Seq(Q)
      BY <2>1, BeginsWith
    <2> QED BY <2>2
  <1>8. FlattenSeq(p \o s) = FlattenSeq(p) \o FlattenSeq(s) /\ FlattenSeq(s) \in Seq(Character)
    <2>1. p \in Seq(Seq(Character)) /\ s \in Seq(Seq(Character))
      BY <1>4
    <2>2. FlattenSeq(p \o s) = FlattenSeq(p) \o FlattenSeq(s) /\ FlattenSeq(p) \in Seq(Character)
      BY <2>1, FlattenJoin
    <2>3. FlattenSeq(s \o s) = FlattenSeq(s) \o FlattenSeq(s) /\ FlattenSeq(s) \in Seq(Character)
      BY <2>1, FlattenJoin
    <2> QED BY <2>2, <2>3
  <1> QED BY <1>1, <1>5, <1>7, <1>8, SpelledIs

\* What Spellable says of each component.
Wellformed(link) ==
  \A i \in 1..Len(link) :
    /\ link[i].flags = 8 => i = 1
    /\ link[i].flags \in {0, 1} => link[i].text # << >> /\ Last(link[i].text) # "/"

\* The loop builds what is spelled; what it drops belongs to a component that goes on.
LEMMA TargetSpelled ==
  ASSUME NEW link \in Seq(LinkPart), Wellformed(link)
  PROVE  /\ \E r \in Seq(Character) :
              /\ Spelled(link) = Target(link) \o r
              /\ link = << >> \/ link[Len(link)].flags # 1 => r = << >>
         /\ Target(link) \in Seq(Character)
  <1>1. PICK n \in Nat : n = Len(link)
    OBVIOUS
  <1>2. PICK C : C = Seq(Character)
    OBVIOUS
  <1>3. PICK u : /\ u[0] = [target |-> << >>, comp |-> << >>]
                 /\ \A k \in 1..Len(link) : u[k] = AddComponent(u[k - 1], link[k])
                 /\ \A k \in 0..Len(link) : u[k] \in SLState
                 /\ Target(link) = u[Len(link)].target
    BY TargetIs
  <1>4. PICK p : p = Parts(link)
    OBVIOUS
  <1>5. /\ p \in Seq(Seq(Character)) /\ Len(p) = Len(link)
        /\ \A i \in 1..Len(link) : p[i] = Between(link, i) \o Word(link[i])
        /\ \A i \in 1..Len(link) : Between(link, i) \in Seq(Character) /\ Word(link[i]) \in Seq(Character)
    BY <1>4, PartsTyped
  <1>6. PICK P : /\ P[0] = << >> /\ \A k \in 1..Len(p) : P[k] = P[k - 1] \o p[k]
                 /\ \A k \in 0..Len(p) : P[k] \in Seq(Character)
                 /\ FlattenSeq(p) = P[Len(p)]
    BY <1>5, FlattenIs
  <1>7. \A k \in 0..n : u[k].target \in C /\ u[k].comp \in C /\ P[k] \in C
    <2>1. \A sl \in SLState : sl.target \in C /\ sl.comp \in C
      BY <1>2 DEF SLState
    <2> QED BY <1>1, <1>2, <1>3, <1>5, <1>6, <2>1
  <1>8. \A k \in 1..n : P[k] = P[k - 1] \o (Between(link, k) \o Word(link[k]))
    BY <1>1, <1>5, <1>6
  <1> DEFINE Base(sl) == (sl.target \o Slash(sl.target)) \o sl.comp
             Ended(k) == k = 0 \/ link[k].flags # 1
             D == {k \in 0..n : /\ Base(u[k]) = P[k] \o Between(link, k + 1)
                                /\ Ended(k) => u[k].target = P[k] /\ u[k].comp = << >>}
  <1>9. 0 \in D
    <2>1. u[0].target = << >> /\ u[0].comp = << >> /\ P[0] = << >>
      BY <1>3, <1>6
    <2>2. Slash(u[0].target) = << >>
      BY <2>1 DEF Slash
    <2>3. Between(link, 0 + 1) = << >>
      BY DEF Between
    <2>4. << >> \o << >> = << >>
      BY Shortest, NothingAdded
    <2>5. Base(u[0]) = P[0] \o Between(link, 0 + 1)
      BY <2>1, <2>2, <2>3, <2>4
    <2>6. 0 \in 0..n
      OBVIOUS
    <2> HIDE DEF Base, Ended
    <2> QED BY <2>1, <2>5, <2>6, Zenon
  <1>10. ASSUME NEW k \in 1..n, k - 1 \in D
         PROVE  k \in D
    <2>1. PICK c \in LinkPart : c = link[k]
      BY <1>1
    <2>2. PICK t \in C, m \in C : t = u[k - 1].target /\ m = u[k - 1].comp
      <3>1. k - 1 \in 0..n
        OBVIOUS
      <3> QED BY <1>7, <3>1
    <2>3. PICK s \in C : s = Slash(t)
      BY <1>2, Words DEF Slash
    <2>4. PICK a \in C, w \in C : a = Between(link, k) /\ w = Word(c)
      BY <1>1, <1>2, <1>5, <2>1
    <2>5. PICK q \in C : q = P[k - 1]
      <3>1. k - 1 \in 0..n
        OBVIOUS
      <3> QED BY <1>7, <3>1
    <2>6. (t \o s) \o m = q \o a /\ (Ended(k - 1) => t = q /\ m = << >>)
      <3>1. k - 1 \in 0..n /\ (k - 1) + 1 = k
        OBVIOUS
      <3>2. Base(u[k - 1]) = P[k - 1] \o Between(link, k)
        BY <1>10, <3>1
      <3>3. Ended(k - 1) => u[k - 1].target = P[k - 1] /\ u[k - 1].comp = << >>
        BY <1>10, <3>1
      <3> HIDE DEF Ended
      <3> QED BY <2>2, <2>3, <2>4, <2>5, <3>2, <3>3
    <2>7. P[k] = q \o (a \o w)
      BY <1>8, <2>1, <2>4, <2>5
    <2>8. PICK sl \in SLState : sl = u[k - 1] /\ sl.target = t /\ sl.comp = m
      <3>1. k - 1 \in 0..n
        OBVIOUS
      <3> QED BY <1>1, <1>3, <2>2, <3>1
    <2>9. /\ u[k] = AddComponent(sl, c)
          /\ c.flags = 8 => k = 1
          /\ c.flags \in {0, 1} => c.text # << >> /\ Last(c.text) # "/"
      BY <1>1, <1>3, <2>1, <2>8 DEF Wellformed
    <2>10. Between(link, k + 1) = IF c.flags \in {1, 8} THEN << >> ELSE <<"/">>
      <3>1. k + 1 # 1 /\ (k + 1) - 1 = k
        OBVIOUS
      <3> QED BY <2>1, <3>1 DEF Between
    <2>11. Ended(k) <=> c.flags # 1
      BY <2>1
    <2>12. c.flags \in {0, 1, 2, 4, 8}
      BY FlagsAre
    <2>13. \A x \in C : x \o << >> = x /\ << >> \o x = x
      BY <1>2, NothingAdded
    <2>14. \A x \in C : \A y \in C : \A z \in C : (x \o y) \o z = x \o (y \o z)
      <3> TAKE x \in C
      <3> TAKE y \in C
      <3> TAKE z \in C
      <3>1. x \in Seq(Character) /\ y \in Seq(Character) /\ z \in Seq(Character)
        BY <1>2
      <3> QED BY <3>1, JoinAgain
    <2>15. \A x \in C : \A y \in C : x \o y \in C
      BY <1>2, Joined
    <2>16. ((t \o s) \o (m \o w)) = q \o (a \o w)
      <3>1. (t \o s) \o (m \o w) = ((t \o s) \o m) \o w
        <4>1. PICK x \in C : x = t \o s
          BY <2>15
        <4>2. (x \o m) \o w = x \o (m \o w)
          BY <2>14
        <4> QED BY <4>1, <4>2
      <3>2. (q \o a) \o w = q \o (a \o w)
        BY <2>14
      <3> QED BY <2>6, <3>1, <3>2
    <2> HIDE DEF Ended
    <2>17. SUFFICES /\ (u[k].target \o Slash(u[k].target)) \o u[k].comp = P[k] \o Between(link, k + 1)
                    /\ c.flags # 1 => u[k].target = P[k] /\ u[k].comp = << >>
      <3>1. k \in 0..n
        OBVIOUS
      <3> QED BY <2>11, <3>1
    <2> HIDE DEF D, Base
    <2>18. CASE c.flags = 8
      <3>1. k = 1 /\ k - 1 = 0
        BY <2>9, <2>18
      <3>2. t = << >> /\ m = << >> /\ q = << >> /\ a = << >>
        BY <1>3, <1>6, <2>2, <2>4, <2>5, <3>1 DEF Between
      <3>3. u[k] = [target |-> <<"/">>, comp |-> << >>]
        BY <2>8, <2>9, <2>18, <3>2, ComponentAdded
      <3>4. w = <<"/">> /\ <<"/">> \in C
        BY <1>2, <2>4, <2>18, TextOfComponent, Words
      <3>5. P[k] = <<"/">>
        BY <2>7, <2>13, <3>2, <3>4
      <3>6. Slash(<<"/">>) = << >>
        BY Words DEF Slash
      <3>7. u[k].target = <<"/">> /\ u[k].comp = << >>
        BY <3>3
      <3>8. Between(link, k + 1) = << >>
        BY <2>10, <2>18
      <3>9. (<<"/">> \o << >>) \o << >> = <<"/">> /\ <<"/">> \o << >> = <<"/">>
        BY <2>13, <3>4
      <3> QED BY <3>5, <3>6, <3>7, <3>8, <3>9
    <2>19. CASE c.flags = 1
      <3>1. u[k] = [target |-> t, comp |-> m \o w]
        BY <2>4, <2>8, <2>9, <2>19, ComponentAdded
      <3>2. u[k].target = t /\ u[k].comp = m \o w
        BY <3>1
      <3>3. Between(link, k + 1) = << >>
        BY <2>10, <2>19
      <3>4. P[k] \o << >> = P[k]
        <4>1. P[k] \in C
          BY <1>7
        <4> QED BY <2>13, <4>1
      <3> QED BY <2>3, <2>7, <2>16, <2>19, <3>2, <3>3, <3>4
    <2>20. CASE c.flags \in {0, 2, 4}
      <3>1. u[k] = [target |-> (t \o s) \o (m \o w), comp |-> << >>]
        BY <2>3, <2>4, <2>8, <2>9, <2>20, ComponentAdded
      <3>2. u[k].target = P[k] /\ u[k].comp = << >>
        BY <2>7, <2>16, <3>1
      <3>3. w # << >> /\ Last(w) # "/"
        <4>1. CASE c.flags = 0
          <5>1. w = c.text
            BY <2>4, <4>1, TextOfComponent
          <5> QED BY <2>9, <4>1, <5>1
        <4>2. CASE c.flags \in {2, 4}
          BY <2>4, <4>2, TextOfComponent
        <4> QED BY <2>20, <4>1, <4>2
      <3>4. P[k] # << >> /\ Last(P[k]) # "/"
        <4>1. PICK x \in Seq(Character), y \in Seq(Character) : x = q \o a /\ y = w
          BY <1>2, <2>15
        <4>2. P[k] = x \o y
          BY <2>7, <2>14, <4>1
        <4>3. x \o y # << >> /\ Last(x \o y) = Last(y)
          BY <3>3, <4>1, LastJoined
        <4> QED BY <3>3, <4>1, <4>2, <4>3
      <3>5. Slash(P[k]) = <<"/">>
        BY <3>4 DEF Slash
      <3>6. Between(link, k + 1) = <<"/">>
        <4>1. c.flags \notin {1, 8}
          BY <2>20
        <4> QED BY <2>10, <4>1
      <3>7. P[k] \in C /\ <<"/">> \in C
        BY <1>2, <1>7, Words
      <3>8. (P[k] \o <<"/">>) \o << >> = P[k] \o <<"/">>
        BY <2>13, <2>15, <3>7
      <3> QED BY <3>2, <3>5, <3>6, <3>8
    <2> QED BY <2>12, <2>18, <2>19, <2>20
  <1> HIDE DEF D
  <1>11. \A k \in 0..n : k \in D
    BY <1>9, <1>10, InductionTo
  <1>12. PICK t \in C, m \in C : t = u[n].target /\ m = u[n].comp
    BY <1>7
  <1>13. Spelled(link) = P[n] /\ Target(link) = t /\ P[n] \in C
    BY <1>1, <1>3, <1>4, <1>5, <1>6, <1>7, <1>12, SpelledIs
  <1>14. Base(u[n]) = P[n] \o Between(link, n + 1) /\ (Ended(n) => t = P[n])
    <2>1. n \in D
      BY <1>11
    <2> HIDE DEF Base, Ended
    <2> QED BY <1>12, <2>1 DEF D
  <1>15. Ended(n) <=> link = << >> \/ link[Len(link)].flags # 1
    BY <1>1, EmptySequence
  <1>16. << >> \in C /\ P[n] \o << >> = P[n]
    BY <1>2, <1>13, NothingAdded, Shortest
  <1>17. CASE Ended(n)
    <2>1. Spelled(link) = Target(link) \o << >>
      BY <1>13, <1>14, <1>16, <1>17
    <2> QED BY <1>2, <1>13, <1>16, <2>1
  <1>18. CASE ~Ended(n)
    <2>1. n # 0 /\ link[n].flags = 1
      BY <1>18
    <2>2. Between(link, n + 1) = << >>
      <3>1. (n + 1) - 1 = n
        OBVIOUS
      <3> QED BY <2>1, <3>1 DEF Between
    <2>3. PICK s \in C : s = Slash(t)
      BY <1>2, Words DEF Slash
    <2>4. (t \o s) \o m = P[n]
      BY <1>12, <1>14, <1>16, <2>2, <2>3
    <2>5. (t \o s) \o m = t \o (s \o m) /\ s \o m \in C
      BY <1>2, JoinAgain, Joined
    <2>6. Spelled(link) = Target(link) \o (s \o m)
      BY <1>13, <2>4, <2>5
    <2> QED BY <1>2, <1>13, <1>15, <1>18, <2>5, <2>6
  <1> QED BY <1>17, <1>18

---------------------------------------------------------------------------
(* Names read from identifiers *)

\* The first mark in a sequence.
FirstAt(s, mark, c) == c \in 1..Len(s) /\ s[c] = mark /\ \A i \in 1..Len(s) : s[i] = mark => c <= i
Without(s, mark) == \A i \in 1..Len(s) : s[i] # mark

\* The first place a mark is at is the one the code looks for.
LEMMA FirstMark ==
  ASSUME NEW S, NEW s \in Seq(S), NEW mark, NEW c, FirstAt(s, mark, c)
  PROVE  /\ Places(s, mark) # {}
         /\ (CHOOSE i \in Places(s, mark) : \A j \in Places(s, mark) : i <= j) = c
  <1>1. c \in Places(s, mark) /\ \A i \in Places(s, mark) : i \in 1..Len(s) /\ c <= i
    BY DEF Places, FirstAt
  <1>2. Places(s, mark) \in SUBSET Int
    BY DEF Places
  <1> QED BY <1>1, <1>2, ChosenLeast

\* Unversioned, with whatever the marks are.
Trimmed(t, dot) == IF t # << >> /\ t[Len(t)] = dot THEN SubSeq(t, 1, Len(t) - 1) ELSE t
CutBefore(s, mark, dot) ==
  Trimmed(IF Places(s, mark) = {} THEN s
          ELSE SubSeq(s, 1, (CHOOSE i \in Places(s, mark) : \A j \in Places(s, mark) : i <= j) - 1), dot)

\* The version of an identifier begins at the first semicolon.
LEMMA UnversionedIs ==
  ASSUME NEW s
  PROVE  Unversioned(s) = CutBefore(s, ";", ".")
  BY Zenon DEF Unversioned, CutBefore, Trimmed

\* What is left of an identifier without a mark, and of one with it.
LEMMA NothingCut ==
  ASSUME NEW S, NEW s \in Seq(S), NEW mark, NEW dot, s # << >>, s[Len(s)] # dot, Without(s, mark)
  PROVE  CutBefore(s, mark, dot) = s
  <1>1. Places(s, mark) = {}
    BY DEF Places, Without
  <1> QED BY <1>1 DEF CutBefore, Trimmed

\* With a mark, what stands before the first one is left, without a dot at its end.
LEMMA MarkCut ==
  ASSUME NEW S, NEW s \in Seq(S), NEW mark, NEW dot, NEW c, FirstAt(s, mark, c)
  PROVE  CutBefore(s, mark, dot) = Trimmed(SubSeq(s, 1, c - 1), dot)
  <1>1. Places(s, mark) # {} /\ (CHOOSE i \in Places(s, mark) : \A j \in Places(s, mark) : i <= j) = c
    BY FirstMark
  <1> QED BY <1>1, Zenon DEF CutBefore

\* A name is what stands before the first mark, without the dot before it.
LEMMA PlainCut ==
  ASSUME NEW S, NEW mark, NEW dot, NEW name \in Seq(S), name # << >>, name[Len(name)] # dot,
         Without(name, mark),
         NEW tail \in Seq(S), 1 <= Len(tail), tail[1] = mark
  PROVE  CutBefore(name \o tail, mark, dot) = name
  <1>1. PICK n \in Nat : n = Len(name)
    OBVIOUS
  <1>2. PICK s : s = name \o tail
    OBVIOUS
  <1>3. s \in Seq(S) /\ Len(s) = n + Len(tail) /\ s[n + 1] = mark /\ \A i \in 1..n : s[i] = name[i]
    BY <1>1, <1>2
  <1>4. n + 1 \in 1..Len(s)
    BY <1>3
  <1>5. \A i \in 1..Len(s) : s[i] = mark => n + 1 <= i
    <2> SUFFICES ASSUME NEW i \in 1..Len(s), s[i] = mark PROVE ~(i <= n)
      OBVIOUS
    <2> QED BY <1>1, <1>3 DEF Without
  <1>6. SubSeq(s, 1, (n + 1) - 1) = name
    BY <1>1, <1>2
  <1> DEFINE c == n + 1
  <1>8. FirstAt(s, mark, c)
    BY <1>3, <1>4, <1>5, Zenon DEF FirstAt
  <1>7. CutBefore(s, mark, dot) = Trimmed(SubSeq(s, 1, (n + 1) - 1), dot)
    BY <1>3, <1>8, MarkCut
  <1> QED BY <1>2, <1>6, <1>7, Zenon DEF Trimmed

\* A name is left of itself with a dot, a mark and anything behind it.
LEMMA DottedCut ==
  ASSUME NEW S, NEW mark, NEW dot, dot # mark, NEW name \in Seq(S), name # << >>,
         Without(name, mark),
         NEW tail \in Seq(S), 2 <= Len(tail), tail[1] = dot, tail[2] = mark
  PROVE  CutBefore(name \o tail, mark, dot) = name
  <1>1. PICK n \in Nat : n = Len(name)
    OBVIOUS
  <1>2. PICK s : s = name \o tail
    OBVIOUS
  <1>3. /\ s \in Seq(S) /\ Len(s) = n + Len(tail) /\ s[n + 1] = dot /\ s[n + 2] = mark
        /\ \A i \in 1..n : s[i] = name[i]
    BY <1>1, <1>2
  <1>4. n + 2 \in 1..Len(s)
    BY <1>3
  <1>5. \A i \in 1..Len(s) : s[i] = mark => n + 2 <= i
    <2>1. ASSUME NEW i \in 1..Len(s), s[i] = mark PROVE ~(i <= n) /\ i # n + 1
      BY <1>1, <1>3, <2>1 DEF Without
    <2>2. \A i \in 1..Len(s) : ~(i <= n) /\ i # n + 1 => n + 2 <= i
      BY <1>1
    <2> QED BY <2>1, <2>2
  <1>6. PICK t : t = SubSeq(s, 1, (n + 2) - 1)
    OBVIOUS
  <1>7. t \in Seq(S) /\ Len(t) = n + 1 /\ t[n + 1] = dot /\ \A i \in 1..n : t[i] = name[i]
    BY <1>3, <1>6
  <1>11. FirstAt(s, mark, n + 2)
    BY <1>3, <1>4, <1>5, Zenon DEF FirstAt
  <1>8. CutBefore(s, mark, dot) = Trimmed(t, dot)
    BY <1>3, <1>6, <1>11, MarkCut
  <1>9. t # << >> /\ t[Len(t)] = dot /\ Len(t) - 1 = n
    BY <1>7
  <1>10. SubSeq(t, 1, n) = name
    BY <1>1, <1>7
  <1> QED BY <1>2, <1>8, <1>9, <1>10 DEF Trimmed

\* The characters of identifiers.
Marks == STRING \cup {".", ";", "1"}

\* Names are written with the characters of identifiers.
LEMMA InMarks ==
  ASSUME NEW s \in Seq(STRING)
  PROVE  s \in Seq(Marks)
  <1>1. PICK T : T = STRING
    OBVIOUS
  <1>2. PICK M : M = Marks
    OBVIOUS
  <1>3. s \in Seq(T)
    BY <1>1
  <1>4. T \subseteq M
    BY <1>1, <1>2, Zenon DEF Marks
  <1>5. s \in Seq(M)
    BY <1>3, <1>4, Widened
  <1> QED BY <1>2, <1>5

\* A dot before the version.
LEMMA DotBehind ==
  ASSUME NEW S, NEW name \in Seq(S), NEW d \in S, NEW x \in S, NEW y \in S
  PROVE  (name \o <<d>>) \o <<x, y>> = name \o <<d, x, y>>
  <1>1. <<d>> \in Seq(S) /\ <<x, y>> \in Seq(S) /\ <<d>> \o <<x, y>> = <<d, x, y>>
    <2>1. PICK a : a = <<d>>
      OBVIOUS
    <2>2. PICK b : b = <<x, y>>
      OBVIOUS
    <2>3. PICK c : c = <<d, x, y>>
      OBVIOUS
    <2>4. a \in Seq(S) /\ Len(a) = 1 /\ a[1] = d
      BY <2>1
    <2>5. b \in Seq(S) /\ Len(b) = 2 /\ b[1] = x /\ b[2] = y
      BY <2>2
    <2>6. c \in Seq(S) /\ Len(c) = 3 /\ c[1] = d /\ c[2] = x /\ c[3] = y
      BY <2>3
    <2>7. PICK t : t = a \o b
      OBVIOUS
    <2>8. /\ t \in Seq(S) /\ Len(t) = Len(a) + Len(b) /\ (\A i \in 1..Len(a) : t[i] = a[i])
          /\ \A i \in 1..Len(b) : t[Len(a) + i] = b[i]
      <3>1. a \in Seq(S) /\ b \in Seq(S)
        BY <2>4, <2>5
      <3> QED BY <2>7, <3>1, Joined
    <2>9. 1 \in 1..Len(a) /\ 1 \in 1..Len(b) /\ 2 \in 1..Len(b) /\ Len(a) + 1 = 2 /\ Len(a) + 2 = 3
      BY <2>4, <2>5
    <2>10. Len(t) = Len(c) /\ t[1] = d /\ t[2] = x /\ t[3] = y
      BY <2>4, <2>5, <2>6, <2>8, <2>9
    <2>11. \A i \in 1..Len(t) : t[i] = c[i]
      <3>1. \A i \in 1..Len(t) : i = 1 \/ i = 2 \/ i = 3
        BY <2>6, <2>10
      <3> QED BY <2>6, <2>10, <3>1
    <2>12. t = c
      BY <2>6, <2>8, <2>10, <2>11, SameElements
    <2> QED BY <2>1, <2>2, <2>3, <2>4, <2>5, <2>7, <2>12
  <1>2. (name \o <<d>>) \o <<x, y>> = name \o (<<d>> \o <<x, y>>)
    BY <1>1, JoinAgain
  <1> QED BY <1>1, <1>2, Zenon

\* The identifiers of a name, whatever the marks are.
Unmarked(M, mark, dot) == {n \in Seq(M) : n # << >> /\ n[Len(n)] # dot /\ Without(n, mark)}
Marked(name, mark, dot, y) == {name, name \o <<mark, y>>, name \o <<dot, mark, y>>}

\* Each identifier that stands for a name is cut to the name.
LEMMA IdentifierCut ==
  ASSUME NEW M, NEW mark \in M, NEW dot \in M, NEW y \in M, dot # mark,
         NEW name \in Unmarked(M, mark, dot),
         NEW id \in Marked(name, mark, dot, y)
  PROVE  id \in Seq(M) /\ CutBefore(id, mark, dot) = name
  <1>4. name \in Seq(M) /\ name # << >> /\ name[Len(name)] # dot /\ Without(name, mark)
    BY DEF Unmarked
  <1>5. id = name \/ id = name \o <<mark, y>> \/ id = name \o <<dot, mark, y>>
    BY DEF Marked
  <1>1. CASE id = name
    BY <1>1, <1>4, NothingCut
  <1>2. CASE id = name \o <<mark, y>>
    <2>1. PICK v : v = <<mark, y>>
      OBVIOUS
    <2>2. v \in Seq(M) /\ 1 <= Len(v) /\ v[1] = mark
      BY <2>1
    <2>3. name \o v \in Seq(M)
      BY <1>4, <2>2, Joined
    <2>4. CutBefore(name \o v, mark, dot) = name
      BY <1>4, <2>2, PlainCut
    <2> QED BY <1>2, <2>1, <2>3, <2>4, Zenon
  <1>3. CASE id = name \o <<dot, mark, y>>
    <2>1. PICK v : v = <<dot, mark, y>>
      OBVIOUS
    <2>2. v \in Seq(M) /\ 2 <= Len(v) /\ v[1] = dot /\ v[2] = mark
      BY <2>1
    <2>3. name \o v \in Seq(M)
      BY <1>4, <2>2, Joined
    <2>4. CutBefore(name \o v, mark, dot) = name
      BY <1>4, <2>2, DottedCut
    <2> QED BY <1>3, <2>1, <2>3, <2>4, Zenon
  <1> QED BY <1>1, <1>2, <1>3, <1>5

\* An identifier is read as the name it stands for.
LEMMA IdentifierRead ==
  ASSUME NEW name \in Seq(STRING), Nameable(name), NEW id \in Identifiers(name)
  PROVE  id \in Seq(Marks) /\ Unversioned(id) = name
  <1>1. PICK M : M = Marks
    OBVIOUS
  <1>2. PICK mark : mark = ";"
    OBVIOUS
  <1>3. PICK dot : dot = "."
    OBVIOUS
  <1>4. PICK y : y = "1"
    OBVIOUS
  <1>5. mark \in M /\ dot \in M /\ y \in M /\ dot # mark
    BY <1>1, <1>2, <1>3, <1>4, Zenon DEF Marks
  <1>6. name \in Seq(M)
    BY <1>1, InMarks
  <1>7. name # << >> /\ name[Len(name)] # dot /\ Without(name, mark)
    BY <1>2, <1>3, Zenon DEF Nameable, Last, Without
  <1>8. id = name \/ id = name \o <<mark, y>> \/ id = (name \o <<dot>>) \o <<mark, y>>
    BY <1>2, <1>3, <1>4, Zenon DEF Identifiers, Version
  <1>9. (name \o <<dot>>) \o <<mark, y>> = name \o <<dot, mark, y>>
    BY <1>5, <1>6, DotBehind, SMTT(30)
  <1>10. id \in {name, name \o <<mark, y>>, name \o <<dot, mark, y>>}
    BY <1>8, <1>9, Zenon
  <1>11. id \in Seq(M) /\ CutBefore(id, mark, dot) = name
    <2>1. name \in Unmarked(M, mark, dot)
      BY <1>6, <1>7, Zenon DEF Unmarked
    <2>2. id \in Marked(name, mark, dot, y)
      BY <1>10, Zenon DEF Marked
    <2> QED BY <1>5, <2>1, <2>2, IdentifierCut
  <1> QED BY <1>1, <1>2, <1>3, <1>11, UnversionedIs, Zenon

\* decodeUCS2BE reads what was written as UCS-2.
LEMMA WideRead ==
  ASSUME NEW S, NEW id \in Seq(S)
  PROVE  Ucs2(Wide(id)) = id
  <1>1. PICK n \in Nat : n = Len(id)
    OBVIOUS
  <1>2. PICK w : w = Wide(id)
    OBVIOUS
  <1>3. w = [i \in 1..(2 * n) |-> IF i % 2 = 1 THEN "0x00" ELSE id[i \div 2]]
    BY <1>1, <1>2 DEF Wide
  <1>4. PICK T : T = S \cup {"0x00"}
    OBVIOUS
  <1>5. w \in [1..(2 * n) -> T]
    <2>1. ASSUME NEW i \in 1..(2 * n) PROVE (IF i % 2 = 1 THEN "0x00" ELSE id[i \div 2]) \in T
      <3>1. i % 2 = 1 \/ i \div 2 \in 1..n
        OBVIOUS
      <3> QED BY <1>1, <1>4, <3>1
    <2> QED BY <1>3, <2>1
  <1>6. Len(w) = 2 * n /\ (2 * n) \div 2 = n
    BY <1>1, <1>5
  <1>7. ASSUME NEW k \in 1..n
        PROVE  w[2 * k - 1] = "0x00" /\ w[2 * k] = id[k]
    <2>1. 2 * k - 1 \in 1..(2 * n) /\ 2 * k \in 1..(2 * n) /\ (2 * k - 1) % 2 = 1 /\ (2 * k) % 2 = 0 /\ (2 * k) \div 2 = k
      OBVIOUS
    <2> QED BY <1>3, <2>1
  <1>8. Ucs2(w) = [k \in 1..n |-> IF w[2 * k - 1] = "0x00" THEN w[2 * k] ELSE w[2 * k - 1] \o w[2 * k]]
    BY <1>6 DEF Ucs2
  <1>9. Ucs2(w) = [k \in 1..n |-> id[k]]
    BY <1>7, <1>8
  <1>10. id = [k \in 1..n |-> id[k]]
    BY <1>1
  <1> QED BY <1>2, <1>9, <1>10

\* A record without a Rock Ridge name is listed by the name its identifier stands for.
LEMMA NameShown ==
  ASSUME NEW f, f.name \in Seq(STRING), ~IsSpecial(f), StandsFor(f.id, f.name), NEW rr, ~rr.hasName
  PROVE  EffectiveName(f, rr) = f.name
  <1>1. f.id # Self /\ f.id # Parent
    BY DEF IsSpecial
  <1>2. Nameable(f.name)
    BY DEF StandsFor
  <1>3. CASE tree = "joliet"
    <2>1. PICK id \in Identifiers(f.name) : f.id = Wide(id)
      BY <1>3 DEF StandsFor
    <2>2. id \in Seq(Marks) /\ Unversioned(id) = f.name
      BY <1>2, IdentifierRead
    <2>3. Ucs2(f.id) = id
      BY <2>1, <2>2, WideRead
    <2>4. JolietName(f.id) = f.name
      BY <1>1, <2>2, <2>3 DEF JolietName
    <2> QED BY <1>3, <2>4 DEF EffectiveName
  <1>4. CASE tree # "joliet"
    <2>1. f.id \in Identifiers(f.name)
      BY <1>4 DEF StandsFor
    <2>2. Unversioned(f.id) = f.name
      BY <1>2, <2>1, IdentifierRead
    <2>3. CleanName(f.id) = f.name
      BY <1>1, <2>2 DEF CleanName
    <2> QED BY <1>4, <2>3 DEF EffectiveName
  <1> QED BY <1>3, <1>4

---------------------------------------------------------------------------
(* The areas a record was written to *)

\* What the first k of them say, and what the others do.
FirstOf(w, k) == FlattenSeq(SubSeq(w, 1, k))
RestOf(w, k) == FlattenSeq(SubSeq(w, k + 1, Len(w)))

\* A sequence is its first k elements and the others.
LEMMA SplitAt ==
  ASSUME NEW S, NEW w \in Seq(S), NEW k \in 0..Len(w)
  PROVE  /\ w = SubSeq(w, 1, k) \o SubSeq(w, k + 1, Len(w))
         /\ SubSeq(w, 1, k) \in Seq(S) /\ SubSeq(w, k + 1, Len(w)) \in Seq(S)
  <1>1. PICK p : p = SubSeq(w, 1, k)
    OBVIOUS
  <1>2. PICK r : r = SubSeq(w, k + 1, Len(w))
    OBVIOUS
  <1>3. p \in Seq(S) /\ Len(p) = k /\ \A i \in 1..k : p[i] = w[i]
    BY <1>1
  <1>4. r = SubSeq(w, Len(p) + 1, Len(w)) /\ Len(p) <= Len(w) /\ \A i \in 1..Len(p) : w[i] = p[i]
    BY <1>2, <1>3
  <1>5. w = p \o r /\ r \in Seq(S)
    BY <1>3, <1>4, BeginsWith
  <1> QED BY <1>1, <1>2, <1>3, <1>5

\* One more of its first elements.
LEMMA OneFurther ==
  ASSUME NEW S, NEW w \in Seq(S), NEW k \in 1..Len(w)
  PROVE  SubSeq(w, 1, k) = SubSeq(w, 1, k - 1) \o <<w[k]>>
  <1>1. PICK p : p = SubSeq(w, 1, k)
    OBVIOUS
  <1>2. PICK q : q = SubSeq(w, 1, k - 1)
    OBVIOUS
  <1>3. PICK e \in S : e = w[k]
    OBVIOUS
  <1>4. p \in Seq(S) /\ Len(p) = k /\ \A i \in 1..k : p[i] = w[i]
    BY <1>1
  <1>5. q \in Seq(S) /\ Len(q) = k - 1 /\ \A i \in 1..(k - 1) : q[i] = w[i]
    BY <1>2
  <1>6. PICK t : t = q \o <<e>>
    OBVIOUS
  <1>7. t \in Seq(S) /\ Len(t) = k /\ t[k] = e /\ \A i \in 1..(k - 1) : t[i] = q[i]
    BY <1>5, <1>6
  <1>8. \A i \in 1..k : p[i] = t[i]
    <2>1. \A i \in 1..k : i = k \/ i \in 1..(k - 1)
      OBVIOUS
    <2> QED BY <1>3, <1>4, <1>5, <1>7, <2>1
  <1>9. p = t
    BY <1>4, <1>7, <1>8, SameElements
  <1> QED BY <1>1, <1>2, <1>3, <1>6, <1>9

\* What the first k areas say goes on with what the others do, and with what the next does.
LEMMA FirstAndOthers ==
  ASSUME NEW S, NEW w \in Seq(Seq(S))
  PROVE  /\ FirstOf(w, 0) = << >> /\ FirstOf(w, Len(w)) = FlattenSeq(w)
         /\ \A k \in 0..Len(w) : /\ FirstOf(w, k) \in Seq(S) /\ RestOf(w, k) \in Seq(S)
                                 /\ FlattenSeq(w) = FirstOf(w, k) \o RestOf(w, k)
         /\ \A k \in 1..Len(w) : FirstOf(w, k) = FirstOf(w, k - 1) \o w[k]
  <1>1. PICK Q : Q = Seq(S)
    OBVIOUS
  <1>2. w \in Seq(Q)
    BY <1>1
  <1>3. ASSUME NEW k \in 0..Len(w)
        PROVE  /\ FirstOf(w, k) \in Seq(S) /\ RestOf(w, k) \in Seq(S)
               /\ FlattenSeq(w) = FirstOf(w, k) \o RestOf(w, k)
    <2>1. PICK p : p = SubSeq(w, 1, k)
      OBVIOUS
    <2>2. PICK r : r = SubSeq(w, k + 1, Len(w))
      OBVIOUS
    <2>3. w = p \o r /\ p \in Seq(Q) /\ r \in Seq(Q)
      BY <1>2, <2>1, <2>2, SplitAt
    <2>4. p \in Seq(Seq(S)) /\ r \in Seq(Seq(S))
      BY <1>1, <2>3, Zenon
    <2>5. /\ FlattenSeq(p \o r) = FlattenSeq(p) \o FlattenSeq(r)
          /\ FlattenSeq(p) \in Seq(S) /\ FlattenSeq(r) \in Seq(S)
      BY <2>4, FlattenJoin
    <2> QED BY <2>1, <2>2, <2>3, <2>5, Zenon DEF FirstOf, RestOf
  <1>4. ASSUME NEW k \in 1..Len(w)
        PROVE  FirstOf(w, k) = FirstOf(w, k - 1) \o w[k]
    <2>1. PICK p : p = SubSeq(w, 1, k - 1)
      OBVIOUS
    <2>2. PICK e : e = w[k]
      OBVIOUS
    <2>3. k - 1 \in 0..Len(w)
      BY <1>2
    <2>4. p \in Seq(Q) /\ e \in Q
      BY <1>2, <2>1, <2>2, <2>3, SplitAt
    <2>5. SubSeq(w, 1, k) = p \o <<e>>
      BY <1>2, <2>1, <2>2, OneFurther
    <2>6. <<e>> \in Seq(Q)
      BY <2>4, OneElement
    <2>7. p \in Seq(Seq(S)) /\ <<e>> \in Seq(Seq(S)) /\ e \in Seq(S)
      BY <1>1, <2>4, <2>6, Zenon
    <2>8. FlattenSeq(p \o <<e>>) = FlattenSeq(p) \o FlattenSeq(<<e>>)
      BY <2>7, FlattenJoin
    <2>9. FlattenSeq(<<e>>) = e
      BY <2>7, FlattenOne
    <2> QED BY <2>1, <2>2, <2>5, <2>8, <2>9, Zenon DEF FirstOf
  <1>5. SubSeq(w, 1, 0) = << >> /\ SubSeq(w, 1, Len(w)) = w
    BY <1>2
  <1> QED BY <1>3, <1>4, <1>5, FlattenNone DEF FirstOf

\* What was written can be written.
LEMMA WrittenTyped ==
  ASSUME NEW f \in FileRecord, Sound(f)
  PROVE  /\ f.written \in Seq(Seq(Entries))
         /\ Len(f.written) \in Nat /\ Len(f.written) \in 1..(MaxAreas + 1)
  <1>1. PICK w : w = f.written
    OBVIOUS
  <1>2. PICK R : R = SUSPEntry
    OBVIOUS
  <1>3. PICK T : T = Entries
    OBVIOUS
  <1>4. w \in Seq(Seq(R))
    BY <1>1, <1>2 DEF FileRecord
  <1>5. Len(w) \in 1..(MaxAreas + 1) /\ \A k \in 1..Len(w) : \A i \in 1..Len(w[k]) : Writable(w[k][i])
    BY <1>1, Zenon DEF Sound
  <1>6. \A e \in R : Writable(e) => e \in T
    BY <1>2, <1>3, Zenon DEF Entries
  <1>7. ASSUME NEW k \in 1..Len(w) PROVE w[k] \in Seq(T)
    <2>1. w[k] \in Seq(R)
      BY <1>4
    <2>2. \A i \in 1..Len(w[k]) : w[k][i] \in T
      BY <1>5, <1>6, <2>1
    <2> QED BY <2>1, <2>2
  <1>8. w \in Seq(Seq(T))
    <2>1. PICK Q : Q = Seq(T)
      OBVIOUS
    <2>2. PICK P : P = Seq(R)
      OBVIOUS
    <2>3. w \in Seq(P) /\ \A k \in 1..Len(w) : w[k] \in Q
      BY <1>4, <1>7, <2>1, <2>2
    <2>4. w \in Seq(Q)
      BY <2>3
    <2> QED BY <2>1, <2>4
  <1>9. Len(w) \in Nat
    BY <1>4
  <1> QED BY <1>1, <1>3, <1>5, <1>8, <1>9

\* The byte that pads the k-th area, and that only the last may have one.
Pad(f, k) == IF AreaAt(f, k) = Bytewise(f.written[k]) THEN << >> ELSE << 0 >>

\* An area of a sound record is what was written to it, and its padding.
LEMMA AreaWritten ==
  ASSUME NEW f, Sound(f), Aligned(f), NEW k \in 1..Len(f.written), Len(f.written) \in Nat,
         Bytewise(f.written[k]) \in ByteString
  PROVE  /\ AreaAt(f, k) = Bytewise(f.written[k]) \o Pad(f, k)
         /\ Pad(f, k) \in {<< >>, << 0 >>}
         /\ k < Len(f.written) => Pad(f, k) = << >> /\ AreaAt(f, k) = Bytewise(f.written[k])
  <1>1. PICK b : b = Bytewise(f.written[k])
    OBVIOUS
  <1>2. PICK a : a = AreaAt(f, k)
    OBVIOUS
  <1>3. a = b \/ a = b \o << 0 >>
    BY <1>1, <1>2, Zenon DEF Sound
  <1>4. b \in Seq(Octet)
    BY <1>1, Octets
  <1>5. b \o << >> = b
    BY <1>4, NothingAdded
  <1>6. Pad(f, k) = IF a = b THEN << >> ELSE << 0 >>
    BY <1>1, <1>2, Zenon DEF Pad
  <1>7. k < Len(f.written) => a = b
    <2>1. k < Len(f.written) => k \in 1..(Len(f.written) - 1)
      OBVIOUS
    <2> QED BY <1>1, <1>2, <2>1, Zenon DEF Aligned
  <1>8. a = b \o (IF a = b THEN << >> ELSE << 0 >>)
    BY <1>3, <1>5, Zenon
  <1>9. (IF a = b THEN << >> ELSE << 0 >>) \in {<< >>, << 0 >>}
    BY Zenon
  <1> QED BY <1>1, <1>2, <1>6, <1>7, <1>8, <1>9, Zenon

\* The area behind an area, and that it is looked for.
LEMMA AreaLeads ==
  ASSUME NEW f \in FileRecord, Sound(f), Aligned(f), blockSize \in Nat, NEW k \in 1..Len(f.written)
  PROVE  /\ k < Len(f.written) => /\ Goes(AreaAt(f, k), blockSize) /\ Held(AreaAt(f, k), blockSize)
                                  /\ NextArea(AreaAt(f, k), blockSize) = AreaAt(f, k + 1)
         /\ k = Len(f.written) => ~Goes(AreaAt(f, k), blockSize)
  <1>1. PICK es : es = f.written[k]
    OBVIOUS
  <1>2. f.written \in Seq(Seq(Entries)) /\ Len(f.written) \in Nat
    BY WrittenTyped
  <1>3. es \in Seq(Entries)
    <2>1. PICK Q : Q = Seq(Entries)
      OBVIOUS
    <2>2. f.written \in Seq(Q)
      BY <1>2, <2>1
    <2> QED BY <1>1, <2>1, <2>2
  <1>4. Bytewise(es) \in ByteString
    BY <1>3, Shortest, BytewiseJoin
  <1>5. PICK pad \in {<< >>, << 0 >>} : AreaAt(f, k) = Bytewise(es) \o pad
    BY <1>1, <1>2, <1>4, AreaWritten, Zenon
  <1>6. PICK a : a = AreaAt(f, k)
    OBVIOUS
  <1>7. PICK ce : ce = CEEntry(a)
    OBVIOUS
  <1>8. /\ With(es, CE) = << >> => ce.length = 0
        /\ With(es, CE) # << >> => ce = [block |-> CEOf(es).block, offset |-> CEOf(es).offset, length |-> CEOf(es).length]
                                   /\ CEOf(es).block \in Nat /\ CEOf(es).offset \in Nat /\ CEOf(es).length \in Nat
    <2>1. ce = CEEntry(Bytewise(es) \o pad)
      BY <1>5, <1>6, <1>7
    <2> QED BY <1>3, <2>1, ContinuationRead, Zenon
  <1>9. CASE k < Len(f.written)
    <2>1. Leads(es)
      BY <1>1, <1>9, Zenon DEF Sound
    <2>2. Len(With(es, CE)) = 1 /\ CEOf(es).length \in 1..blockSize /\ InImage(CEOf(es))
      BY <2>1, Zenon DEF Leads
    <2>3. With(es, CE) # << >>
      <3>1. PICK ws : ws = With(es, CE)
        OBVIOUS
      <3>2. Len(ws) = 1
        BY <2>2, <3>1
      <3>3. ws # << >>
        BY <3>2
      <3> QED BY <3>1, <3>3
    <2>4. PICK x : x = CEOf(es)
      OBVIOUS
    <2>5. ce = [block |-> x.block, offset |-> x.offset, length |-> x.length] /\ x.length \in 1..blockSize /\ InImage(x)
      BY <1>8, <2>2, <2>3, <2>4, Zenon
    <2>6. ce.block = x.block /\ ce.offset = x.offset /\ ce.length = x.length
      BY <2>5
    <2>7. Goes(a, blockSize)
      BY <1>7, <2>5, <2>6 DEF Goes
    <2>8. Begins(a, blockSize) = Offset(x)
      BY <1>7, <2>6 DEF Begins, Offset
    <2>9. Held(a, blockSize)
      BY <1>7, <2>5, <2>6, <2>8, Zenon DEF Held, InImage
    <2>10. NextArea(a, blockSize) = Area(x)
      BY <1>7, <2>6, <2>8, <2>9, Zenon DEF NextArea, Area
    <2>11. AreaAt(f, k + 1) = Area(x)
      <3>1. k + 1 # 1 /\ (k + 1) - 1 = k
        OBVIOUS
      <3> QED BY <1>1, <2>4, <3>1, Zenon DEF AreaAt
    <2>12. k # Len(f.written)
      BY <1>2, <1>9
    <2> QED BY <1>6, <2>7, <2>9, <2>10, <2>11, <2>12, Zenon
  <1>10. CASE k = Len(f.written)
    <2>1. ~(k < Len(f.written))
      BY <1>2, <1>10
    <2>2. With(es, CE) = << >>
      BY <1>1, <2>1, Zenon DEF Sound
    <2>3. ce.length = 0
      BY <1>8, <2>2, Zenon
    <2>4. ~Goes(a, blockSize)
      BY <1>7, <2>3, Zenon DEF Goes
    <2> QED BY <1>6, <2>1, <2>4, Zenon
  <1>11. k < Len(f.written) \/ k = Len(f.written)
    BY <1>2
  <1> QED BY <1>9, <1>10, <1>11, Zenon

\* The skip of the opening is the one the root was mastered to say.
LEMMA LeadIs ==
  ASSUME IInv, OpenTypes, SkipKept, pc = "opened", err = "nil", LeadWritten
  PROVE  suspSkip = Lead
  <1>1. PICK d \in Descriptor : d = Root
    BY PvdIsADescriptor DEF Root, IInv, TreeByPrecedence
  <1>2. PICK es : es = RootEntries
    OBVIOUS
  <1>3. es \in Seq(Entries)
    <2>1. PICK R : R = SUSPEntry
      OBVIOUS
    <2>2. es \in Seq(R)
      <3>1. CASE Dots(d) = << >> \/ Dots(d)[1].written = << >>
        <4>1. es = << >>
          BY <1>1, <1>2, <3>1, Zenon DEF RootEntries
        <4> QED BY <4>1
      <3>2. CASE ~(Dots(d) = << >> \/ Dots(d)[1].written = << >>)
        <4>1. es = Dots(d)[1].written[1]
          BY <1>1, <1>2, <3>2, Zenon DEF RootEntries
        <4>2. Dots(d)[1] \in FileRecord
          BY <3>2, DotsTyped, Zenon
        <4>3. PICK Q : Q = Seq(R)
          OBVIOUS
        <4>4. PICK w : w = Dots(d)[1].written
          OBVIOUS
        <4>5. w \in Seq(Q) /\ w # << >>
          BY <2>1, <3>2, <4>2, <4>3, <4>4 DEF FileRecord
        <4>6. Len(w) \in Nat /\ Len(w) # 0
          BY <4>5, EmptySequence
        <4> QED BY <4>1, <4>3, <4>4, <4>5, <4>6
      <3> QED BY <3>1, <3>2
    <2>3. \A i \in 1..Len(es) : Writable(es[i])
      BY <1>2, Zenon DEF LeadWritten
    <2>4. PICK T : T = Entries
      OBVIOUS
    <2>5. \A e \in R : Writable(e) => e \in T
      BY <2>1, <2>4, Zenon DEF Entries
    <2>6. \A i \in 1..Len(es) : es[i] \in T
      BY <2>2, <2>3, <2>5
    <2> QED BY <2>2, <2>4, <2>6
  <1>4. PICK sps : sps = With(es, SP)
    OBVIOUS
  <1>5. Lead = IF sps = << >> THEN 0 ELSE sps[1].data[3]
    BY <1>2, <1>4, Zenon DEF Lead
  <1>6. Dots(d) = << >> => sps = << >>
    <2>1. Dots(d) = << >> => es = << >>
      BY <1>1, <1>2, Zenon DEF RootEntries
    <2>2. With(<< >>, SP) = << >>
      BY WithOne
    <2> QED BY <1>4, <2>1, <2>2, Zenon
  <1>7. SUSPOf(d) = IF sps = << >> THEN [skip |-> 0, found |-> FALSE] ELSE [skip |-> sps[1].data[3], found |-> TRUE]
    <2>1. CASE Dots(d) = << >>
      BY <1>6, <2>1, Zenon DEF SUSPOf
    <2>2. CASE Dots(d) # << >>
      <3>1. PICK a : a = Dots(d)[1].sua
        OBVIOUS
      <3>2. a = Bytewise(es) \/ a = Bytewise(es) \o << 0 >>
        BY <1>1, <1>2, <2>2, <3>1, Zenon DEF LeadWritten
      <3>3. Bytewise(es) = Bytewise(es) \o << >>
        <4>1. PICK b : b = Bytewise(es)
          OBVIOUS
        <4>2. b \in Seq(Octet)
          BY <1>3, <4>1, BytewiseJoin, Shortest, Octets, Zenon
        <4> QED BY <4>1, <4>2, NothingAdded
      <3>4. PICK pad \in {<< >>, << 0 >>} : a = Bytewise(es) \o pad
        BY <3>2, <3>3, Zenon
      <3>5. SUSPOf(d) = DetectSUSPSkip(a)
        BY <2>2, <3>1, Zenon DEF SUSPOf
      <3> QED BY <1>3, <1>4, <3>4, <3>5, SkipRead, Zenon
    <2> QED BY <2>1, <2>2
  <1>8. CASE tree = "rockRidge"
    <2>1. d = image[pvd]
      BY <1>1, <1>8 DEF Root
    <2>2. SUSPOf(d).found /\ suspSkip = SUSPOf(d).skip
      BY <1>8, <2>1 DEF IInv, TreeByPrecedence, SkipKept
    <2>3. sps # << >>
      <3>1. CASE sps = << >>
        <4>1. SUSPOf(d) = [skip |-> 0, found |-> FALSE]
          BY <1>7, <3>1, Zenon
        <4> QED BY <2>2, <4>1
      <3> QED BY <3>1
    <2>4. PICK x : x = sps[1].data[3]
      OBVIOUS
    <2>5. SUSPOf(d) = [skip |-> x, found |-> TRUE]
      BY <1>7, <2>3, <2>4, Zenon
    <2>6. suspSkip = x
      BY <2>2, <2>5
    <2> QED BY <1>5, <2>3, <2>4, <2>6, Zenon
  <1>9. CASE tree # "rockRidge"
    <2>1. suspSkip = 0
      BY <1>9 DEF SkipKept
    <2>2. sps = << >>
      <3>1. CASE tree = "joliet"
        BY <1>2, <1>4, <3>1, Zenon DEF LeadWritten
      <3>2. CASE tree # "joliet"
        <4>1. d = image[pvd]
          BY <1>1, <3>2 DEF Root
        <4>2. ~SUSPOf(d).found
          BY <1>9, <4>1 DEF IInv, TreeByPrecedence
        <4>3. CASE sps # << >>
          <5>1. PICK x : x = sps[1].data[3]
            OBVIOUS
          <5>2. SUSPOf(d) = [skip |-> x, found |-> TRUE]
            BY <1>7, <4>3, <5>1, Zenon
          <5> QED BY <4>2, <5>2
        <4> QED BY <4>3
      <3> QED BY <3>1, <3>2
    <2> QED BY <1>5, <2>1, <2>2, Zenon
  <1> QED BY <1>8, <1>9

\* The chain collectSUSP follows is the areas, one after another.
LEMMA ChainWritten ==
  ASSUME NEW f \in FileRecord, Sound(f), Aligned(f), blockSize \in Nat, suspSkip \in Nat, suspSkip = Lead
  PROVE  /\ \A k \in 0..(Len(f.written) - 1) : Chain(AreaOf(f, suspSkip), blockSize)[k] = AreaAt(f, k + 1)
         /\ \A k \in 0..(Len(f.written) - 2) : /\ Goes(Chain(AreaOf(f, suspSkip), blockSize)[k], blockSize)
                                               /\ Held(Chain(AreaOf(f, suspSkip), blockSize)[k], blockSize)
         /\ ~Goes(Chain(AreaOf(f, suspSkip), blockSize)[Len(f.written) - 1], blockSize)
  <1>1. PICK n \in Nat : n = Len(f.written) /\ n >= 1 /\ n - 1 <= MaxAreas
    <2>1. Len(f.written) \in Nat /\ Len(f.written) \in 1..(MaxAreas + 1)
      BY WrittenTyped
    <2>2. MaxAreas \in Nat
      BY ListingAssumption, Zenon
    <2> QED BY <2>1, <2>2
  <1>2. PICK m \in Nat : m = MaxAreas
    BY ListingAssumption, Zenon
  <1>3. PICK a \in ByteString : a = AreaOf(f, suspSkip)
    BY AreaOfTyped
  <1>4. PICK c : c = Chain(a, blockSize)
    OBVIOUS
  <1>5. c[0] = a /\ \A k \in 1..m : c[k] = NextArea(c[k - 1], blockSize)
    <2>1. /\ Chain(a, blockSize)[0] = a
          /\ \A k \in 1..MaxAreas : Chain(a, blockSize)[k] = NextArea(Chain(a, blockSize)[k - 1], blockSize)
      BY ChainIs
    <2> QED BY <1>2, <1>4, <2>1, Zenon
  <1>6. /\ \A k \in 1..n : k < n => /\ Goes(AreaAt(f, k), blockSize) /\ Held(AreaAt(f, k), blockSize)
                                    /\ NextArea(AreaAt(f, k), blockSize) = AreaAt(f, k + 1)
        /\ ~Goes(AreaAt(f, n), blockSize)
    <2>1. n \in 1..n
      BY <1>1
    <2> QED BY <1>1, <2>1, AreaLeads, Zenon
  <1>7. PICK G : G = {k \in 0..(n - 1) : c[k] = AreaAt(f, k + 1)}
    OBVIOUS
  <1>8. 0 \in G
    <2>1. 0 \in 0..(n - 1) /\ 0 + 1 = 1
      BY <1>1
    <2>2. AreaAt(f, 1) = a
      BY <1>3, Zenon DEF AreaAt, AreaOf
    <2> QED BY <1>5, <1>7, <2>1, <2>2
  <1>9. \A k \in 1..(n - 1) : k - 1 \in G => k \in G
    <2> TAKE k \in 1..(n - 1)
    <2> HAVE k - 1 \in G
    <2>1. k \in 1..m /\ k \in 1..n /\ k < n /\ k \in 0..(n - 1) /\ (k - 1) + 1 = k
      BY <1>1, <1>2
    <2>2. c[k - 1] = AreaAt(f, k)
      BY <1>7, <2>1
    <2>3. c[k] = AreaAt(f, k + 1)
      BY <1>5, <1>6, <2>1, <2>2, Zenon
    <2> QED BY <1>7, <2>1, <2>3
  <1>10. \A k \in 0..(n - 1) : c[k] = AreaAt(f, k + 1)
    <2>1. n - 1 \in Nat
      BY <1>1
    <2>2. \A k \in 0..(n - 1) : k \in G
      BY <1>8, <1>9, <2>1, InductionTo
    <2> QED BY <1>7, <2>2
  <1>11. \A k \in 0..(n - 2) : Goes(c[k], blockSize) /\ Held(c[k], blockSize)
    <2> TAKE k \in 0..(n - 2)
    <2>1. k \in 0..(n - 1) /\ k + 1 \in 1..n /\ k + 1 < n
      BY <1>1
    <2> QED BY <1>6, <1>10, <2>1, Zenon
  <1>12. ~Goes(c[n - 1], blockSize)
    <2>1. n - 1 \in 0..(n - 1) /\ (n - 1) + 1 = n
      BY <1>1
    <2>2. c[n - 1] = AreaAt(f, n)
      BY <1>10, <2>1
    <2> QED BY <1>6, <2>2
  <1> QED BY <1>1, <1>3, <1>4, <1>10, <1>11, <1>12, Zenon

\* All they hold, up to one of them, is what was written to them.
LEMMA UpToWritten ==
  ASSUME NEW f \in FileRecord, Sound(f), Aligned(f), blockSize \in Nat, suspSkip \in Nat, suspSkip = Lead
  PROVE  \A k \in 0..(Len(f.written) - 1) : \E pad \in {<< >>, << 0 >>} :
           UpTo(AreaOf(f, suspSkip), blockSize)[k] = Bytewise(FirstOf(f.written, k + 1)) \o pad
  <1>1. PICK n \in Nat : n = Len(f.written) /\ n >= 1 /\ n - 1 <= MaxAreas
    <2>1. Len(f.written) \in Nat /\ Len(f.written) \in 1..(MaxAreas + 1)
      BY WrittenTyped
    <2>2. MaxAreas \in Nat
      BY ListingAssumption, Zenon
    <2> QED BY <2>1, <2>2
  <1>2. PICK m \in Nat : m = MaxAreas
    BY ListingAssumption, Zenon
  <1>3. PICK a \in ByteString : a = AreaOf(f, suspSkip)
    BY AreaOfTyped
  <1>4. PICK u : u = UpTo(a, blockSize)
    OBVIOUS
  <1>5. PICK c : c = Chain(a, blockSize)
    OBVIOUS
  <1>6. u[0] = a /\ \A k \in 1..m : u[k] = u[k - 1] \o c[k]
    <2>1. /\ UpTo(a, blockSize)[0] = a
          /\ \A k \in 1..MaxAreas : UpTo(a, blockSize)[k] = UpTo(a, blockSize)[k - 1] \o Chain(a, blockSize)[k]
      BY UpToIs
    <2> QED BY <1>2, <1>4, <1>5, <2>1, Zenon
  <1>7. PICK w \in Seq(Seq(Entries)) : w = f.written
    BY WrittenTyped
  <1>8. \A k \in 1..n : w[k] \in Seq(Entries)
    <2>1. PICK Q : Q = Seq(Entries)
      OBVIOUS
    <2>2. w \in Seq(Q)
      BY <1>7, <2>1
    <2> QED BY <1>1, <1>7, <2>1, <2>2
  <1>9. \A k \in 1..n : /\ AreaAt(f, k) = Bytewise(w[k]) \o Pad(f, k) /\ Pad(f, k) \in {<< >>, << 0 >>}
                        /\ k < n => AreaAt(f, k) = Bytewise(w[k])
    <2> TAKE k \in 1..n
    <2>1. Bytewise(w[k]) \in ByteString
      BY <1>8, Shortest, BytewiseJoin
    <2>2. k \in 1..Len(f.written) /\ Len(f.written) \in Nat
      BY <1>1
    <2> QED BY <1>1, <1>7, <2>1, <2>2, AreaWritten, Zenon
  <1>10. \A k \in 0..(n - 1) : c[k] = AreaAt(f, k + 1)
    BY <1>1, <1>3, <1>5, ChainWritten, Zenon
  <1>11. /\ FirstOf(w, 0) = << >>
         /\ \A k \in 0..n : FirstOf(w, k) \in Seq(Entries)
         /\ \A k \in 1..n : FirstOf(w, k) = FirstOf(w, k - 1) \o w[k]
    BY <1>1, <1>7, FirstAndOthers, Zenon
  <1>12. PICK G : G = {k \in 0..(n - 1) : /\ u[k] = Bytewise(FirstOf(w, k + 1)) \o Pad(f, k + 1)
                                          /\ k < n - 1 => u[k] = Bytewise(FirstOf(w, k + 1))}
    OBVIOUS
  <1>13. 0 \in G
    <2>1. 0 \in 0..(n - 1) /\ 0 + 1 = 1 /\ 1 \in 1..n /\ 1 - 1 = 0 /\ (0 < n - 1 <=> 1 < n)
      BY <1>1
    <2>2. FirstOf(w, 1) = << >> \o w[1] /\ w[1] \in Seq(Entries)
      BY <1>8, <1>11, <2>1
    <2>3. FirstOf(w, 1) = w[1]
      BY <2>2, NothingAdded
    <2>4. AreaAt(f, 1) = a
      BY <1>3, Zenon DEF AreaAt, AreaOf
    <2>5. a = Bytewise(w[1]) \o Pad(f, 1) /\ (1 < n => a = Bytewise(w[1]))
      BY <1>9, <2>1, <2>4, Zenon
    <2> QED BY <1>6, <1>12, <2>1, <2>3, <2>5
  <1>14. \A k \in 1..(n - 1) : k - 1 \in G => k \in G
    <2> TAKE k \in 1..(n - 1)
    <2> HAVE k - 1 \in G
    <2>1. k \in 1..m /\ k \in 1..n /\ k < n /\ k \in 0..n /\ k \in 0..(n - 1) /\ (k - 1) + 1 = k /\ k - 1 < n - 1
          /\ k + 1 \in 1..n /\ (k + 1) - 1 = k /\ (k + 1 < n <=> k < n - 1)
      BY <1>1, <1>2
    <2>2. u[k - 1] = Bytewise(FirstOf(w, k))
      BY <1>12, <2>1
    <2>3. u[k] = u[k - 1] \o c[k] /\ c[k] = AreaAt(f, k + 1)
      BY <1>6, <1>10, <2>1, Zenon
    <2>4. PICK x \in Seq(Entries) : x = FirstOf(w, k)
      BY <1>11, <2>1
    <2>5. PICK y \in Seq(Entries) : y = w[k + 1]
      BY <1>8, <2>1
    <2>6. FirstOf(w, k + 1) = x \o y
      BY <1>11, <2>1, <2>4, <2>5, Zenon
    <2>7. /\ Bytewise(x \o y) = Bytewise(x) \o Bytewise(y)
          /\ Bytewise(x) \in ByteString /\ Bytewise(y) \in ByteString
      BY BytewiseJoin
    <2>8. PICK pad \in {<< >>, << 0 >>} : pad = Pad(f, k + 1)
      BY <1>9, <2>1
    <2>9. AreaAt(f, k + 1) = Bytewise(y) \o pad /\ (k + 1 < n => AreaAt(f, k + 1) = Bytewise(y))
      BY <1>9, <2>1, <2>5, <2>8, Zenon
    <2>10. Bytewise(x) \o (Bytewise(y) \o pad) = (Bytewise(x) \o Bytewise(y)) \o pad
      <3>1. PICK B : B = Octet
        OBVIOUS
      <3>2. pad \in ByteString
        BY Padding
      <3>3. PICK p : p = Bytewise(x)
        OBVIOUS
      <3>4. PICK q : q = Bytewise(y)
        OBVIOUS
      <3>5. p \in Seq(B) /\ q \in Seq(B) /\ pad \in Seq(B)
        BY <2>7, <3>1, <3>2, <3>3, <3>4, Octets, Zenon
      <3>6. (p \o q) \o pad = p \o (q \o pad)
        BY <3>5, JoinAgain, SMTT(30)
      <3> QED BY <3>3, <3>4, <3>6, Zenon
    <2>11. u[k] = Bytewise(x \o y) \o pad /\ (k + 1 < n => u[k] = Bytewise(x \o y))
      BY <2>2, <2>3, <2>4, <2>7, <2>9, <2>10, Zenon
    <2> QED BY <1>12, <2>1, <2>6, <2>8, <2>11
  <1>15. \A k \in 0..(n - 1) : k \in G
    <2>1. n - 1 \in Nat
      BY <1>1
    <2> QED BY <1>13, <1>14, <2>1, InductionTo
  <1>16. \A k \in 0..(n - 1) : Pad(f, k + 1) \in {<< >>, << 0 >>}
    <2> TAKE k \in 0..(n - 1)
    <2>1. k + 1 \in 1..n
      BY <1>1
    <2> QED BY <1>9, <2>1, Zenon
  <1>17. \A k \in 0..(n - 1) : u[k] = Bytewise(FirstOf(w, k + 1)) \o Pad(f, k + 1)
    BY <1>12, <1>15, Zenon
  <1> QED BY <1>1, <1>3, <1>4, <1>7, <1>16, <1>17, Zenon

---------------------------------------------------------------------------
(* What the areas of a record say together *)

\* The characters text is made of.
CharOf(x) ==
  IF \E i \in 1..Len(Codes) : Codes[i] = x
  THEN Alphabet[CHOOSE i \in 1..Len(Codes) : Codes[i] = x]
  ELSE ToString(x)
Chars == {CharOf(x) : x \in Octet}

\* The text of bytes is made of characters.
LEMMA TextTyped ==
  ASSUME NEW bytes \in ByteString
  PROVE  Text(bytes) \in Seq(Chars)
  <1>1. PICK B : B = Octet
    OBVIOUS
  <1>2. PICK T : T = Chars
    OBVIOUS
  <1>3. bytes \in Seq(B) /\ \A x \in B : CharOf(x) \in T
    BY <1>1, <1>2, Octets, Zenon DEF Chars
  <1>4. PICK n \in Nat : n = Len(bytes)
    BY <1>3
  <1>5. Text(bytes) = [k \in 1..n |-> CharOf(bytes[k])]
    BY <1>4, Zenon DEF Text, CharOf
  <1>6. \A k \in 1..n : CharOf(bytes[k]) \in T
    BY <1>3, <1>4
  <1>7. [k \in 1..n |-> CharOf(bytes[k])] \in [1..n -> T]
    BY <1>6, Zenon
  <1>8. Text(bytes) \in [1..n -> T]
    BY <1>5, <1>7
  <1> QED BY <1>2, <1>8, FunctionIsSequence

\* The entries of one signature, of a list and of one put behind another.
OfSig(sig) == {e \in Entries : e.sig = sig}

\* They are found in their order, whatever other entries stand between them.
LEMMA WithOfSig ==
  ASSUME NEW a \in Seq(Entries), NEW b \in Seq(Entries), NEW sig
  PROVE  /\ With(a, sig) \in Seq(OfSig(sig)) /\ With(b, sig) \in Seq(OfSig(sig))
         /\ With(a \o b, sig) = With(a, sig) \o With(b, sig)
  <1>1. PICK S : S = Entries
    OBVIOUS
  <1>2. PICK T : T = OfSig(sig)
    OBVIOUS
  <1>3. \A es \in Seq(S) : With(es, sig) \in Seq(T)
    <2> TAKE es \in Seq(S)
    <2>1. PICK ws : ws = With(es, sig)
      OBVIOUS
    <2>2. ws \in Seq(S) /\ \A i \in 1..Len(ws) : ws[i] \in Entries /\ ws[i].sig = sig
      BY <1>1, <2>1, WithTyped, Zenon
    <2>3. \A i \in 1..Len(ws) : ws[i] \in T
      BY <1>2, <2>2, Zenon DEF OfSig
    <2> QED BY <2>1, <2>2, <2>3
  <1>4. With(a \o b, sig) = With(a, sig) \o With(b, sig)
    BY WithJoin
  <1> QED BY <1>1, <1>2, <1>3, <1>4, Zenon

\* What entries say is put together as they are.
Texts == [e \in OfSig(NM) |-> Text(e.bytes)]

\* The texts of NM entries are joined in the order of the entries.
LEMMA TextsJoin ==
  ASSUME NEW x \in Seq(OfSig(NM)), NEW y \in Seq(OfSig(NM))
  PROVE  Over(x \o y, Texts) = Over(x, Texts) \o Over(y, Texts) /\ Over(x, Texts) \in Seq(Chars)
  <1>1. PICK S : S = OfSig(NM)
    OBVIOUS
  <1>2. PICK T : T = Chars
    OBVIOUS
  <1>3. \A e \in S : Text(e.bytes) \in Seq(T)
    <2> TAKE e \in S
    <2>1. e \in SUSPEntry /\ e.sig = NM
      BY <1>1, Zenon DEF OfSig, Entries
    <2>2. e.bytes \in ByteString
      BY <2>1, EntryKinds
    <2> QED BY <1>2, <2>2, TextTyped
  <1>4. PICK g : g = Texts
    OBVIOUS
  <1>5. g \in [S -> Seq(T)]
    BY <1>1, <1>3, <1>4 DEF Texts
  <1>6. x \in Seq(S) /\ y \in Seq(S)
    BY <1>1
  <1>7. Over(x \o y, g) = Over(x, g) \o Over(y, g) /\ Over(x, g) \in Seq(T)
    BY <1>5, <1>6, OverJoin
  <1> QED BY <1>2, <1>4, <1>7

\* A name is the texts of the NM entries.
LEMMA SaidNameIs ==
  ASSUME NEW es, With(es, NM) \in Seq(OfSig(NM))
  PROVE  SaidName(es) = Over(With(es, NM), Texts)
  <1>1. PICK ws \in Seq(OfSig(NM)) : ws = With(es, NM)
    OBVIOUS
  <1>2. PICK n : n = Len(ws)
    OBVIOUS
  <1>3. \A i \in 1..n : Texts[ws[i]] = Text(ws[i].bytes)
    BY <1>1, <1>2 DEF Texts
  <1>4. [i \in 1..n |-> Text(ws[i].bytes)] = [i \in 1..n |-> Texts[ws[i]]]
    BY <1>3, Zenon
  <1> QED BY <1>1, <1>2, <1>4, Zenon DEF SaidName, Over

\* The name that entries say begins with the one the first of them do.
LEMMA NameJoin ==
  ASSUME NEW a \in Seq(Entries), NEW b \in Seq(Entries)
  PROVE  /\ SaidName(a \o b) = SaidName(a) \o SaidName(b)
         /\ SaidName(a) \in Seq(Chars) /\ SaidName(b) \in Seq(Chars)
  <1>1. /\ With(a, NM) \in Seq(OfSig(NM)) /\ With(b, NM) \in Seq(OfSig(NM))
        /\ With(a \o b, NM) = With(a, NM) \o With(b, NM)
    BY WithOfSig
  <1>2. With(a \o b, NM) \in Seq(OfSig(NM))
    BY <1>1, Joined
  <1>3. /\ SaidName(a) = Over(With(a, NM), Texts) /\ SaidName(b) = Over(With(b, NM), Texts)
        /\ SaidName(a \o b) = Over(With(a, NM) \o With(b, NM), Texts)
    BY <1>1, <1>2, SaidNameIs, Zenon
  <1>4. /\ Over(With(a, NM) \o With(b, NM), Texts) = Over(With(a, NM), Texts) \o Over(With(b, NM), Texts)
        /\ Over(With(a, NM), Texts) \in Seq(Chars)
    BY <1>1, TextsJoin
  <1>5. Over(With(b, NM), Texts) \in Seq(Chars)
    BY <1>1, TextsJoin
  <1> QED BY <1>3, <1>4, <1>5, Zenon

\* The components that can be decoded, each for itself.
Heard == {Said[c] : c \in Components8}

\* Components that can be written can be decoded.
LEMMA DecodedTyped ==
  ASSUME NEW cs \in Seq(Components8)
  PROVE  Decoded(cs) \in Seq(Heard)
  <1>1. PICK S : S = Components8
    OBVIOUS
  <1>2. PICK Q : Q = Heard
    OBVIOUS
  <1>3. PICK g : g = Said
    OBVIOUS
  <1>4. g \in [S -> Q]
    <2>1. PICK v : v = [c \in S |-> [flags |-> c.flags, text |-> Text(c.bytes)]]
      OBVIOUS
    <2>2. g = v
      BY <1>1, <1>3, <2>1, Zenon DEF Said
    <2>3. Q = {v[c] : c \in S}
      BY <1>1, <1>2, <1>3, <2>2, Zenon DEF Heard
    <2> QED BY <2>1, <2>2, <2>3
  <1>5. cs \in Seq(S)
    BY <1>1
  <1>6. Each(cs, g) \in Seq(Q)
    BY <1>4, <1>5, EachJoin
  <1> QED BY <1>2, <1>3, <1>6, DecodedIs, Zenon

Parties == [e \in OfSig(SL) |-> Decoded(e.comps)]

\* The components of SL entries are joined in the order of the entries.
LEMMA PartiesJoin ==
  ASSUME NEW x \in Seq(OfSig(SL)), NEW y \in Seq(OfSig(SL))
  PROVE  Over(x \o y, Parties) = Over(x, Parties) \o Over(y, Parties) /\ Over(x, Parties) \in Seq(Heard)
  <1>1. PICK S : S = OfSig(SL)
    OBVIOUS
  <1>2. PICK T : T = Heard
    OBVIOUS
  <1>3. \A e \in S : Decoded(e.comps) \in Seq(T)
    <2> TAKE e \in S
    <2>1. e \in Entries /\ e.sig = SL
      BY <1>1, Zenon DEF OfSig
    <2>2. e.comps \in Seq(Components8)
      BY <2>1, LinkPayload
    <2> QED BY <1>2, <2>2, DecodedTyped
  <1>4. PICK g : g = Parties
    OBVIOUS
  <1>5. g \in [S -> Seq(T)]
    BY <1>1, <1>3, <1>4 DEF Parties
  <1>6. x \in Seq(S) /\ y \in Seq(S)
    BY <1>1
  <1>7. Over(x \o y, g) = Over(x, g) \o Over(y, g) /\ Over(x, g) \in Seq(T)
    BY <1>5, <1>6, OverJoin
  <1> QED BY <1>2, <1>4, <1>7

\* A link is the components of the SL entries.
LEMMA SaidLinkIs ==
  ASSUME NEW es, With(es, SL) \in Seq(OfSig(SL))
  PROVE  SaidLink(es) = Over(With(es, SL), Parties)
  <1>1. PICK ws \in Seq(OfSig(SL)) : ws = With(es, SL)
    OBVIOUS
  <1>2. PICK n : n = Len(ws)
    OBVIOUS
  <1>3. \A i \in 1..n : Parties[ws[i]] = Decoded(ws[i].comps)
    BY <1>1, <1>2 DEF Parties
  <1>4. [i \in 1..n |-> Decoded(ws[i].comps)] = [i \in 1..n |-> Parties[ws[i]]]
    BY <1>3, Zenon
  <1> QED BY <1>1, <1>2, <1>4, Zenon DEF SaidLink, Over

\* The link that entries say begins with the one the first of them do.
LEMMA LinkJoin ==
  ASSUME NEW a \in Seq(Entries), NEW b \in Seq(Entries)
  PROVE  /\ SaidLink(a \o b) = SaidLink(a) \o SaidLink(b)
         /\ SaidLink(a) \in Seq(Heard) /\ SaidLink(b) \in Seq(Heard)
  <1>1. /\ With(a, SL) \in Seq(OfSig(SL)) /\ With(b, SL) \in Seq(OfSig(SL))
        /\ With(a \o b, SL) = With(a, SL) \o With(b, SL)
    BY WithOfSig
  <1>2. With(a \o b, SL) \in Seq(OfSig(SL))
    BY <1>1, Joined
  <1>3. /\ SaidLink(a) = Over(With(a, SL), Parties) /\ SaidLink(b) = Over(With(b, SL), Parties)
        /\ SaidLink(a \o b) = Over(With(a, SL) \o With(b, SL), Parties)
    BY <1>1, <1>2, SaidLinkIs, Zenon
  <1>4. /\ Over(With(a, SL) \o With(b, SL), Parties) = Over(With(a, SL), Parties) \o Over(With(b, SL), Parties)
        /\ Over(With(a, SL), Parties) \in Seq(Heard)
    BY <1>1, PartiesJoin
  <1>5. Over(With(b, SL), Parties) \in Seq(Heard)
    BY <1>1, PartiesJoin
  <1> QED BY <1>3, <1>4, <1>5, Zenon

\* The parts of a sequence hold what it holds.
LEMMA PartsHold ==
  ASSUME NEW S, NEW T, NEW a \in Seq(S), NEW b \in Seq(S), a \o b \in Seq(T)
  PROVE  a \in Seq(T) /\ b \in Seq(T)
  <1>1. PICK s \in Seq(T) : s = a \o b
    OBVIOUS
  <1>2. /\ Len(s) = Len(a) + Len(b)
        /\ \A i \in 1..Len(a) : s[i] = a[i]
        /\ \A i \in 1..Len(b) : s[Len(a) + i] = b[i]
    BY <1>1, Joined
  <1>3. \A i \in 1..Len(a) : a[i] \in T
    <2> TAKE i \in 1..Len(a)
    <2>1. i \in 1..Len(s)
      BY <1>2
    <2>2. s[i] \in T
      BY <1>1, <2>1
    <2> QED BY <1>2, <2>2
  <1>4. \A i \in 1..Len(b) : b[i] \in T
    <2> TAKE i \in 1..Len(b)
    <2>1. Len(a) + i \in 1..Len(s)
      BY <1>2
    <2>2. s[Len(a) + i] \in T
      BY <1>1, <2>1
    <2> QED BY <1>2, <2>2
  <1> QED BY <1>3, <1>4

\* What something is put behind is the beginning of all of it.
LEMMA BeginningOf ==
  ASSUME NEW S, NEW a \in Seq(S), NEW b \in Seq(S)
  PROVE  IsPrefix(a, a \o b)
  <1>1. PICK s : s = a \o b
    OBVIOUS
  <1>2. Len(a) \in Nat /\ Len(s) = Len(a) + Len(b) /\ Len(b) \in Nat
    BY <1>1
  <1>3. SubSeq(s, 1, Len(a)) = a /\ SubSeq(a, 1, Len(a)) = a
    BY <1>1, TakenApart
  <1>4. Len(a) <= Len(s)
    BY <1>2
  <1> QED BY <1>1, <1>3, <1>4, Zenon DEF IsPrefix

---------------------------------------------------------------------------
(* What is shown of a sound record *)

\* How many areas rr was read from: all of them, unless it is cut.
LEMMA AreasGathered ==
  ASSUME NEW f \in FileRecord, Sound(f), Aligned(f), blockSize \in Nat, suspSkip \in Nat, suspSkip = Lead,
         NEW k \in 0..MaxAreas, NEW rr, NEW cut, Gathers(AreaOf(f, suspSkip), blockSize, k, rr, cut)
  PROVE  /\ k + 1 \in 1..Len(f.written)
         /\ ~cut => k + 1 = Len(f.written)
         /\ \E pad \in {<< >>, << 0 >>} : rr = ParseRockRidge(Bytewise(FirstOf(f.written, k + 1)) \o pad)
  <1>1. PICK n \in Nat : n = Len(f.written) /\ n >= 1 /\ n - 1 <= MaxAreas
    <2>1. Len(f.written) \in Nat /\ Len(f.written) \in 1..(MaxAreas + 1)
      BY WrittenTyped
    <2>2. MaxAreas \in Nat
      BY ListingAssumption, Zenon
    <2> QED BY <2>1, <2>2
  <1>2. PICK m \in Nat : m = MaxAreas
    BY ListingAssumption, Zenon
  <1>3. PICK c : c = Chain(AreaOf(f, suspSkip), blockSize)
    OBVIOUS
  <1>4. /\ \A j \in 0..(n - 2) : Goes(c[j], blockSize)
        /\ ~Goes(c[n - 1], blockSize)
    BY <1>1, <1>3, ChainWritten, Zenon
  <1>5. /\ rr = ParseRockRidge(UpTo(AreaOf(f, suspSkip), blockSize)[k])
        /\ \A j \in 0..(k - 1) : Goes(c[j], blockSize)
        /\ IF cut THEN k < m /\ Goes(c[k], blockSize) ELSE k = m \/ ~Goes(c[k], blockSize)
    BY <1>2, <1>3, Zenon DEF Gathers
  <1>6. k \in Nat /\ k <= m
    BY <1>2
  <1>7. k <= n - 1
    <2>1. CASE n - 1 < k
      <3>1. n - 1 \in 0..(k - 1)
        BY <1>1, <1>6, <2>1
      <3> QED BY <1>4, <1>5, <3>1
    <2> QED BY <1>1, <1>6, <2>1
  <1>8. ~cut => k = n - 1
    <2>1. CASE ~cut /\ k < n - 1
      <3>1. k \in 0..(n - 2) /\ k # m
        BY <1>1, <1>2, <1>6, <2>1
      <3> QED BY <1>4, <1>5, <2>1, <3>1
    <2> QED BY <1>1, <1>6, <1>7, <2>1
  <1>9. k \in 0..(Len(f.written) - 1)
    BY <1>1, <1>6, <1>7
  <1>10. PICK pad \in {<< >>, << 0 >>} :
           UpTo(AreaOf(f, suspSkip), blockSize)[k] = Bytewise(FirstOf(f.written, k + 1)) \o pad
    BY <1>9, UpToWritten, Zenon
  <1>11. rr = ParseRockRidge(Bytewise(FirstOf(f.written, k + 1)) \o pad)
    BY <1>5, <1>10, Zenon
  <1>12. k + 1 \in 1..Len(f.written) /\ (~cut => k + 1 = Len(f.written))
    BY <1>1, <1>6, <1>7, <1>8
  <1> QED BY <1>11, <1>12, Zenon

\* A link that can be spelled.
LEMMA SpellableIs ==
  ASSUME NEW link, Spellable(link)
  PROVE  Wellformed(link) /\ (Len(link) \in 1..Len(link) => link[Len(link)].flags # 1)
  BY Zenon DEF Spellable, Wellformed

\* The link of a record is in what its entries say, a part of it in a part of them.
LEMMA LinkOfParts ==
  ASSUME NEW x \in Seq(Entries), NEW y \in Seq(Entries), NEW link \in Seq(LinkPart),
         SaidLink(x \o y) = link, Spellable(link)
  PROVE  /\ SaidLink(x) \in Seq(LinkPart) /\ SaidLink(y) \in Seq(LinkPart)
         /\ link = SaidLink(x) \o SaidLink(y)
         /\ Wellformed(SaidLink(x))
  <1>1. PICK p : p = SaidLink(x)
    OBVIOUS
  <1>2. PICK q : q = SaidLink(y)
    OBVIOUS
  <1>3. p \in Seq(Heard) /\ q \in Seq(Heard) /\ link = p \o q
    BY <1>1, <1>2, LinkJoin, Zenon
  <1>4. p \in Seq(LinkPart) /\ q \in Seq(LinkPart)
    <2>1. PICK S : S = Heard
      OBVIOUS
    <2>2. PICK T : T = LinkPart
      OBVIOUS
    <2>3. p \in Seq(S) /\ q \in Seq(S) /\ p \o q \in Seq(T)
      BY <1>3, <2>1, <2>2
    <2>4. p \in Seq(T) /\ q \in Seq(T)
      BY <2>3, PartsHold
    <2> QED BY <2>2, <2>4
  <1>5. Wellformed(p)
    <2>1. Wellformed(link)
      BY SpellableIs, Zenon
    <2>2. Len(link) = Len(p) + Len(q) /\ (\A i \in 1..Len(p) : link[i] = p[i])
          /\ Len(p) \in Nat /\ Len(q) \in Nat
      BY <1>3, <1>4, Joined
    <2>3. \A i \in 1..Len(p) : i \in 1..Len(link) /\ link[i] = p[i]
      BY <2>2
    <2> QED BY <2>1, <2>3, Zenon DEF Wellformed
  <1> QED BY <1>1, <1>2, <1>3, <1>4, <1>5

\* A record whose areas were all read is shown as it was mastered.
LEMMA WholeShown ==
  ASSUME NEW f \in FileRecord, ~IsSpecial(f), Sound(f), NEW pad \in {<< >>, << 0 >>}, NEW rr,
         rr = ParseRockRidge(Bytewise(FlattenSeq(f.written)) \o pad)
  PROVE  EffectiveName(f, rr) = f.name /\ rr.symlink = Spelled(f.link) /\ rr.mode = f.mode
  <1>1. PICK all : all = FlattenSeq(f.written)
    OBVIOUS
  <1>2. all \in Seq(Entries)
    <2>1. PICK S : S = Entries
      OBVIOUS
    <2>2. PICK w : w = f.written
      OBVIOUS
    <2>3. w \in Seq(Seq(S))
      BY <2>1, <2>2, WrittenTyped
    <2>4. Len(w) \in 0..Len(w)
      BY <2>3
    <2>5. FirstOf(w, Len(w)) = FlattenSeq(w) /\ FirstOf(w, Len(w)) \in Seq(S)
      BY <2>3, <2>4, FirstAndOthers, Zenon
    <2> QED BY <1>1, <2>1, <2>2, <2>5
  <1>3. /\ rr.hasName <=> With(all, NM) # << >>
        /\ rr.name = SaidName(all) /\ rr.mode = SaidMode(all) /\ rr.symlink = Target(SaidLink(all))
    BY <1>1, <1>2, RockRidgeRead, Zenon
  <1>4. /\ IF With(all, NM) = << >> THEN StandsFor(f.id, f.name) ELSE SaidName(all) = f.name
        /\ SaidLink(all) = f.link /\ Spellable(f.link) /\ SaidMode(all) = f.mode
    BY <1>1, Zenon DEF Sound
  <1>5. f.name \in Seq(STRING) /\ f.link \in Seq(LinkPart)
    BY DEF FileRecord
  <1>6. EffectiveName(f, rr) = f.name
    <2>1. CASE With(all, NM) = << >>
      <3>1. StandsFor(f.id, f.name) /\ ~rr.hasName
        BY <1>3, <1>4, <2>1, Zenon
      <3> QED BY <1>5, <3>1, NameShown
    <2>2. CASE With(all, NM) # << >>
      BY <1>3, <1>4, <2>2, Zenon DEF EffectiveName
    <2> QED BY <2>1, <2>2
  <1>7. Target(f.link) = Spelled(f.link)
    <2>1. PICK link : link = f.link
      OBVIOUS
    <2>2. link \in Seq(LinkPart) /\ Wellformed(link) /\ (Len(link) \in 1..Len(link) => link[Len(link)].flags # 1)
      BY <1>4, <1>5, <2>1, SpellableIs, Zenon
    <2>3. link = << >> \/ Len(link) \in 1..Len(link)
      BY <2>2, EmptySequence
    <2>4. link = << >> \/ link[Len(link)].flags # 1
      BY <2>2, <2>3
    <2>5. /\ \E r \in Seq(Character) : /\ Spelled(link) = Target(link) \o r
                                       /\ link = << >> \/ link[Len(link)].flags # 1 => r = << >>
          /\ Target(link) \in Seq(Character)
      BY <2>2, TargetSpelled
    <2>6. Spelled(link) = Target(link) \o << >>
      BY <2>4, <2>5, Zenon
    <2>7. Target(link) \o << >> = Target(link)
      BY <2>5, NothingAdded
    <2> QED BY <2>1, <2>6, <2>7
  <1> QED BY <1>3, <1>4, <1>6, <1>7, Zenon

\* A record some of whose areas were read shows the beginning of it.
LEMMA PartShown ==
  ASSUME NEW f \in FileRecord, Sound(f), NEW k \in 1..Len(f.written), NEW pad \in {<< >>, << 0 >>}, NEW rr,
         rr = ParseRockRidge(Bytewise(FirstOf(f.written, k)) \o pad)
  PROVE  /\ rr.hasName => IsPrefix(EffectiveName(f, rr), f.name)
         /\ IsPrefix(rr.symlink, Spelled(f.link))
  <1>1. PICK x : x = FirstOf(f.written, k)
    OBVIOUS
  <1>2. PICK y : y = RestOf(f.written, k)
    OBVIOUS
  <1>3. x \in Seq(Entries) /\ y \in Seq(Entries) /\ FlattenSeq(f.written) = x \o y
    <2>1. PICK S : S = Entries
      OBVIOUS
    <2>2. PICK w : w = f.written
      OBVIOUS
    <2>3. w \in Seq(Seq(S))
      BY <2>1, <2>2, WrittenTyped
    <2>4. k \in 0..Len(w)
      BY <2>2, <2>3
    <2>5. FirstOf(w, k) \in Seq(S) /\ RestOf(w, k) \in Seq(S) /\ FlattenSeq(w) = FirstOf(w, k) \o RestOf(w, k)
      BY <2>3, <2>4, FirstAndOthers, Zenon
    <2> QED BY <1>1, <1>2, <2>1, <2>2, <2>5
  <1>4. /\ rr.hasName <=> With(x, NM) # << >>
        /\ rr.name = SaidName(x) /\ rr.symlink = Target(SaidLink(x))
    BY <1>1, <1>3, RockRidgeRead, Zenon
  <1>5. /\ With(x \o y, NM) # << >> => SaidName(x \o y) = f.name
        /\ SaidLink(x \o y) = f.link /\ Spellable(f.link)
    BY <1>3, Zenon DEF Sound
  <1>6. f.link \in Seq(LinkPart)
    BY DEF FileRecord
  <1>7. rr.hasName => IsPrefix(EffectiveName(f, rr), f.name)
    <2> SUFFICES ASSUME rr.hasName PROVE IsPrefix(EffectiveName(f, rr), f.name)
      OBVIOUS
    <2>1. EffectiveName(f, rr) = SaidName(x)
      BY <1>4, Zenon DEF EffectiveName
    <2>2. With(x \o y, NM) # << >>
      <3>1. PICK a : a = With(x, NM)
        OBVIOUS
      <3>2. PICK b : b = With(y, NM)
        OBVIOUS
      <3>3. a \in Seq(OfSig(NM)) /\ b \in Seq(OfSig(NM)) /\ With(x \o y, NM) = a \o b
        BY <1>3, <3>1, <3>2, WithOfSig, Zenon
      <3>4. a # << >>
        BY <1>4, <3>1
      <3>5. a \o b # << >>
        BY <3>3, <3>4
      <3> QED BY <3>3, <3>5
    <2>3. f.name = SaidName(x) \o SaidName(y) /\ SaidName(x) \in Seq(Chars) /\ SaidName(y) \in Seq(Chars)
      BY <1>3, <1>5, <2>2, NameJoin, Zenon
    <2>4. PICK p \in Seq(Chars) : p = SaidName(x)
      BY <2>3
    <2>5. PICK q \in Seq(Chars) : q = SaidName(y)
      BY <2>3
    <2>6. IsPrefix(p, p \o q)
      BY BeginningOf
    <2> QED BY <2>1, <2>3, <2>4, <2>5, <2>6, Zenon
  <1>8. IsPrefix(rr.symlink, Spelled(f.link))
    <2>1. PICK p : p = SaidLink(x)
      OBVIOUS
    <2>2. PICK q : q = SaidLink(y)
      OBVIOUS
    <2>3. p \in Seq(LinkPart) /\ q \in Seq(LinkPart) /\ f.link = p \o q /\ Wellformed(p)
      <3>1. PICK link \in Seq(LinkPart) : link = f.link
        BY <1>6
      <3>2. SaidLink(x \o y) = link /\ Spellable(link)
        BY <1>5, <3>1
      <3>3. /\ SaidLink(x) \in Seq(LinkPart) /\ SaidLink(y) \in Seq(LinkPart)
            /\ link = SaidLink(x) \o SaidLink(y)
            /\ Wellformed(SaidLink(x))
        BY <1>3, <3>2, LinkOfParts
      <3> QED BY <2>1, <2>2, <3>1, <3>3
    <2>4. /\ \E r \in Seq(Character) : /\ Spelled(p) = Target(p) \o r
                                       /\ p = << >> \/ p[Len(p)].flags # 1 => r = << >>
          /\ Target(p) \in Seq(Character)
      BY <2>3, TargetSpelled
    <2>5. PICK r \in Seq(Character) : Spelled(p) = Target(p) \o r
      BY <2>4, Zenon
    <2>6. PICK s \in Seq(Character) : Spelled(p \o q) = Spelled(p) \o s
      BY <2>3, SpelledJoin
    <2>7. PICK t \in Seq(Character) : t = Target(p)
      BY <2>4
    <2>8. (t \o r) \o s = t \o (r \o s) /\ r \o s \in Seq(Character)
      <3>1. PICK C : C = Character
        OBVIOUS
      <3>2. t \in Seq(C) /\ r \in Seq(C) /\ s \in Seq(C)
        BY <3>1
      <3>3. (t \o r) \o s = t \o (r \o s)
        BY <3>2, JoinAgain, SMTT(60)
      <3>4. r \o s \in Seq(C)
        BY <3>2, Joined
      <3> QED BY <3>1, <3>3, <3>4
    <2>9. IsPrefix(t, t \o (r \o s))
      BY <2>8, BeginningOf
    <2>10. rr.symlink = t
      BY <1>4, <2>1, <2>7
    <2>11. Spelled(f.link) = t \o (r \o s)
      BY <2>3, <2>5, <2>6, <2>7, <2>8, Zenon
    <2> QED BY <2>9, <2>10, <2>11, Zenon
  <1> QED BY <1>7, <1>8

\* A listed entry shows the record of its place, as far as its areas could be followed.
LEMMA ListedShows ==
  ASSUME IInv, OpenTypes, LInv, NEW i \in 1..Len(listed), NEW f, f = Files[i]
  PROVE  /\ f \in FileRecord /\ ~IsSpecial(f)
         /\ listed[i].name = EffectiveName(f, listed[i].rr)
         /\ \E k \in 0..MaxAreas : Gathers(AreaOf(f, suspSkip), blockSize, k, listed[i].rr, listed[i].cut)
  <1>1. PICK n \in Nat : n = Len(listed)
    BY DEF LInv, ListRanges
  <1>2. n <= Len(Files) /\ pc = "opened"
    BY <1>1 DEF LInv, ListRanges, Counted
  <1>3. Len(Files) \in Nat /\ i \in 1..Len(Files)
    BY <1>1, <1>2, FilesTyped
  <1>4. f \in FileRecord /\ ~IsSpecial(f)
    BY <1>2, <1>3, FilesTyped
  <1>5. Shows(listed[i], f, tree, suspSkip, blockSize)
    BY DEF LInv, AllShown
  <1>6. NameIn(tree, f, listed[i].rr) = EffectiveName(f, listed[i].rr)
    BY DEF NameIn, EffectiveName
  <1> QED BY <1>4, <1>5, <1>6, Zenon DEF Shows

\* What is listed of a sound record is the whole of it, or the beginning.
LEMMA ListedOfSound ==
  ASSUME IInv, OpenTypes, SkipKept, LInv, err = "nil", NEW i \in 1..Len(listed), NEW f, f = Files[i],
         Sound(f), Aligned(f), NEW e, e = listed[i]
  PROVE  /\ ~e.cut => Attributes(e) = Mastered(f)
         /\ IsPrefix(e.name, f.name) \/ ~e.rr.hasName
         /\ IsPrefix(e.rr.symlink, Spelled(f.link))
  <1>1. f \in FileRecord /\ ~IsSpecial(f) /\ e.name = EffectiveName(f, e.rr)
    BY ListedShows, Zenon
  <1>2. PICK k \in 0..MaxAreas : Gathers(AreaOf(f, suspSkip), blockSize, k, e.rr, e.cut)
    BY ListedShows, Zenon
  <1>3. PICK rr : rr = e.rr
    OBVIOUS
  <1>4. PICK cut : cut = e.cut
    OBVIOUS
  <1>5. Gathers(AreaOf(f, suspSkip), blockSize, k, rr, cut)
    BY <1>2, <1>3, <1>4, Zenon
  <1>6. suspSkip \in Nat /\ blockSize \in Nat
    BY DEF OpenTypes
  <1>7. /\ k + 1 \in 1..Len(f.written)
        /\ ~cut => k + 1 = Len(f.written)
        /\ \E pad \in {<< >>, << 0 >>} : rr = ParseRockRidge(Bytewise(FirstOf(f.written, k + 1)) \o pad)
    <2>1. f \in FileRecord /\ suspSkip \in Nat /\ blockSize \in Nat /\ suspSkip = Lead
      <3>1. pc = "opened"
        BY DEF LInv, ListRanges, Counted
      <3> QED BY <1>1, <1>6, <3>1, LeadIs, Zenon DEF Sound
    <2> HIDE DEF Sound, Aligned, Lead
    <2> QED BY <1>5, <2>1, AreasGathered
  <1>8. PICK pad \in {<< >>, << 0 >>} : rr = ParseRockRidge(Bytewise(FirstOf(f.written, k + 1)) \o pad)
    BY <1>7, Zenon
  <1>9. /\ rr.hasName => IsPrefix(EffectiveName(f, rr), f.name)
        /\ IsPrefix(rr.symlink, Spelled(f.link))
    <2>1. PICK l \in 1..Len(f.written) : l = k + 1
      BY <1>7
    <2>2. rr = ParseRockRidge(Bytewise(FirstOf(f.written, l)) \o pad)
      BY <1>8, <2>1
    <2> QED BY <1>1, <2>2, PartShown, Zenon
  <1>10. ~cut => Attributes(e) = Mastered(f)
    <2> SUFFICES ASSUME ~cut PROVE Attributes(e) = Mastered(f)
      OBVIOUS
    <2>1. FirstOf(f.written, k + 1) = FlattenSeq(f.written)
      <3>1. PICK S : S = Entries
        OBVIOUS
      <3>2. PICK w : w = f.written
        OBVIOUS
      <3>3. w \in Seq(Seq(S))
        BY <1>1, <3>1, <3>2, WrittenTyped
      <3>4. FirstOf(w, Len(w)) = FlattenSeq(w)
        BY <3>3, FirstAndOthers
      <3> QED BY <1>7, <3>2, <3>4
    <2>2. rr = ParseRockRidge(Bytewise(FlattenSeq(f.written)) \o pad)
      BY <1>8, <2>1, Zenon
    <2>3. EffectiveName(f, rr) = f.name /\ rr.symlink = Spelled(f.link) /\ rr.mode = f.mode
      BY <1>1, <2>2, WholeShown, Zenon
    <2> QED BY <1>1, <1>3, <2>3, Zenon DEF Attributes, Mastered
  <1> QED BY <1>1, <1>3, <1>4, <1>9, <1>10, Zenon

---------------------------------------------------------------------------
(* What follows from it *)

\* The invariant implies the acceptance of exactly the complete sets.
LEMMA IInvOpensExactlyVolumes == IInv => OpensExactlyVolumes
  BY DEF IInv, Ranges, Verdict, OpensExactlyVolumes

\* The invariant implies that the last descriptors of their kinds were taken.
LEMMA IInvPicksOneDescriptor == IInv => PicksOneDescriptor
  <1> SUFFICES ASSUME IInv, pc = "opened" PROVE PicksOneDescriptor
    BY DEF PicksOneDescriptor
  <1> DEFINE k == CHOOSE k \in 1..Len(image) : TerminatedAt(k)
  <1>1. sector \in 1..Len(image) /\ TerminatedAt(sector)
    BY DEF IInv, Ranges, Verdict
  <1>2. k \in 1..Len(image) /\ TerminatedAt(k)
    BY <1>1
  <1>3. k = sector
    BY <1>1, <1>2, OneTerminator
  <1> HIDE DEF k
  <1>4. pvd # 0
    BY <1>1 DEF IInv, PvdIsLast, TerminatedAt, IsPrimary
  <1>5. pvd = LastOf(sector, LAMBDA d : d.type = "primary")
    <2> DEFINE hits == {j \in 1..(sector - 1) : image[j].type = "primary"}
    <2>1. pvd \in hits /\ \A i \in hits : i <= pvd
      BY <1>4 DEF IInv, PvdIsLast, IsPrimary
    <2>2. \A j \in hits : (\A i \in hits : i <= j) => j = pvd
      BY <2>1 DEF IInv, Ranges
    <2>3. (CHOOSE j \in hits : \A i \in hits : i <= j) = pvd
      BY <2>1, <2>2
    <2> QED BY <2>1, <2>3 DEF LastOf
  <1>6. joliet = LastOf(sector, LAMBDA d : d.type = "joliet" /\ d.root # "corrupt")
    <2> DEFINE hits == {j \in 1..(sector - 1) : image[j].type = "joliet" /\ image[j].root # "corrupt"}
    <2>1. CASE joliet = 0
      <3>1. hits = {}
        BY <2>1 DEF IInv, JolietIsLast, HasJolietRoot, Ranges
      <3> QED BY <2>1, <3>1 DEF LastOf
    <2>2. CASE joliet # 0
      <3>1. joliet \in hits /\ \A i \in hits : i <= joliet
        BY <2>2 DEF IInv, JolietIsLast, HasJolietRoot
      <3>2. \A j \in hits : (\A i \in hits : i <= j) => j = joliet
        BY <3>1 DEF IInv, Ranges
      <3>3. (CHOOSE j \in hits : \A i \in hits : i <= j) = joliet
        BY <3>1, <3>2
      <3> QED BY <3>1, <3>3 DEF LastOf
    <2> QED BY <2>1, <2>2
  <1>7. blockSize = IF image[pvd].blockSize = 0 THEN SectorSize ELSE image[pvd].blockSize
    BY <1>4 DEF IInv, BlockSizeOfPvd, EffectiveBlockSize
  <1> QED BY <1>3, <1>5, <1>6, <1>7 DEF PicksOneDescriptor, k

---------------------------------------------------------------------------
(* The theorems *)

\* A listing leaves the opening as it is: it implements it, with stuttering steps.
LEMMA ListingImplementsOpening == ListSpec => Init /\ [][Next]_vars
  <1>1. ListInit => Init
    BY DEF ListInit
  <1>2. [ListNext]_<<vars, listVars>> => [Next]_vars
    BY DEF ListNext, ListStep, ListDir, BeginEntry, FollowArea, EndOfAreas, AreaUnreadable,
           ListedAll, Reading
  <1> QED BY <1>1, <1>2, PTL DEF ListSpec

\* The skip is kept throughout.
LEMMA SkipInductive == ListSpec => []SkipKept
  <1>1. Init => SkipKept
    BY DEF Init, SkipKept
  <1> QED BY <1>1, SkipStays, ListingImplementsOpening, PTL

\* The invariant of the opening holds throughout.
LEMMA Inductive == Init /\ [][Next]_vars => []IInv
  BY InitHolds, StepHolds, PTL

(* readVolume opens exactly the images with a complete descriptor set, for *)
(* every set of images, every bound of the scan and every fault.           *)
THEOREM ExactlyVolumesOpen == ListSpec => []OpensExactlyVolumes
  BY ListingImplementsOpening, Inductive, IInvOpensExactlyVolumes, PTL

(* readVolume takes the roots and the block size from the last descriptor  *)
(* of each kind, and the block size is never zero.                         *)
THEOREM OneDescriptorPicked == ListSpec => []PicksOneDescriptor
  BY ListingImplementsOpening, Inductive, IInvPicksOneDescriptor, PTL

(* chooseTree takes Rock Ridge before Joliet before the base tree, and     *)
(* leaves a Rock Ridge tree only for a read error.                         *)
THEOREM TreeChosenByPrecedence == ListSpec => []TreeByPrecedence
  <1>1. IInv => TreeByPrecedence
    BY DEF IInv
  <1> QED BY <1>1, ListingImplementsOpening, Inductive, PTL

(* OpenFile leaks no file, and Open and OpenReader close none of their     *)
(* caller's, whichever step fails.                                         *)
THEOREM FileReleased == ListSpec => []FailureReleasesTheFile
  <1>1. IInv => FailureReleasesTheFile
    BY DEF IInv, HandleKept
  <1> QED BY <1>1, ListingImplementsOpening, Inductive, PTL

(* Every variable of the opening and of ListDir keeps its type: the bytes  *)
(* to skip are a byte, the mode a uint16, and collectSUSP reads no more    *)
(* areas than its bound, whatever the image holds and whichever read fails. *)
THEOREM ListingTyped == ListSpec => []ListTypeOK
  <1>1. IInv /\ OpenTypes /\ LInv => ListTypeOK
    <2> SUFFICES ASSUME IInv, OpenTypes, LInv PROVE ListTypeOK
      OBVIOUS
    <2>1. TypeOK
      BY OpenTypesAreTypes
    <2>2. PICK n \in Nat : n = Len(listed)
      BY DEF LInv, ListRanges
    <2>3. ASSUME NEW i \in 1..n
          PROVE  listed[i].rr.mode \in 0..(2^16 - 1) /\ listed[i].isDir \in BOOLEAN
      <3>1. stage # "idle" /\ stage # "failed" /\ n <= Len(Files) /\ pc = "opened"
        BY <2>2, <2>3 DEF LInv, ListRanges, Counted
      <3>2. PICK f \in FileRecord : f = Files[i]
        BY <2>3, <3>1, FilesTyped
      <3>3. Shows(listed[i], f, tree, suspSkip, blockSize)
        BY <2>2, <2>3, <3>2 DEF LInv, AllShown
      <3>4. PICK a \in ByteString : a = AreaOf(f, suspSkip)
        BY AreaOfTyped DEF OpenTypes
      <3>5. PICK k \in 0..MaxAreas : listed[i].rr = ParseRockRidge(UpTo(a, blockSize)[k])
        BY <3>3, <3>4 DEF Shows, Gathers
      <3>6. UpTo(a, blockSize)[k] \in ByteString
        BY UpToIs DEF OpenTypes
      <3>7. PICK x : x = listed[i].rr.mode
        OBVIOUS
      <3>8. x \in Nat /\ x <= 65535
        BY <3>5, <3>6, <3>7, ModeTyped
      <3>9. x \in 0..(2^16 - 1)
        BY <3>8
      <3>10. listed[i].isDir \in BOOLEAN
        BY <3>2, <3>3 DEF Shows, FileRecord
      <3> QED BY <3>7, <3>9, <3>10
    <2>4. \A area \in {susp, cur} : \A i \in 1..Len(area) : area[i] \in 0..255
      <3> TAKE area \in {susp, cur}
      <3>1. area \in ByteString
        BY DEF LInv, ListRanges
      <3>2. \A i \in 1..Len(area) : area[i] \in Nat /\ area[i] <= 255
        BY <3>1, BytesAre
      <3> QED BY <3>2, ByteRange
    <2>5. areas \in 0..MaxAreas
      BY ListingAssumption DEF LInv, ListRanges
    <2>6. stage # "idle" => pc = "opened" /\ (stage # "failed" => Len(listed) <= Len(Files))
      BY DEF LInv, ListRanges, Counted
    <2>7. stage \in {"idle", "entry", "follow", "done", "failed"}
      BY DEF LInv, ListRanges
    <2> HIDE DEF TypeOK
    <2>8. \A i \in 1..Len(listed) : listed[i].rr.mode \in 0..(2^16 - 1) /\ listed[i].isDir \in BOOLEAN
      BY <2>2, <2>3, Zenon
    <2> QED BY <2>1, <2>4, <2>5, <2>6, <2>7, <2>8, Zenon DEF ListTypeOK
  <1> QED BY <1>1, ListInductive, PTL

(* ListDir lists every record of the root but "." and ".." once and in     *)
(* order, with its own place and kind, and all of them when it returns,    *)
(* also if continuation areas cannot be read or the image is closed.       *)
THEOREM EveryRecordIsListed == ListSpec => []ListedInOrder
  <1>1. LInv => ListedInOrder
    BY DEF LInv, Counted, AllShown, Shows, ListedInOrder
  <1> QED BY <1>1, ListInductive, PTL

(* rrFor takes nothing over from another record: the name, target and mode *)
(* shown are those of the record's own areas, in their order, as far as    *)
(* they could be followed.                                                 *)
THEOREM AttributesAreTheRecords == ListSpec => []ShowsOwnAreas
  <1>1. LInv => ShowsOwnAreas
    <2> SUFFICES ASSUME LInv, NEW i \in 1..Len(listed)
                 PROVE  /\ listed[i].name = EffectiveName(Files[i], listed[i].rr)
                        /\ \E k \in 0..MaxAreas :
                             Gathers(SystemUse(Files[i]), blockSize, k, listed[i].rr, listed[i].cut)
      BY DEF ShowsOwnAreas
    <2>1. PICK f : f = Files[i]
      OBVIOUS
    <2>2. Shows(listed[i], f, tree, suspSkip, blockSize)
      BY <2>1 DEF LInv, AllShown
    <2>3. AreaOf(f, suspSkip) = SystemUse(f) /\ NameIn(tree, f, listed[i].rr) = EffectiveName(f, listed[i].rr)
      BY DEF AreaOf, SystemUse, NameIn, EffectiveName
    <2> HIDE DEF Gathers
    <2> QED BY <2>1, <2>2, <2>3 DEF Shows
  <1> QED BY <1>1, ListInductive, PTL

(* Whatever entries a name, a link and a mode are made of, and however     *)
(* many areas they are spread over, ListDir puts them together again: the  *)
(* bytes are parsed, the areas followed and the parts joined in order.     *)
THEOREM ShownAsItWasMastered == ListSpec => []ListsAsMastered
  <1>1. IInv /\ OpenTypes /\ SkipKept /\ LInv => ListsAsMastered
    <2> SUFFICES ASSUME IInv, OpenTypes, SkipKept, LInv PROVE ListsAsMastered
      OBVIOUS
    <2>1. ListedInOrder
      BY DEF LInv, Counted, AllShown, Shows, ListedInOrder
    <2>2. ASSUME err = "nil", NEW i \in 1..Len(listed), NEW f \in {Files[i]}, Aligned(f), Sound(f), ~listed[i].cut
          PROVE  Attributes(listed[i]) = Mastered(f)
      BY <2>2, ListedOfSound
    <2> HIDE DEF ListedInOrder
    <2> QED BY <2>1, <2>2, Zenon DEF ListsAsMastered, ShownAsMastered
  <1> QED BY <1>1, ListInductive, SkipInductive, PTL

(* If a read of an area fails, rrFor shows what it has: a beginning of the *)
(* name and of the target, and never parts of others.                      *)
THEOREM CutIsABeginning == ListSpec => []ShortenedAtWorst
  <1>1. IInv /\ OpenTypes /\ SkipKept /\ LInv => ShortenedAtWorst
    <2> SUFFICES ASSUME IInv, OpenTypes, SkipKept, LInv PROVE ShortenedAtWorst
      OBVIOUS
    <2>1. ASSUME err = "nil", NEW i \in 1..Len(listed), NEW f \in {Files[i]}, Aligned(f), Sound(f)
          PROVE  /\ IsPrefix(listed[i].name, f.name) \/ ~listed[i].rr.hasName
                 /\ IsPrefix(listed[i].rr.symlink, Spelled(f.link))
      BY <2>1, ListedOfSound
    <2> QED BY <2>1, Zenon DEF ShortenedAtWorst
  <1> QED BY <1>1, ListInductive, SkipInductive, PTL
=============================================================================
