-------------------------- MODULE ReadFileProofs ---------------------------
(***************************************************************************)
(* The safety of ReadFile, for every record, image and declared size.      *)
(***************************************************************************)
EXTENDS ReadFile, ImageLemmas, TLAPS

StartsInOrder(n) == \A i, j \in 1..n : i <= j => start[i] <= start[j]

\* Validated(n): the first n extents passed the checks of the loop.
Validated(n) == \A i \in 1..n : Exts[i].size > 0 => ~OutOfBounds(Exts[i])

Validating ==
  pc = "validate" =>
    /\ covered = start[next] /\ covered <= rec.size
    /\ StartsInOrder(next)
    /\ Validated(next - 1)

(* While it reads, what validation established of all the extents; the     *)
(* output is as long as the extents read so far and within its capacity,   *)
(* which was reserved at once or has room for what was appended.           *)
Reading ==
  pc = "read" =>
    /\ covered = start[Len(Exts) + 1] /\ covered <= rec.size
    /\ SizeUnknown => covered = rec.size
    /\ StartsInOrder(Len(Exts) + 1)
    /\ Validated(Len(Exts))
    /\ Len(data) = start[next] + done
    /\ next <= Len(Exts) => done <= Exts[next].size
    /\ next = Len(Exts) + 1 => done = 0
    /\ SizeUnknown => cap >= Len(data)
    /\ ~SizeUnknown => cap = rec.size

Unread ==
  pc \in {"start", "validate"} =>
    data = NoBytes /\ cap = 0 /\ asked = 0 /\ done = 0 /\ next \in Nat

Slice == \A k \in 1..Len(data) : IsByte(Exts, start, k - 1, data[k])

Accepted == pc \in {"validate", "read", "ok"} => ~TooLarge(rec.size) /\ err = "nil"

IInv ==
  /\ TypeOK
  /\ pc = "start" => next = 1 /\ covered = 0 /\ err = "nil"
  /\ Validating
  /\ Reading
  /\ Unread
  /\ Accepted
  /\ pc \in {"read", "ok"} => Slice
  /\ pc = "ok" => Len(data) = rec.size
  /\ pc # "panic"
  /\ AskedBounded
  /\ CheckedReadsAreWhole

---------------------------------------------------------------------------
LEMMA ExtsType ==
  ASSUME TypeOK
  PROVE  /\ Exts \in Seq(Extent)
         /\ Len(Exts) \in Nat
         /\ rec.size \in Nat
         /\ start \in [1..(Len(Exts) + 1) -> Nat]
         /\ start[1] = 0
         /\ \A i \in 1..Len(Exts) :
              Exts[i] \in Extent /\ Exts[i].size \in Nat /\ DiskOff(Exts[i]) \in Nat
              /\ start[i + 1] = start[i] + Exts[i].size
<1>1. /\ Exts \in Seq(Extent)
      /\ Len(Exts) \in Nat
      /\ rec.size \in Nat
      /\ start \in [1..(Len(Exts) + 1) -> Nat]
      /\ start[1] = 0
      /\ \A i \in 1..Len(Exts) : start[i + 1] = start[i] + Exts[i].size
  BY RecordType DEF TypeOK, Exts
<1>2. ASSUME NEW i \in 1..Len(Exts)
      PROVE  Exts[i] \in Extent /\ Exts[i].size \in Nat /\ DiskOff(Exts[i]) \in Nat
  <2>1. Exts[i] \in Extent
    BY <1>1
  <2> QED BY <2>1, DiskOffType DEF Extent
<1> QED BY <1>1, <1>2

LEMMA CeilingType ==
  ASSUME TypeOK
  PROVE  /\ fsSize \in Int /\ AllocCeiling \in Nat /\ SizeUnknown \in BOOLEAN
         /\ ~SizeUnknown => AllocCeiling = fsSize
BY ImageAssumption, ReadFileAssumption DEF TypeOK, AllocCeiling, SizeUnknown

LEMMA InitIInv == Init => IInv
<1> SUFFICES ASSUME Init PROVE IInv
  OBVIOUS
<1>1. Len(Exts) \in Nat /\ start[1] = 0 /\ rec.size \in Nat
  BY RecordType DEF Init, Exts
<1>2. data \in Seq(Int) /\ Len(data) = 0
  BY DEF Init, NoBytes
<1>3. TypeOK
  BY <1>1, <1>2 DEF Init, TypeOK
<1>4. Validating /\ Reading /\ Unread /\ Accepted /\ AskedBounded /\ CheckedReadsAreWhole
  BY <1>3 DEF Init, Validating, Reading, Unread, Accepted, AskedBounded,
     CheckedReadsAreWhole
<1> QED BY <1>3, <1>4 DEF Init, IInv

\* No step changes the record, or what is derived from it and from fsSize.
Fixed == UNCHANGED <<rec, start, fsSize, Exts, AllocCeiling, SizeUnknown>>

LEMMA FixedStep == [Next]_vars => Fixed
BY DEF Next, ReadStep, CheckRecord, ValidateExtent, Reserve, AppendAt, ReturnData, CloseImage,
   vars, input, Fixed, Exts, AllocCeiling, SizeUnknown

LEMMA CheckRecordIInv ==
  ASSUME IInv, CheckRecord, Fixed
  PROVE  IInv'
<1>1. /\ TypeOK /\ pc = "start" /\ next = 1 /\ covered = 0 /\ cap = 0 /\ data = NoBytes
      /\ asked = 0 /\ done = 0 /\ err = "nil"
  BY DEF CheckRecord, IInv, Unread
<1>2. /\ UNCHANGED <<rec, start, fsSize, imgOpen, next, covered, done, data, cap, asked>>
      /\ \/ pc' = "failed" /\ err' \in {"notRegular", "tooLarge"}
         \/ pc' = "validate" /\ err' = err /\ ~TooLarge(rec.size)
  BY DEF CheckRecord, Fail, input
<1>3. TypeOK'
  BY <1>1, <1>2 DEF TypeOK, Fixed
<1>4. start[1] = 0 /\ rec.size \in Nat
  BY <1>1, ExtsType
<1>5. Validating'
  BY <1>1, <1>2, <1>4 DEF Validating, StartsInOrder, Validated
<1>6. Accepted' /\ Unread'
  BY <1>1, <1>2 DEF Accepted, Unread, TooLarge, AllocCeiling
<1> QED BY <1>1, <1>2, <1>3, <1>5, <1>6
        DEF IInv, Reading, AskedBounded, CheckedReadsAreWhole

LEMMA ValidateExtentIInv ==
  ASSUME IInv, ValidateExtent, Fixed
  PROVE  IInv'
<1> DEFINE e == Exts[next]
<1>1. /\ TypeOK /\ pc = "validate" /\ next \in 1..Len(Exts) /\ Len(Exts) \in Nat
      /\ covered = start[next] /\ covered <= rec.size /\ StartsInOrder(next)
      /\ Validated(next - 1) /\ cap = 0 /\ asked = 0 /\ data = NoBytes /\ done = 0 /\ err = "nil"
      /\ ~TooLarge(rec.size)
  BY ExtsType DEF ValidateExtent, IInv, Validating, Unread, Accepted, TypeOK
<1>2. /\ e.size \in Nat /\ start[next + 1] = start[next] + e.size /\ rec.size \in Nat
      /\ start \in [1..(Len(Exts) + 1) -> Nat] /\ covered \in Nat
  BY <1>1, ExtsType DEF TypeOK
<1>3. CASE pc' = "failed" /\ err' \in {"overrun", "outOfBounds"} /\ UNCHANGED <<next, covered>>
  <2>1. UNCHANGED <<rec, start, fsSize, imgOpen, done, data, cap, asked>>
    BY DEF ValidateExtent, input
  <2>2. TypeOK'
    BY <1>1, <1>3, <2>1 DEF TypeOK, Fixed
  <2> QED BY <1>1, <1>3, <2>1, <2>2
          DEF IInv, Validating, Reading, Unread, Accepted, AskedBounded, CheckedReadsAreWhole
<1>4. CASE /\ pc' = pc /\ err' = err /\ next' = next + 1
           /\ covered' = covered + e.size /\ covered' <= rec.size
           /\ e.size > 0 => ~OutOfBounds(e)
  <2>1. UNCHANGED <<rec, start, fsSize, imgOpen, done, data, cap, asked>>
    BY DEF ValidateExtent, input
  <2>2. TypeOK'
    BY <1>1, <1>2, <1>4, <2>1 DEF TypeOK, Fixed
  <2>3. StartsInOrder(next + 1)
    <3> SUFFICES ASSUME NEW i \in 1..(next + 1), NEW j \in 1..(next + 1), i <= j
                 PROVE  start[i] <= start[j]
      BY DEF StartsInOrder
    <3>1. i \in 1..next \/ i = next + 1
      BY <1>1
    <3>2. j \in 1..next \/ j = next + 1
      BY <1>1
    <3>3. CASE j \in 1..next
      <4>1. i \in 1..next
        BY <1>1, <3>3
      <4> QED BY <1>1, <3>3, <4>1 DEF StartsInOrder
    <3>4. CASE j = next + 1 /\ i \in 1..next
      <4>a. i \in 1..(Len(Exts) + 1) /\ next \in 1..(Len(Exts) + 1) /\ next \in 1..next /\ i <= next
        BY <1>1, <3>4
      <4>b. start[i] \in Nat /\ start[next] \in Nat
        BY <1>2, <4>a
      <4>c. start[i] <= start[next]
        BY <1>1, <3>4, <4>a DEF StartsInOrder
      <4>1. start[i] <= start[next] /\ start[i] \in Nat /\ start[next] \in Nat
        BY <4>b, <4>c
      <4> QED BY <1>2, <3>4, <4>1
    <3>5. CASE j = next + 1 /\ i = next + 1
      BY <1>1, <1>2, <3>5
    <3> QED BY <1>1, <3>1, <3>2, <3>3, <3>4, <3>5
  <2>4. Validated(next)
    <3> SUFFICES ASSUME NEW i \in 1..next, Exts[i].size > 0
                 PROVE  ~OutOfBounds(Exts[i])
      BY DEF Validated
    <3>1. CASE i = next
      BY <1>4, <3>1
    <3>2. CASE i \in 1..(next - 1)
      BY <1>1, <3>2 DEF Validated
    <3> QED BY <1>1, <3>1, <3>2
  <2>5. Validating'
    <3>1. next' - 1 = next /\ covered' = start[next']
      BY <1>1, <1>2, <1>4
    <3> QED BY <1>1, <1>4, <2>1, <2>3, <2>4, <3>1
            DEF Validating, Fixed, StartsInOrder, Validated, OutOfBounds
  <2>6. Accepted' /\ Unread'
    BY <1>1, <1>4, <2>1, <2>2 DEF Accepted, Unread, TooLarge, Fixed, TypeOK
  <2> QED BY <1>1, <1>4, <2>1, <2>2, <2>5, <2>6
          DEF IInv, Reading, AskedBounded, CheckedReadsAreWhole
<1>5. \/ pc' = "failed" /\ err' \in {"overrun", "outOfBounds"} /\ UNCHANGED <<next, covered>>
      \/ /\ pc' = pc /\ err' = err /\ next' = next + 1
         /\ covered' = covered + e.size /\ covered' <= rec.size
         /\ e.size > 0 => ~OutOfBounds(e)
  BY <1>1, <1>2 DEF ValidateExtent, Fail, Overruns
<1> QED BY <1>3, <1>4, <1>5

LEMMA ReserveIInv ==
  ASSUME IInv, Reserve, Fixed
  PROVE  IInv'
<1>1. /\ TypeOK /\ pc = "validate" /\ next = Len(Exts) + 1 /\ Len(Exts) \in Nat
      /\ covered = start[next] /\ covered <= rec.size /\ StartsInOrder(next)
      /\ Validated(Len(Exts)) /\ cap = 0 /\ asked = 0 /\ data = NoBytes /\ done = 0 /\ err = "nil"
      /\ ~TooLarge(rec.size)
  BY ExtsType DEF Reserve, IInv, Validating, Unread, Accepted, TypeOK
<1>2. /\ UNCHANGED <<rec, start, fsSize, imgOpen, covered, done, data>>
      /\ rec.size \in Nat /\ covered \in Nat /\ start[1] = 0 /\ Len(data) = 0
      /\ start \in [1..(Len(Exts) + 1) -> Nat]
  BY <1>1, ExtsType DEF Reserve, input, TypeOK, NoBytes
<1>3. CASE pc' = "failed" /\ err' = "uncovered" /\ UNCHANGED <<next, cap, asked>>
  <2>1. TypeOK'
    BY <1>1, <1>2, <1>3 DEF TypeOK, Fixed
  <2> QED BY <1>1, <1>2, <1>3, <2>1
          DEF IInv, Validating, Reading, Unread, Accepted, AskedBounded, CheckedReadsAreWhole
<1>4. CASE /\ ~(covered < rec.size /\ SizeUnknown)
           /\ pc' = "read" /\ next' = 1 /\ err' = err
           /\ cap' = (IF SizeUnknown THEN 0 ELSE rec.size) /\ asked' = cap'
  <2>1. TypeOK'
    BY <1>1, <1>2, <1>4 DEF TypeOK, Fixed
  <2>2. Len(Exts) >= 1 => Exts[1].size \in Nat
    BY <1>1, ExtsType
  <2>3. Reading'
    <3>1. SizeUnknown => covered = rec.size /\ cap' = 0
      BY <1>1, <1>2, <1>4
    <3>2. ~SizeUnknown => cap' = rec.size
      BY <1>4
    <3>3. Len(data') = start'[next'] + done' /\ Len(data') = 0
      BY <1>1, <1>2, <1>4
    <3>4. next' <= Len(Exts') => done' <= Exts'[next'].size
      BY <1>1, <1>2, <1>4, <2>2 DEF Fixed
    <3>5. Validated(Len(Exts))'
      BY <1>1 DEF Fixed, Validated, OutOfBounds
    <3>6. StartsInOrder(Len(Exts) + 1)'
      BY <1>1 DEF Fixed, StartsInOrder
    <3>7. covered' = start'[Len(Exts') + 1] /\ covered' <= rec'.size
      BY <1>1, <1>2 DEF Fixed
    <3>8. SizeUnknown' => covered' = rec'.size /\ cap' >= Len(data')
      BY <1>2, <3>1, <3>3 DEF Fixed
    <3>9. ~SizeUnknown' => cap' = rec'.size
      BY <3>2 DEF Fixed
    <3> QED BY <1>1, <1>2, <3>3, <3>4, <3>5, <3>6, <3>7, <3>8, <3>9 DEF Reading
  <2>4. Accepted' /\ Unread' /\ Slice'
    BY <1>1, <1>2, <1>4 DEF Accepted, Unread, TooLarge, Fixed, Slice
  <2>5. AskedBounded'
    <3>1. ~SizeUnknown => rec.size <= fsSize
      BY <1>1, <1>2, CeilingType DEF TooLarge
    <3>2. SizeUnknown => cap' = 0
      BY <1>4
    <3>3. ~SizeUnknown => cap' = rec.size
      BY <1>4
    <3>4. asked' = cap' /\ err' = "nil"
      BY <1>1, <1>4
    <3> QED BY <1>1, <1>2, <3>1, <3>2, <3>3, <3>4, CeilingType DEF AskedBounded, Fixed
  <2> QED BY <1>1, <1>2, <1>4, <2>1, <2>3, <2>4, <2>5
          DEF IInv, Validating, CheckedReadsAreWhole
<1> QED BY <1>3, <1>4 DEF Reserve, Reserved, Fail

---------------------------------------------------------------------------
(* One read of the image. The bytes appended continue the file; the step   *)
(* fits into the capacity, and one that needs more than there is asks for  *)
(* no more than was delivered, or one chunk.                               *)

LEMMA StepBounds ==
  ASSUME TypeOK, NEW n \in Nat, done < n
  PROVE  /\ Step(n) \in Nat /\ 0 < Step(n) /\ Step(n) <= n - done
         /\ ~(SizeUnknown /\ cap - Len(data) < n - done) => Step(n) = n - done
         /\ SizeUnknown /\ cap - Len(data) < n - done =>
              Step(n) <= Larger(GrowChunk, Len(data))
<1>1. done \in Nat /\ cap \in Nat /\ Len(data) \in Nat /\ GrowChunk \in Nat /\ 0 < GrowChunk
  BY ReadFileAssumption DEF TypeOK
<1>2. CASE SizeUnknown /\ cap - Len(data) < n - done
  BY <1>1, <1>2 DEF Step, Smaller, Larger
<1>3. CASE ~(SizeUnknown /\ cap - Len(data) < n - done)
  BY <1>1, <1>3 DEF Step
<1> QED BY <1>2, <1>3

LEMMA GrowBounds ==
  ASSUME TypeOK, NEW n \in Nat, Grow(n)
  PROVE  /\ cap' \in Nat /\ cap' >= Len(data) + n
         /\ \/ cap' = cap /\ asked' = asked
            \/ cap < Len(data) + n /\ asked' = Len(data) + n
<1>1. cap \in Nat /\ Len(data) \in Nat /\ Spare \subseteq Nat
  BY ReadFileAssumption DEF TypeOK
<1>2. CASE Len(data) + n <= cap /\ cap' = cap /\ asked' = asked
  BY <1>1, <1>2
<1>3. CASE Len(data) + n > cap /\ asked' = Len(data) + n /\ \E spare \in Spare : cap' = Len(data) + n + spare
  BY <1>1, <1>3
<1> QED BY <1>2, <1>3 DEF Grow

LEMMA ExtendSlice ==
  ASSUME NEW b \in Seq(Int), NEW s \in Seq(Int),
         \A k \in 1..Len(b) : IsByte(Exts, start, k - 1, b[k]),
         \A k \in 1..Len(s) : IsByte(Exts, start, Len(b) + k - 1, s[k])
  PROVE  \A k \in 1..Len(b \o s) : IsByte(Exts, start, k - 1, (b \o s)[k])
<1> TAKE k \in 1..Len(b \o s)
<1>1. CASE k \in 1..Len(b)
  BY <1>1, Appended
<1>2. CASE k - Len(b) \in 1..Len(s)
  <2> DEFINE m == k - Len(b)
  <2>1. (b \o s)[k] = s[m] /\ Len(b) + m - 1 = k - 1
    BY <1>2, Appended
  <2>2. IsByte(Exts, start, Len(b) + m - 1, s[m])
    BY <1>2
  <2> QED BY <2>1, <2>2
<1> QED BY <1>1, <1>2, Appended

LEMMA ReadFacts ==
  ASSUME IInv, pc = "read"
  PROVE  /\ TypeOK /\ ~TooLarge(rec.size) /\ err = "nil" /\ Slice /\ AskedBounded
         /\ Exts \in Seq(Extent) /\ Len(Exts) \in Nat /\ rec.size \in Nat
         /\ next \in 1..(Len(Exts) + 1)
         /\ start \in [1..(Len(Exts) + 1) -> Nat]
         /\ \A i, j \in 1..(Len(Exts) + 1) : i <= j => start[i] <= start[j]
         /\ start[Len(Exts) + 1] <= rec.size
         /\ SizeUnknown => start[Len(Exts) + 1] = rec.size
         /\ done \in Nat /\ cap \in Nat /\ asked \in Nat /\ data \in Seq(Int) /\ Len(data) \in Nat
         /\ Len(data) = start[next] + done
         /\ SizeUnknown => cap >= Len(data)
         /\ ~SizeUnknown => cap = rec.size
         /\ imgOpen \in BOOLEAN /\ SizeUnknown \in BOOLEAN
<1>1. /\ TypeOK /\ ~TooLarge(rec.size) /\ err = "nil" /\ Slice /\ AskedBounded
      /\ Reading
  BY DEF IInv, Accepted
<1> QED BY <1>1, ExtsType, CeilingType DEF Reading, StartsInOrder, TypeOK

(* What one read appends, seen from the file: the bytes that follow.       *)
LEMMA NextBytes ==
  ASSUME IInv, pc = "read", next <= Len(Exts), NEW m \in Nat, done + m <= Exts[next].size
  PROVE  /\ BytesAt(DiskOff(Exts[next]) + done, m) \in Seq(Int)
         /\ Len(BytesAt(DiskOff(Exts[next]) + done, m)) = m
         /\ \A k \in 1..m : IsByte(Exts, start, Len(data) + k - 1,
                                   BytesAt(DiskOff(Exts[next]) + done, m)[k])
<1> DEFINE e == Exts[next]
           a == DiskOff(e) + done
<1>1. /\ next \in 1..Len(Exts) /\ done \in Nat /\ Len(data) \in Nat
      /\ start[next] \in Nat /\ Len(data) = start[next] + done
  BY ReadFacts
<1>2. e.size \in Nat /\ DiskOff(e) \in Nat /\ start[next + 1] = start[next] + e.size
  BY <1>1, ExtsType, ReadFacts
<1>3. a \in Int
  BY <1>1, <1>2
<1>4. /\ BytesAt(a, m) \in Seq(Int) /\ Len(BytesAt(a, m)) = m
      /\ \A k \in 1..m : BytesAt(a, m)[k] = a + k - 1
  BY <1>3, BytesAtType
<1>5. ASSUME NEW k \in 1..m
      PROVE  IsByte(Exts, start, Len(data) + k - 1, BytesAt(a, m)[k])
  <2> DEFINE x == Len(data) + k - 1
  <2>0. /\ k \in Nat /\ 1 <= k /\ k <= m /\ done + k <= e.size
        /\ start[next] \in Nat /\ done \in Nat /\ e.size \in Nat /\ DiskOff(e) \in Nat
        /\ x = start[next] + done + k - 1
    <3>1. k \in Nat /\ 1 <= k /\ k <= m
      OBVIOUS
    <3>2. e.size \in Nat /\ done \in Nat /\ done + m <= e.size
      BY <1>1, <1>2
    <3>3. done + k <= e.size
      BY <3>1, <3>2
    <3> QED BY <1>1, <1>2, <3>1, <3>3
  <2>1. x \in Nat /\ start[next] <= x /\ x < start[next + 1]
    <3> HIDE DEF x, e
    <3>1. start[next + 1] = start[next] + e.size
      BY <1>2
    <3>2. x \in Nat /\ start[next] <= x
      BY <2>0
    <3>3. x < start[next] + e.size
      BY <2>0
    <3> QED BY <3>1, <3>2, <3>3
  <2>2. BytesAt(a, m)[k] = DiskOff(e) + (x - start[next])
    <3>1. BytesAt(a, m)[k] = a + k - 1
      BY <1>4
    <3>2. a = DiskOff(e) + done
      OBVIOUS
    <3> HIDE DEF x, e, a
    <3>3. a + k - 1 = DiskOff(e) + (x - start[next])
      BY <2>0, <3>2
    <3> QED BY <3>1, <3>3
  <2> HIDE DEF x
  <2>3. IsByte(Exts, start, x, DiskOff(e) + (x - start[next]))
    BY <1>1, <2>1, ReadFacts, ByteOfExtent
  <2> QED BY <2>2, <2>3 DEF x
<1> QED BY <1>4, <1>5

LEMMA AppendAtIInv ==
  ASSUME IInv, AppendAt, Fixed
  PROVE  IInv'
<1> DEFINE e == Exts[next]
           n == Step(e.size)
           a == DiskOff(e) + done
<1>1. /\ pc = "read" /\ next \in 1..Len(Exts) /\ TypeOK
      /\ UNCHANGED <<rec, start, fsSize, imgOpen, covered>>
  BY ReadFacts DEF AppendAt, IInv, TypeOK, input
<1>2. /\ done \in Nat /\ cap \in Nat /\ data \in Seq(Int) /\ Len(data) \in Nat
      /\ rec.size \in Nat /\ Len(Exts) \in Nat /\ err = "nil"
      /\ start \in [1..(Len(Exts) + 1) -> Nat]
      /\ Len(data) = start[next] + done
      /\ SizeUnknown => cap >= Len(data)
      /\ ~SizeUnknown => cap = rec.size
      /\ GrowChunk \in Nat
  BY <1>1, ReadFacts, ReadFileAssumption
<1>3. /\ e.size \in Nat /\ DiskOff(e) \in Nat /\ start[next + 1] = start[next] + e.size
      /\ start[next] \in Nat /\ start[next + 1] \in Nat
  BY <1>1, <1>2, ExtsType
<1>4. done <= e.size /\ Reading /\ Slice /\ Accepted
  BY <1>1 DEF IInv, Reading
<1>5. start[next + 1] <= rec.size
  <2>1. /\ \A i, j \in 1..(Len(Exts) + 1) : i <= j => start[i] <= start[j]
        /\ start[Len(Exts) + 1] <= rec.size
    BY <1>1, ReadFacts
  <2>2. start[next + 1] <= start[Len(Exts) + 1] /\ start[Len(Exts) + 1] \in Nat
    <3>1. /\ next + 1 \in 1..(Len(Exts) + 1) /\ Len(Exts) + 1 \in 1..(Len(Exts) + 1)
          /\ next + 1 <= Len(Exts) + 1
      BY <1>1, <1>2
    <3>2. start[Len(Exts) + 1] \in Nat
      BY <1>2, <3>1
    <3> QED BY <2>1, <3>1, <3>2
  <2> QED BY <1>2, <1>3, <2>1, <2>2
<1>6. CASE /\ done = e.size /\ next' = next + 1 /\ done' = 0
           /\ UNCHANGED <<pc, data, cap, asked, err>>
  <2>1. TypeOK'
    BY <1>1, <1>2, <1>6 DEF TypeOK, Fixed
  <2>2. next' <= Len(Exts) => Exts[next'].size \in Nat
    BY <1>1, <1>6, ExtsType, <2>1 DEF TypeOK, Fixed
  <2>3. Len(data') = start'[next'] + done'
    BY <1>1, <1>2, <1>3, <1>6
  <2>4. Reading'
    BY <1>1, <1>2, <1>4, <1>6, <2>2, <2>3
       DEF Reading, Fixed, StartsInOrder, Validated, OutOfBounds
  <2>5. Accepted' /\ Slice' /\ AskedBounded' /\ CheckedReadsAreWhole'
    BY <1>1, <1>4, <1>6, ReadFacts
       DEF Accepted, TooLarge, Fixed, Slice, AskedBounded, CheckedReadsAreWhole, IInv
  <2> QED BY <1>1, <1>6, <2>1, <2>4, <2>5 DEF IInv, Validating, Unread
<1>7. CASE done < e.size
  <2>1. /\ n \in Nat /\ 0 < n /\ n <= e.size - done
        /\ ~(SizeUnknown /\ cap - Len(data) < e.size - done) => n = e.size - done
        /\ SizeUnknown /\ cap - Len(data) < e.size - done => n <= Larger(GrowChunk, Len(data))
    BY <1>1, <1>3, <1>7, StepBounds
  <2>2. Grow(n)
    BY <1>3, <1>7, <1>2 DEF AppendAt
  <2>3. PICK o \in SourceRead(imgOpen, a, n) :
          /\ data' = data \o BytesAt(a, o.n)
          /\ \/ /\ o.err = "nil" \/ (o.err = "EOF" /\ o.n = n)
                /\ done' = done + o.n
                /\ UNCHANGED <<pc, next, err>>
             \/ /\ ~(o.err = "nil" \/ (o.err = "EOF" /\ o.n = n))
                /\ pc' = "failed" /\ err' = o.err
                /\ UNCHANGED <<next, done>>
    <3>1. \E o \in SourceRead(imgOpen, DiskOff(Exts[next]) + done, Step(Exts[next].size)) :
            \/ /\ o.err = "nil" \/ (o.err = "EOF" /\ o.n = Step(Exts[next].size))
               /\ data' = data \o BytesAt(DiskOff(Exts[next]) + done, o.n)
               /\ done' = done + o.n
               /\ UNCHANGED <<pc, next, err>>
            \/ /\ ~(o.err = "nil" \/ (o.err = "EOF" /\ o.n = Step(Exts[next].size)))
               /\ data' = data \o BytesAt(DiskOff(Exts[next]) + done, o.n)
               /\ Fail(o.err)
               /\ UNCHANGED <<next, done>>
      <4>1. done # e.size
        BY <1>2, <1>3, <1>7
      <4> QED BY <4>1, Zenon DEF AppendAt
    <3> QED BY <3>1 DEF Fail
  <2>a. /\ done \in Nat /\ cap \in Nat /\ asked \in Nat /\ Len(data) \in Nat /\ GrowChunk \in Nat
        /\ e.size \in Nat
    BY <1>1, <1>2, <1>3 DEF TypeOK
  <2> HIDE DEF n, e, a
  <2>4. /\ cap' \in Nat /\ cap' >= Len(data) + n
        /\ \/ cap' = cap /\ asked' = asked
           \/ cap < Len(data) + n /\ asked' = Len(data) + n
    BY <1>1, <2>1, <2>2, GrowBounds
  <2>5. /\ o.n \in 0..n /\ o.err \in {"nil", "EOF", "fault", "closed"}
        /\ o.err = "nil" => o.n = n
        /\ o.err = "EOF" => a + o.n >= ImageLen
    <3>1. a \in Int /\ imgOpen \in BOOLEAN
      BY <1>1, <1>2, <1>3, ReadFacts DEF a
    <3> QED BY <2>1, <3>1, SourceReadType
  <2>6. /\ data' \in Seq(Int) /\ Len(data') = Len(data) + o.n
        /\ \A k \in 1..Len(data') : IsByte(Exts, start, k - 1, data'[k])
    <3> DEFINE s == BytesAt(a, o.n)
    <3>0. o.n \in Nat /\ done + o.n <= e.size
      BY <1>2, <1>3, <2>1, <2>5
    <3>1. /\ s \in Seq(Int) /\ Len(s) = o.n
          /\ \A k \in 1..(o.n) : IsByte(Exts, start, Len(data) + k - 1, s[k])
      <4>1. next <= Len(Exts)
        BY <1>1, <1>2
      <4> QED BY <1>1, <3>0, <4>1, NextBytes DEF a, e
    <3>2. data' = data \o s
      BY <2>3
    <3> HIDE DEF s
    <3>3. \A k \in 1..Len(data \o s) : IsByte(Exts, start, k - 1, (data \o s)[k])
      BY <1>2, <1>4, <3>1, ExtendSlice DEF Slice
    <3>4. data \o s \in Seq(Int) /\ Len(data \o s) = Len(data) + Len(s)
      BY <1>2, <3>1, Appended
    <3> QED BY <3>1, <3>2, <3>3, <3>4
  <2>7. ~SizeUnknown => cap' = rec.size
    <3>0. /\ Len(data) \in Nat /\ done \in Nat /\ e.size \in Nat /\ rec.size \in Nat
          /\ start[next] \in Nat /\ Len(data) = start[next] + done
          /\ start[next] + e.size <= rec.size
      BY <1>2, <1>3, <1>5
    <3>1. Len(data) + n <= rec.size
      <4> HIDE DEF n, e
      <4>1. n \in Nat /\ n <= e.size - done
        BY <2>1
      <4> QED BY <3>0, <4>1
    <3>2. SUFFICES ASSUME ~SizeUnknown PROVE cap' = rec.size
      OBVIOUS
    <3>3. cap = rec.size /\ ~(cap < Len(data) + n)
      <4>1. cap = rec.size
        BY <1>2, <3>2
      <4>2. rec.size \in Nat /\ Len(data) + n \in Nat
        BY <1>2, <2>1
      <4> QED BY <3>1, <4>1, <4>2
    <3> QED BY <2>4, <3>3
  <2>8. SizeUnknown /\ asked' > 0 => asked' <= Len(data) + Larger(GrowChunk, Len(data))
    <3>1. CASE asked' = asked
      BY <1>1, <2>4, <3>1, ReadFacts DEF AskedBounded
    <3>2. CASE cap < Len(data) + n /\ asked' = Len(data) + n /\ SizeUnknown
      <4>1. n <= Larger(GrowChunk, Len(data))
        <5>1. cap - Len(data) < e.size - done
          BY <2>a, <2>1, <3>2
        <5> QED BY <2>1, <3>2, <5>1
      <4> QED BY <2>a, <2>1, <3>2, <4>1 DEF Larger
    <3> QED BY <2>4, <3>1, <3>2
  <2>9. AskedBounded'
    <3>1. SizeUnknown /\ asked' > 0 => asked' <= Len(data') + Larger(GrowChunk, Len(data'))
      <4>1. o.n \in Nat /\ Len(data') = Len(data) + o.n
        BY <2>1, <2>5, <2>6
      <4>2. asked' \in Nat
        BY <2>a, <2>1, <2>4
      <4> QED BY <2>a, <2>8, <4>1, <4>2 DEF Larger
    <3>2. ~SizeUnknown /\ asked' > 0 => asked' <= fsSize
      <4>1. SUFFICES ASSUME ~SizeUnknown, asked' > 0 PROVE asked' <= fsSize
        OBVIOUS
      <4>2. cap' = rec.size /\ cap = rec.size /\ rec.size <= fsSize
        BY <1>1, <1>2, <2>7, <4>1, ReadFacts, CeilingType DEF TooLarge
      <4>3. asked' = asked
        BY <1>2, <2>a, <2>1, <2>4, <4>2
      <4> QED BY <1>1, <4>1, <4>3, ReadFacts DEF AskedBounded
    <3>3. err' \in {"nil", "EOF", "fault", "closed"}
      BY <1>2, <2>3, <2>5
    <3> QED BY <3>1, <3>2, <3>3 DEF AskedBounded, Fixed
  <2>10. TypeOK' /\ Accepted'
    <3>1. done' \in Nat /\ pc' \in {"read", "failed"} /\ next' = next
      BY <1>1, <1>2, <2>3, <2>5
    <3>2. err' \in {"nil", "EOF", "fault", "closed"}
      BY <1>2, <2>3, <2>5
    <3>a. asked' \in Nat
      BY <2>a, <2>1, <2>4
    <3>3. TypeOK'
      BY <1>1, <2>4, <2>6, <3>1, <3>2, <3>a DEF TypeOK, Fixed
    <3>4. Accepted'
      BY <1>1, <1>4, <2>3 DEF Accepted, TooLarge, Fixed
    <3> QED BY <3>3, <3>4
  <2>11. Reading'
    <3> SUFFICES ASSUME pc' = "read" PROVE Reading'
      BY DEF Reading
    <3>1. done' = done + o.n /\ o.n = n /\ next' = next
      BY <2>3, <2>5
    <3>2. Len(data') = start'[next'] + done' /\ done' <= e.size /\ cap' >= Len(data')
      <4>1. Len(data') = Len(data) + n /\ start' = start
        BY <1>1, <2>6, <3>1
      <4>2. done' <= e.size /\ cap' >= Len(data')
        BY <2>a, <2>1, <2>4, <3>1, <4>1
      <4> QED BY <1>2, <1>3, <2>1, <3>1, <4>1, <4>2
    <3>3. Exts'[next'].size = e.size /\ next' # Len(Exts') + 1
      BY <1>1, <1>2, <3>1 DEF Fixed, e
    <3> QED BY <1>1, <1>4, <2>7, <3>2, <3>3
            DEF Reading, Fixed, StartsInOrder, Validated, OutOfBounds
  <2>12. CheckedReadsAreWhole'
    <3> SUFFICES ASSUME err' = "EOF", ~SizeUnknown, fsSize <= ImageLen
                 PROVE  FALSE
      BY <1>1, CeilingType, ImageAssumption DEF CheckedReadsAreWhole, Fixed
    <3>1. o.err = "EOF" /\ o.n # n
      BY <1>2, <2>3
    <3>2. ~OutOfBounds(e)
      BY <1>1, <1>4, <1>7, <1>2, <1>3 DEF Reading, Validated, e
    <3>3. DiskOff(e) <= fsSize - e.size
      BY <1>1, <1>3, <3>2, CeilingType DEF OutOfBounds
    <3>4. a + o.n >= ImageLen /\ o.n < n
      BY <2>1, <2>5, <3>1
    <3>5. fsSize \in Int /\ ImageLen \in Nat
      BY <1>1, CeilingType, ImageAssumption
    <3> QED BY <1>2, <1>3, <2>1, <2>5, <3>3, <3>4, <3>5 DEF a
  <2>13. pc' = "read" => Slice'
    BY <1>1, <2>6 DEF Slice, Fixed
  <2> QED BY <1>1, <2>3, <2>9, <2>10, <2>11, <2>12, <2>13 DEF IInv, Validating, Unread
<1> QED BY <1>1, <1>3, <1>4, <1>6, <1>7 DEF AppendAt

LEMMA ReturnDataIInv ==
  ASSUME IInv, ReturnData, Fixed
  PROVE  IInv'
<1>1. /\ pc = "read" /\ next = Len(Exts) + 1
      /\ UNCHANGED <<rec, start, fsSize, imgOpen, next, covered, done, cap, asked, err>>
      /\ pc' = IF cap < rec.size THEN "panic" ELSE "ok"
      /\ data' = data \o Zeros(rec.size - Len(data))
  BY ReadFacts DEF ReturnData, input
<1>2. /\ TypeOK /\ err = "nil" /\ Slice /\ AskedBounded /\ ~TooLarge(rec.size)
      /\ Exts \in Seq(Extent) /\ Len(Exts) \in Nat /\ rec.size \in Nat
      /\ start \in [1..(Len(Exts) + 1) -> Nat]
      /\ \A i, j \in 1..(Len(Exts) + 1) : i <= j => start[i] <= start[j]
      /\ start[Len(Exts) + 1] <= rec.size
      /\ SizeUnknown => start[Len(Exts) + 1] = rec.size
      /\ cap \in Nat /\ asked \in Nat /\ data \in Seq(Int) /\ Len(data) \in Nat
      /\ SizeUnknown => cap >= Len(data)
      /\ ~SizeUnknown => cap = rec.size
  BY <1>1, ReadFacts
<1>3. Len(data) = start[Len(Exts) + 1]
  BY <1>1, <1>2, ReadFacts DEF IInv, Reading
<1>4. ~(cap < rec.size)
  BY <1>2, <1>3
<1> DEFINE z == Zeros(rec.size - Len(data))
<1>5. rec.size - Len(data) \in Nat
  BY <1>2, <1>3
<1>6. /\ z \in Seq(Int) /\ Len(z) = rec.size - Len(data)
      /\ \A k \in 1..Len(z) : z[k] = Zero
  BY <1>5, ZerosType
<1> HIDE DEF z
<1>7. ASSUME NEW k \in 1..Len(z)
      PROVE  IsByte(Exts, start, Len(data) + k - 1, z[k])
  <2>1. Len(data) + k - 1 \in Nat /\ start[Len(Exts) + 1] <= Len(data) + k - 1 /\ z[k] = Zero
    BY <1>2, <1>3, <1>6
  <2> QED BY <1>2, <2>1, ByteOfTail
<1>8. data' = data \o z
  BY <1>1 DEF z
<1>9. /\ data' \in Seq(Int) /\ Len(data') = rec.size
      /\ \A k \in 1..Len(data') : IsByte(Exts, start, k - 1, data'[k])
  <2>1. \A k \in 1..Len(data \o z) : IsByte(Exts, start, k - 1, (data \o z)[k])
    BY <1>2, <1>6, <1>7, ExtendSlice DEF Slice
  <2>2. data \o z \in Seq(Int) /\ Len(data \o z) = Len(data) + Len(z)
    BY <1>2, <1>6, Appended
  <2>3. Len(data) + Len(z) = rec.size
    BY <1>2, <1>6
  <2> QED BY <1>8, <2>1, <2>2, <2>3
<1>10. pc' = "ok"
  BY <1>1, <1>4
<1>11. TypeOK'
  BY <1>1, <1>2, <1>9, <1>10 DEF TypeOK, Fixed
<1>12. AskedBounded'
  <2>1. Len(data') >= Len(data)
    BY <1>2, <1>5, <1>9
  <2>2. SizeUnknown /\ asked > 0 => asked <= Len(data) + Larger(GrowChunk, Len(data))
    BY <1>2 DEF AskedBounded
  <2>3. SizeUnknown /\ asked > 0 => asked <= Len(data') + Larger(GrowChunk, Len(data'))
    BY <1>2, <1>9, <2>1, <2>2, ReadFileAssumption DEF Larger
  <2> QED BY <1>1, <1>2, <2>3 DEF AskedBounded, Fixed
<1>13. Slice' /\ Accepted'
  BY <1>1, <1>2, <1>9 DEF Slice, Accepted, TooLarge, Fixed
<1> QED BY <1>1, <1>2, <1>9, <1>10, <1>11, <1>12, <1>13
        DEF IInv, Validating, Reading, Unread, CheckedReadsAreWhole

LEMMA NextIInv == IInv /\ [Next]_vars => IInv'
<1> SUFFICES ASSUME IInv, [Next]_vars PROVE IInv'
  OBVIOUS
<1>1. Fixed
  BY FixedStep
<1>2. CASE ReadStep
  BY <1>1, <1>2, CheckRecordIInv, ValidateExtentIInv, ReserveIInv, AppendAtIInv, ReturnDataIInv
     DEF ReadStep
<1>3. CASE CloseImage \/ UNCHANGED vars
  <2>1. /\ UNCHANGED <<rec, start, fsSize, pc, next, covered, done, data, cap, asked, err>>
        /\ imgOpen' \in BOOLEAN
    BY <1>3 DEF CloseImage, vars, input, IInv, TypeOK
  <2>2. TypeOK'
    BY <1>1, <2>1 DEF IInv, TypeOK, Fixed
  <2> QED BY <1>1, <2>1, <2>2
          DEF IInv, Fixed, Validating, Reading, StartsInOrder, Validated, OutOfBounds, Unread,
              Slice, Accepted, TooLarge, AskedBounded, CheckedReadsAreWhole
<1> QED BY <1>2, <1>3 DEF Next

(* The types of the state, for every record and image.                     *)
THEOREM TypeCorrect == Spec => []TypeOK
<1>1. IInv => TypeOK
  BY DEF IInv
<1> QED BY InitIInv, NextIInv, <1>1, PTL DEF Spec

(* A ReadFile that succeeds returns every byte of the file and no other.   *)
THEOREM ReadFileReturnsTheFile == Spec => []ReturnsTheFile
<1>1. IInv => ReturnsTheFile
  BY DEF IInv, ReturnsTheFile, Slice
<1> QED BY InitIInv, NextIInv, <1>1, PTL DEF Spec

(* data[:total:total] never exceeds the capacity, reserved or grown.       *)
THEOREM ResliceNeverPanics == Spec => []NoPanic
<1>1. IInv => NoPanic
  BY DEF IInv, NoPanic
<1> QED BY InitIInv, NextIInv, <1>1, PTL DEF Spec

(* What readFile asks of make and slices.Grow is bounded by the image when *)
(* its size is known and by what the image delivered when it is not, for   *)
(* every capacity that Grow may return.                                    *)
THEOREM MemoryIsBounded == Spec => []AskedBounded
<1>1. IInv => AskedBounded
  BY DEF IInv
<1> QED BY InitIInv, NextIInv, <1>1, PTL DEF Spec

(* A read validated against the true image size meets no end of image.     *)
THEOREM ValidatedReadsAreWhole == Spec => []CheckedReadsAreWhole
<1>1. IInv => CheckedReadsAreWhole
  BY DEF IInv
<1> QED BY InitIInv, NextIInv, <1>1, PTL DEF Spec

(* A known size is always checked against, unless it is the very number    *)
(* the code uses to say that a size is unknown.                            *)
THEOREM KnownSizesAreChecked ==
  ASSUME MaxUnknownAlloc \notin Declared
  PROVE  Spec => []KnownSizeIsChecked
<1>1. IInv => KnownSizeIsChecked
  <2> SUFFICES ASSUME IInv, fsSize >= 0, pc = "read", NEW i \in 1..Len(Exts),
                      Exts[i].size # 0
               PROVE  DiskOff(Exts[i]) + Exts[i].size <= fsSize
    BY DEF KnownSizeIsChecked
  <2>1. TypeOK /\ Exts[i].size \in Nat /\ DiskOff(Exts[i]) \in Nat
    BY ExtsType DEF IInv
  <2>2. fsSize \in Int /\ fsSize # MaxUnknownAlloc /\ AllocCeiling = fsSize /\ ~SizeUnknown
    BY <2>1, CeilingType DEF TypeOK, AllocCeiling, SizeUnknown
  <2>3. ~OutOfBounds(Exts[i])
    BY <2>1 DEF IInv, Reading, Validated
  <2> QED BY <2>1, <2>2, <2>3 DEF OutOfBounds
<1> QED BY InitIInv, NextIInv, <1>1, PTL DEF Spec
=============================================================================
