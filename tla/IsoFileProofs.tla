--------------------------- MODULE IsoFileProofs ---------------------------
(***************************************************************************)
(* The safety of an open file, for every record, image and set of callers. *)
(***************************************************************************)
EXTENDS IsoFile, ImageLemmas, TLAPS

LEMMA ExtsType ==
  ASSUME TypeOK
  PROVE  /\ Exts \in Seq(Extent)
         /\ Len(Exts) \in Nat
         /\ rec.size \in Nat
         /\ start \in [1..(Len(Exts) + 1) -> Nat]
         /\ start[1] = 0
         /\ \A i \in 1..Len(Exts) : start[i + 1] = start[i] + Exts[i].size
BY RecordType DEF TypeOK, Exts

---------------------------------------------------------------------------
(* The inductive invariant. Its first part is about openRecord's loop: what *)
(* the placed extents say of the bytes below covered. Its second is about   *)
(* the calls: inside the loop a call has room left in p and in the file.    *)

\* Every placed extent stands for an extent of the record, where the file has it.
Placed ==
  \A k \in 1..Len(placed) : \E i \in 1..Len(Exts) :
    /\ i < next
    /\ placed[k].fileOff = start[i]
    /\ placed[k].diskOff = DiskOff(Exts[i])
    /\ EndOf(placed[k]) = start[i + 1]

\* The extents openRecord has passed begin in file order.
StartsInOrder == \A i, j \in 1..next : i <= j => start[i] <= start[j]

OpenInv ==
  /\ TypeOK
  /\ covered = start[next]
  /\ opening = "opened" => next = Len(Exts) + 1
  /\ StartsInOrder
  /\ PlacedInOrder
  /\ Placed
  /\ NoGap

CallInv ==
  \A c \in Callers :
    /\ pc[c] # "idle" => opening = "opened"
    /\ pc[c] = "idle" => buf[c] = NoBytes /\ err[c] = "nil"
    /\ pc[c] = "loop" => /\ 0 <= off[c] /\ off[c] < rec.size
                         /\ Len(buf[c]) <= want[c]
                         /\ off[c] + Len(buf[c]) <= rec.size
                         /\ err[c] = "nil"

IInv ==
  /\ OpenInv
  /\ CallInv
  /\ DeliversTheFile
  /\ ReaderAtContract

---------------------------------------------------------------------------
LEMMA InitIInv == Init => IInv
<1> SUFFICES ASSUME Init PROVE IInv
  OBVIOUS
<1>1. TypeOK
  <2>1. rec \in DirRecord
    BY ImageAssumption DEF Init
  <2>2. Len(Exts) \in Nat
    BY <2>1 DEF Exts, ExtentsOf, DirRecord
  <2>3. /\ next \in 1..(Len(Exts) + 1)
        /\ placed \in Seq(PlacedExtent)
        /\ covered \in Nat
    BY <2>2 DEF Init
  <2>4. /\ pc \in [Callers -> {"idle", "loop", "done"}]
        /\ off \in [Callers -> Int]
        /\ want \in [Callers -> Nat]
        /\ err \in [Callers -> {"nil", "EOF", "negative", "closed",
                                "readEOF", "readFault", "readClosed"}]
    BY DEF Init
  <2>5. buf \in [Callers -> Seq(Int)]
    BY DEF Init, NoBytes
  <2> QED BY <2>3, <2>4, <2>5 DEF Init, TypeOK
<1>2. /\ start[1] = 0 /\ next = 1 /\ covered = 0 /\ rec.size \in Nat
      /\ placed = << >> /\ Len(placed) = 0
  BY <1>1, ExtsType DEF Init
<1>3. OpenInv
  BY <1>1, <1>2 DEF Init, OpenInv, StartsInOrder, PlacedInOrder, Placed, NoGap
<1>4. CallInv /\ ReaderAtContract
  BY DEF Init, CallInv, ReaderAtContract
<1>5. DeliversTheFile
  BY DEF Init, DeliversTheFile, NoBytes
<1> QED BY <1>3, <1>4, <1>5 DEF IInv

---------------------------------------------------------------------------
(* A step of openRecord. *)

LEMMA PlacedEnd ==
  ASSUME NEW p \in PlacedExtent
  PROVE  EndOf(p) \in Nat
BY DEF PlacedExtent, EndOf

LEMMA StartsBelow ==
  ASSUME StartsInOrder, NEW m \in Nat, next \in 1..m, start \in [1..(m + 1) -> Nat]
  PROVE  \A i \in 1..next : start[i] <= start[next] /\ start[i] \in Nat
<1> SUFFICES ASSUME NEW i \in 1..next
             PROVE  start[i] <= start[next] /\ start[i] \in Nat
  OBVIOUS
<1>1. i \in 1..(m + 1) /\ i <= next /\ next \in 1..next
  OBVIOUS
<1>2. start[i] \in Nat
  BY <1>1
<1> QED BY <1>1, <1>2 DEF StartsInOrder

\* One more extent that begins no earlier than the last keeps the file order.
LEMMA StartsExtend ==
  ASSUME StartsInOrder, start' = start, next' = next + 1, next \in Nat,
         start[next] <= start[next + 1], start[next] \in Nat, start[next + 1] \in Nat,
         \A i \in 1..next : start[i] <= start[next] /\ start[i] \in Nat
  PROVE  StartsInOrder'
<1> SUFFICES ASSUME NEW i \in 1..(next + 1), NEW j \in 1..(next + 1), i <= j
             PROVE  start[i] <= start[j]
  BY DEF StartsInOrder
<1>1. (i \in 1..next \/ i = next + 1) /\ (j \in 1..next \/ j = next + 1)
  OBVIOUS
<1>2. CASE j \in 1..next
  <2>1. i \in 1..next
    BY <1>2
  <2> QED BY <1>2, <2>1 DEF StartsInOrder
<1>3. CASE j = next + 1 /\ i \in 1..next
  <2>1. start[i] <= start[next] /\ start[i] \in Nat
    BY <1>3
  <2>2. start[i] <= start[next + 1]
    BY <2>1
  <2> QED BY <1>3, <2>2
<1>4. CASE j = next + 1 /\ i = next + 1
  BY <1>4
<1> QED BY <1>1, <1>2, <1>3, <1>4

LEMMA OpenStepOpenInv ==
  ASSUME OpenInv, OpenStep
  PROVE  OpenInv'
<1> USE DEF OpenInv
<1>0. UNCHANGED <<rec, start, Exts>>
  BY DEF OpenStep, OpenRecord, PlaceExtent, FinishOpen, Exts
<1>1. CASE OpenRecord
  BY <1>0, <1>1 DEF OpenRecord, TypeOK, callVars, StartsInOrder, PlacedInOrder, Placed, NoGap,
     Exts, EndOf
<1>2. CASE FinishOpen
  BY <1>0, <1>2, ExtsType DEF FinishOpen, TypeOK, callVars, StartsInOrder, PlacedInOrder,
     Placed, NoGap, Exts, EndOf
<1>3. CASE PlaceExtent
  <2> DEFINE e == Exts[next]
             p == [fileOff |-> covered, diskOff |-> DiskOff(e), size |-> e.size]
  <2>0. /\ next \in 1..Len(Exts) /\ Len(Exts) \in Nat /\ e \in Extent /\ e.size \in Nat /\ DiskOff(e) \in Nat
        /\ start[next + 1] = start[next] + e.size
        /\ start \in [1..(Len(Exts) + 1) -> Nat]
        /\ rec.size \in Nat
        /\ covered = start[next] /\ covered \in Nat
        /\ opening = "placing"
    <3>1. next \in 1..Len(Exts) /\ opening = "placing"
      BY <1>3, ExtsType DEF PlaceExtent, TypeOK
    <3>2. e \in Extent
      BY <3>1, ExtsType
    <3>3. e.size \in Nat /\ DiskOff(e) \in Nat
      BY <3>2, DiskOffType DEF Extent
    <3> QED BY <3>1, <3>2, <3>3, ExtsType DEF TypeOK
  <2>1. CASE e.size = 0 /\ next' = next + 1 /\ UNCHANGED <<opening, placed, covered>>
    <3>1. TypeOK'
      BY <1>0, <1>3, <2>0, <2>1 DEF PlaceExtent, TypeOK, callVars
    <3>2. StartsInOrder'
      <4>1. \A i \in 1..next : start[i] <= start[next] /\ start[i] \in Nat
        BY <2>0, StartsBelow
      <4>2. start' = start /\ next' = next + 1 /\ start[next + 1] = start[next]
        BY <1>0, <2>0, <2>1
      <4> QED BY <2>0, <4>1, <4>2, StartsExtend
    <3>3. Placed'
      BY <1>0, <2>0, <2>1 DEF Placed, EndOf
    <3>4. PlacedInOrder' /\ NoGap'
      BY <1>0, <2>1 DEF PlacedInOrder, NoGap, EndOf
    <3>5. covered' = start'[next'] /\ opening' # "opened"
      BY <1>0, <2>0, <2>1
    <3> QED BY <3>1, <3>2, <3>3, <3>4, <3>5
  <2>2. CASE opening' = "refused" /\ UNCHANGED <<next, placed, covered>>
    <3>1. TypeOK'
      BY <1>0, <1>3, <2>2 DEF PlaceExtent, TypeOK, callVars
    <3>2. StartsInOrder' /\ Placed'
      BY <1>0, <2>2 DEF StartsInOrder, Placed, EndOf
    <3>3. PlacedInOrder' /\ NoGap'
      BY <1>0, <2>2 DEF PlacedInOrder, NoGap, EndOf
    <3>4. covered' = start'[next'] /\ opening' # "opened"
      BY <1>0, <2>2
    <3> QED BY <3>1, <3>2, <3>3, <3>4
  <2>3. CASE /\ e.size > 0 /\ ~Overruns(e)
             /\ placed' = Append(placed, p)
             /\ covered' = covered + e.size
             /\ next' = next + 1
             /\ UNCHANGED opening
    <3>0. placed \in Seq(PlacedExtent) /\ p \in PlacedExtent
      BY <2>0, <2>3 DEF TypeOK, PlacedExtent
    <3>1. /\ Len(placed') = Len(placed) + 1 /\ Len(placed) \in Nat
          /\ \A k \in 1..Len(placed) : placed'[k] = placed[k] /\ placed[k] \in PlacedExtent
          /\ placed'[Len(placed) + 1] = p
          /\ placed' \in Seq(PlacedExtent)
      BY <2>3, <3>0
    <3>2. TypeOK'
      BY <1>0, <1>3, <2>0, <2>3, <3>1 DEF PlaceExtent, TypeOK, callVars
    <3>3. StartsInOrder' /\ covered' = start'[next']
      <4>1. \A i \in 1..next : start[i] <= start[next] /\ start[i] \in Nat
        BY <2>0, StartsBelow
      <4>2. /\ start' = start /\ next' = next + 1
            /\ start[next] <= start[next + 1] /\ start[next + 1] \in Nat
        BY <1>0, <2>0, <2>3
      <4>3. StartsInOrder'
        BY <2>0, <4>1, <4>2, StartsExtend
      <4> QED BY <2>0, <2>3, <4>2, <4>3
    <3>4. /\ p.fileOff = covered /\ EndOf(p) = covered + e.size
          /\ p.diskOff = DiskOff(e)
      BY DEF EndOf
    <3>5. covered' <= rec.size
      BY <2>0, <2>3 DEF Overruns
    <3>6. PlacedInOrder'
      <4>1. ASSUME NEW k \in 1..Len(placed')
            PROVE  EndOf(placed'[k]) <= covered'
        <5>1. CASE k = Len(placed) + 1
          BY <2>3, <3>1, <3>4, <5>1
        <5>2. CASE k \in 1..Len(placed)
          <6>1. placed'[k] = placed[k] /\ placed[k] \in PlacedExtent
            BY <3>1, <5>2
          <6>2. EndOf(placed[k]) \in Nat
            BY <6>1, PlacedEnd
          <6>3. EndOf(placed[k]) <= covered
            BY <5>2 DEF PlacedInOrder
          <6>4. covered <= covered' /\ covered' \in Nat
            BY <2>0, <2>3
          <6>5. EndOf(placed[k]) <= covered'
            BY <2>0, <6>2, <6>3, <6>4
          <6> QED BY <6>1, <6>5
        <5> QED BY <3>1, <5>1, <5>2
      <4>2. ASSUME NEW j \in 1..Len(placed'), NEW k \in 1..Len(placed'), j < k
            PROVE  EndOf(placed'[j]) <= placed'[k].fileOff
        <5>1. CASE k = Len(placed) + 1
          BY <2>0, <3>1, <3>4, <4>2, <5>1 DEF PlacedInOrder, EndOf
        <5>2. CASE k \in 1..Len(placed)
          BY <3>1, <4>2, <5>2 DEF PlacedInOrder, EndOf
        <5> QED BY <3>1, <5>1, <5>2
      <4> QED BY <1>0, <3>5, <4>1, <4>2 DEF PlacedInOrder, EndOf
    <3>7. Placed'
      <4> SUFFICES ASSUME NEW k \in 1..Len(placed')
                   PROVE  \E i \in 1..Len(Exts) :
                            /\ i < next + 1
                            /\ placed'[k].fileOff = start[i]
                            /\ placed'[k].diskOff = DiskOff(Exts[i])
                            /\ EndOf(placed'[k]) = start[i + 1]
        BY <1>0, <2>3 DEF Placed, EndOf
      <4>1. CASE k = Len(placed) + 1
        BY <2>0, <3>1, <3>4, <4>1
      <4>2. CASE k \in 1..Len(placed)
        <5>1. PICK i \in 1..Len(Exts) :
                /\ i < next
                /\ placed[k].fileOff = start[i]
                /\ placed[k].diskOff = DiskOff(Exts[i])
                /\ EndOf(placed[k]) = start[i + 1]
          BY <4>2 DEF Placed
        <5>2. i < next + 1 /\ placed'[k] = placed[k]
          BY <2>0, <3>1, <4>2, <5>1
        <5> QED BY <5>1, <5>2
      <4> QED BY <3>1, <4>1, <4>2
    <3>8. NoGap'
      <4> SUFFICES ASSUME NEW x \in 0..(covered' - 1)
                   PROVE  \E k \in 1..Len(placed') :
                            placed'[k].fileOff <= x /\ x < EndOf(placed'[k])
        BY DEF NoGap, EndOf
      <4>1. CASE x < covered
        <5>1. x \in 0..(covered - 1)
          BY <2>0, <2>3, <4>1
        <5> QED BY <3>1, <5>1 DEF NoGap
      <4>2. CASE x >= covered
        <5>1. placed'[Len(placed) + 1] = p /\ Len(placed) + 1 \in 1..Len(placed')
          BY <3>1
        <5>2. p.fileOff <= x
          BY <3>4, <4>2
        <5>3. covered' = covered + e.size /\ covered' \in Nat
          BY <2>0, <2>3
        <5>4. x < covered'
          BY <5>3
        <5>5. x < EndOf(p)
          BY <3>4, <5>3, <5>4
        <5> QED BY <5>1, <5>2, <5>5
      <4>3. x \in Int /\ covered \in Nat
        <5>1. covered' - 1 \in Int
          BY <2>0, <2>3
        <5> QED BY <2>0, <5>1
      <4> QED BY <4>1, <4>2, <4>3
    <3> QED BY <1>0, <2>0, <2>3, <3>2, <3>3, <3>6, <3>7, <3>8
  <2> QED BY <1>3, <2>1, <2>2, <2>3 DEF PlaceExtent
<1> QED BY <1>1, <1>2, <1>3 DEF OpenStep

LEMMA OpenStepIInv ==
  ASSUME IInv, OpenStep
  PROVE  IInv'
<1>1. /\ opening # "opened"
      /\ UNCHANGED <<rec, start, Exts, pc, off, want, buf, err>>
  BY DEF OpenStep, OpenRecord, PlaceExtent, FinishOpen, callVars, Exts
<1>2. \A c \in Callers : pc[c] = "idle" /\ buf[c] = NoBytes /\ err[c] = "nil"
  BY <1>1 DEF IInv, CallInv
<1>3. OpenInv'
  BY OpenStepOpenInv DEF IInv
<1> QED BY <1>1, <1>2, <1>3 DEF IInv, CallInv, DeliversTheFile, ReaderAtContract

---------------------------------------------------------------------------
(* What the placed extents say of the bytes of an open file. *)

LEMMA OpenedFacts ==
  ASSUME OpenInv, opening = "opened"
  PROVE  /\ covered = start[Len(Exts) + 1]
         /\ Exts \in Seq(Extent)
         /\ start \in [1..(Len(Exts) + 1) -> Nat]
         /\ \A i, j \in 1..(Len(Exts) + 1) : i <= j => start[i] <= start[j]
<1>1. next = Len(Exts) + 1
  BY DEF OpenInv
<1> QED BY <1>1, ExtsType DEF OpenInv, StartsInOrder

LEMMA ZeroIsByte ==
  ASSUME OpenInv, opening = "opened", NEW x \in Nat, x >= covered
  PROVE  IsByte(Exts, start, x, Zero)
BY OpenedFacts, ByteOfTail

LEMMA PlacedIsByte ==
  ASSUME OpenInv, opening = "opened", NEW k \in 1..Len(placed), NEW x \in Nat,
         placed[k].fileOff <= x, x < EndOf(placed[k])
  PROVE  IsByte(Exts, start, x, placed[k].diskOff + (x - placed[k].fileOff))
<1>1. PICK i \in 1..Len(Exts) :
        /\ placed[k].fileOff = start[i]
        /\ placed[k].diskOff = DiskOff(Exts[i])
        /\ EndOf(placed[k]) = start[i + 1]
  BY DEF OpenInv, Placed
<1>2. IsByte(Exts, start, x, DiskOff(Exts[i]) + (x - start[i]))
  BY <1>1, OpenedFacts, ByteOfExtent
<1> QED BY <1>1, <1>2

LEMMA PlacedType ==
  ASSUME OpenInv, NEW k \in 1..Len(placed)
  PROVE  /\ placed[k].fileOff \in Nat /\ placed[k].diskOff \in Nat /\ placed[k].size \in Nat
         /\ EndOf(placed[k]) \in Nat
         /\ EndOf(placed[k]) = placed[k].fileOff + placed[k].size
<1>1. placed[k] \in PlacedExtent
  BY DEF OpenInv, TypeOK
<1> QED BY <1>1 DEF PlacedExtent, EndOf

(* sort.Search finds an extent for every offset below covered, and the one *)
(* it finds holds that offset.                                             *)
LEMMA SearchFinds ==
  ASSUME OpenInv, NEW cur \in Nat, cur < covered
  PROVE  /\ ~ \A k \in 1..Len(placed) : EndOf(placed[k]) <= cur
         /\ \A k \in 1..Len(placed) : Found(k, cur) =>
              placed[k].fileOff <= cur /\ cur < EndOf(placed[k])
<1>1. covered \in Nat /\ Len(placed) \in Nat
  BY DEF OpenInv, TypeOK
<1>2. cur \in 0..(covered - 1)
  BY <1>1
<1>3. PICK h \in 1..Len(placed) : placed[h].fileOff <= cur /\ cur < EndOf(placed[h])
  BY <1>2 DEF OpenInv, NoGap
<1>4. ASSUME NEW k \in 1..Len(placed), Found(k, cur)
      PROVE  placed[k].fileOff <= cur /\ cur < EndOf(placed[k])
  <2>1. cur < EndOf(placed[k])
    BY <1>4, PlacedType DEF Found
  <2>2. ~(h < k)
    <3>1. h < k => EndOf(placed[h]) <= cur
      BY <1>1, <1>4 DEF Found
    <3> QED BY <1>3, <3>1, PlacedType
  <2>3. k < h => EndOf(placed[k]) <= placed[h].fileOff
    BY DEF OpenInv, PlacedInOrder
  <2> QED BY <1>1, <1>3, <2>1, <2>2, <2>3, PlacedType
<1> QED BY <1>3, <1>4, PlacedType

---------------------------------------------------------------------------
(* A step of a call. *)

(* Appending to p[:n] what the file has next keeps p[:n] a slice of it.    *)
LEMMA ExtendSlice ==
  ASSUME NEW b \in Seq(Int), NEW s \in Seq(Int), NEW o \in Int,
         \A k \in 1..Len(b) : IsByte(Exts, start, o + k - 1, b[k]),
         \A k \in 1..Len(s) : IsByte(Exts, start, o + Len(b) + k - 1, s[k])
  PROVE  \A k \in 1..Len(b \o s) : IsByte(Exts, start, o + k - 1, (b \o s)[k])
<1> TAKE k \in 1..Len(b \o s)
<1>1. CASE k \in 1..Len(b)
  BY <1>1, Appended
<1>2. CASE k - Len(b) \in 1..Len(s)
  <2> DEFINE m == k - Len(b)
  <2>1. (b \o s)[k] = s[m] /\ o + Len(b) + m - 1 = o + k - 1
    BY <1>2, Appended
  <2>2. IsByte(Exts, start, o + Len(b) + m - 1, s[m])
    BY <1>2
  <2> QED BY <2>1, <2>2
<1> QED BY <1>1, <1>2, Appended

(* What one iteration of the loop does to the call it belongs to.          *)
LEMMA ReadExtentSlice ==
  ASSUME IInv, NEW c \in Callers, ReadExtent(c)
  PROVE  \E s \in Seq(Int) :
           /\ buf' = [buf EXCEPT ![c] = @ \o s]
           /\ Len(s) <= want[c] - Len(buf[c])
           /\ off[c] + Len(buf[c]) + Len(s) <= rec.size
           /\ \A k \in 1..Len(s) : IsByte(Exts, start, Cur(c) + k - 1, s[k])
           /\ \/ UNCHANGED <<pc, err>>
              \/ /\ pc' = [pc EXCEPT ![c] = "done"]
                 /\ \E e \in {"readEOF", "readFault", "readClosed"} :
                      /\ err' = [err EXCEPT ![c] = e]
                      /\ e = "readEOF" => EagerEOF \/ AskedPastImage(c)
<1> DEFINE cur == Cur(c)
           w == Wanted(c)
<1>0. /\ OpenInv /\ opening = "opened" /\ pc[c] = "loop"
      /\ 0 <= off[c] /\ off[c] \in Int /\ want[c] \in Nat /\ buf[c] \in Seq(Int)
      /\ rec.size \in Nat /\ covered \in Nat /\ imgOpen \in BOOLEAN /\ covered <= rec.size
  BY ExtsType DEF ReadExtent, InLoop, IInv, CallInv, OpenInv, TypeOK, PlacedInOrder
<1>1. /\ Len(buf[c]) < want[c] /\ cur < rec.size /\ cur < covered
      /\ Len(buf[c]) \in Nat /\ cur \in Nat /\ cur = off[c] + Len(buf[c])
  BY <1>0 DEF ReadExtent, Cur
<1>2. w \in Nat /\ w <= want[c] - Len(buf[c]) /\ w <= rec.size - cur
  BY <1>0, <1>1 DEF Wanted, Smaller
<1>3. PICK k \in 1..Len(placed) :
        /\ Found(k, cur)
        /\ LET p == placed[k]
               addr == p.diskOff + (cur - p.fileOff)
           IN \E o \in SourceRead(imgOpen, addr, Chunk(p, cur, w)) :
                LET got == buf[c] \o BytesAt(addr, o.n) IN
                \/ /\ o.err = "nil"
                   /\ buf' = [buf EXCEPT ![c] = got]
                   /\ UNCHANGED <<pc, err>>
                \/ /\ o.err # "nil"
                   /\ Finish(c, got, Wrapped[o.err])
  BY DEF ReadExtent
<1> DEFINE p == placed[k]
           addr == p.diskOff + (cur - p.fileOff)
           n == Chunk(p, cur, w)
<1>4. /\ p.fileOff <= cur /\ cur < EndOf(p)
      /\ p.fileOff \in Nat /\ p.diskOff \in Nat /\ EndOf(p) \in Nat
  BY <1>0, <1>1, <1>3, SearchFinds, PlacedType
<1>5. n \in Nat /\ n <= EndOf(p) - cur /\ n <= w /\ addr \in Int
  BY <1>1, <1>2, <1>4 DEF Chunk, Smaller
<1>6. PICK o \in SourceRead(imgOpen, addr, n) :
        \/ /\ o.err = "nil"
           /\ buf' = [buf EXCEPT ![c] = buf[c] \o BytesAt(addr, o.n)]
           /\ UNCHANGED <<pc, err>>
        \/ /\ o.err # "nil"
           /\ Finish(c, buf[c] \o BytesAt(addr, o.n), Wrapped[o.err])
  BY <1>3
<1>7. o.n \in 0..n /\ o.err \in {"nil", "EOF", "fault", "closed"}
  BY <1>0, <1>5, SourceReadType
<1> DEFINE s == BytesAt(addr, o.n)
<1>a. addr = p.diskOff + (cur - p.fileOff)
  OBVIOUS
<1>b. o.n \in Nat /\ o.n <= n
  BY <1>5, <1>7
<1> HIDE DEF n, addr, cur, w, p
<1>8. /\ s \in Seq(Int) /\ Len(s) = o.n
      /\ \A j \in 1..Len(s) : s[j] = addr + j - 1
  <2>1. s \in Seq(Int) /\ Len(s) = o.n /\ \A j \in 1..(o.n) : s[j] = addr + j - 1
    BY <1>5, <1>b, BytesAtType
  <2> QED BY <2>1
<1>9. ASSUME NEW j \in 1..Len(s)
      PROVE  IsByte(Exts, start, cur + j - 1, s[j])
  <2>1. /\ cur + j - 1 \in Nat
        /\ p.fileOff <= cur + j - 1 /\ cur + j - 1 < EndOf(p)
    <3> HIDE DEF s
    <3>1. Len(s) = o.n /\ j \in 1..(o.n)
      BY <1>8
    <3>2. j \in Nat /\ 1 <= j /\ j <= o.n
      BY <3>1, <1>b
    <3>3. j <= EndOf(p) - cur
      BY <3>2, <1>1, <1>4, <1>5, <1>b
    <3>4. cur + j - 1 \in Nat
      BY <3>2, <1>1
    <3>5. p.fileOff <= cur + j - 1
      BY <3>2, <1>1, <1>4
    <3>6. cur + j - 1 < EndOf(p)
      BY <3>2, <3>3, <1>1, <1>4
    <3> QED BY <3>4, <3>5, <3>6
  <2>2. s[j] = p.diskOff + ((cur + j - 1) - p.fileOff)
    <3>1. s[j] = addr + j - 1
      BY <1>8
    <3>2. j \in Nat /\ cur \in Nat /\ p.fileOff \in Nat /\ p.diskOff \in Nat
      BY <1>1, <1>4, <1>8
    <3>3. addr + j - 1 = p.diskOff + ((cur + j - 1) - p.fileOff)
      BY <3>2, <1>a
    <3> QED BY <3>1, <3>3
  <2> HIDE DEF s
  <2>3. IsByte(Exts, start, cur + j - 1, placed[k].diskOff + ((cur + j - 1) - placed[k].fileOff))
    BY <1>0, <2>1, PlacedIsByte DEF p
  <2> QED BY <2>2, <2>3 DEF p
<1>10. /\ Len(s) <= want[c] - Len(buf[c])
       /\ off[c] + Len(buf[c]) + Len(s) <= rec.size
  <2> HIDE DEF s
  <2>1. Len(s) = o.n
    BY <1>8
  <2>2. o.n <= w /\ o.n \in Nat /\ w \in Nat
    BY <1>2, <1>5, <1>b
  <2>3. /\ off[c] \in Int /\ Len(buf[c]) \in Nat /\ want[c] \in Nat /\ rec.size \in Nat
        /\ cur = off[c] + Len(buf[c])
    BY <1>0, <1>1
  <2>4. o.n <= want[c] - Len(buf[c])
    BY <2>2, <2>3, <1>2
  <2>5. off[c] + Len(buf[c]) + o.n <= rec.size
    BY <2>2, <2>3, <1>2
  <2> QED BY <2>1, <2>4, <2>5
<1>11. buf' = [buf EXCEPT ![c] = @ \o s]
  BY <1>6 DEF Finish
<1>12. \/ UNCHANGED <<pc, err>>
       \/ /\ pc' = [pc EXCEPT ![c] = "done"]
          /\ \E e \in {"readEOF", "readFault", "readClosed"} :
               /\ err' = [err EXCEPT ![c] = e]
               /\ e = "readEOF" => EagerEOF \/ AskedPastImage(c)
  <2>1. /\ o.err # "nil" => Wrapped[o.err] \in {"readEOF", "readFault", "readClosed"}
        /\ o.err # "nil" /\ Wrapped[o.err] = "readEOF" => o.err = "EOF"
    BY <1>7 DEF Wrapped
  <2>2. ASSUME o.err = "EOF", ~EagerEOF
        PROVE  AskedPastImage(c)
    <3>0. PICK x \in Int : x = cur + o.n
      BY <1>1, <1>b
    <3>1. /\ o.n < n /\ addr + o.n >= ImageLen
      <4>1. n # 0
        <5>1. 0 < w
          BY <1>0, <1>1 DEF w, Smaller, Wanted, cur
        <5>2. n = EndOf(p) - cur \/ n = w
          BY DEF n, Chunk, Smaller
        <5> QED BY <1>1, <1>4, <5>1, <5>2
      <4>2. /\ o.err = "EOF" => addr + o.n >= ImageLen /\ (EagerEOF \/ o.n < n \/ n = 0)
        BY <1>0, <1>5, SourceReadType
      <4> QED BY <2>2, <4>1, <4>2
    <3>2. PICK i \in 1..Len(Exts) : /\ p.fileOff = start[i]
                                   /\ p.diskOff = DiskOff(Exts[i])
                                   /\ EndOf(p) = start[i + 1]
      BY <1>0 DEF OpenInv, Placed, p
    <3>3. x \in off[c]..(off[c] + want[c] - 1) /\ x < rec.size
      <4>1. cur <= x /\ x < cur + w
        <5>1. o.n < w
          BY <1>2, <1>5, <1>b, <3>1
        <5>2. cur \in Int /\ w \in Int /\ o.n \in Nat
          BY <1>1, <1>2, <1>b
        <5>3. PICK m \in Nat : m = o.n
          BY <5>2
        <5>4. x = cur + m /\ m < w
          BY <3>0, <5>1, <5>3
        <5>5. cur <= x /\ x < cur + w
          BY <5>2, <5>4
        <5> QED BY <5>5
      <4>2. /\ cur = off[c] + Len(buf[c]) /\ Len(buf[c]) \in Nat /\ off[c] \in Int
            /\ want[c] \in Nat /\ rec.size \in Nat /\ w \in Nat
            /\ w <= want[c] - Len(buf[c]) /\ w <= rec.size - cur
        BY <1>0, <1>1, <1>2
      <4>3. PICK b \in Nat, f \in Int, g \in Nat, z \in Int :
              b = Len(buf[c]) /\ f = off[c] /\ g = want[c] /\ z = rec.size
        BY <4>2
      <4>4. cur = f + b /\ w <= g - b /\ w <= z - cur /\ w \in Nat
        BY <4>2, <4>3
      <4>5. f <= x
        BY <4>1, <4>4
      <4>6. x < f + g
        BY <4>1, <4>4
      <4>7. x < z
        BY <4>1, <4>4
      <4>8. x \in f..(f + g - 1)
        BY <4>5, <4>6
      <4> QED BY <4>3, <4>7, <4>8
    <3>4. start[i] <= x /\ x < start[i + 1]
      <4>1. p.fileOff <= x
        BY <1>1, <1>4, <1>b, <3>0
      <4>2. o.n < EndOf(p) - cur
        BY <1>1, <1>4, <1>5, <1>b, <3>1
      <4>3. x < EndOf(p)
        BY <1>1, <1>4, <1>b, <3>0, <4>2
      <4> QED BY <3>2, <4>1, <4>3
    <3>5. DiskOff(Exts[i]) + (x - start[i]) >= ImageLen
      <4>1. DiskOff(Exts[i]) + (x - start[i]) = addr + o.n
        <5>1. p.fileOff = start[i] /\ p.diskOff = DiskOff(Exts[i]) /\ p.fileOff \in Nat
              /\ p.diskOff \in Nat
          BY <1>4, <3>2
        <5>2. addr + o.n = p.diskOff + (x - p.fileOff)
          <6>1. /\ cur \in Int /\ o.n \in Int /\ x = cur + o.n
                /\ p.fileOff \in Int /\ p.diskOff \in Int
            BY <1>1, <1>b, <3>0, <5>1
          <6>2. PICK m \in Int, f \in Int, d \in Int :
                     m = o.n /\ f = p.fileOff /\ d = p.diskOff
            BY <6>1
          <6>3. addr = d + (cur - f) /\ x = cur + m
            BY <1>a, <6>1, <6>2
          <6>4. addr + m = d + (x - f)
            BY <6>1, <6>3
          <6> QED BY <6>2, <6>4
        <5> QED BY <5>1, <5>2
      <4> QED BY <3>1, <4>1
    <3> QED BY <3>3, <3>4, <3>5 DEF AskedPastImage
  <2> QED BY <1>6, <2>1, <2>2 DEF Finish
<1> HIDE DEF s
<1> QED BY <1>8, <1>9, <1>10, <1>11, <1>12 DEF cur

(* The calls other than c's are as they were, so their part of IInv is too. *)
FileUnchanged == UNCHANGED <<fileVars, Exts>>

LEMMA OpenInvUnchanged ==
  ASSUME OpenInv, FileUnchanged, TypeOK'
  PROVE  OpenInv'
BY DEF OpenInv, FileUnchanged, fileVars, StartsInOrder, PlacedInOrder, Placed, NoGap, EndOf

CallOK(c) ==
  /\ pc[c] # "idle" => opening = "opened"
  /\ pc[c] = "idle" => buf[c] = NoBytes /\ err[c] = "nil"
  /\ pc[c] = "loop" => /\ 0 <= off[c] /\ off[c] < rec.size
                       /\ Len(buf[c]) <= want[c]
                       /\ off[c] + Len(buf[c]) <= rec.size
                       /\ err[c] = "nil"
  /\ \A k \in 1..Len(buf[c]) : IsByte(Exts, start, off[c] + k - 1, buf[c][k])
  /\ pc[c] = "done" =>
       /\ err[c] = "nil" => Len(buf[c]) = want[c]
       /\ err[c] = "EOF" => /\ off[c] + want[c] >= rec.size
                            /\ Len(buf[c]) = Larger(0, rec.size - off[c])
       /\ Len(buf[c]) <= want[c]
       /\ off[c] + Len(buf[c]) <= Larger(off[c], rec.size)

LEMMA IInvPerCall == IInv <=> OpenInv /\ \A c \in Callers : CallOK(c)
BY DEF IInv, CallInv, DeliversTheFile, ReaderAtContract, CallOK

\* A step that touches only the call of c keeps IInv if it keeps c's part of it.
OnlyCall(c) ==
  /\ \E x : pc' = [pc EXCEPT ![c] = x]
  /\ \E x : off' = [off EXCEPT ![c] = x]
  /\ \E x : want' = [want EXCEPT ![c] = x]
  /\ \E x : buf' = [buf EXCEPT ![c] = x]
  /\ \E x : err' = [err EXCEPT ![c] = x]

LEMMA OneCall ==
  ASSUME IInv, NEW c \in Callers, FileUnchanged, TypeOK', OnlyCall(c), CallOK(c)'
  PROVE  IInv'
<1>1. OpenInv'
  BY OpenInvUnchanged DEF IInv
<1>2. ASSUME NEW d \in Callers, d # c
      PROVE  CallOK(d)'
  <2>1. /\ pc'[d] = pc[d] /\ off'[d] = off[d] /\ want'[d] = want[d]
        /\ buf'[d] = buf[d] /\ err'[d] = err[d]
    BY <1>2 DEF OnlyCall, IInv, OpenInv, TypeOK
  <2>2. CallOK(d)
    BY IInvPerCall
  <2> QED BY <2>1, <2>2 DEF CallOK, FileUnchanged, fileVars
<1>3. \A d \in Callers : CallOK(d)'
  BY <1>2
<1> QED BY <1>1, <1>3 DEF IInv, CallInv, DeliversTheFile, ReaderAtContract, CallOK

(* The fields of a call after it was given new values.                     *)
LEMMA CallType ==
  ASSUME TypeOK, FileUnchanged, closed' \in BOOLEAN, imgOpen' \in BOOLEAN,
         NEW c \in Callers,
         pc' = [pc EXCEPT ![c] = pc'[c]], off' = [off EXCEPT ![c] = off'[c]],
         want' = [want EXCEPT ![c] = want'[c]], buf' = [buf EXCEPT ![c] = buf'[c]],
         err' = [err EXCEPT ![c] = err'[c]],
         pc'[c] \in {"idle", "loop", "done"},
         off'[c] \in Int, want'[c] \in Nat, buf'[c] \in Seq(Int),
         err'[c] \in {"nil", "EOF", "negative", "closed", "readEOF", "readFault", "readClosed"}
  PROVE  TypeOK' /\ OnlyCall(c)
<1>1. OnlyCall(c)
  BY DEF OnlyCall
<1>2. pc' \in [Callers -> {"idle", "loop", "done"}]
  BY DEF TypeOK
<1>3. off' \in [Callers -> Int] /\ want' \in [Callers -> Nat] /\ buf' \in [Callers -> Seq(Int)]
  BY DEF TypeOK
<1>4. err' \in [Callers -> {"nil", "EOF", "negative", "closed",
                            "readEOF", "readFault", "readClosed"}]
  BY DEF TypeOK
<1> QED BY <1>1, <1>2, <1>3, <1>4 DEF TypeOK, FileUnchanged, fileVars

LEMMA Kept ==
  ASSUME TypeOK, NEW c \in Callers
  PROVE  /\ pc[c] \in {"idle", "loop", "done"} /\ off[c] \in Int /\ want[c] \in Nat
         /\ buf[c] \in Seq(Int)
         /\ err[c] \in {"nil", "EOF", "negative", "closed",
                        "readEOF", "readFault", "readClosed"}
         /\ pc = [pc EXCEPT ![c] = pc[c]] /\ off = [off EXCEPT ![c] = off[c]]
         /\ want = [want EXCEPT ![c] = want[c]] /\ buf = [buf EXCEPT ![c] = buf[c]]
         /\ err = [err EXCEPT ![c] = err[c]]
BY DEF TypeOK

LEMMA NoBytesType == NoBytes \in Seq(Int) /\ Len(NoBytes) = 0
BY DEF NoBytes

LEMMA BeginIInv ==
  ASSUME IInv, NEW c \in Callers, NEW o \in Offsets, NEW n \in Lengths, Begin(c, o, n)
  PROVE  IInv'
<1>1. /\ TypeOK /\ FileUnchanged /\ CallOK(c) /\ rec.size \in Nat
      /\ opening = "opened" /\ pc[c] = "idle" /\ buf[c] = NoBytes /\ err[c] = "nil"
      /\ o \in Int /\ n \in Nat
      /\ closed' \in BOOLEAN /\ imgOpen' \in BOOLEAN
  BY IInvPerCall, ExtsType, IsoFileAssumption
     DEF Begin, IInv, OpenInv, CallOK, FileUnchanged, fileVars, Exts, TypeOK
<1>2. CASE EntryError(o) = "nil" /\ pc' = [pc EXCEPT ![c] = "loop"] /\ UNCHANGED <<buf, err>>
  <2>1. 0 <= o /\ o < rec.size
    BY <1>1, <1>2 DEF EntryError
  <2>2. /\ TypeOK' /\ OnlyCall(c)
        /\ pc'[c] = "loop" /\ off'[c] = o /\ want'[c] = n /\ buf'[c] = NoBytes
        /\ err'[c] = "nil"
    <3>1. pc' = [pc EXCEPT ![c] = "loop"] /\ off' = [off EXCEPT ![c] = o]
          /\ want' = [want EXCEPT ![c] = n]
      BY <1>2 DEF Begin
    <3>2. buf' = [buf EXCEPT ![c] = buf[c]] /\ err' = [err EXCEPT ![c] = err[c]]
      BY <1>1, <1>2, Kept
    <3>3. NoBytes \in Seq(Int)
      BY NoBytesType
    <3>4. /\ pc'[c] = "loop" /\ off'[c] = o /\ want'[c] = n /\ buf'[c] = NoBytes
          /\ err'[c] = "nil"
      BY <1>1, <3>1, <3>2 DEF TypeOK
    <3> QED BY <1>1, <3>1, <3>2, <3>3, <3>4, CallType
  <2>3. CallOK(c)'
    BY <1>1, <2>1, <2>2, NoBytesType DEF CallOK, FileUnchanged, fileVars
  <2> QED BY <1>1, <2>2, <2>3, OneCall
<1>3. CASE EntryError(o) # "nil" /\ Finish(c, NoBytes, EntryError(o))
  <2>1. /\ EntryError(o) \in {"closed", "negative", "EOF"}
        /\ EntryError(o) = "EOF" => o >= rec.size
    <3>1. EntryError(o) = IF closed THEN "closed" ELSE IF o < 0 THEN "negative"
                          ELSE IF o >= rec.size THEN "EOF" ELSE "nil"
      BY DEF EntryError
    <3> QED BY <1>1, <1>3, <3>1
  <2>2. /\ TypeOK' /\ OnlyCall(c)
        /\ pc'[c] = "done" /\ off'[c] = o /\ want'[c] = n /\ buf'[c] = NoBytes
        /\ err'[c] = EntryError(o)
    <3>1. /\ pc' = [pc EXCEPT ![c] = "done"] /\ off' = [off EXCEPT ![c] = o]
          /\ want' = [want EXCEPT ![c] = n] /\ buf' = [buf EXCEPT ![c] = NoBytes]
          /\ err' = [err EXCEPT ![c] = EntryError(o)]
      BY <1>3 DEF Begin, Finish
    <3>2. /\ pc'[c] = "done" /\ off'[c] = o /\ want'[c] = n /\ buf'[c] = NoBytes
          /\ err'[c] = EntryError(o)
      BY <1>1, <3>1 DEF TypeOK
    <3> QED BY <1>1, <2>1, <3>1, <3>2, NoBytesType, CallType
  <2>3. CallOK(c)'
    BY <1>1, <2>1, <2>2, NoBytesType DEF CallOK, FileUnchanged, fileVars, Larger
  <2> QED BY <1>1, <2>2, <2>3, OneCall
<1> QED BY <1>2, <1>3 DEF Begin

LEMMA LoopFacts ==
  ASSUME IInv, NEW c \in Callers, InLoop(c)
  PROVE  /\ OpenInv /\ TypeOK /\ FileUnchanged /\ CallOK(c) /\ rec.size \in Nat /\ covered \in Nat
         /\ opening = "opened" /\ pc[c] = "loop" /\ err[c] = "nil"
         /\ off[c] \in Int /\ want[c] \in Nat /\ buf[c] \in Seq(Int) /\ Len(buf[c]) \in Nat
         /\ 0 <= off[c] /\ off[c] < rec.size
         /\ Len(buf[c]) <= want[c] /\ off[c] + Len(buf[c]) <= rec.size
         /\ closed' \in BOOLEAN /\ imgOpen' \in BOOLEAN
         /\ off' = off /\ want' = want
         /\ UNCHANGED <<Exts, start, rec, opening>>
<1>1. OpenInv /\ TypeOK /\ CallOK(c) /\ rec.size \in Nat /\ covered \in Nat
  BY IInvPerCall, ExtsType DEF IInv, OpenInv, TypeOK
<1>2. /\ pc[c] = "loop" /\ FileUnchanged
      /\ off' = off /\ want' = want /\ UNCHANGED <<Exts, start, rec, opening, closed, imgOpen>>
  BY DEF InLoop, FileUnchanged, fileVars, Exts
<1>3. off[c] \in Int /\ want[c] \in Nat /\ buf[c] \in Seq(Int) /\ Len(buf[c]) \in Nat
  BY <1>1, Kept
<1> QED BY <1>1, <1>2, <1>3 DEF CallOK, TypeOK

LEMMA FinishIInv ==
  ASSUME IInv, NEW c \in Callers, ReturnFilled(c) \/ ReturnEOF(c)
  PROVE  IInv'
<1>1. InLoop(c)
  BY DEF ReturnFilled, ReturnEOF
<1>2. PICK e \in {"nil", "EOF"} :
        /\ Finish(c, buf[c], e)
        /\ e = "nil" => Len(buf[c]) = want[c]
        /\ e = "EOF" => Len(buf[c]) < want[c] /\ Cur(c) >= rec.size
  BY DEF ReturnFilled, ReturnEOF
<1>3. /\ TypeOK' /\ OnlyCall(c)
      /\ pc'[c] = "done" /\ off'[c] = off[c] /\ want'[c] = want[c] /\ buf'[c] = buf[c]
      /\ err'[c] = e
  <2>1. /\ pc' = [pc EXCEPT ![c] = "done"]
        /\ buf' = [buf EXCEPT ![c] = buf[c]]
        /\ err' = [err EXCEPT ![c] = e]
    BY <1>2 DEF Finish
  <2>2. TypeOK /\ off' = off /\ want' = want
    BY <1>1, LoopFacts
  <2>3. off' = [off EXCEPT ![c] = off[c]] /\ want' = [want EXCEPT ![c] = want[c]]
    BY <2>2, Kept
  <2>4. /\ TypeOK /\ FileUnchanged /\ closed' \in BOOLEAN /\ imgOpen' \in BOOLEAN
        /\ off[c] \in Int /\ want[c] \in Nat /\ buf[c] \in Seq(Int)
    BY <1>1, LoopFacts
  <2>5. /\ pc'[c] = "done" /\ off'[c] = off[c] /\ want'[c] = want[c] /\ buf'[c] = buf[c]
        /\ err'[c] = e
    BY <2>1, <2>2, <2>4 DEF TypeOK
  <2> QED BY <2>1, <2>3, <2>4, <2>5, CallType
<1>4. CallOK(c)'
  <2>1. \A k \in 1..Len(buf[c]) : IsByte(Exts, start, off[c] + k - 1, buf[c][k])
    BY <1>1, LoopFacts DEF CallOK
  <2>2. /\ off[c] \in Int /\ want[c] \in Nat /\ Len(buf[c]) \in Nat /\ rec.size \in Nat
        /\ 0 <= off[c] /\ off[c] < rec.size
        /\ Len(buf[c]) <= want[c] /\ off[c] + Len(buf[c]) <= rec.size
        /\ opening' = "opened" /\ rec' = rec /\ start' = start /\ Exts' = Exts
    BY <1>1, LoopFacts
  <2>3. \A k \in 1..Len(buf'[c]) : IsByte(Exts', start', off'[c] + k - 1, buf'[c][k])
    BY <1>3, <2>1, <2>2
  <2> QED BY <1>2, <1>3, <2>2, <2>3 DEF CallOK, Cur, Larger
<1> QED BY <1>1, <1>3, <1>4, LoopFacts, OneCall

(* The iterations that deliver bytes: s is what they append to p[:n].      *)
LEMMA DeliverIInv ==
  ASSUME IInv, NEW c \in Callers, InLoop(c), NEW s \in Seq(Int),
         NEW p \in {"loop", "done"},
         NEW e \in {"nil", "readEOF", "readFault", "readClosed"},
         p = "loop" <=> e = "nil",
         pc' = [pc EXCEPT ![c] = p],
         buf' = [buf EXCEPT ![c] = @ \o s],
         err' = [err EXCEPT ![c] = e],
         Len(s) <= want[c] - Len(buf[c]),
         off[c] + Len(buf[c]) + Len(s) <= rec.size,
         \A k \in 1..Len(s) : IsByte(Exts, start, Cur(c) + k - 1, s[k])
  PROVE  IInv'
<1>1. /\ TypeOK /\ FileUnchanged /\ CallOK(c)
      /\ off[c] \in Int /\ want[c] \in Nat /\ buf[c] \in Seq(Int) /\ Len(buf[c]) \in Nat
      /\ rec.size \in Nat /\ 0 <= off[c] /\ off[c] < rec.size
      /\ closed' \in BOOLEAN /\ imgOpen' \in BOOLEAN /\ off' = off /\ want' = want
      /\ opening' = "opened" /\ rec' = rec /\ start' = start /\ Exts' = Exts
  BY LoopFacts
<1> DEFINE b == buf[c] \o s
<1>2. \A k \in 1..Len(buf[c]) : IsByte(Exts, start, off[c] + k - 1, buf[c][k])
  BY <1>1 DEF CallOK
<1>3. \A k \in 1..Len(s) : IsByte(Exts, start, off[c] + Len(buf[c]) + k - 1, s[k])
  BY DEF Cur
<1>4. /\ b \in Seq(Int) /\ Len(b) = Len(buf[c]) + Len(s)
      /\ \A k \in 1..Len(b) : IsByte(Exts, start, off[c] + k - 1, b[k])
  BY <1>1, <1>2, <1>3, Appended, ExtendSlice
<1> HIDE DEF b
<1>5. /\ off' = [off EXCEPT ![c] = off[c]] /\ want' = [want EXCEPT ![c] = want[c]]
      /\ buf' = [buf EXCEPT ![c] = b]
  BY <1>1, Kept DEF b
<1>6. /\ TypeOK' /\ OnlyCall(c)
      /\ pc'[c] = p /\ off'[c] = off[c] /\ want'[c] = want[c] /\ buf'[c] = b /\ err'[c] = e
  <2>1. /\ p \in {"idle", "loop", "done"}
        /\ e \in {"nil", "EOF", "negative", "closed", "readEOF", "readFault", "readClosed"}
    OBVIOUS
  <2>2. b \in Seq(Int)
    BY <1>4
  <2>3. pc'[c] = p /\ off'[c] = off[c] /\ want'[c] = want[c] /\ buf'[c] = b /\ err'[c] = e
    BY <1>1, <1>5 DEF TypeOK
  <2> QED BY <1>1, <1>5, <2>1, <2>2, <2>3, CallType
<1>7. \A k \in 1..Len(buf'[c]) : IsByte(Exts', start', off'[c] + k - 1, buf'[c][k])
  BY <1>1, <1>4, <1>6
<1>8. CallOK(c)'
  <2>1. /\ Len(s) \in Nat /\ Len(buf'[c]) \in Nat
        /\ Len(buf'[c]) = Len(buf[c]) + Len(s)
    BY <1>1, <1>4, <1>6
  <2>2. /\ Len(buf'[c]) <= want'[c] /\ off'[c] + Len(buf'[c]) <= rec'.size
        /\ off'[c] < rec'.size /\ 0 <= off'[c]
    BY <1>1, <1>6, <2>1
  <2>3. /\ pc'[c] \in {"loop", "done"}
        /\ pc'[c] = "loop" => err'[c] = "nil"
        /\ pc'[c] = "done" => err'[c] # "nil" /\ err'[c] # "EOF"
    BY <1>6
  <2>4. off'[c] + Len(buf'[c]) <= Larger(off'[c], rec'.size)
    BY <1>1, <1>6, <2>2 DEF Larger
  <2>5. opening' = "opened"
    BY <1>1
  <2> QED BY <1>7, <2>2, <2>3, <2>4, <2>5 DEF CallOK
<1> QED BY <1>1, <1>6, <1>8, OneCall

LEMMA ReadAtStepIInv ==
  ASSUME IInv, NEW c \in Callers, ReadAtStep(c)
  PROVE  IInv'
<1>1. CASE ReturnFilled(c) \/ ReturnEOF(c)
  BY <1>1, FinishIInv
<1>2. CASE ZeroTail(c)
  <2>1. InLoop(c)
    BY <1>2 DEF ZeroTail
  <2>2. /\ OpenInv /\ opening = "opened" /\ rec.size \in Nat /\ covered \in Nat
        /\ off[c] \in Int /\ 0 <= off[c] /\ want[c] \in Nat /\ Len(buf[c]) \in Nat
        /\ pc[c] = "loop" /\ err[c] = "nil" /\ TypeOK
    BY <2>1, LoopFacts
  <2>3. Len(buf[c]) < want[c] /\ Cur(c) < rec.size /\ Cur(c) >= covered
    BY <1>2 DEF ZeroTail
  <2>4. /\ Wanted(c) \in Nat /\ Wanted(c) <= want[c] - Len(buf[c])
        /\ Wanted(c) <= rec.size - Cur(c) /\ Cur(c) = off[c] + Len(buf[c]) /\ Cur(c) \in Nat
    <3>1. Cur(c) = off[c] + Len(buf[c]) /\ Cur(c) \in Nat
      BY <2>2 DEF Cur
    <3>2. want[c] - Len(buf[c]) \in Nat
      BY <2>2, <2>3
    <3>3. rec.size - Cur(c) \in Nat
      BY <2>2, <2>3, <3>1
    <3>4. /\ Wanted(c) \in {want[c] - Len(buf[c]), rec.size - Cur(c)}
          /\ Wanted(c) <= want[c] - Len(buf[c]) /\ Wanted(c) <= rec.size - Cur(c)
      BY <3>2, <3>3 DEF Wanted, Smaller
    <3> QED BY <3>1, <3>2, <3>3, <3>4
  <2> DEFINE s == Zeros(Wanted(c))
  <2>5. /\ s \in Seq(Int) /\ Len(s) = Wanted(c) /\ \A k \in 1..Len(s) : s[k] = Zero
    BY <2>4, ZerosType
  <2>6. ASSUME NEW k \in 1..Len(s)
        PROVE  IsByte(Exts, start, Cur(c) + k - 1, s[k])
    <3>1. s[k] = Zero /\ k \in Nat /\ 1 <= k
      BY <2>5
    <3>2. Cur(c) + k - 1 \in Nat
      BY <2>4, <3>1
    <3>3. Cur(c) + k - 1 >= covered
      BY <2>2, <2>3, <2>4, <3>1
    <3> QED BY <2>2, <3>1, <3>2, <3>3, ZeroIsByte
  <2>7. /\ pc' = [pc EXCEPT ![c] = "loop"] /\ err' = [err EXCEPT ![c] = "nil"]
        /\ buf' = [buf EXCEPT ![c] = @ \o s]
    BY <1>2, <2>2, Kept DEF ZeroTail
  <2> HIDE DEF s
  <2>8. /\ Len(s) <= want[c] - Len(buf[c])
        /\ off[c] + Len(buf[c]) + Len(s) <= rec.size
    BY <2>2, <2>4, <2>5
  <2> QED BY <2>1, <2>5, <2>6, <2>7, <2>8, DeliverIInv
<1>3. CASE ReadExtent(c)
  <2>1. InLoop(c)
    BY <1>3 DEF ReadExtent
  <2>2. PICK s \in Seq(Int) :
           /\ buf' = [buf EXCEPT ![c] = @ \o s]
           /\ Len(s) <= want[c] - Len(buf[c])
           /\ off[c] + Len(buf[c]) + Len(s) <= rec.size
           /\ \A k \in 1..Len(s) : IsByte(Exts, start, Cur(c) + k - 1, s[k])
           /\ \/ UNCHANGED <<pc, err>>
              \/ /\ pc' = [pc EXCEPT ![c] = "done"]
                 /\ \E e \in {"readEOF", "readFault", "readClosed"} :
                      err' = [err EXCEPT ![c] = e]
    BY <1>3, ReadExtentSlice
  <2>3. CASE UNCHANGED <<pc, err>>
    <3>1. pc' = [pc EXCEPT ![c] = "loop"] /\ err' = [err EXCEPT ![c] = "nil"]
      BY <2>1, <2>3, LoopFacts, Kept
    <3> QED BY <2>1, <2>2, <3>1, DeliverIInv
  <2>4. CASE /\ pc' = [pc EXCEPT ![c] = "done"]
             /\ \E e \in {"readEOF", "readFault", "readClosed"} : err' = [err EXCEPT ![c] = e]
    <3>1. PICK e \in {"readEOF", "readFault", "readClosed"} : err' = [err EXCEPT ![c] = e]
      BY <2>4
    <3> QED BY <2>1, <2>2, <2>4, <3>1, DeliverIInv
  <2> QED BY <2>2, <2>3, <2>4
<1> QED BY <1>1, <1>2, <1>3 DEF ReadAtStep

LEMMA ReturnIInv ==
  ASSUME IInv, NEW c \in Callers, Return(c)
  PROVE  IInv'
<1>1. /\ TypeOK /\ FileUnchanged /\ closed' \in BOOLEAN /\ imgOpen' \in BOOLEAN
  BY DEF Return, IInv, OpenInv, TypeOK, FileUnchanged, fileVars, Exts
<1>2. /\ TypeOK' /\ OnlyCall(c)
      /\ pc'[c] = "idle" /\ off'[c] = 0 /\ want'[c] = 0 /\ buf'[c] = NoBytes /\ err'[c] = "nil"
  <2>1. /\ pc' = [pc EXCEPT ![c] = "idle"] /\ off' = [off EXCEPT ![c] = 0]
        /\ want' = [want EXCEPT ![c] = 0] /\ buf' = [buf EXCEPT ![c] = NoBytes]
        /\ err' = [err EXCEPT ![c] = "nil"]
    BY DEF Return
  <2>2. /\ pc'[c] = "idle" /\ off'[c] = 0 /\ want'[c] = 0 /\ buf'[c] = NoBytes
        /\ err'[c] = "nil"
    BY <1>1, <2>1 DEF TypeOK
  <2>3. /\ off'[c] \in Int /\ want'[c] \in Nat /\ buf'[c] \in Seq(Int)
    BY <2>2, NoBytesType
  <2>4. /\ pc' = [pc EXCEPT ![c] = pc'[c]] /\ off' = [off EXCEPT ![c] = off'[c]]
        /\ want' = [want EXCEPT ![c] = want'[c]] /\ buf' = [buf EXCEPT ![c] = buf'[c]]
        /\ err' = [err EXCEPT ![c] = err'[c]]
    BY <2>1, <2>2
  <2>5. TypeOK' /\ OnlyCall(c)
    BY <1>1, <2>2, <2>3, <2>4, CallType
  <2> QED BY <2>2, <2>5
<1>3. CallOK(c)'
  BY <1>2, NoBytesType DEF CallOK
<1> QED BY <1>1, <1>2, <1>3, OneCall

---------------------------------------------------------------------------
LEMMA NextIInv == IInv /\ [Next]_vars => IInv'
<1> SUFFICES ASSUME IInv, [Next]_vars PROVE IInv'
  OBVIOUS
<1>1. CASE OpenStep
  BY <1>1, OpenStepIInv
<1>2. ASSUME NEW c \in Callers, CallerStep(c) PROVE IInv'
  BY <1>2, BeginIInv, ReadAtStepIInv, ReturnIInv DEF CallerStep
<1>3. CASE Close \/ CloseImage \/ UNCHANGED vars
  <2>1. UNCHANGED <<fileVars, callVars, Exts>>
    BY <1>3 DEF Close, CloseImage, vars, fileVars, callVars, Exts
  <2>2. TypeOK'
    BY <1>3, <2>1 DEF Close, CloseImage, vars, fileVars, callVars, IInv, OpenInv, TypeOK
  <2>3. OpenInv'
    BY <2>1, <2>2, OpenInvUnchanged DEF IInv, FileUnchanged
  <2> QED BY <2>1, <2>3 DEF IInv, fileVars, callVars, CallInv, DeliversTheFile,
             ReaderAtContract
<1> QED BY <1>1, <1>2, <1>3 DEF Next

LEMMA ReadEOFComesFromTheImage ==
  ASSUME IInv, [Next]_vars, NEW d \in Callers, err'[d] = "readEOF"
  PROVE  \/ err[d] = "readEOF" /\ off'[d] = off[d] /\ want'[d] = want[d]
         \/ ReadExtent(d)
<1>0. TypeOK
  BY DEF IInv, OpenInv
<1>1. CASE OpenStep \/ Close \/ CloseImage \/ UNCHANGED vars
  BY <1>1 DEF OpenStep, OpenRecord, PlaceExtent, FinishOpen, Close, CloseImage, vars, callVars
<1>2. ASSUME NEW c \in Callers, CallerStep(c)
      PROVE  \/ err[d] = "readEOF" /\ off'[d] = off[d] /\ want'[d] = want[d]
             \/ ReadExtent(d)
  <2>1. CASE d # c
    <3>1. /\ off'[d] = off[d] /\ want'[d] = want[d] /\ err'[d] = err[d]
      BY <1>0, <1>2, <2>1
         DEF CallerStep, Begin, ReadAtStep, ReturnFilled, ReturnEOF, ZeroTail, ReadExtent,
             InLoop, Finish, Return, TypeOK
    <3> QED BY <3>1
  <2>2. CASE d = c
    <3>1. CASE \E o \in Offsets, n \in Lengths : Begin(c, o, n)
      <4>1. err'[c] = err[c] \/ err'[c] \in {"closed", "negative", "EOF"}
        BY <1>0, <3>1 DEF Begin, Finish, EntryError, TypeOK
      <4>2. err[c] = "nil"
        BY <3>1 DEF Begin, IInv, CallInv
      <4> QED BY <2>2, <4>1, <4>2
    <3>2. CASE ReturnFilled(c) \/ ReturnEOF(c)
      BY <1>0, <2>2, <3>2 DEF ReturnFilled, ReturnEOF, Finish, TypeOK
    <3>3. CASE ZeroTail(c)
      BY <1>0, <2>2, <3>3 DEF ZeroTail, InLoop
    <3>4. CASE Return(c)
      BY <1>0, <2>2, <3>4 DEF Return, TypeOK
    <3>5. CASE ReadExtent(c)
      BY <2>2, <3>5
    <3> QED BY <1>2, <3>1, <3>2, <3>3, <3>4, <3>5 DEF CallerStep, ReadAtStep
  <2> QED BY <2>1, <2>2
<1> QED BY <1>1, <1>2 DEF Next

LEMMA FilledStep ==
  ASSUME EagerEOF = FALSE, IInv, FilledWhenBytesExist, [Next]_vars
  PROVE  FilledWhenBytesExist'
<1> SUFFICES ASSUME NEW c \in Callers, err'[c] = "readEOF"
             PROVE  AskedPastImage(c)'
  BY DEF FilledWhenBytesExist
<1>1. UNCHANGED <<rec, start, Exts>>
  BY DEF Next, OpenStep, OpenRecord, PlaceExtent, FinishOpen, CallerStep, Begin, ReadAtStep,
     ReturnFilled, ReturnEOF, ZeroTail, ReadExtent, InLoop, Return, Close,
     CloseImage, fileVars, vars, Exts
<1>2. CASE err[c] = "readEOF" /\ off'[c] = off[c] /\ want'[c] = want[c]
  BY <1>1, <1>2 DEF FilledWhenBytesExist, AskedPastImage
<1>3. CASE ReadExtent(c)
  <2>1. AskedPastImage(c)
    <3>1. \/ UNCHANGED <<pc, err>>
          \/ \E e \in {"readEOF", "readFault", "readClosed"} :
               /\ err' = [err EXCEPT ![c] = e]
               /\ e = "readEOF" => EagerEOF \/ AskedPastImage(c)
      BY <1>3, ReadExtentSlice
    <3>2. err[c] = "nil" /\ TypeOK
      BY <1>3, LoopFacts DEF ReadExtent
    <3> QED BY <3>1, <3>2 DEF TypeOK
  <2>2. off'[c] = off[c] /\ want'[c] = want[c]
    BY <1>3 DEF ReadExtent, InLoop
  <2> QED BY <1>1, <2>1, <2>2 DEF AskedPastImage
<1> QED BY <1>2, <1>3, ReadEOFComesFromTheImage

(* Types: no index leaves a slice, no buffer grows past its caller's p.    *)
THEOREM TypeCorrect == Spec => []TypeOK
<1>1. IInv => TypeOK
  BY DEF IInv, OpenInv
<1> QED BY InitIInv, NextIInv, <1>1, PTL DEF Spec

(* For every record, image, offset, length and interleaving of callers,    *)
(* what ReadAt has delivered is a slice of the file.                       *)
THEOREM ReadsDeliverTheFile == Spec => []DeliversTheFile
<1>1. IInv => DeliversTheFile
  BY DEF IInv
<1> QED BY InitIInv, NextIInv, <1>1, PTL DEF Spec

(* ReadAt keeps the io.ReaderAt contract for every record and image.       *)
THEOREM ReadsKeepTheContract == Spec => []ReaderAtContract
<1>1. IInv => ReaderAtContract
  BY DEF IInv
<1> QED BY InitIInv, NextIInv, <1>1, PTL DEF Spec

(* The binary search of ReadAt never runs off the extent list.             *)
THEOREM SearchNeverPanics == Spec => []NoGap
<1>1. IInv => NoGap
  BY DEF IInv, OpenInv
<1> QED BY InitIInv, NextIInv, <1>1, PTL DEF Spec

(* The extents openRecord places are disjoint, in order and within Size.   *)
THEOREM ExtentsPlacedInOrder == Spec => []PlacedInOrder
<1>1. IInv => PlacedInOrder
  BY DEF IInv, OpenInv
<1> QED BY InitIInv, NextIInv, <1>1, PTL DEF Spec

(* Through a reader that keeps io.EOF for short reads, a call fails with   *)
(* the image's end only when a byte it asked for lies past that end.       *)
THEOREM ReadsAreFilled ==
  ASSUME EagerEOF = FALSE
  PROVE  Spec => []FilledWhenBytesExist
<1>1. Init => FilledWhenBytesExist
  BY DEF Init, FilledWhenBytesExist
<1>2. IInv /\ FilledWhenBytesExist /\ [Next]_vars => FilledWhenBytesExist'
  BY FilledStep
<1> QED BY InitIInv, NextIInv, <1>1, <1>2, PTL DEF Spec

---------------------------------------------------------------------------
(* IsoFile keeps the promise of ReaderAt, for every record, image and set  *)
(* of callers: a call that reads the image extent by extent answers as if  *)
(* it had been served in one step from one content.                        *)

(* The content *)

\* An extent of the record that holds byte x of the file.
Holds(i, x) == start[i] <= x /\ x < start[i + 1]

LEMMA SequenceOf ==
  ASSUME NEW n \in Nat, NEW f, f = [x \in 1..n |-> f[x]], \A x \in 1..n : f[x] \in Int
  PROVE  f \in Seq(Int) /\ Len(f) = n
OBVIOUS

\* The content is a sequence of as many bytes as the record says.
LEMMA ContentType ==
  ASSUME TypeOK
  PROVE  Content \in Seq(Int) /\ Len(Content) = rec.size
<1>1. /\ Exts \in Seq(Extent) /\ rec.size \in Nat
      /\ start \in [1..(Len(Exts) + 1) -> Nat] /\ Len(Exts) \in Nat
  BY ExtsType
<1>2. ASSUME NEW x \in 1..rec.size
      PROVE  Content[x] \in Int
  <2>1. CASE \E i \in 1..Len(Exts) : Holds(i, x - 1)
    <3> DEFINE i == CHOOSE i \in 1..Len(Exts) : Holds(i, x - 1)
    <3>1. i \in 1..Len(Exts)
      BY <2>1
    <3>2. Content[x] = DiskOff(Exts[i]) + (x - 1 - start[i])
      BY <2>1 DEF Content, Holds
    <3> HIDE DEF i
    <3>3. Exts[i] \in Extent /\ start[i] \in Nat
      BY <1>1, <3>1
    <3> QED BY <3>2, <3>3, DiskOffType
  <2>2. CASE ~\E i \in 1..Len(Exts) : Holds(i, x - 1)
    <3>1. Content[x] = Zero
      BY <2>2 DEF Content, Holds
    <3> QED BY <3>1 DEF Zero
  <2> QED BY <2>1, <2>2
<1>3. Content = [x \in 1..rec.size |-> Content[x]]
  BY DEF Content
<1> QED BY <1>1, <1>2, <1>3, SequenceOf

ContentIsBytes == Content \in Seq(Int)

LEMMA BytesNow == TypeOK => ContentIsBytes
BY ContentType DEF ContentIsBytes

LEMMA BytesAfter == TypeOK' => ContentIsBytes'
BY BytesNow, PTL

\* A byte of the file is the byte of the content at its offset.
LEMMA ByteOfContent ==
  ASSUME OpenInv, opening = "opened", NEW x \in 0..(rec.size - 1), NEW b \in Int,
         IsByte(Exts, start, x, b)
  PROVE  b = Content[x + 1]
<1>1. /\ Exts \in Seq(Extent) /\ rec.size \in Nat
      /\ start \in [1..(Len(Exts) + 1) -> Nat] /\ Len(Exts) \in Nat
  BY ExtsType DEF OpenInv
<1>2. x + 1 \in 1..rec.size /\ (x + 1) - 1 = x
  BY <1>1
<1>3. CASE \E i \in 1..Len(Exts) : Holds(i, x)
  <2> DEFINE i == CHOOSE i \in 1..Len(Exts) : Holds(i, x)
  <2>1. i \in 1..Len(Exts) /\ Holds(i, x)
    BY <1>3
  <2>2. Content[x + 1] = DiskOff(Exts[i]) + (x - start[i])
    BY <1>2, <1>3 DEF Content, Holds
  <2> HIDE DEF i
  <2> QED BY <2>1, <2>2 DEF IsByte, Holds
<1>4. CASE ~\E i \in 1..Len(Exts) : Holds(i, x)
  <2>1. ~(x < covered)
    <3> SUFFICES ASSUME x < covered PROVE FALSE
      OBVIOUS
    <3>0. x \in 0..(covered - 1)
      BY DEF OpenInv, TypeOK
    <3>1. PICK k \in 1..Len(placed) : placed[k].fileOff <= x /\ x < EndOf(placed[k])
      BY <3>0 DEF OpenInv, NoGap
    <3>2. PICK i \in 1..Len(Exts) :
            placed[k].fileOff = start[i] /\ EndOf(placed[k]) = start[i + 1]
      BY DEF OpenInv, Placed
    <3> QED BY <1>4, <3>1, <3>2 DEF Holds
  <2>2. start[Len(Exts) + 1] <= x
    BY <1>1, <2>1 DEF OpenInv, TypeOK
  <2>3. Content[x + 1] = Zero
    BY <1>2, <1>4 DEF Content, Holds
  <2> QED BY <2>2, <2>3 DEF IsByte
<1> QED BY <1>3, <1>4

\* A slice has the elements of the whole from its offset on.
LEMMA SliceOf ==
  ASSUME NEW s \in Seq(Int), NEW o \in Nat, NEW n \in Nat, o + n <= Len(s)
  PROVE  /\ SubSeq(s, o + 1, o + n) \in Seq(Int)
         /\ Len(SubSeq(s, o + 1, o + n)) = n
         /\ \A k \in 1..n : SubSeq(s, o + 1, o + n)[k] = s[o + k]
<1>1. SubSeq(s, o + 1, o + n) = [k \in 1..n |-> s[o + k]]
  <2>1. (o + n) - (o + 1) + 1 = n
    OBVIOUS
  <2>2. SubSeq(s, o + 1, o + n) = [k \in 1..n |-> s[(o + 1) + k - 1]]
    BY <2>1
  <2>3. ASSUME NEW k \in 1..n
        PROVE  (o + 1) + k - 1 = o + k
    OBVIOUS
  <2> QED BY <2>2, <2>3
<1>2. ASSUME NEW k \in 1..n
      PROVE  s[o + k] \in Int
  BY o + k \in 1..Len(s)
<1> QED BY <1>1, <1>2

LEMMA SameSequence ==
  ASSUME NEW s \in Seq(Int), NEW t \in Seq(Int), Len(s) = Len(t),
         \A k \in 1..Len(t) : s[k] = t[k]
  PROVE  s = t
OBVIOUS

\* What a call has delivered is a slice of the content.
LEMMA DeliveredIsSlice ==
  ASSUME IInv, opening = "opened", NEW c \in Callers,
         0 <= off[c], off[c] + Len(buf[c]) <= rec.size
  PROVE  buf[c] = SubSeq(Content, off[c] + 1, off[c] + Len(buf[c]))
<1>1. /\ rec.size \in Nat /\ off[c] \in Int /\ buf[c] \in Seq(Int)
      /\ Content \in Seq(Int) /\ Len(Content) = rec.size
  BY ExtsType, ContentType DEF IInv, OpenInv, TypeOK
<1>2. PICK o \in Nat : o = off[c]
  BY <1>1
<1>3. PICK n \in Nat : n = Len(buf[c])
  BY <1>1
<1>4. rec.size \in Nat /\ o + n <= rec.size
  BY <1>1, <1>2, <1>3
<1>5. ASSUME NEW k \in 1..n
      PROVE  buf[c][k] = Content[o + k]
  <2>0. o + k - 1 \in Nat
    OBVIOUS
  <2>1. PICK x \in Nat : x = o + k - 1
    BY <2>0
  <2>2. x \in 0..(rec.size - 1) /\ x + 1 = o + k
    BY <1>4, <2>1
  <2>3. buf[c][k] \in Int /\ IsByte(Exts, start, x, buf[c][k])
    BY <1>1, <1>2, <1>3, <2>1 DEF IInv, DeliversTheFile
  <2>4. buf[c][k] = Content[x + 1]
    BY <2>2, <2>3, ByteOfContent DEF IInv
  <2> QED BY <2>2, <2>4
<1>6. o + n <= Len(Content)
  BY <1>1, <1>2, <1>3
<1> DEFINE t == SubSeq(Content, o + 1, o + n)
<1>7. t \in Seq(Int) /\ Len(t) = n /\ \A k \in 1..n : t[k] = Content[o + k]
  BY <1>1, <1>6, SliceOf
<1>8. t = SubSeq(Content, off[c] + 1, off[c] + Len(buf[c]))
  BY <1>2, <1>3
<1> HIDE DEF t
<1>9. Len(buf[c]) = Len(t) /\ \A k \in 1..Len(t) : buf[c][k] = t[k]
  BY <1>3, <1>5, <1>7
<1>10. buf[c] = t
  BY <1>1, <1>7, <1>9, SameSequence
<1> QED BY <1>8, <1>10
\* The same of every call whose delivery lies in the file.
Slices ==
  opening = "opened" => \A c \in Callers :
    0 <= off[c] /\ off[c] + Len(buf[c]) <= rec.size =>
      buf[c] = SubSeq(Content, off[c] + 1, off[c] + Len(buf[c]))

LEMMA SlicesHold == IInv => Slices
BY DeliveredIsSlice DEF Slices

LEMMA SlicesHoldAfter == IInv' => Slices'
BY SlicesHold, PTL

---------------------------------------------------------------------------
(* The mapping *)

\* What the promise's phase, buf and content stand for here.
Phase ==
  [c \in Callers |-> CASE pc[c] = "idle" -> "idle" [] pc[c] = "loop" -> "pending"
                       [] OTHER -> "answered"]
Shown == [c \in Callers |-> IF pc[c] = "loop" THEN << >> ELSE buf[c]]
Bytes == IF opening = "opened" THEN Content ELSE << >>

\* A step that leaves the record alone leaves the content alone.
LEMMA BytesKept ==
  ASSUME UNCHANGED <<rec, start, opening>>
  PROVE  Bytes' = Bytes /\ Content' = Content
BY DEF Bytes, Content, Exts

\* A step of one call changes the mapped state of that call only.
LEMMA OneCallMapped ==
  ASSUME TypeOK, NEW c \in Callers, OnlyCall(c)
  PROVE  /\ Phase' = [Phase EXCEPT ![c] = Phase'[c]]
         /\ Shown' = [Shown EXCEPT ![c] = Shown'[c]]
         /\ err' = [err EXCEPT ![c] = err'[c]]
<1>1. ASSUME NEW d \in Callers, d # c
      PROVE  pc'[d] = pc[d] /\ buf'[d] = buf[d] /\ err'[d] = err[d]
  BY <1>1 DEF OnlyCall, TypeOK
<1>2. /\ DOMAIN Phase = Callers /\ DOMAIN Phase' = Callers
      /\ \A d \in Callers \ {c} : Phase'[d] = Phase[d]
  BY <1>1 DEF Phase
<1>3. Phase' = [Phase EXCEPT ![c] = Phase'[c]]
  BY <1>2 DEF Phase
<1>4. /\ DOMAIN Shown = Callers /\ DOMAIN Shown' = Callers
      /\ \A d \in Callers \ {c} : Shown'[d] = Shown[d]
  BY <1>1 DEF Shown
<1>5. Shown' = [Shown EXCEPT ![c] = Shown'[c]]
  BY <1>4 DEF Shown
<1>6. err' = [err EXCEPT ![c] = err'[c]]
  BY DEF OnlyCall, TypeOK
<1> QED BY <1>3, <1>5, <1>6

LEMMA InitMaps == Init => Promise!Init
BY DEF Init, Promise!Init, NoBytes

\* A step that ends the loop of a call is the promise's answer to that call.
LEMMA AnswerMaps ==
  ASSUME IInv, IInv', NEW c \in Callers, InLoop(c), OnlyCall(c), pc'[c] = "done",
         err'[c] # "negative", err'[c] # "closed",
         err'[c] = "EOF" => Len(buf'[c]) < want[c]
  PROVE  Promise!Answer(c)
<1>1. /\ TypeOK /\ rec.size \in Nat /\ off[c] \in Int /\ want[c] \in Nat
      /\ 0 <= off[c] /\ off[c] < rec.size /\ opening = "opened" /\ pc[c] = "loop"
      /\ UNCHANGED <<rec, start, opening, closed, off, want>>
  BY LoopFacts DEF InLoop, fileVars
<1>2. /\ buf'[c] \in Seq(Int) /\ Len(buf'[c]) \in Nat
      /\ err'[c] \in {"nil", "EOF", "readEOF", "readFault", "readClosed"}
  BY DEF IInv, OpenInv, TypeOK
<1>3. /\ err'[c] = "nil" => Len(buf'[c]) = want[c]
      /\ err'[c] = "EOF" => Len(buf'[c]) = Larger(0, rec.size - off[c])
      /\ Len(buf'[c]) <= want[c]
      /\ off[c] + Len(buf'[c]) <= Larger(off[c], rec.size)
  BY <1>1 DEF IInv, ReaderAtContract
<1>4. /\ off[c] + Len(buf'[c]) <= rec.size
      /\ err'[c] = "EOF" => off[c] + Len(buf'[c]) = rec.size
  BY <1>1, <1>2, <1>3 DEF Larger
<1>5. /\ Bytes' = Bytes /\ Content' = Content /\ Bytes = Content
      /\ Len(Content) = rec.size
  BY <1>1, BytesKept, ContentType DEF Bytes
<1>6. buf'[c] = SubSeq(Content, off[c] + 1, off[c] + Len(buf'[c]))
  BY <1>1, <1>4, <1>5, SlicesHoldAfter DEF Slices
<1>7. Phase[c] = "pending" /\ Phase'[c] = "answered" /\ Shown'[c] = buf'[c]
  BY <1>1 DEF Phase, Shown
<1>8. Promise!Answers(off[c], want[c], buf'[c], err'[c])
  BY <1>1, <1>2, <1>3, <1>4, <1>5, <1>6 DEF Promise!Answers, Promise!Slice, Bytes
<1>9. /\ Phase' = [Phase EXCEPT ![c] = "answered"]
      /\ Shown' = [Shown EXCEPT ![c] = Shown'[c]]
      /\ err' = [err EXCEPT ![c] = err'[c]]
  BY <1>1, <1>7, OneCallMapped
<1> QED BY <1>1, <1>5, <1>7, <1>8, <1>9 DEF Promise!Answer, Phase, Shown, Bytes

\* A call that answers at once is the promise's refusal; one that enters
\* the loop is the promise's call.
LEMMA BeginMaps ==
  ASSUME IInv, NEW c \in Callers, NEW o \in Offsets, NEW n \in Lengths, Begin(c, o, n)
  PROVE  Promise!Refuse(c, o, n) \/ Promise!Call(c, o, n)
<1>1. /\ TypeOK /\ rec.size \in Nat /\ o \in Int /\ opening = "opened" /\ pc[c] = "idle"
      /\ buf[c] = << >> /\ err[c] = "nil" /\ OnlyCall(c)
      /\ UNCHANGED <<rec, start, opening, closed>>
      /\ off' = [off EXCEPT ![c] = o] /\ want' = [want EXCEPT ![c] = n]
  <2>1. TypeOK /\ rec.size \in Nat
    BY ExtsType DEF IInv, OpenInv
  <2>2. o \in Int
    BY IsoFileAssumption
  <2>3. opening = "opened" /\ pc[c] = "idle" /\ buf[c] = << >> /\ err[c] = "nil"
    BY DEF Begin, IInv, CallInv, NoBytes
  <2>4. /\ UNCHANGED <<rec, start, opening, closed>>
        /\ off' = [off EXCEPT ![c] = o] /\ want' = [want EXCEPT ![c] = n]
    BY DEF Begin, fileVars
  <2>5. OnlyCall(c)
    BY <2>1, Kept DEF Begin, Finish, OnlyCall
  <2> QED BY <2>1, <2>2, <2>3, <2>4, <2>5
<1>2. /\ Bytes' = Bytes /\ Bytes = Content /\ Len(Content) = rec.size
  BY <1>1, BytesKept, ContentType DEF Bytes
<1>3. /\ Phase' = [Phase EXCEPT ![c] = Phase'[c]]
      /\ Shown' = [Shown EXCEPT ![c] = Shown'[c]]
  BY <1>1, OneCallMapped
<1>4. CASE EntryError(o) = "nil" /\ pc' = [pc EXCEPT ![c] = "loop"] /\ UNCHANGED <<buf, err>>
  <2>1. ~closed
    BY <1>4 DEF EntryError
  <2>2. Phase[c] = "idle" /\ Phase'[c] = "pending" /\ Shown[c] = << >> /\ Shown'[c] = << >>
    BY <1>1, <1>4 DEF Phase, Shown, TypeOK
  <2>3. Shown' = Shown
    BY <1>3, <2>2 DEF Shown
  <2>4. Promise!Call(c, o, n)
    BY <1>1, <1>2, <1>3, <1>4, <2>1, <2>2, <2>3 DEF Promise!Call, Phase, Shown, Bytes
  <2> QED BY <2>4
<1>5. CASE EntryError(o) # "nil" /\ Finish(c, NoBytes, EntryError(o))
  <2>1. /\ EntryError(o) \in {"EOF", "negative", "closed"}
        /\ IF closed THEN EntryError(o) = "closed"
           ELSE \/ EntryError(o) = "negative" /\ o < 0
                \/ EntryError(o) = "EOF" /\ o >= rec.size
    BY <1>1, <1>5 DEF EntryError
  <2>2. /\ Phase[c] = "idle" /\ Phase'[c] = "answered" /\ Shown'[c] = << >>
        /\ err' = [err EXCEPT ![c] = EntryError(o)]
    BY <1>1, <1>5 DEF Finish, Phase, Shown, TypeOK, NoBytes
  <2>3. IF closed THEN EntryError(o) = "closed"
        ELSE Promise!Answers(o, n, << >>, EntryError(o))
    BY <1>1, <1>2, <2>1 DEF Promise!Answers, Bytes
  <2> DEFINE e == EntryError(o)
  <2>4. \E x \in {"EOF", "negative", "closed"} :
          /\ IF closed THEN x = "closed" ELSE Promise!Answers(o, n, << >>, x)
          /\ err' = [err EXCEPT ![c] = x]
    BY <2>1, <2>2, <2>3
  <2>5. /\ Phase' = [Phase EXCEPT ![c] = "answered"]
        /\ Shown' = [Shown EXCEPT ![c] = << >>]
    BY <1>3, <2>2
  <2>6. Promise!Refuse(c, o, n)
    BY <1>1, <1>2, <2>2, <2>4, <2>5 DEF Promise!Refuse, Phase, Shown, Bytes
  <2> QED BY <2>6
<1> QED BY <1>4, <1>5 DEF Begin
\* An iteration that keeps the call in the loop does not show.
LEMMA LoopHidden ==
  ASSUME IInv, NEW c \in Callers, InLoop(c), UNCHANGED <<pc, err>>,
         \E x : buf' = [buf EXCEPT ![c] = x]
  PROVE  UNCHANGED Promise!vars
<1>1. /\ TypeOK /\ pc[c] = "loop" /\ pc' = pc /\ err' = err
      /\ UNCHANGED <<rec, start, opening, closed, off, want>>
  BY LoopFacts DEF InLoop, fileVars
<1>2. \A d \in Callers : d = c \/ buf'[d] = buf[d]
  BY <1>1 DEF TypeOK
<1>3. Phase' = Phase /\ Shown' = Shown
  BY <1>1, <1>2 DEF Phase, Shown
<1>4. Bytes' = Bytes
  BY <1>1, BytesKept
<1> QED BY <1>1, <1>3, <1>4 DEF Promise!vars, Phase, Shown, Bytes

LEMMA ReadAtStepMaps ==
  ASSUME IInv, IInv', NEW c \in Callers, ReadAtStep(c)
  PROVE  Promise!Answer(c) \/ UNCHANGED Promise!vars
<1>0. /\ TypeOK /\ InLoop(c) /\ off' = off /\ want' = want
  BY DEF IInv, OpenInv, ReadAtStep, ReturnFilled, ReturnEOF, ZeroTail, ReadExtent, InLoop
<1>1. /\ \E x : off' = [off EXCEPT ![c] = x]
      /\ \E x : want' = [want EXCEPT ![c] = x]
  BY <1>0, Kept
<1>2. CASE ReturnFilled(c) \/ ReturnEOF(c)
  <2>1. PICK e \in {"nil", "EOF"} :
          Finish(c, buf[c], e) /\ (e = "EOF" => Len(buf[c]) < want[c])
    BY <1>2 DEF ReturnFilled, ReturnEOF
  <2>2. OnlyCall(c) /\ pc'[c] = "done" /\ buf'[c] = buf[c] /\ err'[c] = e
    BY <1>0, <1>1, <2>1 DEF Finish, OnlyCall, TypeOK
  <2> QED BY <1>0, <2>1, <2>2, AnswerMaps
<1>3. CASE ZeroTail(c)
  BY <1>0, <1>3, LoopHidden DEF ZeroTail
<1>4. CASE ReadExtent(c)
  <2>1. PICK s \in Seq(Int) :
           /\ buf' = [buf EXCEPT ![c] = @ \o s]
           /\ \/ UNCHANGED <<pc, err>>
              \/ /\ pc' = [pc EXCEPT ![c] = "done"]
                 /\ \E e \in {"readEOF", "readFault", "readClosed"} :
                      err' = [err EXCEPT ![c] = e]
    BY <1>4, ReadExtentSlice
  <2>2. CASE UNCHANGED <<pc, err>>
    BY <1>0, <2>1, <2>2, LoopHidden
  <2>3. CASE /\ pc' = [pc EXCEPT ![c] = "done"]
             /\ \E e \in {"readEOF", "readFault", "readClosed"} :
                  err' = [err EXCEPT ![c] = e]
    <3>1. OnlyCall(c)
      BY <1>1, <2>1, <2>3 DEF OnlyCall
    <3>2. pc'[c] = "done" /\ err'[c] \in {"readEOF", "readFault", "readClosed"}
      BY <1>0, <2>3 DEF TypeOK
    <3> QED BY <1>0, <3>1, <3>2, AnswerMaps
  <2> QED BY <2>1, <2>2, <2>3
<1> QED BY <1>2, <1>3, <1>4 DEF ReadAtStep

LEMMA ReturnMaps ==
  ASSUME IInv, NEW c \in Callers, Return(c)
  PROVE  Promise!Take(c)
<1>1. /\ TypeOK /\ OnlyCall(c) /\ pc[c] = "done"
      /\ UNCHANGED <<rec, start, opening, closed>>
  BY DEF IInv, OpenInv, Return, OnlyCall, fileVars
<1>2. /\ Phase[c] = "answered" /\ Phase'[c] = "idle" /\ Shown'[c] = << >>
  BY <1>1 DEF Return, Phase, Shown, TypeOK, NoBytes
<1>3. /\ Phase' = [Phase EXCEPT ![c] = "idle"] /\ Shown' = [Shown EXCEPT ![c] = << >>]
  BY <1>1, <1>2, OneCallMapped
<1>4. /\ off' = [off EXCEPT ![c] = 0] /\ want' = [want EXCEPT ![c] = 0]
      /\ err' = [err EXCEPT ![c] = "nil"]
  BY DEF Return
<1>5. Bytes' = Bytes
  BY <1>1, BytesKept
<1> QED BY <1>1, <1>2, <1>3, <1>4, <1>5 DEF Promise!Take, Phase, Shown, Bytes

\* Placing the extents is hidden; accepting the last of them opens the file.
LEMMA OpenStepMaps ==
  ASSUME IInv, IInv', OpenStep
  PROVE  Promise!Open \/ UNCHANGED Promise!vars
<1>1. /\ opening # "opened" /\ UNCHANGED <<closed, pc, off, want, buf, err>>
  BY DEF OpenStep, OpenRecord, PlaceExtent, FinishOpen, callVars
<1>2. Phase' = Phase /\ Shown' = Shown
  BY <1>1 DEF Phase, Shown
<1>3. CASE opening' = "opened"
  <2>1. Bytes' \in Seq(Int)
    BY <1>3, BytesAfter DEF ContentIsBytes, Bytes, IInv, OpenInv
  <2> QED BY <1>1, <1>2, <1>3, <2>1 DEF Promise!Open, Phase, Shown, Bytes
<1>4. CASE opening' # "opened"
  <2>1. Bytes' = Bytes
    BY <1>1, <1>4 DEF Bytes
  <2> QED BY <1>1, <1>2, <1>4, <2>1 DEF Promise!vars, Phase, Shown, Bytes
<1> QED BY <1>3, <1>4

\* Closing the file is the promise's Close; closing the image under it is hidden.
LEMMA CloseMaps ==
  ASSUME Close \/ CloseImage \/ UNCHANGED vars
  PROVE  Promise!Close \/ UNCHANGED Promise!vars
<1>1. UNCHANGED <<rec, start, opening, pc, off, want, buf, err>>
  BY DEF Close, CloseImage, vars, fileVars, callVars
<1>2. Phase' = Phase /\ Shown' = Shown /\ Bytes' = Bytes
  BY <1>1, BytesKept DEF Phase, Shown
<1>3. (opening = "opened" /\ closed' = TRUE) \/ closed' = closed
  BY DEF Close, CloseImage, vars
<1> QED BY <1>1, <1>2, <1>3 DEF Promise!Close, Promise!vars, Phase, Shown, Bytes

LEMMA StepMaps == IInv /\ [Next]_vars => [Promise!Next]_(Promise!vars)
<1> SUFFICES ASSUME IInv, [Next]_vars PROVE [Promise!Next]_(Promise!vars)
  OBVIOUS
<1>1. IInv'
  BY NextIInv
<1>2. CASE OpenStep
  BY <1>1, <1>2, OpenStepMaps DEF Promise!Next
<1>3. ASSUME NEW c \in Callers, CallerStep(c) PROVE [Promise!Next]_(Promise!vars)
  <2>1. CASE \E o \in Offsets, n \in Lengths : Begin(c, o, n)
    BY <2>1, BeginMaps DEF Promise!Next
  <2>2. CASE ReadAtStep(c)
    BY <1>1, <2>2, ReadAtStepMaps DEF Promise!Next
  <2>3. CASE Return(c)
    BY <2>3, ReturnMaps DEF Promise!Next
  <2> QED BY <1>3, <2>1, <2>2, <2>3 DEF CallerStep
<1>4. CASE Close \/ CloseImage \/ UNCHANGED vars
  BY <1>4, CloseMaps DEF Promise!Next
<1> QED BY <1>2, <1>3, <1>4 DEF Next

(* openfile.go:133-140, for every record, image and set of goroutines: a   *)
(* ReadAt that finds its bytes extent by extent, while others read and     *)
(* close, answers as one read of one fixed content would.                  *)
THEOREM PromiseKept == Spec => KeepsPromise
BY InitMaps, InitIInv, NextIInv, StepMaps, PTL DEF Spec, KeepsPromise, Promise!Spec
=============================================================================
