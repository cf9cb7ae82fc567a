---------------------------- MODULE ImageLemmas ----------------------------
(***************************************************************************)
(* Facts about records, extents, bytes and reads of the image that the     *)
(* proofs of both read paths rest on.                                      *)
(***************************************************************************)
EXTENDS Image, TLAPS

LEMMA RecordType ==
  ASSUME NEW r \in Records, NEW s \in Placements(ExtentsOf(r))
  PROVE  /\ ExtentsOf(r) \in Seq(Extent)
         /\ Len(ExtentsOf(r)) \in Nat
         /\ r.size \in Nat
         /\ s \in [1..(Len(ExtentsOf(r)) + 1) -> Nat]
         /\ s[1] = 0
         /\ \A i \in 1..Len(ExtentsOf(r)) : s[i + 1] = s[i] + ExtentsOf(r)[i].size
<1>1. r \in DirRecord
  BY ImageAssumption
<1>2. ExtentsOf(r) \in Seq(Extent)
  <2>1. CASE r.extents = << >>
    BY <1>1, <2>1 DEF ExtentsOf, DirRecord, Extent
  <2>2. CASE r.extents # << >>
    BY <1>1, <2>2 DEF ExtentsOf, DirRecord
  <2> QED BY <2>1, <2>2
<1>3. s \in [1..(Len(ExtentsOf(r)) + 1) -> 0..MaxOffset]
  BY DEF Placements
<1>4. 0..MaxOffset \subseteq Nat
  BY ImageAssumption
<1> QED BY <1>1, <1>2, <1>3, <1>4 DEF Placements, DirRecord

LEMMA DiskOffType ==
  ASSUME NEW e \in Extent
  PROVE  DiskOff(e) \in Nat
<1>1. e.lba \in Nat /\ BlockSize \in Nat
  BY ImageAssumption DEF Extent
<1> QED BY <1>1, SMT DEF DiskOff

(* Extents that begin in file order are disjoint: a byte is in one of them *)
(* only, and past the last one there are zeros.                            *)
LEMMA ByteOfExtent ==
  ASSUME NEW exts \in Seq(Extent), NEW start \in [1..(Len(exts) + 1) -> Nat],
         \A a, b \in 1..(Len(exts) + 1) : a <= b => start[a] <= start[b],
         NEW i \in 1..Len(exts), NEW x \in Nat, start[i] <= x, x < start[i + 1]
  PROVE  IsByte(exts, start, x, DiskOff(exts[i]) + (x - start[i]))
<1>0. Len(exts) \in Nat
  OBVIOUS
<1>1. ASSUME NEW j \in 1..Len(exts), start[j] <= x, x < start[j + 1]
      PROVE  j = i
  <2>1. ~(i + 1 <= j)
    <3>1. i + 1 <= j => start[i + 1] <= start[j]
      BY <1>0
    <3> QED BY <1>0, <1>1, <3>1
  <2>2. ~(j + 1 <= i)
    <3>1. j + 1 <= i => start[j + 1] <= start[i]
      BY <1>0
    <3> QED BY <1>0, <1>1, <3>1
  <2> QED BY <1>0, <2>1, <2>2
<1>2. ~(start[Len(exts) + 1] <= x)
  <2>1. start[i + 1] <= start[Len(exts) + 1]
    BY <1>0
  <2> QED BY <1>0, <2>1
<1> QED BY <1>1, <1>2 DEF IsByte

LEMMA ByteOfTail ==
  ASSUME NEW exts \in Seq(Extent), NEW start \in [1..(Len(exts) + 1) -> Nat],
         \A a, b \in 1..(Len(exts) + 1) : a <= b => start[a] <= start[b],
         NEW x \in Nat, start[Len(exts) + 1] <= x
  PROVE  IsByte(exts, start, x, Zero)
<1>1. ASSUME NEW i \in 1..Len(exts)
      PROVE  ~(x < start[i + 1])
  <2>1. Len(exts) \in Nat /\ i + 1 \in 1..(Len(exts) + 1) /\ i + 1 <= Len(exts) + 1
    OBVIOUS
  <2>2. start[i + 1] <= start[Len(exts) + 1]
    BY <2>1
  <2> QED BY <2>1, <2>2
<1> QED BY <1>1 DEF IsByte

LEMMA SourceReadType ==
  ASSUME NEW open \in BOOLEAN, NEW addr \in Int, NEW n \in Nat,
         NEW o \in SourceRead(open, addr, n)
  PROVE  /\ o.n \in 0..n
         /\ o.err \in {"nil", "EOF", "fault", "closed"}
         /\ o.err = "nil" => o.n = n
         /\ o.err = "closed" => ~open
         /\ o.err = "EOF" => addr + o.n >= ImageLen /\ (EagerEOF \/ o.n < n \/ n = 0)
<1>1. CASE ~open
  <2>1. o = [n |-> 0, err |-> "closed"]
    BY <1>1 DEF SourceRead
  <2> QED BY <1>1, <2>1
<1>2. CASE open
  <2>1. o.n \in 0..n /\ o.err \in {"nil", "EOF", "fault"}
    BY <1>2 DEF SourceRead
  <2>2. \/ o.err = "nil" /\ o.n = n
        \/ /\ o.err = "EOF"
           /\ \/ EagerEOF /\ o.n = n /\ addr + n = ImageLen
              \/ o.n < n /\ addr + o.n = ImageLen
              \/ o.n = 0 /\ addr >= ImageLen
        \/ o.err = "fault"
    BY <1>2 DEF SourceRead
  <2> QED BY <1>2, <2>1, <2>2, ImageAssumption
<1> QED BY <1>1, <1>2

LEMMA BytesAtType ==
  ASSUME NEW addr \in Int, NEW m \in Nat
  PROVE  /\ BytesAt(addr, m) \in Seq(Int)
         /\ Len(BytesAt(addr, m)) = m
         /\ \A k \in 1..m : BytesAt(addr, m)[k] = addr + k - 1
BY DEF BytesAt

LEMMA ZerosType ==
  ASSUME NEW m \in Nat
  PROVE  /\ Zeros(m) \in Seq(Int)
         /\ Len(Zeros(m)) = m
         /\ \A k \in 1..m : Zeros(m)[k] = Zero
BY DEF Zeros, Zero

LEMMA Appended ==
  ASSUME NEW b \in Seq(Int), NEW s \in Seq(Int)
  PROVE  /\ b \o s \in Seq(Int)
         /\ Len(b \o s) = Len(b) + Len(s)
         /\ \A k \in 1..Len(b) : (b \o s)[k] = b[k]
         /\ \A k \in 1..Len(s) : (b \o s)[Len(b) + k] = s[k]
         /\ \A k \in 1..Len(b \o s) : k \in 1..Len(b) \/ k - Len(b) \in 1..Len(s)
OBVIOUS
=============================================================================
