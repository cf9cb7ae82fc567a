------------------------------- MODULE Image -------------------------------
(***************************************************************************)
(* What the two read paths of the driver share: a directory record, the    *)
(* extents it stands for, the bytes those extents hold, and the            *)
(* io.ReaderAt the image is read through.                                  *)
(*                                                                         *)
(* A byte of the image is abstracted to its address in the image, so two   *)
(* buffers are equal exactly when they were filled from the same places.   *)
(* Zero is a byte the driver filled in itself.                             *)
(***************************************************************************)
EXTENDS Integers, Sequences

CONSTANTS
  BlockSize,   \* vol.BlockSize, the logical block size in bytes
  ImageLen,    \* bytes the backing reader really holds
  Records,     \* the directory records a path may resolve to
  Declared,    \* sizes Open may be given; a negative one means "unknown"
  MaxOffset,   \* bound of the file offsets extents are placed at
  EagerEOF,    \* may the reader return io.EOF with the image's last byte?
  Faults       \* may the reader fail with an I/O error?

Zero == -1
NoBytes == << >>

Extent == [lba : Nat, size : Nat]

\* extents = << >> is the nil list of a record with a single extent.
DirRecord == [isDir : BOOLEAN, lba : Nat, size : Nat, extents : Seq(Extent)]

ASSUME ImageAssumption ==
  /\ BlockSize \in Nat \ {0}
  /\ ImageLen \in Nat
  /\ MaxOffset \in Nat
  /\ EagerEOF \in BOOLEAN
  /\ Faults \in BOOLEAN
  /\ Declared \subseteq Int
  /\ Records \subseteq DirRecord

(***************************************************************************)
(* The extents of a record, in file order.                                 *)
(***************************************************************************)
ExtentsOf(r) ==
  IF r.extents = << >> THEN << [lba |-> r.lba, size |-> r.size] >> ELSE r.extents

DiskOff(e) == e.lba * BlockSize

(***************************************************************************)
(* ECMA-119 6.5.1 read as a definition: the file is the concatenation of   *)
(* its extents, so extent i begins at start[i], where the lengths of the   *)
(* extents before it end. IsByte(exts, start, x, b) says that b is byte x  *)
(* of that file; past the extents a file reads as zeros.                   *)
(***************************************************************************)
Placements(exts) ==
  {s \in [1..(Len(exts) + 1) -> 0..MaxOffset] :
     /\ s[1] = 0
     /\ \A i \in 1..Len(exts) : s[i + 1] = s[i] + exts[i].size}

IsByte(exts, start, x, b) ==
  /\ \A i \in 1..Len(exts) :
       start[i] <= x /\ x < start[i + 1] => b = DiskOff(exts[i]) + (x - start[i])
  /\ start[Len(exts) + 1] <= x => b = Zero

(***************************************************************************)
(* The backing reader, after the io.ReaderAt contract: what it may return  *)
(* for a read of n bytes at off. A full read at the end of the source may  *)
(* carry io.EOF or not; a short one carries an error.                      *)
(***************************************************************************)
SourceRead(open, off, n) ==
  IF ~open THEN {[n |-> 0, err |-> "closed"]}
  ELSE {o \in [n : 0..n, err : {"nil", "EOF", "fault"}] :
          \/ /\ o.err = "nil"
             /\ o.n = n /\ off + n <= ImageLen
          \/ /\ o.err = "EOF"
             /\ \/ EagerEOF /\ o.n = n /\ off + n = ImageLen
                \/ o.n < n /\ off + o.n = ImageLen
                \/ o.n = 0 /\ off >= ImageLen
          \/ /\ o.err = "fault" /\ Faults
             /\ o.n < n
             /\ o.n = 0 \/ off + o.n <= ImageLen}

\* The m bytes the image holds at addr.
BytesAt(addr, m) == [k \in 1..m |-> addr + k - 1]

Zeros(m) == [k \in 1..m |-> Zero]

Smaller(a, b) == IF a <= b THEN a ELSE b
Larger(a, b) == IF a >= b THEN a ELSE b
=============================================================================
