----------------------------- MODULE ReadFile ------------------------------
(***************************************************************************)
(* readFile of read.go: check the record's size, validate every extent,    *)
(* reserve the output, and append the extents, one read of the image at a  *)
(* time. With the size of the image unknown the output is not reserved:    *)
(* it grows with the bytes the image delivers.                             *)
(***************************************************************************)
EXTENDS Image

CONSTANTS
  MaxUnknownAlloc,   \* the allocation ceiling of an image of unknown size
  MaxInt,            \* the largest slice length of the target
  GrowChunk,         \* the first step of a read that could not be checked
  Spare              \* the room slices.Grow may leave beyond what it was asked for

ASSUME ReadFileAssumption ==
  /\ MaxUnknownAlloc \in Nat
  /\ MaxInt \in Nat
  /\ GrowChunk \in Nat \ {0}
  /\ Spare \subseteq Nat /\ Spare # {}

VARIABLES
  rec,       \* the record the path resolved to
  start,     \* where each extent begins in the file, after ECMA-119 (not in the code)
  fsSize,    \* fs.size
  imgOpen,   \* FS.Close has not closed the image
  pc,        \* "start", "validate", "read", "ok" or "failed"
  next,      \* the extent the current loop is at
  covered,   \* validation's running total
  done,      \* appendAt's done, the bytes of that extent already read
  data,      \* the output
  cap,       \* its capacity
  asked,     \* the longest output asked of make or slices.Grow (not in the code)
  err

vars == <<rec, start, fsSize, imgOpen, pc, next, covered, done, data, cap, asked, err>>
input == <<rec, start, fsSize>>

Exts == ExtentsOf(rec)

AllocCeiling == IF fsSize >= 0 THEN fsSize ELSE MaxUnknownAlloc

\* Mutation of SizeUnknown: a size above the ceiling is not checked either.
SizeUnknownAbove == AllocCeiling >= MaxUnknownAlloc

SizeUnknown == AllocCeiling = MaxUnknownAlloc

TooLarge(n) == n > AllocCeiling \/ n > MaxInt

\* Mutation of OutOfBounds: only where the extent begins is checked.
StartsOutOfBounds(e) == ~SizeUnknown /\ DiskOff(e) > AllocCeiling

OutOfBounds(e) == ~SizeUnknown /\ DiskOff(e) > AllocCeiling - e.size

Init ==
  /\ rec \in Records
  /\ start \in Placements(Exts)
  /\ fsSize \in Declared
  /\ imgOpen = TRUE
  /\ pc = "start"
  /\ next = 1
  /\ covered = 0
  /\ done = 0
  /\ data = NoBytes
  /\ cap = 0
  /\ asked = 0
  /\ err = "nil"

\* Mutation of Fail: the two assignments are swapped.
FailSwapped(e) ==
  /\ pc' = e
  /\ err' = "failed"

Fail(e) ==
  /\ pc' = "failed"
  /\ err' = e

CheckRecord ==
  /\ pc = "start"
  /\ \/ /\ rec.isDir
        /\ Fail("notRegular")
     \/ /\ ~rec.isDir /\ TooLarge(rec.size)
        /\ Fail("tooLarge")
     \/ /\ ~rec.isDir /\ ~TooLarge(rec.size)
        /\ pc' = "validate"
        /\ UNCHANGED err
  /\ UNCHANGED <<input, imgOpen, next, covered, done, data, cap, asked>>

\* Mutation of Overruns: each extent is checked alone.
OverrunsAlone(e) == e.size > rec.size

Overruns(e) == covered + e.size > rec.size

ValidateExtent ==
  /\ pc = "validate" /\ next <= Len(Exts)
  /\ LET e == Exts[next] IN
       \/ /\ e.size = 0
          /\ next' = next + 1
          /\ UNCHANGED <<pc, covered, err>>
       \/ /\ e.size > 0 /\ Overruns(e)
          /\ Fail("overrun")
          /\ UNCHANGED <<next, covered>>
       \/ /\ e.size > 0 /\ ~Overruns(e) /\ OutOfBounds(e)
          /\ Fail("outOfBounds")
          /\ UNCHANGED <<next, covered>>
       \/ /\ e.size > 0 /\ ~Overruns(e) /\ ~OutOfBounds(e)
          /\ covered' = covered + e.size
          /\ next' = next + 1
          /\ UNCHANGED <<pc, err>>
  /\ UNCHANGED <<input, imgOpen, done, data, cap, asked>>

\* Mutation of Reserved: only what the extents cover.
ReservedCovered == IF SizeUnknown THEN 0 ELSE covered

\* The capacity make gives the output.
Reserved == IF SizeUnknown THEN 0 ELSE rec.size

\* After the loop: an uncovered tail is zero-filled only in a checked image.
Reserve ==
  /\ pc = "validate" /\ next > Len(Exts)
  /\ \/ /\ covered < rec.size /\ SizeUnknown
        /\ Fail("uncovered")
        /\ UNCHANGED <<next, cap, asked>>
     \/ /\ ~(covered < rec.size /\ SizeUnknown)
        /\ pc' = "read"
        /\ next' = 1
        /\ cap' = Reserved
        /\ asked' = Reserved
        /\ UNCHANGED err
  /\ UNCHANGED <<input, imgOpen, covered, done, data>>

\* Mutations of Step: all at once; never more than there already is.
StepAll(n) == n - done
StepDouble(n) ==
  IF SizeUnknown /\ cap - Len(data) < n - done THEN Smaller(n - done, Len(data)) ELSE n - done

\* The bytes appendAt asks for next, of an extent of n bytes.
Step(n) ==
  LET left == n - done IN
  IF SizeUnknown /\ cap - Len(data) < left
  THEN Smaller(left, Larger(GrowChunk, Len(data)))
  ELSE left

\* slices.Grow: n more bytes fit, and how many more is the runtime's choice.
Grow(n) ==
  LET needed == Len(data) + n IN
  \/ needed <= cap /\ UNCHANGED <<cap, asked>>
  \/ /\ needed > cap
     /\ asked' = needed
     /\ \E spare \in Spare : cap' = needed + spare

\* One iteration of appendAt, or its return when the extent is complete.
AppendAt ==
  /\ pc = "read" /\ next <= Len(Exts)
  /\ LET e == Exts[next] IN
       \/ /\ done = e.size
          /\ next' = next + 1
          /\ done' = 0
          /\ UNCHANGED <<pc, data, cap, asked, err>>
       \/ /\ done < e.size
          /\ Grow(Step(e.size))
          /\ \E o \in SourceRead(imgOpen, DiskOff(e) + done, Step(e.size)) :
               \/ /\ o.err = "nil" \/ (o.err = "EOF" /\ o.n = Step(e.size))
                  /\ data' = data \o BytesAt(DiskOff(e) + done, o.n)
                  /\ done' = done + o.n
                  /\ UNCHANGED <<pc, next, err>>
               \/ /\ ~(o.err = "nil" \/ (o.err = "EOF" /\ o.n = Step(e.size)))
                  /\ data' = data \o BytesAt(DiskOff(e) + done, o.n)
                  /\ Fail(o.err)
                  /\ UNCHANGED <<next, done>>
  /\ UNCHANGED <<input, imgOpen, covered>>

\* data[:total:total]: what lies past the extents is as make left it.
ReturnData ==
  /\ pc = "read" /\ next > Len(Exts)
  /\ pc' = IF cap < rec.size THEN "panic" ELSE "ok"
  /\ data' = data \o Zeros(rec.size - Len(data))
  /\ UNCHANGED <<input, imgOpen, next, covered, done, cap, asked, err>>

CloseImage ==
  /\ imgOpen /\ pc \in {"start", "validate", "read"}
  /\ imgOpen' = FALSE
  /\ UNCHANGED <<input, pc, next, covered, done, data, cap, asked, err>>

ReadStep == CheckRecord \/ ValidateExtent \/ Reserve \/ AppendAt \/ ReturnData

Next == ReadStep \/ CloseImage

Spec == Init /\ [][Next]_vars /\ WF_vars(ReadStep)

---------------------------------------------------------------------------
\* Every variable holds a value of the code's type.
TypeOK ==
  /\ rec \in Records
  /\ start \in Placements(Exts)
  /\ fsSize \in Declared
  /\ imgOpen \in BOOLEAN
  /\ pc \in {"start", "validate", "read", "ok", "failed", "panic"}
  /\ next \in 1..(Len(Exts) + 1)
  /\ covered \in Nat
  /\ done \in Nat
  /\ data \in Seq(Int)
  /\ cap \in Nat /\ asked \in Nat
  /\ err \in {"nil", "notRegular", "tooLarge", "overrun", "outOfBounds", "uncovered",
              "EOF", "fault", "closed"}

(* A read that succeeds returns the whole file, byte for byte: the extents *)
(* in order, zeros past what they cover, and exactly Size bytes, whatever  *)
(* steps the buffer grew in.                                               *)
ReturnsTheFile ==
  pc = "ok" => /\ Len(data) = rec.size
               /\ \A k \in 1..Len(data) : IsByte(Exts, start, k - 1, data[k])

(* data[:total:total] is within the capacity (read.go:267), on the path    *)
(* that reserved the output and on the one that let it grow.               *)
NoPanic == pc # "panic"

(* read.go:76-80: no output is asked for before a record is accepted; with *)
(* a known size readFile asks for no more than the image is long, and with *)
(* an unknown one for what was delivered so far and as much again, or one  *)
(* chunk, whatever room slices.Grow left the times before. What Grow adds  *)
(* to that is the runtime's choice, and no part of the bound.              *)
AskedBounded ==
  /\ err \in {"tooLarge", "overrun", "outOfBounds", "uncovered"} => asked = 0 /\ cap = 0
  /\ asked > 0 => IF SizeUnknown THEN asked <= Len(data) + Larger(GrowChunk, Len(data))
                                 ELSE asked <= fsSize

(* With the true size of the image declared, the validation is complete:   *)
(* io.EOF can no longer end a read half way (read.go:227-229).             *)
CheckedReadsAreWhole ==
  err = "EOF" => SizeUnknown \/ fsSize > ImageLen

(* read.go:59-61: only an image whose size is unknown escapes the checks   *)
(* against its size; a known one has every extent checked before any read. *)
KnownSizeIsChecked ==
  fsSize >= 0 /\ pc = "read" =>
    \A i \in 1..Len(Exts) : DiskOff(Exts[i]) + Exts[i].size <= fsSize \/ Exts[i].size = 0

(* ReadFile returns: no growth step is empty.                              *)
ReadReturns == <>(pc \in {"ok", "failed", "panic"})
=============================================================================
