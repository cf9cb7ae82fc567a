------------------------------ MODULE IsoFile ------------------------------
(***************************************************************************)
(* openfile.go: OpenFile places the extents of a record in the file's byte *)
(* space; the goroutines that share the file then call ReadAt, and any of  *)
(* them may Close the file, or the FS under it, between two reads of a     *)
(* call. One step of a call is one iteration of ReadAt's loop, which does  *)
(* at most one read of the image.                                          *)
(***************************************************************************)
EXTENDS Image

CONSTANTS
  Callers,   \* the goroutines that share the file
  Offsets,   \* off arguments of ReadAt
  Lengths    \* len(p) arguments of ReadAt

ASSUME IsoFileAssumption ==
  /\ Offsets \subseteq Int
  /\ Lengths \subseteq Nat

VARIABLES
  rec,       \* the record the path resolved to
  start,     \* where each extent begins in the file, after ECMA-119 (not in the code)
  fsSize,    \* fs.size
  opening,   \* "start", "placing", "opened" or "refused": where openRecord is
  next,      \* the extent openRecord's loop is at
  placed,    \* f.extents
  covered,   \* f.covered
  closed,    \* f.closed
  imgOpen,   \* FS.Close has not closed the image
  pc,        \* pc[c]: "idle", "loop" or "done": where c's ReadAt is
  off,       \* off[c], want[c]: off and len(p)
  want,
  buf,       \* buf[c] is p[:n]
  err        \* err[c], the error a finished call returns

fileVars == <<rec, start, fsSize, opening, next, placed, covered>>
callVars == <<pc, off, want, buf, err>>
vars == <<fileVars, closed, imgOpen, callVars>>

Exts == ExtentsOf(rec)

Init ==
  /\ rec \in Records
  /\ start \in Placements(Exts)
  /\ fsSize \in Declared
  /\ opening = "start"
  /\ next = 1
  /\ placed = << >>
  /\ covered = 0
  /\ closed = FALSE
  /\ imgOpen = TRUE
  /\ pc = [c \in Callers |-> "idle"]
  /\ off = [c \in Callers |-> 0]
  /\ want = [c \in Callers |-> 0]
  /\ buf = [c \in Callers |-> NoBytes]
  /\ err = [c \in Callers |-> "nil"]

---------------------------------------------------------------------------
(* openRecord *)

\* The refusals before the loop: a directory, or more bytes than the image.
Refused == rec.isDir \/ (fsSize >= 0 /\ rec.size > fsSize)

OpenRecord ==
  /\ opening = "start"
  /\ opening' = IF Refused THEN "refused" ELSE "placing"
  /\ UNCHANGED <<rec, start, fsSize, next, placed, covered, closed, imgOpen, callVars>>

\* Mutation of Overruns: each extent is checked alone.
OverrunsAlone(e) == e.size > rec.size

Overruns(e) == covered + e.size > rec.size

PlaceExtent ==
  /\ opening = "placing" /\ next <= Len(Exts)
  /\ LET e == Exts[next] IN
       \/ /\ e.size = 0
          /\ next' = next + 1
          /\ UNCHANGED <<opening, placed, covered>>
       \/ /\ e.size > 0 /\ Overruns(e)
          /\ opening' = "refused"
          /\ UNCHANGED <<next, placed, covered>>
       \/ /\ e.size > 0 /\ ~Overruns(e)
          /\ placed' = Append(placed,
               [fileOff |-> covered, diskOff |-> DiskOff(e), size |-> e.size])
          /\ covered' = covered + e.size
          /\ next' = next + 1
          /\ UNCHANGED opening
  /\ UNCHANGED <<rec, start, fsSize, closed, imgOpen, callVars>>

FinishOpen ==
  /\ opening = "placing" /\ next > Len(Exts)
  /\ opening' = "opened"
  /\ UNCHANGED <<rec, start, fsSize, next, placed, covered, closed, imgOpen, callVars>>

---------------------------------------------------------------------------
(* ReadAt *)

Finish(c, b, e) ==
  /\ pc' = [pc EXCEPT ![c] = "done"]
  /\ buf' = [buf EXCEPT ![c] = b]
  /\ err' = [err EXCEPT ![c] = e]

\* Mutation of EntryError: Close is not checked.
EntryErrorOpen(o) ==
  IF o < 0 THEN "negative" ELSE IF o >= rec.size THEN "EOF" ELSE "nil"

\* The early returns, in the order of the code; "nil" enters the loop.
EntryError(o) ==
  IF closed THEN "closed"
  ELSE IF o < 0 THEN "negative"
  ELSE IF o >= rec.size THEN "EOF"
  ELSE "nil"

Begin(c, o, n) ==
  /\ opening = "opened" /\ pc[c] = "idle"
  /\ off' = [off EXCEPT ![c] = o]
  /\ want' = [want EXCEPT ![c] = n]
  /\ \/ /\ EntryError(o) = "nil"
        /\ pc' = [pc EXCEPT ![c] = "loop"]
        /\ UNCHANGED <<buf, err>>
     \/ /\ EntryError(o) # "nil"
        /\ Finish(c, NoBytes, EntryError(o))
  /\ UNCHANGED <<fileVars, closed, imgOpen>>

Cur(c) == off[c] + Len(buf[c])

\* Mutations of Wanted: not capped at the end of the file; one byte short.
WantedPastEnd(c) == want[c] - Len(buf[c])
WantedShort(c) == Smaller(want[c] - Len(buf[c]), rec.size - Cur(c)) - 1

\* want in the code: what is left of p, capped at the end of the file.
Wanted(c) == Smaller(want[c] - Len(buf[c]), rec.size - Cur(c))

InLoop(c) ==
  /\ pc[c] = "loop"
  /\ UNCHANGED <<fileVars, closed, imgOpen, off, want>>

ReturnFilled(c) ==
  /\ InLoop(c)
  /\ Len(buf[c]) = want[c]
  /\ Finish(c, buf[c], "nil")

ReturnEOF(c) ==
  /\ InLoop(c)
  /\ Len(buf[c]) < want[c]
  /\ Cur(c) >= rec.size
  /\ Finish(c, buf[c], "EOF")

ZeroTail(c) ==
  /\ InLoop(c)
  /\ Len(buf[c]) < want[c]
  /\ Cur(c) < rec.size /\ Cur(c) >= covered
  /\ buf' = [buf EXCEPT ![c] = @ \o Zeros(Wanted(c))]
  /\ UNCHANGED <<pc, err>>

\* Mutation of EndOf: one byte short.
EndOfShort(p) == p.fileOff + p.size - 1

EndOf(p) == p.fileOff + p.size

\* sort.Search: the least index whose extent ends after cur.
Found(k, cur) ==
  /\ EndOf(placed[k]) > cur
  /\ \A j \in 1..(k - 1) : EndOf(placed[j]) <= cur

\* Mutations of Chunk: across the end of the extent; more than was asked for.
ChunkAcross(p, cur, w) == w
ChunkAll(p, cur, w) == EndOf(p) - cur

Chunk(p, cur, w) == Smaller(EndOf(p) - cur, w)

\* Mutation of Wrapped: the image's error is returned as it is.
Unwrapped == [EOF |-> "EOF", fault |-> "fault", closed |-> "closed"]

\* How an error of the image is returned: wrapped, never as io.EOF itself.
Wrapped == [EOF |-> "readEOF", fault |-> "readFault", closed |-> "readClosed"]

ReadExtent(c) ==
  /\ InLoop(c)
  /\ Len(buf[c]) < want[c]
  /\ Cur(c) < rec.size /\ Cur(c) < covered
  /\ \E k \in 1..Len(placed) :
       /\ Found(k, Cur(c))
       /\ LET p == placed[k]
              addr == p.diskOff + (Cur(c) - p.fileOff)
          IN \E o \in SourceRead(imgOpen, addr, Chunk(p, Cur(c), Wanted(c))) :
               LET got == buf[c] \o BytesAt(addr, o.n) IN
               \/ /\ o.err = "nil"
                  /\ buf' = [buf EXCEPT ![c] = got]
                  /\ UNCHANGED <<pc, err>>
               \/ /\ o.err # "nil"
                  /\ Finish(c, got, Wrapped[o.err])

ReadAtStep(c) ==
  ReturnFilled(c) \/ ReturnEOF(c) \/ ZeroTail(c) \/ ReadExtent(c)

\* The caller takes the answer; it may call again.
Return(c) ==
  /\ pc[c] = "done"
  /\ pc' = [pc EXCEPT ![c] = "idle"]
  /\ off' = [off EXCEPT ![c] = 0]
  /\ want' = [want EXCEPT ![c] = 0]
  /\ buf' = [buf EXCEPT ![c] = NoBytes]
  /\ err' = [err EXCEPT ![c] = "nil"]
  /\ UNCHANGED <<fileVars, closed, imgOpen>>

---------------------------------------------------------------------------
(* Close *)

Close ==
  /\ opening = "opened"
  /\ closed' = TRUE
  /\ UNCHANGED <<fileVars, imgOpen, callVars>>

\* FS.Close closes an image that was opened by path; files stay as they are.
CloseImage ==
  /\ imgOpen' = FALSE
  /\ UNCHANGED <<fileVars, closed, callVars>>

---------------------------------------------------------------------------
OpenStep == OpenRecord \/ PlaceExtent \/ FinishOpen

CallerStep(c) ==
  \/ \E o \in Offsets, n \in Lengths : Begin(c, o, n)
  \/ ReadAtStep(c)
  \/ Return(c)

Next ==
  \/ OpenStep
  \/ \E c \in Callers : CallerStep(c)
  \/ Close
  \/ CloseImage

Spec ==
  /\ Init /\ [][Next]_vars
  /\ \A c \in Callers : WF_vars(ReadAtStep(c))

---------------------------------------------------------------------------
PlacedExtent == [fileOff : Nat, diskOff : Nat, size : Nat \ {0}]

\* Every variable holds a value of the code's type, and no index leaves a slice.
TypeOK ==
  /\ rec \in Records
  /\ start \in Placements(Exts)
  /\ fsSize \in Declared
  /\ opening \in {"start", "placing", "opened", "refused"}
  /\ next \in 1..(Len(Exts) + 1)
  /\ placed \in Seq(PlacedExtent)
  /\ covered \in Nat
  /\ closed \in BOOLEAN
  /\ imgOpen \in BOOLEAN
  /\ pc \in [Callers -> {"idle", "loop", "done"}]
  /\ off \in [Callers -> Int]
  /\ want \in [Callers -> Nat]
  /\ buf \in [Callers -> Seq(Int)]
  /\ err \in [Callers -> {"nil", "EOF", "negative", "closed",
                          "readEOF", "readFault", "readClosed"}]

(* ReadAt's "extents are contiguous" comment (openfile.go:36): whatever     *)
(* extents a record lists, empty ones and a short list among them, one of  *)
(* the placed extents holds each byte below covered, so the binary search  *)
(* finds it and f.extents[i] (openfile.go:176) never indexes past the list. *)
NoGap ==
  \A x \in 0..(covered - 1) : \E k \in 1..Len(placed) :
    placed[k].fileOff <= x /\ x < EndOf(placed[k])

(* Every byte of p[:n] that a call has delivered, whatever extents it      *)
(* crossed and whatever was closed meanwhile, is the byte of the file at   *)
(* off + k: from the right extent, and zero past what the extents cover.   *)
DeliversTheFile ==
  \A c \in Callers : \A k \in 1..Len(buf[c]) :
    IsByte(Exts, start, off[c] + k - 1, buf[c][k])

(* The io.ReaderAt contract of openfile.go:133-140: n = len(p) or an error; *)
(* io.EOF exactly when the file ended inside p, with all that was left; and *)
(* never a byte past Size().                                               *)
ReaderAtContract ==
  \A c \in Callers : pc[c] = "done" =>
    /\ err[c] = "nil" => Len(buf[c]) = want[c]
    /\ err[c] = "EOF" => /\ off[c] + want[c] >= rec.size
                         /\ Len(buf[c]) = Larger(0, rec.size - off[c])
    /\ Len(buf[c]) <= want[c]
    /\ off[c] + Len(buf[c]) <= Larger(off[c], rec.size)

(* openfile.go:136: p is filled with a nil error whenever the bytes exist: *)
(* a call fails with the image's io.EOF only if a byte it asked for lies   *)
(* past the end of the image.                                              *)
AskedPastImage(c) ==
  \E i \in 1..Len(Exts) : \E x \in off[c]..(off[c] + want[c] - 1) :
    /\ start[i] <= x /\ x < start[i + 1] /\ x < rec.size
    /\ DiskOff(Exts[i]) + (x - start[i]) >= ImageLen

FilledWhenBytesExist == \A c \in Callers : err[c] = "readEOF" => AskedPastImage(c)

(* A record openRecord accepted never lets a read past its Size            *)
(* (openfile.go:102): the placed extents fit it, in order and disjoint.    *)
PlacedInOrder ==
  /\ covered <= rec.size
  /\ \A j, k \in 1..Len(placed) : j < k => EndOf(placed[j]) <= placed[k].fileOff
  /\ \A k \in 1..Len(placed) : EndOf(placed[k]) <= covered

(* A call returns: each iteration delivers a byte or ends the call.        *)
EveryCallReturns == \A c \in Callers : pc[c] = "loop" ~> pc[c] = "done"

---------------------------------------------------------------------------
(* The promise: the content is what the extents hold up to Size; a call in *)
(* the loop is pending, and shows nothing until it answers.                *)
Content ==
  [x \in 1..rec.size |->
     IF \E i \in 1..Len(Exts) : start[i] <= x - 1 /\ x - 1 < start[i + 1]
     THEN LET i == CHOOSE i \in 1..Len(Exts) : start[i] <= x - 1 /\ x - 1 < start[i + 1]
          IN DiskOff(Exts[i]) + (x - 1 - start[i])
     ELSE Zero]

Promise == INSTANCE ReaderAt WITH
  isOpen <- opening = "opened",
  content <- IF opening = "opened" THEN Content ELSE << >>,
  phase <- [c \in Callers |->
              CASE pc[c] = "idle" -> "idle" [] pc[c] = "loop" -> "pending"
                [] OTHER -> "answered"],
  buf <- [c \in Callers |-> IF pc[c] = "loop" THEN << >> ELSE buf[c]]

(* IsoFile keeps the promise of an io.ReaderAt shared by goroutines: each  *)
(* call answers as if it had been served in one step.                      *)
KeepsPromise == Promise!Spec
=============================================================================
