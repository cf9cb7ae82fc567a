----------------------------- MODULE DirRecords -----------------------------
(***************************************************************************)
(* Reading a directory (read.go): readDirRecords checks and reads the      *)
(* extent, parses one record after another across the padding of its       *)
(* sectors, and mergeMultiExtent turns each run of records that make up    *)
(* one file into one record.                                               *)
(*                                                                         *)
(* A cell of the extent is what parseDirRecord would find in a byte: zero, *)
(* the first byte of a record, or a byte inside one.                       *)
(***************************************************************************)
EXTENDS Integers, Sequences, FiniteSets

CONSTANTS
  Directories,       \* the records readDirRecords may be called with
  BlockSize,         \* vol.BlockSize
  MinRecord,         \* the fixed part of a record, 33 bytes in the code
  MaxDirExtent,      \* maxDirExtent
  MaxUnknownAlloc,   \* maxUnknownAlloc
  Word               \* sizes are unsigned and below this

ZeroCell == [kind |-> "zero"]
Inside == [kind |-> "inside"]

\* nameFits: the identifier does not run past the length the record claims.
RecordCell ==
  [kind : {"record"}, len : Nat \ {0}, nameFits : BOOLEAN, id : STRING,
   isDir : BOOLEAN, multi : BOOLEAN, lba : Nat, size : 0..(Word - 1)]

\* cells: what the image delivers at the extent, fewer than size if it ends there.
Directory ==
  [isDir : BOOLEAN, lba : Nat, size : Nat, maxAlloc : Nat,
   cells : Seq(RecordCell \cup {ZeroCell, Inside})]

SectorStart(p) == (p \div BlockSize) * BlockSize

IsRecord(c) == c \notin {ZeroCell, Inside}

\* The cells from b on belong to the record in cell b as far as p.
Covers(cells, b, p) ==
  /\ IsRecord(cells[b])
  /\ p < b + cells[b].len
  /\ \A q \in (b + 1)..p : cells[q] = Inside

\* The cells of an extent fit together: a record that has room is followed by its
\* own bytes, and a byte inside a record belongs to one. A record that reaches into
\* the next sector stands in front of the padding of its own: behind the padding
\* it is not read, and parsing would come to a byte inside it.
Legible(cells) ==
  /\ \A b \in 1..Len(cells) :
       IsRecord(cells[b]) /\ b + cells[b].len - 1 <= Len(cells) =>
         Covers(cells, b, b + cells[b].len - 1)
  /\ \A p \in 1..Len(cells) :
       cells[p] = Inside =>
         \E b \in 1..(p - 1) :
           /\ Covers(cells, b, p)
           /\ SectorStart(p - 1) = p - 1 =>
                \A z \in (SectorStart(b - 1) + 1)..b : cells[z] # ZeroCell

ASSUME DirRecordsAssumption ==
  /\ BlockSize \in Nat \ {0}
  /\ MinRecord \in Nat /\ MaxDirExtent \in Nat /\ MaxUnknownAlloc \in Nat
  /\ Word \in Nat \ {0}
  /\ Directories \subseteq Directory
  /\ \A d \in Directories : Legible(d.cells) /\ Len(d.cells) <= d.size

VARIABLES
  dir,    \* the record of the directory, and maxAlloc
  pc,     \* "start", "parse", "merge", "done" or "failed"
  pos,    \* where parsing is in the extent, from 0
  raw,    \* the records parsed
  next,   \* the record mergeMultiExtent looks at, from 1
  run,    \* the records of the run being gathered
  total,  \* the bytes they say they have
  out,    \* the records returned
  err

vars == <<dir, pc, pos, raw, next, run, total, out, err>>

Init ==
  /\ dir \in Directories
  /\ pc = "start"
  /\ pos = 0
  /\ raw = << >>
  /\ next = 1
  /\ run = << >>
  /\ total = 0
  /\ out = << >>
  /\ err = "nil"

Fail(e) ==
  /\ pc' = "failed"
  /\ err' = e

---------------------------------------------------------------------------
(* readDirRecords *)

TooLarge == dir.size > MaxDirExtent \/ dir.size > dir.maxAlloc

\* Mutation of OutOfBounds: only where the extent starts is looked at.
StartsOutOfBounds ==
  /\ dir.maxAlloc # MaxUnknownAlloc
  /\ dir.lba * BlockSize > dir.maxAlloc

OutOfBounds ==
  /\ dir.maxAlloc # MaxUnknownAlloc
  /\ dir.lba * BlockSize > dir.maxAlloc - dir.size

\* The refusals before the read, in the order of the code, and the read itself.
OpenDirectory ==
  /\ pc = "start"
  /\ \/ ~dir.isDir /\ Fail("notDirectory")
     \/ dir.isDir /\ (TooLarge \/ OutOfBounds) /\ Fail("corrupt")
     \/ /\ dir.isDir /\ ~TooLarge /\ ~OutOfBounds
        /\ \/ Fail("readError")
           \/ Len(dir.cells) = dir.size /\ pc' = "parse" /\ UNCHANGED err
  /\ UNCHANGED <<dir, pos, raw, next, run, total, out>>

Parsing == pc = "parse" /\ pos < dir.size
Cell == dir.cells[pos + 1]

\* Mutations of NextSector: one sector too far; not at all.
NextSectorAfter(p) == (p \div BlockSize + 2) * BlockSize
NextSectorSame(p) == p

NextSector(p) == (p \div BlockSize + 1) * BlockSize

\* The code also leaves the loop if next <= pos, or if a record had no bytes
\* (read.go:131, 141). Neither can be: a sector ends behind pos, and a record has
\* MinRecord bytes.
SkipPadding ==
  /\ Parsing
  /\ Cell = ZeroCell
  /\ pos' = NextSector(pos)
  /\ UNCHANGED <<dir, pc, raw, next, run, total, out, err>>

\* Mutation of Malformed: the end of the extent is not looked at.
MalformedOwn(c, room) == c.len < MinRecord \/ ~c.nameFits

\* parseDirRecord refuses the record; room is what is left of the extent.
Malformed(c, room) == c.len < MinRecord \/ c.len > room \/ ~c.nameFits

ParseRecord ==
  /\ Parsing
  /\ Cell # ZeroCell
  /\ \/ /\ Malformed(Cell, dir.size - pos)
        /\ Fail("corrupt")
        /\ UNCHANGED <<pos, raw>>
     \/ /\ ~Malformed(Cell, dir.size - pos)
        /\ raw' = Append(raw, Cell)
        /\ pos' = pos + Cell.len
        /\ UNCHANGED <<pc, err>>
  /\ UNCHANGED <<dir, next, run, total, out>>

ParsedAll ==
  /\ pc = "parse" /\ pos >= dir.size
  /\ pc' = "merge"
  /\ UNCHANGED <<dir, pos, raw, next, run, total, out, err>>

---------------------------------------------------------------------------
(* mergeMultiExtent *)

ExtentOf(r) == [lba |-> r.lba, size |-> r.size]

\* A record that was not merged has no list of extents.
Single(r) ==
  [id |-> r.id, isDir |-> r.isDir, multi |-> r.multi, lba |-> r.lba, size |-> r.size,
   extents |-> << >>]

\* The first record's identity, the last one's flags, every extent, and n bytes.
Merged(s, n) ==
  [id |-> s[1].id, isDir |-> s[Len(s)].isDir, multi |-> FALSE, lba |-> s[1].lba,
   size |-> n % Word, extents |-> [k \in 1..Len(s) |-> ExtentOf(s[k])]]

\* Mutation of Exceeds: the sum is taken in a word, and wraps.
ExceedsWrapped(n) == n % Word > Word - 1

Exceeds(n) == n > Word - 1

Merging == pc = "merge" /\ UNCHANGED <<dir, pos, raw>>
This == raw[next]
StandsAlone(r) == r.isDir \/ ~r.multi

PassThrough ==
  /\ Merging /\ run = << >> /\ next <= Len(raw)
  /\ StandsAlone(This)
  /\ out' = Append(out, Single(This))
  /\ next' = next + 1
  /\ UNCHANGED <<pc, run, total, err>>

BeginRun ==
  /\ Merging /\ run = << >> /\ next <= Len(raw)
  /\ ~StandsAlone(This)
  /\ run' = <<This>>
  /\ total' = This.size
  /\ next' = next + 1
  /\ UNCHANGED <<pc, out, err>>

Continues(r) == r.id = run[1].id

ExtendRun ==
  /\ Merging /\ run # << >> /\ next <= Len(raw)
  /\ Continues(This)
  /\ next' = next + 1
  /\ total' = total + This.size
  /\ LET s == Append(run, This) IN
       \/ /\ This.multi
          /\ run' = s
          /\ UNCHANGED <<pc, out, err>>
       \/ /\ ~This.multi /\ Exceeds(total')
          /\ Fail("corrupt")
          /\ UNCHANGED <<run, out>>
       \/ /\ ~This.multi /\ ~Exceeds(total')
          /\ out' = Append(out, Merged(s, total'))
          /\ run' = << >>
          /\ UNCHANGED <<pc, err>>

NoFinalExtent ==
  /\ Merging /\ run # << >>
  /\ ~(next <= Len(raw) /\ Continues(This))
  /\ Fail("corrupt")
  /\ UNCHANGED <<next, run, total, out>>

MergedAll ==
  /\ Merging /\ run = << >> /\ next > Len(raw)
  /\ pc' = "done"
  /\ UNCHANGED <<next, run, total, out, err>>

---------------------------------------------------------------------------
Next ==
  \/ OpenDirectory
  \/ SkipPadding \/ ParseRecord \/ ParsedAll
  \/ PassThrough \/ BeginRun \/ ExtendRun \/ NoFinalExtent \/ MergedAll

Spec == Init /\ [][Next]_vars /\ WF_vars(Next)
---------------------------------------------------------------------------
\* Every variable holds a value of the code's type, and parsing stays near the extent.
TypeOK ==
  /\ dir \in Directories
  /\ pc \in {"start", "parse", "merge", "done", "failed"}
  /\ pos \in 0..(SectorStart(dir.size) + BlockSize)
  /\ \A i \in 1..Len(raw) : raw[i] \in RecordCell
  /\ next \in 1..(Len(raw) + 1)
  /\ \A i \in 1..Len(run) : run[i] \in RecordCell
  /\ total \in Nat
  /\ \A i \in 1..Len(out) : out[i].size \in 0..(Word - 1)
  /\ err \in {"nil", "notDirectory", "corrupt", "readError"}

(***************************************************************************)
(* ECMA-119 6.8.1 read as a definition: a sector holds records from its    *)
(* start on and zeros behind them, and the directory is what its sectors   *)
(* hold, in their order.                                                   *)
(***************************************************************************)
RecordedAt ==
  {p \in 0..(Len(dir.cells) - 1) :
     /\ IsRecord(dir.cells[p + 1])
     /\ \A q \in SectorStart(p)..p : dir.cells[q + 1] # ZeroCell}

Recorded ==
  [k \in 1..Cardinality(RecordedAt) |->
     dir.cells[1 + CHOOSE p \in RecordedAt : Cardinality({q \in RecordedAt : q < p}) = k - 1]]

(* read.go:101-103: whatever padding the sectors end in, and wherever the  *)
(* extent ends, every record of the directory is parsed, once and in order. *)
ReadsEveryRecord == pc \in {"merge", "done"} => raw = Recorded

(***************************************************************************)
(* ECMA-119 6.5.1 read as a definition: a record that is no directory's    *)
(* and has the flag goes on in the next one, and a file is its last record *)
(* with those that go on up to it. A directory is an entry on its own,     *)
(* whatever its flag says (read.go:163).                                   *)
(***************************************************************************)
GoesOn(r) == ~r.isDir /\ r.multi

LastRecords(rs) == {k \in 1..Len(rs) : ~GoesOn(rs[k])}

\* The records of the file that ends in record k.
FileEndingAt(rs, k) ==
  LET firsts == {i \in 1..k : /\ i = 1 \/ ~GoesOn(rs[i - 1])
                              /\ \A j \in i..(k - 1) : GoesOn(rs[j])}
  IN SubSeq(rs, CHOOSE i \in firsts : TRUE, k)

\* The bytes the records of a file say it has.
Total(file) ==
  LET upTo[k \in 0..Len(file)] == IF k = 0 THEN 0 ELSE upTo[k - 1] + file[k].size
  IN upTo[Len(file)]

\* Every file has its last record, under one name, and its size fits the field.
Sound(rs) ==
  /\ \A k \in 1..Len(rs) :
       GoesOn(rs[k]) => k < Len(rs) /\ ~rs[k + 1].isDir /\ rs[k + 1].id = rs[k].id
  /\ \A k \in LastRecords(rs) : Total(FileEndingAt(rs, k)) < Word

\* No file that lacks its last record stands in front of a directory of its name.
\* There mergeMultiExtent and its comment part: the loop takes the directory for the
\* next extent of the file (read.go:178), the comment calls it an entry on its own.
DirectoriesApart(rs) ==
  \A k \in 1..(Len(rs) - 1) :
    GoesOn(rs[k]) /\ rs[k + 1].isDir => rs[k + 1].id # rs[k].id

\* e is what the caller is to be told of a file, or of a directory.
Tells(e, file) ==
  /\ \A i \in 1..Len(file) : e.id = file[i].id /\ e.isDir = file[i].isDir
  /\ e.multi => e.isDir
  /\ e.lba = file[1].lba
  /\ e.size = Total(file)
  /\ e.extents = IF Len(file) = 1 THEN << >>
                 ELSE [i \in 1..Len(file) |-> [lba |-> file[i].lba, size |-> file[i].size]]

(* mergeMultiExtent's comment, read.go:150-158: each file, of one record   *)
(* or of many, is returned once, in the order of the directory, with all   *)
(* its extents, all of its name, and with a Size they add up to, and each  *)
(* directory as it is. Directories DirectoriesApart excludes are left out: *)
(* of them the code returns something else.                                *)
KeepsEveryExtent ==
  pc = "done" /\ DirectoriesApart(raw) =>
    LET last == LastRecords(raw) IN
    /\ Len(out) = Cardinality(last)
    /\ \A k \in last : Tells(out[Cardinality({i \in last : i <= k})], FileEndingAt(raw, k))

\* The extent is one the limits of the reader let it read: no longer than they say,
\* and inside the image if its size is known.
Permitted(d) ==
  /\ d.size <= MaxDirExtent /\ d.size <= d.maxAlloc
  /\ d.maxAlloc = MaxUnknownAlloc \/ d.lba * BlockSize + d.size <= d.maxAlloc

\* A record that is recorded is too short, too long for the extent or for its name.
Malformation ==
  \E p \in RecordedAt :
    LET r == dir.cells[p + 1] IN r.len < MinRecord \/ p + r.len > dir.size \/ ~r.nameFits

(* What is returned comes from a permitted extent, well-formed records and *)
(* sound files only, and what is refused as corrupt lacks one of the three *)
(* (read.go:110-118, 137, 190-196): no damage is skipped and nothing sound *)
(* is refused. Sound has the exception of KeepsEveryExtent, for what is    *)
(* returned only.                                                          *)
RefusesExactlyDamage ==
  /\ pc = "done" => /\ Permitted(dir) /\ ~Malformation
                    /\ DirectoriesApart(Recorded) => Sound(Recorded)
  /\ err = "corrupt" => ~Permitted(dir) \/ Malformation \/ ~Sound(Recorded)

(* Reading a directory returns, also over an extent that is all padding.   *)
DirectoryReadReturns == <>(pc \in {"done", "failed"})
=============================================================================
