-------------------------- MODULE DirRecordsProofs --------------------------
(***************************************************************************)
(* readDirRecords returns what the directory holds, for every directory,   *)
(* every sector size and every bound: no record is skipped at the padding  *)
(* of a sector, each file is returned with all its extents, and what is    *)
(* refused is damaged.                                                     *)
(*                                                                         *)
(* The invariant speaks of the two loops in turn. While the extent is      *)
(* parsed, the records found are those recorded before pos; while runs are *)
(* merged, the records returned are those of the files that end before     *)
(* next, and run is the part of the next file that lies before it.         *)
(***************************************************************************)
EXTENDS DirRecords, DataLemmas

(* pos is where a record, padding or the end of the extent is: never inside *)
(* a record, and nothing but records precedes it in its sector.            *)
AtBoundary ==
  /\ pos \in 0..(SectorStart(dir.size) + BlockSize)
  /\ pos < dir.size =>
       /\ Cell # Inside
       /\ \A q \in SectorStart(pos)..(pos - 1) : dir.cells[q + 1] # ZeroCell

(* parseDirRecord refuses one of the records.                              *)
Refused == \E p \in RecordedAt : Malformed(dir.cells[p + 1], dir.size - p)

Before(p) == Cardinality({q \in RecordedAt : q < p})

(* The records found are those recorded before pos, in order, and sound.   *)
ParsedSoFar ==
  /\ Len(dir.cells) = dir.size
  /\ Len(raw) = Before(pos)
  /\ \A k \in 1..Len(raw) :
       \E p \in RecordedAt : p < pos /\ Before(p) = k - 1 /\ raw[k] = dir.cells[p + 1]
  /\ \A p \in RecordedAt : p < pos => ~Malformed(dir.cells[p + 1], dir.size - p)

ParseInv == pc = "parse" => AtBoundary /\ ParsedSoFar

---------------------------------------------------------------------------
(* What the merge has returned of the first n records: the files that end  *)
(* among them, each as it is to be, and no break or overflow in any.       *)
ReturnedTo(n) ==
  LET last == LastRecords(raw) IN
  /\ Len(out) = Cardinality({i \in last : i <= n})
  /\ \A k \in last : k <= n =>
       LET file == FileEndingAt(raw, k)
       IN Tells(out[Cardinality({i \in last : i <= k})], file) /\ Total(file) < Word
  /\ \A k \in 1..n : GoesOn(raw[k]) /\ k < n => raw[k + 1].id = raw[k].id

(* The run is the part up to record n of the file record n belongs to. A   *)
(* directory got into it only if one has the name of the file before it.   *)
InRun(n) ==
  LET f == n - Len(run) + 1 IN
  /\ f \in 1..n
  /\ \A i \in 1..Len(run) : run[i] = raw[f + i - 1]
  /\ ~raw[f].isDir
  /\ \A j \in f..n : raw[j].multi /\ raw[j].id = raw[f].id
  /\ DirectoriesApart(raw) => \A j \in f..n : ~raw[j].isDir
  /\ f = 1 \/ ~GoesOn(raw[f - 1])
  /\ total = Total(run)

BetweenRuns(n) == n = 0 \/ ~GoesOn(raw[n])

MergeInv ==
  pc \in {"merge", "done"} =>
    /\ raw = Recorded /\ ~Refused
    /\ DirectoriesApart(raw) => ReturnedTo(next - 1)
    /\ IF run = << >> THEN BetweenRuns(next - 1) ELSE InRun(next - 1)

---------------------------------------------------------------------------
TypeInv ==
  /\ dir \in Directories
  /\ pc \in {"start", "parse", "merge", "done", "failed"}
  /\ pos \in 0..(SectorStart(dir.size) + BlockSize)
  /\ raw \in Seq(RecordCell)
  /\ next \in 1..(Len(raw) + 1)
  /\ run \in Seq(RecordCell)
  /\ total \in Nat
  /\ \E S : out \in Seq(S)
  /\ \A i \in 1..Len(out) : out[i].size \in 0..(Word - 1)
  /\ err \in {"nil", "notDirectory", "corrupt", "readError"}

(* A phase leaves alone what the next ones work on. *)
Phases ==
  /\ pc = "start" => pos = 0 /\ raw = << >>
  /\ pc \in {"start", "parse"} => next = 1 /\ run = << >> /\ out = << >>
  /\ pc \in {"parse", "merge", "done"} => ~TooLarge /\ ~OutOfBounds
  /\ pc = "done" => run = << >> /\ next > Len(raw)
  /\ err # "nil" => pc = "failed"

Blamed == err = "corrupt" => TooLarge \/ OutOfBounds \/ Refused \/ ~Sound(Recorded)

IInv == TypeInv /\ Phases /\ ParseInv /\ MergeInv /\ Blamed

---------------------------------------------------------------------------
(* Sectors *)

LEMMA Sector ==
  ASSUME NEW p \in Nat
  PROVE  /\ SectorStart(p) \in 0..p
         /\ p < SectorStart(p) + BlockSize
         /\ NextSector(p) = SectorStart(p) + BlockSize
<1>1. BlockSize \in Nat \ {0}
  BY DirRecordsAssumption
<1>2. p \div BlockSize \in Nat /\ (p \div BlockSize) * BlockSize <= p
      /\ p < (p \div BlockSize) * BlockSize + BlockSize
  BY <1>1, Division
<1>3. (p \div BlockSize) * BlockSize \in Nat
  BY <1>1, <1>2
<1>4. (p \div BlockSize + 1) * BlockSize = (p \div BlockSize) * BlockSize + BlockSize
  BY <1>1, <1>2, Multiples
<1> QED BY <1>1, <1>2, <1>3, <1>4 DEF SectorStart, NextSector

(* A position between the ends of a sector is in it. *)
LEMMA SectorIs ==
  ASSUME NEW p \in Nat, NEW q \in Nat,
         SectorStart(p) <= q, q < SectorStart(p) + BlockSize
  PROVE  SectorStart(q) = SectorStart(p)
<1> DEFINE k == p \div BlockSize
           l == q \div BlockSize
<1>1. BlockSize \in Nat \ {0}
  BY DirRecordsAssumption
<1>2. k \in Nat /\ l \in Nat /\ l * BlockSize <= q /\ q < l * BlockSize + BlockSize
  BY <1>1, Division
<1>3. k * BlockSize <= q /\ q < k * BlockSize + BlockSize
  BY DEF SectorStart
<1> HIDE DEF k, l
<1>4. k * BlockSize \in Int /\ l * BlockSize \in Int
  BY <1>1, <1>2, Multiples
<1>5. k * BlockSize < l * BlockSize + BlockSize /\ l * BlockSize < k * BlockSize + BlockSize
  BY <1>1, <1>2, <1>3, <1>4
<1>6. k <= l /\ l <= k
  BY <1>1, <1>2, <1>5, Multiples
<1>7. k = l
  BY <1>2, <1>6
<1> QED BY <1>7 DEF SectorStart, k, l

LEMMA SectorsInOrder ==
  ASSUME NEW p \in Nat, NEW q \in Nat, p <= q
  PROVE  SectorStart(p) <= SectorStart(q)
<1>1. SectorStart(p) \in 0..p /\ SectorStart(q) \in 0..q /\ q < SectorStart(q) + BlockSize
      /\ BlockSize \in Nat
  BY Sector, DirRecordsAssumption
<1>2. CASE SectorStart(q) <= p
  <2>1. p < SectorStart(q) + BlockSize
    BY <1>1
  <2> QED BY <1>1, <1>2, <2>1, SectorIs
<1>3. CASE p < SectorStart(q)
  BY <1>1, <1>3
<1> QED BY <1>1, <1>2, <1>3

(* A sector follows the end of another. *)
LEMMA NextSectorStarts ==
  ASSUME NEW p \in Nat
  PROVE  NextSector(p) \in Nat /\ SectorStart(NextSector(p)) = NextSector(p)
<1> DEFINE k == p \div BlockSize
           q == (k + 1) * BlockSize
<1>1. BlockSize \in Nat \ {0} /\ k \in Nat
  BY DirRecordsAssumption, Division
<1>2. q \in Nat
  BY <1>1
<1>3. q \div BlockSize = k + 1
  <2> DEFINE l == q \div BlockSize
  <2>1. l \in Nat /\ l * BlockSize <= q /\ q < l * BlockSize + BlockSize
    BY <1>1, <1>2, Division
  <2> HIDE DEF l, k
  <2>2. l * BlockSize \in Int /\ (k + 1) * BlockSize \in Int /\ k + 1 \in Int
    BY <1>1, <2>1, Multiples
  <2>3. k + 1 <= l
    BY <1>1, <2>1, <2>2, Multiples
  <2>4. l * BlockSize < (k + 1) * BlockSize + BlockSize
    BY <1>1, <2>1, <2>2
  <2>5. l <= k + 1
    BY <1>1, <2>1, <2>2, <2>4, Multiples
  <2> QED BY <1>1, <2>1, <2>3, <2>5 DEF l
<1> QED BY <1>2, <1>3 DEF NextSector, SectorStart

---------------------------------------------------------------------------
(* Cells *)

AnyCell == RecordCell \cup {ZeroCell, Inside}

LEMMA Cells ==
  ASSUME NEW d \in Directories
  PROVE  /\ d.cells \in Seq(AnyCell) /\ Len(d.cells) \in Nat
         /\ d.size \in Nat /\ Len(d.cells) <= d.size
         /\ Legible(d.cells)
<1>1. d \in Directory /\ Len(d.cells) <= d.size /\ Legible(d.cells)
  BY DirRecordsAssumption
<1> QED BY <1>1 DEF Directory, AnyCell

LEMMA RecordKind ==
  ASSUME NEW c \in AnyCell
  PROVE  /\ IsRecord(c) <=> c # ZeroCell /\ c # Inside
         /\ IsRecord(c) => c \in RecordCell /\ c.len \in Nat \ {0}
         /\ ZeroCell # Inside
BY DEF AnyCell, IsRecord, RecordCell, ZeroCell, Inside

(* Behind a record that has room no byte is inside a record. *)
LEMMA AfterRecord ==
  ASSUME NEW cells \in Seq(AnyCell), Legible(cells),
         NEW b \in 1..Len(cells), IsRecord(cells[b]), b + cells[b].len <= Len(cells)
  PROVE  cells[b + cells[b].len] # Inside
<1> DEFINE p == b + cells[b].len
<1>1. SUFFICES ASSUME cells[p] = Inside PROVE FALSE
  OBVIOUS
<1>2. cells[b] \in AnyCell /\ cells[b].len \in Nat \ {0} /\ Len(cells) \in Nat
  BY RecordKind
<1>3. p \in 1..Len(cells)
  BY <1>2
<1>4. PICK a \in 1..(p - 1) : Covers(cells, a, p)
  BY <1>1, <1>3 DEF Legible
<1>5. cells[b] # Inside /\ cells[a] # Inside
  BY <1>4 DEF Covers, IsRecord
<1>6. \A q \in (b + 1)..(p - 1) : cells[q] = Inside
  BY <1>2 DEF Legible, Covers
<1>7. ~(b < a)
  BY <1>2, <1>5, <1>6
<1>8. ~(a < b)
  <2>1. a < b => b \in (a + 1)..p
    BY <1>2
  <2> QED BY <1>4, <1>5, <2>1 DEF Covers
<1>9. a # b
  BY <1>2, <1>4 DEF Covers
<1> QED BY <1>7, <1>8, <1>9

(* Behind the padding of a sector no byte is inside a record either. *)
LEMMA AfterPadding ==
  ASSUME NEW cells \in Seq(AnyCell), Legible(cells),
         NEW z \in 0..(Len(cells) - 1), cells[z + 1] = ZeroCell, NextSector(z) < Len(cells)
  PROVE  cells[NextSector(z) + 1] # Inside
<1> DEFINE p == NextSector(z) + 1
<1>1. SUFFICES ASSUME cells[p] = Inside PROVE FALSE
  OBVIOUS
<1>2. /\ SectorStart(z) \in 0..z /\ z < NextSector(z) /\ NextSector(z) = SectorStart(z) + BlockSize
      /\ NextSector(z) \in Nat /\ SectorStart(NextSector(z)) = NextSector(z)
      /\ Len(cells) \in Nat /\ BlockSize \in Nat
  BY Sector, NextSectorStarts, DirRecordsAssumption
<1>3. p \in 1..Len(cells) /\ SectorStart(p - 1) = p - 1
  BY <1>2
<1>4. PICK b \in 1..(p - 1) : /\ Covers(cells, b, p)
                              /\ \A x \in (SectorStart(b - 1) + 1)..b : cells[x] # ZeroCell
  BY <1>1, <1>3 DEF Legible
<1>5. ZeroCell # Inside
  BY DEF ZeroCell, Inside
<1>6. ~(b < z + 1)
  <2>1. b < z + 1 => z + 1 \in (b + 1)..p
    BY <1>2
  <2> QED BY <1>4, <1>5, <2>1 DEF Covers
<1>7. b # z + 1
  BY <1>4 DEF Covers, IsRecord
<1>8. SectorStart(b - 1) = SectorStart(z)
  <2>1. b - 1 \in Nat /\ SectorStart(z) <= b - 1 /\ b - 1 < SectorStart(z) + BlockSize
    BY <1>2, <1>6, <1>7
  <2> QED BY <2>1, SectorIs
<1>9. z + 1 \in (SectorStart(b - 1) + 1)..b
  BY <1>2, <1>6, <1>7, <1>8
<1> QED BY <1>4, <1>9

---------------------------------------------------------------------------
(* Counting records *)

LEMMA RecordedAreCells ==
  ASSUME TypeInv
  PROVE  /\ RecordedAt \in SUBSET Int /\ IsFiniteSet(RecordedAt)
         /\ RecordedAt \in SUBSET (0..(Len(dir.cells) - 1))
<1>1. Len(dir.cells) \in Nat
  BY Cells DEF TypeInv
<1>2. RecordedAt \in SUBSET (0..(Len(dir.cells) - 1))
  BY DEF RecordedAt
<1>3. IsFiniteSet(RecordedAt)
  <2>1. 0 \in Int /\ Len(dir.cells) - 1 \in Int
    BY <1>1
  <2> QED BY <1>2, <2>1, Bounded, Zenon
<1> QED BY <1>1, <1>2, <1>3

(* Parsing ends within the sector the extent ends in. *)
LEMMA EndOfExtent ==
  ASSUME NEW d \in Directories
  PROVE  /\ d.size \in Nat /\ BlockSize \in Nat \ {0}
         /\ SectorStart(d.size) \in 0..d.size
         /\ SectorStart(d.size) + BlockSize \in Nat
         /\ d.size < SectorStart(d.size) + BlockSize
<1>1. d.size \in Nat /\ BlockSize \in Nat \ {0}
  BY Cells, DirRecordsAssumption
<1>2. SectorStart(d.size) \in 0..d.size /\ d.size < SectorStart(d.size) + BlockSize
  BY <1>1, Sector
<1> QED BY <1>1, <1>2

LEMMA PosIsNat ==
  ASSUME TypeInv
  PROVE  pos \in Nat /\ dir.size \in Nat /\ Len(dir.cells) \in Nat
<1>1. dir \in Directories
  BY DEF TypeInv
<1>2. SectorStart(dir.size) + BlockSize \in Nat /\ dir.size \in Nat /\ Len(dir.cells) \in Nat
  BY <1>1, EndOfExtent, Cells
<1> QED BY <1>2 DEF TypeInv

LEMMA BeforeIsNat ==
  ASSUME TypeInv, NEW p \in Int
  PROVE  Before(p) \in Nat
<1>1. IsFiniteSet(RecordedAt) /\ {q \in RecordedAt : q < p} \in SUBSET RecordedAt
  BY RecordedAreCells
<1>2. IsFiniteSet({q \in RecordedAt : q < p})
  BY <1>1, FS_Subset, Zenon
<1> QED BY <1>2, FS_CardinalityType DEF Before

(* Once nothing recorded is left, the records found are the directory.     *)
LEMMA ParsedIsRecorded ==
  ASSUME TypeInv, ParsedSoFar, pos >= dir.size
  PROVE  raw = Recorded /\ ~Refused
<1>1. \A p \in RecordedAt : p < pos
  <2>1. Len(dir.cells) \in Nat /\ pos \in Nat /\ dir.size \in Nat /\ Len(dir.cells) = dir.size
    BY PosIsNat DEF ParsedSoFar
  <2>2. \A p \in RecordedAt : p \in 0..(Len(dir.cells) - 1)
    BY RecordedAreCells
  <2> QED BY <2>1, <2>2
<1>2. {q \in RecordedAt : q < pos} = RecordedAt
  BY <1>1
<1>3. Len(raw) = Cardinality(RecordedAt)
  BY <1>2 DEF ParsedSoFar, Before
<1>4. ASSUME NEW k \in 1..Len(raw)
      PROVE  raw[k] = dir.cells[1 + CHOOSE p \in RecordedAt : Cardinality({q \in RecordedAt : q < p}) = k - 1]
  <2>1. PICK p \in RecordedAt : Before(p) = k - 1 /\ raw[k] = dir.cells[p + 1]
    BY DEF ParsedSoFar
  <2> DEFINE o == CHOOSE x \in RecordedAt : Cardinality({q \in RecordedAt : q < x}) = k - 1
  <2>2. o \in RecordedAt /\ Before(o) = k - 1
    BY <2>1 DEF Before
  <2> HIDE DEF o
  <2>3. p \in Int /\ o \in Int
    BY <2>2, RecordedAreCells
  <2>4. ~(p < o) /\ ~(o < p)
    <3>1. Before(p) = Before(o) /\ Before(p) \in Nat
      BY <2>1, <2>2, <2>3, BeforeIsNat
    <3>2. p < o => Before(p) < Before(o)
      BY <2>2, RecordedAreCells, RankTells DEF Before
    <3>3. o < p => Before(o) < Before(p)
      BY <2>2, RecordedAreCells, RankTells DEF Before
    <3> QED BY <3>1, <3>2, <3>3
  <2>5. p = o
    BY <2>3, <2>4
  <2>6. p + 1 = 1 + o
    BY <2>3, <2>5
  <2> QED BY <2>1, <2>6 DEF o
<1>5. raw = [k \in 1..Len(raw) |-> raw[k]]
  BY DEF TypeInv
<1>6. raw = Recorded
  BY <1>3, <1>4, <1>5 DEF Recorded
<1>7. ~Refused
  BY <1>1 DEF ParsedSoFar, Refused
<1> QED BY <1>6, <1>7

---------------------------------------------------------------------------
(* The steps of readDirRecords *)

LEMMA InitInv == Init => IInv
<1> SUFFICES ASSUME Init PROVE IInv
  OBVIOUS
<1>1. /\ dir \in Directories /\ pc = "start" /\ pos = 0 /\ raw = << >> /\ next = 1
      /\ run = << >> /\ total = 0 /\ out = << >> /\ err = "nil"
  BY DEF Init
<1>2. pos \in 0..(SectorStart(dir.size) + BlockSize)
  BY <1>1, EndOfExtent
<1>3. out \in Seq({})
  BY <1>1
<1>4. TypeInv
  BY <1>1, <1>2, <1>3 DEF TypeInv
<1>5. Phases
  BY <1>1 DEF Phases
<1> QED BY <1>1, <1>4, <1>5 DEF IInv, ParseInv, MergeInv, Blamed

LEMMA OpenStart ==
  ASSUME IInv, OpenDirectory, pc' = "parse"
  PROVE  (AtBoundary /\ ParsedSoFar)'
<1>1. /\ UNCHANGED <<dir, pos, raw>> /\ pos = 0 /\ raw = << >>
      /\ Len(dir.cells) = dir.size /\ dir \in Directories /\ TypeInv
  BY DEF OpenDirectory, Fail, IInv, Phases, TypeInv
<1>2. /\ dir.size \in Nat /\ SectorStart(0) = 0
      /\ dir.cells \in Seq(AnyCell) /\ Legible(dir.cells) /\ Len(dir.cells) \in Nat
  BY <1>1, Cells, Sector
<1>3. dir.size > 0 => dir.cells[1] # Inside
  <2>1. SUFFICES ASSUME dir.size > 0, dir.cells[1] = Inside PROVE FALSE
    OBVIOUS
  <2>2. \E b \in 1..(1 - 1) : Covers(dir.cells, b, 1)
    BY <1>1, <1>2, <2>1 DEF Legible
  <2> QED BY <2>2
<1>4. {q \in RecordedAt : q < 0} = {}
  BY <1>1, <1>2, RecordedAreCells
<1>5. RecordedAt' = RecordedAt
  BY <1>1 DEF RecordedAt
<1>6. \A p \in RecordedAt : ~(p < 0)
  BY <1>4
<1>7. Before(0) = 0
  BY <1>4, FS_EmptySet DEF Before
<1>8. (Before(pos))' = Before(0)
  BY <1>1, <1>5 DEF Before
<1>9. AtBoundary'
  <2>1. (Cell)' = dir.cells[1]
    BY <1>1 DEF Cell
  <2>2. pos' = 0 /\ dir' = dir
    BY <1>1
  <2>3. 0 \in 0..(SectorStart(dir.size) + BlockSize)
    BY <1>1, EndOfExtent
  <2> QED BY <1>2, <1>3, <2>1, <2>2, <2>3 DEF AtBoundary
<1>10. ParsedSoFar'
  <2>1. Len(raw') = 0 /\ Len(raw') = (Before(pos))'
    BY <1>1, <1>7, <1>8
  <2>2. \A p \in RecordedAt' : ~(p < pos')
    BY <1>1, <1>5, <1>6
  <2> QED BY <1>1, <2>1, <2>2 DEF ParsedSoFar
<1> QED BY <1>9, <1>10

LEMMA SkipParses ==
  ASSUME IInv, SkipPadding
  PROVE  (AtBoundary /\ ParsedSoFar)'
<1> DEFINE nx == NextSector(pos)
<1>1. /\ UNCHANGED <<dir, raw>> /\ pos' = nx /\ TypeInv /\ dir \in Directories
      /\ AtBoundary /\ ParsedSoFar /\ pos < dir.size /\ dir.cells[pos + 1] = ZeroCell
  BY DEF SkipPadding, Parsing, Cell, IInv, ParseInv, TypeInv
<1>2. /\ pos \in Nat /\ Len(dir.cells) \in Nat /\ Len(dir.cells) = dir.size
      /\ dir.cells \in Seq(AnyCell) /\ Legible(dir.cells) /\ BlockSize \in Nat
  BY <1>1, PosIsNat, Cells, DirRecordsAssumption DEF ParsedSoFar
<1>3. /\ SectorStart(pos) \in 0..pos /\ pos < nx /\ nx = SectorStart(pos) + BlockSize
      /\ nx \in Nat /\ SectorStart(nx) = nx
  BY <1>2, Sector, NextSectorStarts
<1>4. nx \in 0..(SectorStart(dir.size) + BlockSize)
  <2>1. SectorStart(pos) <= SectorStart(dir.size) /\ SectorStart(dir.size) \in Nat
    BY <1>1, <1>2, SectorsInOrder, EndOfExtent
  <2> QED BY <1>2, <1>3, <2>1
<1> HIDE DEF nx
<1>5. ASSUME nx < dir.size
      PROVE  dir.cells[nx + 1] # Inside
  <2>1. pos \in 0..(Len(dir.cells) - 1)
    BY <1>1, <1>2
  <2> QED BY <1>1, <1>2, <1>5, <2>1, AfterPadding DEF nx
<1>6. ASSUME NEW p \in RecordedAt
      PROVE  ~(pos <= p /\ p < nx)
  <2>1. SUFFICES ASSUME pos <= p, p < nx PROVE FALSE
    OBVIOUS
  <2>2. /\ p \in Nat
        /\ \A q \in SectorStart(p)..p : dir.cells[q + 1] # ZeroCell
    BY <1>2 DEF RecordedAt
  <2>3. SectorStart(p) = SectorStart(pos)
    BY <1>2, <1>3, <2>1, <2>2, SectorIs
  <2> QED BY <1>1, <1>2, <1>3, <2>1, <2>2, <2>3
<1>7. /\ RecordedAt \in SUBSET Int /\ IsFiniteSet(RecordedAt) /\ pos \notin RecordedAt
      /\ \A q \in RecordedAt : ~(pos < q /\ q < nx)
      /\ \A q \in RecordedAt : q < nx => q < pos
  <2>1. RecordedAt \in SUBSET Int /\ IsFiniteSet(RecordedAt)
    BY <1>1, RecordedAreCells
  <2> QED BY <1>2, <1>3, <1>6, <2>1
<1>8. Before(nx) = Before(pos)
  BY <1>2, <1>3, <1>7, CountStep DEF Before
<1>9. RecordedAt' = RecordedAt
  BY <1>1 DEF RecordedAt
<1>10. \A p : (Before(p))' = Before(p)
  BY <1>9 DEF Before
<1>11. (Before(pos))' = Before(pos)
  BY <1>1, <1>8, <1>9 DEF Before
<1>12. ParsedSoFar'
  <2>1. \A k \in 1..Len(raw) :
          \E p \in RecordedAt : p < nx /\ Before(p) = k - 1 /\ raw[k] = dir.cells[p + 1]
    <3>1. \A p \in RecordedAt : p < pos => p < nx
      BY <1>2, <1>3, <1>7
    <3> QED BY <1>1, <3>1 DEF ParsedSoFar
  <2>2. \A p \in RecordedAt : p < nx => ~Malformed(dir.cells[p + 1], dir.size - p)
    BY <1>1, <1>7 DEF ParsedSoFar
  <2> QED BY <1>1, <1>9, <1>10, <1>11, <2>1, <2>2 DEF ParsedSoFar, Malformed
<1>13. AtBoundary'
  <2>1. (Cell)' = dir.cells[nx + 1]
    BY <1>1 DEF Cell
  <2>2. SectorStart(nx)..(nx - 1) = {}
    BY <1>3
  <2>3. (SectorStart(pos))' = SectorStart(nx)
    BY <1>1 DEF SectorStart
  <2>4. (SectorStart(dir.size))' = SectorStart(dir.size)
    BY <1>1 DEF SectorStart
  <2> QED BY <1>1, <1>4, <1>5, <2>1, <2>2, <2>3, <2>4 DEF AtBoundary
<1> QED BY <1>12, <1>13

(* A record at pos is recorded: parsing refuses no other, and keeps no other. *)
LEMMA AtRecord ==
  ASSUME TypeInv, AtBoundary, ParsedSoFar, pos < dir.size, Cell # ZeroCell
  PROVE  /\ IsRecord(Cell) /\ Cell \in RecordCell /\ Cell.len \in Nat \ {0}
         /\ pos \in RecordedAt
<1>1. /\ pos \in Nat /\ Len(dir.cells) \in Nat /\ Len(dir.cells) = dir.size
      /\ dir.cells \in Seq(AnyCell)
  BY PosIsNat, Cells DEF ParsedSoFar, TypeInv
<1>2. Cell \in AnyCell /\ Cell = dir.cells[pos + 1]
  BY <1>1 DEF Cell
<1>3. Cell # Inside
  BY DEF AtBoundary
<1>4. IsRecord(Cell) /\ Cell \in RecordCell /\ Cell.len \in Nat \ {0}
  BY <1>2, <1>3, RecordKind
<1>5. \A q \in SectorStart(pos)..pos : dir.cells[q + 1] # ZeroCell
  <2>1. ASSUME NEW q \in SectorStart(pos)..pos PROVE q = pos \/ q \in SectorStart(pos)..(pos - 1)
    BY <1>1, Sector
  <2> QED BY <1>2, <2>1 DEF AtBoundary
<1>6. pos \in 0..(Len(dir.cells) - 1)
  BY <1>1
<1> QED BY <1>2, <1>4, <1>5, <1>6 DEF RecordedAt

LEMMA RecordParses ==
  ASSUME IInv, ParseRecord, pc' = "parse"
  PROVE  (AtBoundary /\ ParsedSoFar)' /\ raw' \in Seq(RecordCell)
         /\ pos' \in 0..(SectorStart(dir.size) + BlockSize)
<1> DEFINE c == Cell
           nx == pos + c.len
<1>1. /\ dir' = dir /\ TypeInv /\ dir \in Directories /\ AtBoundary /\ ParsedSoFar
      /\ pos < dir.size /\ c # ZeroCell /\ ~Malformed(c, dir.size - pos)
      /\ raw' = Append(raw, c) /\ pos' = nx /\ raw \in Seq(RecordCell)
  BY DEF ParseRecord, Parsing, Fail, IInv, ParseInv, TypeInv
<1>2. /\ pos \in Nat /\ Len(dir.cells) \in Nat /\ Len(dir.cells) = dir.size
      /\ dir.cells \in Seq(AnyCell) /\ Legible(dir.cells) /\ BlockSize \in Nat
      /\ c = dir.cells[pos + 1]
  BY <1>1, PosIsNat, Cells, DirRecordsAssumption DEF ParsedSoFar, Cell
<1>3. IsRecord(c) /\ c \in RecordCell /\ c.len \in Nat \ {0} /\ pos \in RecordedAt
  BY <1>1, AtRecord
<1> HIDE DEF c
<1>4. c.len <= dir.size - pos
  BY <1>1, <1>2, <1>3 DEF Malformed
<1>5. nx \in Nat /\ pos < nx /\ nx <= dir.size
  BY <1>2, <1>3, <1>4
<1>6. nx \in 0..(SectorStart(dir.size) + BlockSize)
  BY <1>1, <1>5, EndOfExtent
<1>7. \A q \in (pos + 1)..(nx - 1) : dir.cells[q + 1] = Inside
  <2>1. Covers(dir.cells, pos + 1, pos + 1 + c.len - 1)
    BY <1>2, <1>3, <1>5 DEF Legible
  <2>2. \A x \in (pos + 2)..nx : dir.cells[x] = Inside
    BY <1>2, <1>3, <2>1 DEF Covers
  <2>3. ASSUME NEW q \in (pos + 1)..(nx - 1) PROVE q + 1 \in (pos + 2)..nx
    BY <1>2, <1>5
  <2> QED BY <2>2, <2>3
<1>8. ASSUME nx < dir.size
      PROVE  dir.cells[nx + 1] # Inside
  <2>1. pos + 1 \in 1..Len(dir.cells) /\ pos + 1 + c.len <= Len(dir.cells)
    BY <1>2, <1>3, <1>8
  <2>2. dir.cells[pos + 1 + c.len] # Inside
    BY <1>2, <1>3, <2>1, AfterRecord
  <2>3. pos + 1 + c.len = nx + 1
    BY <1>2, <1>3
  <2> QED BY <2>2, <2>3
<1>9. ASSUME NEW q \in SectorStart(nx)..(nx - 1)
      PROVE  dir.cells[q + 1] # ZeroCell
  <2>1. SectorStart(nx) \in 0..nx /\ nx < SectorStart(nx) + BlockSize /\ q \in Nat /\ q < nx
    BY <1>5, Sector
  <2>2. CASE q > pos
    <3>1. q \in (pos + 1)..(nx - 1)
      BY <1>2, <1>5, <2>1, <2>2
    <3>2. ZeroCell # Inside
      BY DEF ZeroCell, Inside
    <3> QED BY <1>7, <3>1, <3>2
  <2>3. CASE q = pos
    BY <1>1, <1>2, <2>3
  <2>4. CASE q < pos
    <3>1. SectorStart(nx) <= pos /\ pos < SectorStart(nx) + BlockSize
      BY <1>2, <1>5, <2>1, <2>4
    <3>2. SectorStart(pos) = SectorStart(nx)
      BY <1>2, <1>5, <3>1, SectorIs
    <3>3. q \in SectorStart(pos)..(pos - 1)
      BY <1>2, <2>1, <2>4, <3>2
    <3> QED BY <1>1, <3>3 DEF AtBoundary
  <2> QED BY <1>2, <2>1, <2>2, <2>3, <2>4
<1>10. /\ RecordedAt \in SUBSET Int /\ IsFiniteSet(RecordedAt)
       /\ \A q \in RecordedAt : ~(pos < q /\ q < nx)
       /\ \A q \in RecordedAt : q < nx <=> (q < pos \/ q = pos)
  <2>1. RecordedAt \in SUBSET Int /\ IsFiniteSet(RecordedAt)
    BY <1>1, RecordedAreCells
  <2>2. ASSUME NEW q \in RecordedAt, pos < q, q < nx
        PROVE  FALSE
    <3>1. q \in (pos + 1)..(nx - 1)
      BY <1>2, <1>5, <2>1, <2>2
    <3> QED BY <1>7, <3>1 DEF RecordedAt, IsRecord
  <2> QED BY <1>2, <1>5, <2>1, <2>2
<1>11. Before(pos) \in Nat /\ Before(nx) = Before(pos) + 1
  BY <1>2, <1>3, <1>5, <1>10, CountStep DEF Before
<1>12. RecordedAt' = RecordedAt
  BY <1>1 DEF RecordedAt
<1>13. \A p : (Before(p))' = Before(p)
  BY <1>12 DEF Before
<1>14. (Before(pos))' = Before(nx)
  BY <1>1, <1>12 DEF Before
<1> HIDE DEF nx
<1>15. Len(raw) \in Nat /\ Len(raw') = Len(raw) + 1 /\ raw'[Len(raw) + 1] = c
       /\ (\A k \in 1..Len(raw) : raw'[k] = raw[k]) /\ raw' \in Seq(RecordCell)
  BY <1>1, <1>3
<1>16. ASSUME NEW k \in 1..Len(raw')
       PROVE  \E p \in RecordedAt : p < nx /\ Before(p) = k - 1 /\ raw'[k] = dir.cells[p + 1]
  <2>1. CASE k \in 1..Len(raw)
    <3>1. PICK p \in RecordedAt : p < pos /\ Before(p) = k - 1 /\ raw[k] = dir.cells[p + 1]
      BY <1>1, <2>1 DEF ParsedSoFar
    <3>2. p < nx /\ raw'[k] = raw[k]
      BY <1>10, <1>15, <2>1, <3>1
    <3> QED BY <3>1, <3>2
  <2>2. CASE k = Len(raw) + 1
    <3>1. Before(pos) = k - 1
      BY <1>1, <1>11, <2>2 DEF ParsedSoFar
    <3> QED BY <1>2, <1>3, <1>5, <1>15, <2>2, <3>1
  <2> QED BY <1>15, <2>1, <2>2
<1>17. \A p \in RecordedAt : p < nx => ~Malformed(dir.cells[p + 1], dir.size - p)
  BY <1>1, <1>2, <1>10 DEF ParsedSoFar
<1>18. ParsedSoFar'
  <2>1. Len(raw') = (Before(pos))'
    BY <1>1, <1>11, <1>14, <1>15 DEF ParsedSoFar
  <2> QED BY <1>1, <1>12, <1>13, <1>16, <1>17, <2>1 DEF ParsedSoFar, Malformed
<1>19. AtBoundary'
  <2>1. (Cell)' = dir.cells[nx + 1]
    BY <1>1 DEF Cell
  <2>2. (SectorStart(pos))' = SectorStart(nx)
    BY <1>1 DEF SectorStart
  <2>3. (SectorStart(dir.size))' = SectorStart(dir.size)
    BY <1>1 DEF SectorStart
  <2> QED BY <1>1, <1>6, <1>8, <1>9, <2>1, <2>2, <2>3 DEF AtBoundary
<1> QED BY <1>1, <1>6, <1>15, <1>18, <1>19

---------------------------------------------------------------------------
(* Runs of records *)

LEMMA CellFields ==
  ASSUME NEW c \in RecordCell
  PROVE  /\ c.len \in Nat \ {0} /\ c.size \in 0..(Word - 1) /\ c.size \in Nat
         /\ c.isDir \in BOOLEAN /\ c.multi \in BOOLEAN
<1>1. Word \in Nat \ {0}
  BY DirRecordsAssumption
<1>2. c.len \in Nat \ {0} /\ c.size \in 0..(Word - 1) /\ c.isDir \in BOOLEAN /\ c.multi \in BOOLEAN
  BY DEF RecordCell
<1> QED BY <1>1, <1>2

LEMMA TotalOf ==
  ASSUME NEW s \in Seq(RecordCell)
  PROVE  /\ Total(s) \in Nat
         /\ Len(s) = 1 => Total(s) = s[1].size
         /\ \E f : /\ Total(s) = f[Len(s)] /\ f[0] = 0
                   /\ \A k \in 1..Len(s) : f[k] = f[k - 1] + s[k].size
                   /\ \A k \in 0..Len(s) : f[k] \in Nat
<1> DEFINE v == [k \in 1..Len(s) |-> s[k].size]
           Sums(f) == f = [k \in 0..Len(s) |-> IF k = 0 THEN 0 ELSE f[k - 1] + s[k].size]
           f == CHOOSE x : Sums(x)
<1>1. Len(s) \in Nat /\ v \in [1..Len(s) -> Nat]
  <2>1. \A k \in 1..Len(s) : s[k].size \in Nat
    BY CellFields
  <2> QED BY <2>1
<1>2. \A g : Sums(g) <=> g = [k \in 0..Len(s) |-> IF k = 0 THEN 0 ELSE g[k - 1] + v[k]]
  <2>1. ASSUME NEW g
        PROVE  [k \in 0..Len(s) |-> IF k = 0 THEN 0 ELSE g[k - 1] + s[k].size]
               = [k \in 0..Len(s) |-> IF k = 0 THEN 0 ELSE g[k - 1] + v[k]]
    <3>1. \A k \in 0..Len(s) : k # 0 => v[k] = s[k].size
      BY <1>1
    <3> HIDE DEF v
    <3> QED BY <3>1
  <2> HIDE DEF v
  <2> QED BY <2>1
<1> HIDE DEF v
<1>3. Sums(f)
  <2>1. PICK g : g = [k \in 0..Len(s) |-> IF k = 0 THEN 0 ELSE g[k - 1] + v[k]]
    BY <1>1, SumsExist, Zenon
  <2>2. Sums(g)
    BY <1>2, <2>1, Zenon
  <2> HIDE DEF Sums
  <2> QED BY <2>2, Zenon
<1>4. Total(s) = f[Len(s)]
  BY DEF Total
<1>5. \A k \in 0..Len(s) : f[k] \in Nat
  <2>1. f = [k \in 0..Len(s) |-> IF k = 0 THEN 0 ELSE f[k - 1] + v[k]]
    BY <1>2, <1>3
  <2> HIDE DEF f
  <2> QED BY <1>1, <2>1, SumsAreNat
<1>6. ASSUME Len(s) = 1 PROVE f[1] = s[1].size
  <2> HIDE DEF f
  <2>1. f[0] = 0 /\ f[1] = f[0] + s[1].size
    BY <1>3, <1>6
  <2>2. s[1].size \in Nat
    BY <1>6, CellFields
  <2> QED BY <2>1, <2>2
<1> HIDE DEF f
<1>7. f[Len(s)] \in Nat
  BY <1>1, <1>5
<1>8. f[0] = 0 /\ \A k \in 1..Len(s) : f[k] = f[k - 1] + s[k].size
  BY <1>1, <1>3
<1>9. Total(s) \in Nat
  BY <1>4, <1>7
<1>10. Len(s) = 1 => Total(s) = s[1].size
  BY <1>4, <1>6
<1> QED BY <1>4, <1>5, <1>8, <1>9, <1>10

(* One more record adds its size: what the code sums up is the total.      *)
LEMMA TotalGrows ==
  ASSUME NEW s \in Seq(RecordCell), NEW r \in RecordCell
  PROVE  Total(Append(s, r)) = Total(s) + r.size
<1> DEFINE t == Append(s, r)
<1>1. /\ t \in Seq(RecordCell) /\ Len(t) = Len(s) + 1 /\ Len(s) \in Nat
      /\ t[Len(s) + 1] = r /\ \A k \in 1..Len(s) : t[k] = s[k]
  OBVIOUS
<1> HIDE DEF t
<1>2. PICK f : /\ Total(s) = f[Len(s)] /\ f[0] = 0
               /\ \A k \in 1..Len(s) : f[k] = f[k - 1] + s[k].size
               /\ \A k \in 0..Len(s) : f[k] \in Nat
  BY TotalOf
<1>3. PICK g : /\ Total(t) = g[Len(t)] /\ g[0] = 0
               /\ \A k \in 1..Len(t) : g[k] = g[k - 1] + t[k].size
               /\ \A k \in 0..Len(t) : g[k] \in Nat
  BY <1>1, TotalOf
<1> DEFINE Alike == {k \in 0..Len(s) : f[k] = g[k]}
<1>4. 0 \in Alike
  BY <1>1, <1>2, <1>3
<1>5. ASSUME NEW k \in 1..Len(s), k - 1 \in Alike
      PROVE  k \in Alike
  <2>1. k \in 1..Len(t) /\ t[k] = s[k] /\ f[k - 1] = g[k - 1]
    BY <1>1, <1>5
  <2>2. f[k] = f[k - 1] + s[k].size /\ g[k] = g[k - 1] + t[k].size
    BY <1>2, <1>3, <2>1
  <2> QED BY <2>1, <2>2
<1> HIDE DEF Alike
<1>6. \A k \in 0..Len(s) : k \in Alike
  BY <1>1, <1>4, <1>5, InductionTo
<1>7. f[Len(s)] = g[Len(s)]
  BY <1>1, <1>6 DEF Alike
<1>8. Len(s) + 1 \in 1..Len(t) /\ Len(s) + 1 - 1 = Len(s)
  BY <1>1
<1>9. g[Len(s) + 1] = g[Len(s)] + r.size
  BY <1>1, <1>3, <1>8
<1> QED BY <1>1, <1>2, <1>3, <1>7, <1>9 DEF t

(* A file in which each record but the last goes on is all of the sequence *)
(* from its first record to its last: no other one can be its first.       *)
LEMMA FileFrom ==
  ASSUME NEW rs \in Seq(RecordCell), NEW k \in 1..Len(rs), NEW f \in 1..k,
         f = 1 \/ ~GoesOn(rs[f - 1]),
         \A j \in f..(k - 1) : GoesOn(rs[j])
  PROVE  FileEndingAt(rs, k) = SubSeq(rs, f, k)
<1> DEFINE firsts == {i \in 1..k : /\ i = 1 \/ ~GoesOn(rs[i - 1])
                                   /\ \A j \in i..(k - 1) : GoesOn(rs[j])}
<1>1. f \in firsts
  OBVIOUS
<1>2. ASSUME NEW i \in firsts PROVE i = f
  <2>1. ~(i < f)
    <3>1. i < f => f - 1 \in i..(k - 1) /\ f # 1
      OBVIOUS
    <3> QED BY <3>1
  <2>2. ~(f < i)
    <3>1. f < i => i - 1 \in f..(k - 1) /\ i # 1
      OBVIOUS
    <3> QED BY <3>1
  <2> QED BY <2>1, <2>2
<1> HIDE DEF firsts
<1>3. (CHOOSE i \in firsts : TRUE) = f
  BY <1>1, <1>2
<1> QED BY <1>3 DEF FileEndingAt, firsts

(* A record that stands alone, where no file goes on, is a file.           *)
LEMMA AloneIsAFile ==
  ASSUME NEW rs \in Seq(RecordCell), NEW k \in 1..Len(rs), StandsAlone(rs[k]),
         k = 1 \/ ~GoesOn(rs[k - 1])
  PROVE  ~GoesOn(rs[k]) /\ FileEndingAt(rs, k) = <<rs[k]>>
<1>1. rs[k].multi \in BOOLEAN /\ rs[k].isDir \in BOOLEAN
  BY CellFields
<1>2. ~GoesOn(rs[k])
  BY <1>1 DEF StandsAlone, GoesOn
<1>3. FileEndingAt(rs, k) = SubSeq(rs, k, k)
  <2>1. k \in 1..k /\ k..(k - 1) = {}
    OBVIOUS
  <2> QED BY <2>1, FileFrom
<1>4. SubSeq(rs, k, k) = <<rs[k]>>
  <2> DEFINE one == SubSeq(rs, k, k)
  <2>1. one \in Seq(RecordCell) /\ Len(one) = 1 /\ one[1] = rs[k]
    OBVIOUS
  <2> HIDE DEF one
  <2>2. one = <<one[1]>>
    BY <2>1, SingleElement
  <2> QED BY <2>1, <2>2 DEF one
<1> QED BY <1>2, <1>3, <1>4

(* Where every file has its last record, none is left to a directory.      *)
LEMMA ApartIfSound ==
  ASSUME NEW rs \in Seq(RecordCell), ~DirectoriesApart(rs)
  PROVE  ~Sound(rs)
<1>1. PICK k \in 1..(Len(rs) - 1) : GoesOn(rs[k]) /\ rs[k + 1].isDir
  BY DEF DirectoriesApart
<1>2. k \in 1..Len(rs)
  BY <1>1
<1> QED BY <1>1, <1>2 DEF Sound

---------------------------------------------------------------------------
(* Returning a file *)

Ended(n) == Cardinality({i \in LastRecords(raw) : i <= n})

LEMMA LastIsFinite ==
  ASSUME raw \in Seq(RecordCell)
  PROVE  /\ LastRecords(raw) \in SUBSET (1..Len(raw)) /\ LastRecords(raw) \in SUBSET Int
         /\ IsFiniteSet(LastRecords(raw))
<1>1. LastRecords(raw) \in SUBSET (1..Len(raw)) /\ Len(raw) \in Int /\ 1 \in Int
  BY DEF LastRecords
<1>2. LastRecords(raw) \in SUBSET Int
  BY <1>1
<1> QED BY <1>1, <1>2, Bounded, Zenon

LEMMA EndedCounts ==
  ASSUME raw \in Seq(RecordCell), NEW n \in Nat
  PROVE  /\ Ended(n) \in Nat
         /\ Ended(n + 1) = IF n + 1 \in LastRecords(raw) THEN Ended(n) + 1 ELSE Ended(n)
<1> DEFINE S == LastRecords(raw)
<1>2. S \in SUBSET Int /\ IsFiniteSet(S)
  BY LastIsFinite
<1> HIDE DEF S
<1>3. \A q \in S : (q <= n <=> q < n + 1) /\ (q <= n + 1 <=> q < n + 2) /\ ~(n + 1 < q /\ q < n + 2)
  BY <1>2
<1>4. {i \in S : i <= n} = {i \in S : i < n + 1} /\ {i \in S : i <= n + 1} = {i \in S : i < n + 2}
  BY <1>3, Zenon
<1>5. n + 1 \in Int /\ n + 2 \in Int /\ n + 1 < n + 2
  OBVIOUS
<1>6. /\ Cardinality({i \in S : i < n + 1}) \in Nat
      /\ Cardinality({i \in S : i < n + 2}) =
           IF n + 1 \in S THEN Cardinality({i \in S : i < n + 1}) + 1
                          ELSE Cardinality({i \in S : i < n + 1})
  BY <1>2, <1>3, <1>5, CountStep
<1> QED BY <1>4, <1>6 DEF Ended, S

LEMMA EndedInOrder ==
  ASSUME raw \in Seq(RecordCell), NEW n \in Nat, NEW k \in LastRecords(raw), k <= n
  PROVE  Ended(k) \in 1..Ended(n) /\ Ended(n) \in Nat
<1> DEFINE A == {i \in LastRecords(raw) : i <= k}
           B == {i \in LastRecords(raw) : i <= n}
<1>1. LastRecords(raw) \in SUBSET Int
  BY LastIsFinite
<1>2. IsFiniteSet(LastRecords(raw))
  BY LastIsFinite
<1>3. \A i \in LastRecords(raw) : i <= k => i <= n
  BY <1>1
<1>4. A \in SUBSET B /\ B \in SUBSET LastRecords(raw) /\ k \in A
  BY <1>1, <1>3
<1> HIDE DEF A, B
<1>5. IsFiniteSet(B) /\ IsFiniteSet(A) /\ Cardinality(A) <= Cardinality(B)
  BY <1>2, <1>4, FS_Subset
<1>6. Cardinality(A) \in Nat /\ Cardinality(B) \in Nat
  BY <1>5, FS_CardinalityType
<1>7. Cardinality(A) # 0
  BY <1>4, <1>5, FS_EmptySet
<1> QED BY <1>5, <1>6, <1>7 DEF A, B, Ended

LEMMA AppendedEntry ==
  ASSUME NEW S, NEW s \in Seq(S), NEW e
  PROVE  /\ Append(s, e) \in Seq(S \cup {e})
         /\ Len(Append(s, e)) = Len(s) + 1 /\ Len(s) \in Nat
         /\ Append(s, e)[Len(s) + 1] = e
         /\ \A i \in 1..Len(s) : Append(s, e)[i] = s[i]
<1>1. s \in Seq(S \cup {e}) /\ e \in S \cup {e}
  OBVIOUS
<1> QED BY <1>1

GoesOnAlike(n) ==
  n \in 1..Len(raw) /\ n < Len(raw) /\ GoesOn(raw[n]) => raw[n + 1].id = raw[n].id

(* The file that ends in record n + 1 is returned after those before it.   *)
LEMMA ReturnsOne ==
  ASSUME TypeInv, NEW n \in Nat, n + 1 \in LastRecords(raw), ReturnedTo(n), GoesOnAlike(n),
         NEW file, file = FileEndingAt(raw, n + 1), NEW entry, Tells(entry, file),
         Total(file) < Word, UNCHANGED raw, out' = Append(out, entry)
  PROVE  (ReturnedTo(n + 1))'
<1>1. raw \in Seq(RecordCell) /\ n + 1 \in 1..Len(raw) /\ Len(raw) \in Nat
  BY DEF TypeInv, LastRecords
<1>2. PICK S : out \in Seq(S)
  BY DEF TypeInv
<1>3. /\ Len(out') = Len(out) + 1 /\ Len(out) \in Nat
      /\ out'[Len(out) + 1] = entry
      /\ \A i \in 1..Len(out) : out'[i] = out[i]
  BY <1>2, AppendedEntry
<1>4. /\ Ended(n) \in Nat /\ Ended(n + 1) = Ended(n) + 1 /\ Len(out) = Ended(n)
  BY <1>1, EndedCounts DEF ReturnedTo, Ended
<1>5. ASSUME NEW k \in LastRecords(raw), k <= n + 1
      PROVE  Tells(out'[Ended(k)], FileEndingAt(raw, k)) /\ Total(FileEndingAt(raw, k)) < Word
  <2>1. CASE k = n + 1
    BY <1>3, <1>4, <2>1
  <2>2. CASE k # n + 1
    <3>1. k <= n /\ k \in Nat
      BY <1>5, <2>2 DEF LastRecords
    <3>2. Ended(k) \in 1..Len(out)
      BY <1>1, <1>4, <3>1, EndedInOrder
    <3>3. out'[Ended(k)] = out[Ended(k)]
      BY <1>3, <3>2
    <3> QED BY <3>1, <3>3 DEF ReturnedTo, Ended
  <2> QED BY <2>1, <2>2
<1>6. ASSUME NEW k \in 1..(n + 1), GoesOn(raw[k]), k < n + 1
      PROVE  raw[k + 1].id = raw[k].id
  <2>1. CASE k < n
    <3>1. k \in 1..n
      BY <2>1
    <3> QED BY <1>6, <2>1, <3>1 DEF ReturnedTo
  <2>2. CASE k = n
    BY <1>1, <1>6, <2>2 DEF GoesOnAlike
  <2> QED BY <1>6, <2>1, <2>2
<1> QED BY <1>3, <1>4, <1>5, <1>6 DEF ReturnedTo, Ended

(* A record whose file goes on returns nothing.                            *)
LEMMA ReturnsNone ==
  ASSUME TypeInv, NEW n \in Nat, n + 1 \in 1..Len(raw), n + 1 \notin LastRecords(raw),
         ReturnedTo(n), GoesOnAlike(n), UNCHANGED <<raw, out>>
  PROVE  (ReturnedTo(n + 1))'
<1>1. raw \in Seq(RecordCell) /\ Len(raw) \in Nat
  BY DEF TypeInv
<1>2. Ended(n + 1) = Ended(n) /\ Len(out) = Ended(n)
  BY <1>1, EndedCounts DEF ReturnedTo, Ended
<1>3. ASSUME NEW k \in LastRecords(raw), k <= n + 1
      PROVE  k <= n
  BY <1>3 DEF LastRecords
<1>4. ASSUME NEW k \in 1..(n + 1), GoesOn(raw[k]), k < n + 1
      PROVE  raw[k + 1].id = raw[k].id
  <2>1. CASE k < n
    <3>1. k \in 1..n
      BY <2>1
    <3> QED BY <1>4, <2>1, <3>1 DEF ReturnedTo
  <2>2. CASE k = n
    BY <1>1, <1>4, <2>2 DEF GoesOnAlike
  <2> QED BY <1>4, <2>1, <2>2
<1> QED BY <1>2, <1>3, <1>4 DEF ReturnedTo, Ended

---------------------------------------------------------------------------
(* The steps of mergeMultiExtent *)

(* What every step of the merge starts from. *)
LEMMA WhileMerging ==
  ASSUME IInv, Merging
  PROVE  /\ TypeInv /\ (DirectoriesApart(raw) => ReturnedTo(next - 1))
         /\ IF run = << >> THEN BetweenRuns(next - 1) ELSE InRun(next - 1)
         /\ raw = Recorded /\ ~Refused
         /\ raw \in Seq(RecordCell) /\ Len(raw) \in Nat /\ run \in Seq(RecordCell)
         /\ next \in 1..(Len(raw) + 1) /\ next - 1 \in 0..Len(raw) /\ next - 1 \in Nat
         /\ err = "nil" /\ Word \in Nat \ {0}
         /\ UNCHANGED <<dir, pos, raw>>
         /\ RecordedAt' = RecordedAt /\ Recorded' = Recorded /\ Refused' = Refused
<1>1. TypeInv /\ MergeInv /\ Phases /\ pc = "merge" /\ UNCHANGED <<dir, pos, raw>>
  BY DEF IInv, Merging
<1>2. next \in 1..(Len(raw) + 1) /\ raw \in Seq(RecordCell) /\ run \in Seq(RecordCell)
      /\ Word \in Nat \ {0} /\ err = "nil"
  BY <1>1, DirRecordsAssumption DEF TypeInv, Phases
<1>3. next - 1 \in 0..Len(raw) /\ next - 1 \in Nat /\ Len(raw) \in Nat
  BY <1>2
<1>4. RecordedAt' = RecordedAt
  BY <1>1 DEF RecordedAt
<1>5. Recorded' = Recorded /\ Refused' = Refused
  BY <1>1, <1>4 DEF Recorded, Refused, Malformed
<1> QED BY <1>1, <1>2, <1>3, <1>4, <1>5 DEF MergeInv

(* A step of the merge that goes on has to answer for the records only. *)
LEMMA MergeGoesOn ==
  ASSUME IInv, Merging, pc' \in {"merge", "done"}, err' = err,
         next' \in 1..(Len(raw) + 1), run' \in Seq(RecordCell), \E S : out' \in Seq(S),
         \A i \in 1..Len(out') : out'[i].size \in 0..(Word - 1),
         pc' = "done" => run' = << >> /\ next' > Len(raw),
         DirectoriesApart(raw) => (ReturnedTo(next - 1))', total' \in Nat,
         (IF run = << >> THEN BetweenRuns(next - 1) ELSE InRun(next - 1))'
  PROVE  IInv'
<1>1. /\ TypeInv /\ UNCHANGED <<dir, pos, raw>> /\ err = "nil"
      /\ raw = Recorded /\ ~Refused /\ Recorded' = Recorded /\ Refused' = Refused
  BY WhileMerging
<1>2. TypeInv'
  <2>1. (SectorStart(dir.size))' = SectorStart(dir.size)
    BY <1>1 DEF SectorStart
  <2> QED BY <1>1, <2>1 DEF TypeInv
<1>3. Phases' /\ ParseInv' /\ Blamed'
  <2>1. TooLarge' = TooLarge /\ OutOfBounds' = OutOfBounds /\ Phases /\ pc = "merge"
    BY <1>1 DEF TooLarge, OutOfBounds, IInv, Merging
  <2> QED BY <1>1, <2>1 DEF Phases, ParseInv, Blamed
<1>4. MergeInv'
  BY <1>1 DEF MergeInv
<1> QED BY <1>2, <1>3, <1>4 DEF IInv

LEMMA PassThroughInv ==
  ASSUME IInv, PassThrough
  PROVE  IInv'
<1> PICK n \in Nat : n = next - 1
  BY WhileMerging DEF PassThrough
<1> DEFINE e == Single(This)
<1>1. /\ Merging /\ run = << >> /\ next <= Len(raw) /\ StandsAlone(This)
      /\ out' = Append(out, e) /\ next' = next + 1 /\ UNCHANGED <<pc, run, total, err>>
      /\ pc' = "merge" /\ run' = << >> /\ This = raw[next]
  BY DEF PassThrough, Merging, This
<1>2. /\ TypeInv /\ (DirectoriesApart(raw) => ReturnedTo(n)) /\ BetweenRuns(n) /\ raw \in Seq(RecordCell)
      /\ Len(raw) \in Nat /\ n \in Nat /\ Word \in Nat \ {0} /\ UNCHANGED raw
      /\ next \in 1..(Len(raw) + 1)
  BY <1>1, WhileMerging
<1>3. next \in 1..Len(raw) /\ n + 1 = next
  BY <1>1, <1>2
<1>4. next = 1 \/ ~GoesOn(raw[next - 1])
  BY <1>2, <1>3 DEF BetweenRuns
<1>5. ~GoesOn(raw[next]) /\ FileEndingAt(raw, next) = <<This>>
  BY <1>1, <1>2, <1>3, <1>4, AloneIsAFile
<1>6. n + 1 \in LastRecords(raw)
  BY <1>3, <1>5 DEF LastRecords
<1>7. This \in RecordCell /\ This.size \in 0..(Word - 1)
  BY <1>1, <1>2, <1>3, CellFields
<1>8. /\ <<This>> \in Seq(RecordCell) /\ Len(<<This>>) = 1 /\ <<This>>[1] = This
  BY <1>7
<1>9. Total(<<This>>) = This.size
  BY <1>8, TotalOf
<1>10. Tells(e, <<This>>) /\ e.size = This.size
  <2>1. /\ e.id = This.id /\ e.isDir = This.isDir /\ e.multi = This.multi /\ e.lba = This.lba
        /\ e.size = This.size /\ e.extents = << >>
    BY DEF Single
  <2>2. This.multi => This.isDir
    BY <1>1, <1>7, CellFields DEF StandsAlone
  <2> HIDE DEF e
  <2> QED BY <1>8, <1>9, <2>1, <2>2 DEF Tells
<1>11. GoesOnAlike(n)
  BY <1>2 DEF GoesOnAlike, BetweenRuns
<1>12. ASSUME DirectoriesApart(raw) PROVE (ReturnedTo(n + 1))'
  <2>1. Total(<<This>>) < Word
    BY <1>2, <1>7, <1>9
  <2> HIDE DEF e
  <2> QED BY <1>1, <1>2, <1>3, <1>5, <1>6, <1>10, <1>11, <1>12, <2>1, ReturnsOne
<1>13. next' - 1 = n + 1
  BY <1>1, <1>2
<1>14. DirectoriesApart(raw) => (ReturnedTo(next - 1))'
  BY <1>12, <1>13 DEF ReturnedTo
<1>15. (BetweenRuns(next - 1))'
  BY <1>2, <1>3, <1>5, <1>13 DEF BetweenRuns
<1>16. (\E S : out' \in Seq(S)) /\ \A i \in 1..Len(out') : out'[i].size \in 0..(Word - 1)
  <2>1. PICK S : out \in Seq(S)
    BY <1>2 DEF TypeInv
  <2> HIDE DEF e
  <2>2. /\ out' \in Seq(S \cup {e}) /\ Len(out') = Len(out) + 1 /\ Len(out) \in Nat
        /\ out'[Len(out) + 1] = e /\ \A i \in 1..Len(out) : out'[i] = out[i]
    BY <1>1, <2>1, AppendedEntry
  <2>3. \A i \in 1..Len(out') : i \in 1..Len(out) \/ i = Len(out) + 1
    BY <2>2
  <2> QED BY <1>2, <1>7, <1>10, <2>2, <2>3 DEF TypeInv
<1>17. next' \in 1..(Len(raw) + 1) /\ run' \in Seq(RecordCell) /\ total' \in Nat
  BY <1>1, <1>2, <1>3 DEF TypeInv
<1> QED BY <1>1, <1>14, <1>15, <1>16, <1>17, MergeGoesOn

LEMMA BeginRunInv ==
  ASSUME IInv, BeginRun
  PROVE  IInv'
<1> PICK n \in Nat : n = next - 1
  BY WhileMerging DEF BeginRun
<1>1. /\ Merging /\ run = << >> /\ next <= Len(raw) /\ ~StandsAlone(This)
      /\ run' = <<This>> /\ total' = This.size /\ next' = next + 1 /\ UNCHANGED <<pc, out, err>>
      /\ pc' = "merge" /\ This = raw[next]
  BY DEF BeginRun, Merging, This
<1>2. /\ TypeInv /\ (DirectoriesApart(raw) => ReturnedTo(n)) /\ BetweenRuns(n) /\ raw \in Seq(RecordCell)
      /\ Len(raw) \in Nat /\ UNCHANGED raw /\ next \in 1..(Len(raw) + 1)
  BY <1>1, WhileMerging
<1>3. n + 1 \in 1..Len(raw) /\ n + 1 = next
  BY <1>1, <1>2
<1>4. This \in RecordCell /\ This = raw[n + 1] /\ ~This.isDir /\ This.multi
      /\ This.size \in Nat
  BY <1>1, <1>2, <1>3, CellFields DEF StandsAlone
<1>5. GoesOn(raw[n + 1])
  BY <1>4 DEF GoesOn
<1>6. GoesOnAlike(n)
  BY <1>2 DEF GoesOnAlike, BetweenRuns
<1>7. DirectoriesApart(raw) => (ReturnedTo(n + 1))'
  BY <1>1, <1>2, <1>3, <1>5, <1>6, ReturnsNone DEF LastRecords
<1>8. next' - 1 = n + 1
  BY <1>1, <1>2
<1>9. DirectoriesApart(raw) => (ReturnedTo(next - 1))'
  BY <1>7, <1>8 DEF ReturnedTo
<1>10. /\ run' \in Seq(RecordCell) /\ Len(run') = 1 /\ run'[1] = raw[n + 1] /\ run' # << >>
  BY <1>1, <1>4
<1>11. (InRun(n + 1))'
  <2>1. n + 1 - Len(run') + 1 = n + 1
    BY <1>10
  <2>2. n + 1 = 1 \/ ~GoesOn(raw[n + 1 - 1])
    BY <1>2 DEF BetweenRuns
  <2>3. \A j \in (n + 1)..(n + 1) : raw[j].multi /\ raw[j].id = raw[n + 1].id
    BY <1>4
  <2>4. \A i \in 1..Len(run') : run'[i] = raw[n + 1 + i - 1]
    BY <1>10
  <2>5. \A j \in (n + 1)..(n + 1) : ~raw[j].isDir
    BY <1>4
  <2>6. total' = Total(run')
    <3>1. run' \in Seq(RecordCell) /\ Len(run') = 1 /\ run'[1].size = This.size
      BY <1>4, <1>10
    <3>2. Total(run') = run'[1].size
      BY <3>1, TotalOf
    <3> QED BY <1>1, <3>1, <3>2
  <2> QED BY <1>2, <1>3, <1>4, <2>1, <2>2, <2>3, <2>4, <2>5, <2>6 DEF InRun
<1>12. (InRun(next - 1))'
  BY <1>8, <1>11 DEF InRun
<1>13. (\E S : out' \in Seq(S)) /\ \A i \in 1..Len(out') : out'[i].size \in 0..(Word - 1)
  BY <1>1, <1>2 DEF TypeInv
<1>14. next' \in 1..(Len(raw) + 1) /\ total' \in Nat
  BY <1>1, <1>2, <1>4
<1> QED BY <1>1, <1>9, <1>10, <1>12, <1>13, <1>14, MergeGoesOn

(* The run holds the file from record f on, and s is it with one record more. *)
RunFrom(n, f) ==
  /\ f = n - Len(run) + 1 /\ n \in 1..Len(raw)
  /\ ~raw[f].isDir /\ run[1] = raw[f]
  /\ \A j \in f..n : raw[j].multi /\ raw[j].id = raw[f].id
  /\ DirectoriesApart(raw) => \A j \in f..n : ~raw[j].isDir /\ GoesOn(raw[j])
  /\ f = 1 \/ ~GoesOn(raw[f - 1])
  /\ total = Total(run)

Extended(n, f, s) ==
  /\ s \in Seq(RecordCell) /\ This \in RecordCell /\ This = raw[n + 1]
  /\ Len(s) = n + 1 - f + 1
  /\ s = SubSeq(raw, f, n + 1)
  /\ \A i \in 1..Len(s) : s[i] = raw[f + i - 1]

LEMMA InTheRun ==
  ASSUME IInv, Merging, run # << >>, NEW n \in Nat, n = next - 1
  PROVE  \E f \in 1..n : /\ RunFrom(n, f)
                         /\ next <= Len(raw) => Extended(n, f, Append(run, This))
<1> DEFINE f == n - Len(run) + 1
           s == Append(run, This)
<1>1. InRun(n) /\ raw \in Seq(RecordCell) /\ run \in Seq(RecordCell) /\ Len(raw) \in Nat
      /\ next \in 1..(Len(raw) + 1)
  BY WhileMerging
<1>2. Len(run) \in Nat \ {0}
  BY <1>1
<1>3. /\ f \in 1..n /\ n \in 1..Len(raw)
      /\ \A i \in 1..Len(run) : run[i] = raw[f + i - 1]
      /\ ~raw[f].isDir
      /\ \A j \in f..n : raw[j].multi /\ raw[j].id = raw[f].id
      /\ DirectoriesApart(raw) => \A j \in f..n : ~raw[j].isDir
      /\ f = 1 \/ ~GoesOn(raw[f - 1])
      /\ total = Total(run)
  BY <1>1, <1>2 DEF InRun
<1>4. run[1] = raw[f]
  <2>1. 1 \in 1..Len(run) /\ f \in Int
    BY <1>2
  <2> HIDE DEF f
  <2>2. run[1] = raw[f + 1 - 1]
    BY <1>3, <2>1
  <2>3. f + 1 - 1 = f
    BY <2>1
  <2> QED BY <2>2, <2>3
<1>5. DirectoriesApart(raw) => \A j \in f..n : GoesOn(raw[j])
  <2> HIDE DEF f
  <2> QED BY <1>3 DEF GoesOn
<1>6. ASSUME next <= Len(raw)
      PROVE  /\ s \in Seq(RecordCell) /\ This \in RecordCell /\ This = raw[n + 1]
             /\ Len(s) = n + 1 - f + 1 /\ s = SubSeq(raw, f, n + 1)
             /\ \A i \in 1..Len(s) : s[i] = raw[f + i - 1]
  <2>1. This = raw[n + 1] /\ n + 1 \in 1..Len(raw) /\ This \in RecordCell
    BY <1>1, <1>6 DEF This
  <2>2. /\ s \in Seq(RecordCell) /\ Len(s) = Len(run) + 1 /\ s[Len(run) + 1] = This
        /\ \A i \in 1..Len(run) : s[i] = run[i]
    BY <1>1, <2>1
  <2>3. Len(s) = n + 1 - f + 1
    BY <1>2, <2>2
  <2>4. ASSUME NEW i \in 1..Len(s)
        PROVE  s[i] = raw[f + i - 1]
    <3>1. CASE i = Len(run) + 1
      <4>1. f + i - 1 = n + 1
        BY <1>2, <3>1
      <4> QED BY <2>1, <2>2, <3>1, <4>1
    <3>2. CASE i \in 1..Len(run)
      BY <1>3, <2>2, <3>2
    <3> QED BY <1>2, <2>2, <3>1, <3>2
  <2> HIDE DEF s, f
  <2>5. /\ SubSeq(raw, f, n + 1) \in Seq(RecordCell)
        /\ Len(SubSeq(raw, f, n + 1)) = n + 1 - f + 1
        /\ \A i \in 1..(n + 1 - f + 1) : SubSeq(raw, f, n + 1)[i] = raw[f + i - 1]
    <3>1. raw \in Seq(RecordCell) /\ f \in 1..n /\ n + 1 \in 1..Len(raw)
      BY <1>1, <1>3, <2>1
    <3> QED BY <3>1
  <2>6. s = SubSeq(raw, f, n + 1)
    BY <2>2, <2>3, <2>4, <2>5, SameElements
  <2> QED BY <2>1, <2>2, <2>3, <2>4, <2>6
<1>7. RunFrom(n, f)
  BY <1>3, <1>4, <1>5 DEF RunFrom
<1>8. next <= Len(raw) => Extended(n, f, s)
  BY <1>6 DEF Extended
<1> HIDE DEF f, s
<1>9. f \in 1..n
  BY <1>3
<1> QED BY <1>7, <1>8, <1>9 DEF s

LEMMA ExtendRunInv ==
  ASSUME IInv, ExtendRun
  PROVE  IInv'
<1> PICK n \in Nat : n = next - 1
  BY WhileMerging DEF ExtendRun
<1> PICK s : s = Append(run, This)
  OBVIOUS
<1>1. /\ Merging /\ run # << >> /\ next <= Len(raw) /\ This.id = run[1].id /\ next' = next + 1
      /\ total' = total + This.size
      /\ \/ This.multi /\ run' = s /\ UNCHANGED <<pc, out, err>>
         \/ ~This.multi /\ Exceeds(total') /\ pc' = "failed" /\ err' = "corrupt" /\ UNCHANGED <<run, out>>
         \/ ~This.multi /\ ~Exceeds(total') /\ out' = Append(out, Merged(s, total')) /\ run' = << >>
            /\ UNCHANGED <<pc, err>>
      /\ pc = "merge"
  BY DEF ExtendRun, Continues, Merging, Fail
<1>2. /\ TypeInv /\ (DirectoriesApart(raw) => ReturnedTo(n)) /\ raw \in Seq(RecordCell) /\ raw = Recorded
      /\ Len(raw) \in Nat /\ UNCHANGED <<dir, pos, raw>> /\ next \in 1..(Len(raw) + 1)
      /\ Word \in Nat \ {0} /\ Recorded' = Recorded /\ run \in Seq(RecordCell)
  BY <1>1, WhileMerging
<1>3. PICK f \in 1..n : RunFrom(n, f) /\ Extended(n, f, s)
  BY <1>1, InTheRun
<1>4. n + 1 \in 1..Len(raw) /\ f \in 1..(n + 1) /\ n \in f..n /\ Len(s) \in Nat /\ Len(s) >= 2
      /\ n + 1 = next /\ next' - 1 = n + 1
  <2>1. n \in 1..Len(raw) /\ Len(s) = n + 1 - f + 1
    BY <1>3 DEF RunFrom, Extended
  <2> QED BY <1>1, <1>2, <2>1
<1>5. /\ raw[n + 1].id = raw[f].id /\ raw[n].id = raw[f].id /\ This = raw[n + 1]
      /\ \A j \in f..n : raw[j].multi /\ raw[j].id = raw[f].id
      /\ DirectoriesApart(raw) => \A j \in f..n : ~raw[j].isDir /\ GoesOn(raw[j])
      /\ ~raw[f].isDir /\ (f = 1 \/ ~GoesOn(raw[f - 1]))
  BY <1>1, <1>3, <1>4 DEF RunFrom, Extended
<1>6. /\ s \in Seq(RecordCell) /\ This \in RecordCell /\ Len(s) = n + 1 - f + 1
       /\ s = SubSeq(raw, f, n + 1)
       /\ \A i \in 1..Len(s) : s[i] = raw[f + i - 1]
  BY <1>3 DEF Extended
<1>7. GoesOnAlike(n)
  BY <1>5 DEF GoesOnAlike
<1>11. ASSUME DirectoriesApart(raw)
       PROVE  ~raw[n + 1].isDir
  <2>1. GoesOn(raw[n]) /\ n \in 1..(Len(raw) - 1)
    BY <1>2, <1>4, <1>5, <1>11
  <2>2. raw[n + 1].id = raw[n].id
    BY <1>5
  <2> QED BY <1>11, <2>1, <2>2 DEF DirectoriesApart
<1>12. total' = Total(s) /\ total' \in Nat
  <2>1. total = Total(run)
    BY <1>3 DEF RunFrom
  <2>2. Total(s) \in Nat
    BY <1>6, TotalOf
  <2> QED BY <1>1, <1>2, <1>6, <2>1, <2>2, TotalGrows
<1>8. CASE This.multi
  <2>1. run' = s /\ UNCHANGED <<pc, out, err>>
    BY <1>1, <1>8
  <2>2. ASSUME NEW j \in f..(n + 1)
        PROVE  raw[j].multi /\ raw[j].id = raw[f].id
    <3>1. j \in f..n \/ j = n + 1
      BY <1>4
    <3> QED BY <1>5, <1>8, <3>1
  <2>3. DirectoriesApart(raw) => GoesOn(raw[n + 1])
    BY <1>5, <1>8, <1>11 DEF GoesOn
  <2>4. DirectoriesApart(raw) => (ReturnedTo(n + 1))'
    BY <1>2, <1>4, <1>7, <2>1, <2>3, ReturnsNone DEF LastRecords
  <2>5. (InRun(n + 1))'
    <3>1. Len(run') = n + 1 - f + 1 /\ Len(run') \in Int /\ n + 1 - Len(run') + 1 = f
      <4>1. Len(run') = n + 1 - f + 1 /\ f \in Int /\ n \in Int
        BY <1>6, <2>1
      <4>2. n + 1 - f + 1 \in Int /\ n + 1 - (n + 1 - f + 1) + 1 = f
        BY <4>1
      <4> QED BY <4>1, <4>2
    <3>2. \A i \in 1..Len(run') : run'[i] = raw'[f + i - 1]
      BY <1>2, <1>6, <2>1
    <3>3. f \in 1..(n + 1) /\ raw' = raw
      BY <1>2, <1>4
    <3>4. \A j \in f..(n + 1) : raw'[j].multi /\ raw'[j].id = raw'[f].id
      BY <2>2, <3>3
    <3>5. ~raw'[f].isDir /\ (f = 1 \/ ~GoesOn(raw'[f - 1]))
      BY <1>5, <3>3
    <3>8. DirectoriesApart(raw') => \A j \in f..(n + 1) : ~raw'[j].isDir
      <4>1. \A j \in f..(n + 1) : j \in f..n \/ j = n + 1
        BY <1>4
      <4> QED BY <1>5, <1>11, <3>3, <4>1
    <3>9. total' = Total(run')
      BY <1>12, <2>1
    <3> DEFINE g == (n + 1) - Len(run') + 1
    <3>6. g = f
      BY <3>1
    <3> HIDE DEF g
    <3>7. /\ g \in 1..(n + 1)
          /\ \A i \in 1..Len(run') : run'[i] = raw'[g + i - 1]
          /\ ~raw'[g].isDir
          /\ \A j \in g..(n + 1) : raw'[j].multi /\ raw'[j].id = raw'[g].id
          /\ DirectoriesApart(raw') => \A j \in g..(n + 1) : ~raw'[j].isDir
          /\ g = 1 \/ ~GoesOn(raw'[g - 1])
          /\ total' = Total(run')
      BY <3>2, <3>3, <3>4, <3>5, <3>6, <3>8, <3>9
    <3> QED BY <3>7, Zenon DEF g, InRun
  <2>6. (DirectoriesApart(raw) => (ReturnedTo(next - 1))') /\ (InRun(next - 1))'
    BY <1>4, <2>4, <2>5 DEF ReturnedTo, InRun
  <2>7. (\E S : out' \in Seq(S)) /\ \A i \in 1..Len(out') : out'[i].size \in 0..(Word - 1)
    BY <1>2, <2>1 DEF TypeInv
  <2>8. run' \in Seq(RecordCell) /\ run' # << >>
    <3>1. run' \in Seq(RecordCell) /\ Len(run') >= 2
      BY <1>4, <1>6, <2>1
    <3> QED BY <3>1
  <2>9. next' \in 1..(Len(raw) + 1) /\ pc' = "merge" /\ err' = err
    BY <1>1, <1>2, <2>1
  <2> QED BY <1>1, <1>12, <2>6, <2>7, <2>8, <2>9, MergeGoesOn
<1>9. CASE ~This.multi
  <2>1. ~GoesOn(raw[n + 1])
    BY <1>5, <1>9 DEF GoesOn
  <2>2. n + 1 \in LastRecords(raw)
    BY <1>4, <2>1 DEF LastRecords
  <2>3. DirectoriesApart(raw) => FileEndingAt(raw, n + 1) = s
    <3> SUFFICES ASSUME DirectoriesApart(raw) PROVE FileEndingAt(raw, n + 1) = s
      OBVIOUS
    <3>1. \A j \in f..(n + 1 - 1) : GoesOn(raw[j])
      BY <1>5
    <3> QED BY <1>2, <1>4, <1>5, <1>6, <3>1, FileFrom
  <2>4. Total(s) \in Nat
    BY <1>6, TotalOf
  <2>5. CASE Exceeds(total')
    <3>1. pc' = "failed" /\ err' = "corrupt" /\ UNCHANGED <<run, out>>
      BY <1>1, <1>9, <2>5
    <3>2. ~(Total(s) < Word)
      BY <1>2, <1>12, <2>4, <2>5 DEF Exceeds
    <3>3. ~Sound(raw)
      <4>1. CASE DirectoriesApart(raw)
        BY <2>2, <2>3, <3>2, <4>1 DEF Sound
      <4>2. CASE ~DirectoriesApart(raw)
        BY <1>2, <4>2, ApartIfSound
      <4> QED BY <4>1, <4>2
    <3>4. ~Sound(Recorded')
      BY <1>2, <3>3
    <3>5. Blamed'
      BY <3>4 DEF Blamed
    <3>6. TypeInv'
      <4>1. (SectorStart(dir.size))' = SectorStart(dir.size)
        BY <1>2 DEF SectorStart
      <4>2. next' \in 1..(Len(raw') + 1)
        BY <1>1, <1>2
      <4> QED BY <1>2, <1>12, <3>1, <4>1, <4>2 DEF TypeInv
    <3> QED BY <3>1, <3>5, <3>6 DEF IInv, Phases, ParseInv, MergeInv
  <2>6. CASE ~Exceeds(total')
    <3>1. out' = Append(out, Merged(s, total')) /\ run' = << >> /\ UNCHANGED <<pc, err>>
      BY <1>1, <1>9, <2>6
    <3>2. Total(s) < Word
      BY <1>2, <1>12, <2>4, <2>6 DEF Exceeds
    <3>3. Merged(s, total').size = Total(s)
      <4>1. Total(s) % Word = Total(s)
        BY <1>2, <2>4, <3>2, Remainder
      <4> QED BY <1>12, <4>1 DEF Merged
    <3>9. DirectoriesApart(raw) => Tells(Merged(s, total'), s)
      <4> SUFFICES ASSUME DirectoriesApart(raw) PROVE Tells(Merged(s, total'), s)
        OBVIOUS
      <4> DEFINE e == Merged(s, total')
      <4>1. /\ e.id = s[1].id /\ e.isDir = s[Len(s)].isDir /\ e.multi = FALSE /\ e.lba = s[1].lba
            /\ e.extents = [k \in 1..Len(s) |-> [lba |-> s[k].lba, size |-> s[k].size]]
        BY DEF Merged, ExtentOf
      <4>2. e.size = Total(s)
        BY <3>3
      <4> HIDE DEF e
      <4>3. ASSUME NEW i \in 1..Len(s)
            PROVE  s[i].id = raw[f].id /\ ~s[i].isDir
        <5>1. s[i] = raw[f + i - 1] /\ f + i - 1 \in f..(n + 1)
          <6>1. s[i] = raw[f + i - 1]
            BY <1>6
          <6>2. Len(s) = n + 1 - f + 1 /\ f \in Int /\ n \in Int /\ i \in 1..Len(s)
            BY <1>6
          <6>3. f + i - 1 \in f..(n + 1)
            BY <6>2
          <6> QED BY <6>1, <6>3
        <5>2. f + i - 1 \in f..n \/ f + i - 1 = n + 1
          BY <1>4, <5>1
        <5> QED BY <1>5, <1>11, <5>1, <5>2
      <4>4. 1 \in 1..Len(s) /\ Len(s) \in 1..Len(s) /\ Len(s) # 1
        BY <1>4
      <4>5. \A i \in 1..Len(s) : s[i].isDir = FALSE
        <5> SUFFICES ASSUME NEW i \in 1..Len(s) PROVE s[i].isDir = FALSE
          OBVIOUS
        <5>1. s[i] \in RecordCell
          BY <1>6
        <5> QED BY <4>3, <5>1, CellFields
      <4>6. \A i \in 1..Len(s) : e.id = s[i].id /\ e.isDir = s[i].isDir
        BY <4>1, <4>3, <4>4, <4>5
      <4>7. /\ e.multi => e.isDir
            /\ e.lba = s[1].lba
            /\ e.extents = IF Len(s) = 1 THEN << >>
                           ELSE [i \in 1..Len(s) |-> [lba |-> s[i].lba, size |-> s[i].size]]
        BY <4>1, <4>4
      <4>8. Tells(e, s)
        BY <4>2, <4>6, <4>7, Zenon DEF Tells
      <4> QED BY <4>8, Zenon DEF e
    <3>4. DirectoriesApart(raw) => (ReturnedTo(n + 1))'
      BY <1>2, <1>7, <2>2, <2>3, <3>1, <3>2, <3>9, ReturnsOne
    <3>5. DirectoriesApart(raw) => (ReturnedTo(next - 1))'
      BY <1>4, <3>4 DEF ReturnedTo
    <3>6. (BetweenRuns(next - 1))'
      BY <1>2, <1>4, <2>1 DEF BetweenRuns
    <3>7. (\E S : out' \in Seq(S)) /\ \A i \in 1..Len(out') : out'[i].size \in 0..(Word - 1)
      <4> DEFINE e == Merged(s, total')
      <4>1. PICK S : out \in Seq(S)
        BY <1>2 DEF TypeInv
      <4>2. e.size \in 0..(Word - 1)
        BY <1>2, <2>4, <3>2, <3>3
      <4> HIDE DEF e
      <4>3. /\ out' \in Seq(S \cup {e}) /\ Len(out') = Len(out) + 1 /\ Len(out) \in Nat
            /\ out'[Len(out) + 1] = e /\ \A i \in 1..Len(out) : out'[i] = out[i]
        BY <3>1, <4>1, AppendedEntry DEF e
      <4>4. \A i \in 1..Len(out') : i \in 1..Len(out) \/ i = Len(out) + 1
        BY <4>3
      <4> QED BY <1>2, <4>2, <4>3, <4>4 DEF TypeInv
    <3>8. next' \in 1..(Len(raw) + 1) /\ run' \in Seq(RecordCell) /\ pc' = "merge" /\ err' = err
      BY <1>1, <1>2, <3>1
    <3> QED BY <1>1, <1>12, <3>1, <3>5, <3>6, <3>7, <3>8, MergeGoesOn
  <2> QED BY <2>5, <2>6
<1>10. This.multi \in BOOLEAN
  BY <1>6, CellFields
<1> QED BY <1>8, <1>9

(* A run that cannot go on is a file without its final extent.             *)
LEMMA NoFinalExtentInv ==
  ASSUME IInv, NoFinalExtent
  PROVE  IInv'
<1> PICK n \in Nat : n = next - 1
  BY WhileMerging DEF NoFinalExtent
<1>1. /\ Merging /\ run # << >> /\ UNCHANGED <<next, run, total, out>>
      /\ pc' = "failed" /\ err' = "corrupt"
      /\ next <= Len(raw) => This.id # run[1].id
  BY DEF NoFinalExtent, Continues, Fail
<1>2. /\ TypeInv /\ raw = Recorded /\ Recorded' = Recorded /\ UNCHANGED <<dir, pos, raw>>
      /\ next \in 1..(Len(raw) + 1) /\ Len(raw) \in Nat /\ raw \in Seq(RecordCell)
  BY <1>1, WhileMerging
<1>3. PICK f \in 1..n : RunFrom(n, f)
  BY <1>1, InTheRun
<1>4. /\ n \in 1..Len(raw) /\ run[1] = raw[f] /\ n \in f..n
      /\ raw[n].id = raw[f].id /\ (DirectoriesApart(raw) => GoesOn(raw[n]))
  <2>1. n \in f..n
    OBVIOUS
  <2>2. /\ n \in 1..Len(raw) /\ run[1] = raw[f]
        /\ \A j \in f..n : raw[j].id = raw[f].id
        /\ DirectoriesApart(raw) => \A j \in f..n : GoesOn(raw[j])
    BY <1>3 DEF RunFrom
  <2> QED BY <2>1, <2>2
<1>5. ~(n < Len(raw) /\ raw[n + 1].id = raw[n].id)
  <2>1. CASE next <= Len(raw)
    <3>1. This = raw[n + 1]
      <4>1. n + 1 = next
        BY <1>2
      <4> QED BY <4>1 DEF This
    <3> QED BY <1>1, <1>4, <2>1, <3>1
  <2>2. CASE ~(next <= Len(raw))
    BY <1>2, <2>2
  <2> QED BY <2>1, <2>2
<1>6. ~Sound(raw)
  <2>1. CASE DirectoriesApart(raw)
    BY <1>4, <1>5, <2>1 DEF Sound
  <2>2. CASE ~DirectoriesApart(raw)
    BY <1>2, <2>2, ApartIfSound
  <2> QED BY <2>1, <2>2
<1>7. Blamed'
  <2>1. ~Sound(Recorded')
    BY <1>2, <1>6
  <2> QED BY <2>1 DEF Blamed
<1>8. TypeInv'
  <2>1. (SectorStart(dir.size))' = SectorStart(dir.size)
    BY <1>2 DEF SectorStart
  <2> QED BY <1>1, <1>2, <2>1 DEF TypeInv
<1> QED BY <1>1, <1>7, <1>8 DEF IInv, Phases, ParseInv, MergeInv

LEMMA MergedAllInv ==
  ASSUME IInv, MergedAll
  PROVE  IInv'
<1>1. /\ Merging /\ run = << >> /\ next > Len(raw) /\ pc' = "done" /\ UNCHANGED <<next, run, total, out, err>>
  BY DEF MergedAll
<1>2. /\ TypeInv /\ (DirectoriesApart(raw) => ReturnedTo(next - 1)) /\ BetweenRuns(next - 1) /\ UNCHANGED raw
      /\ next \in 1..(Len(raw) + 1) /\ run \in Seq(RecordCell)
  BY <1>1, WhileMerging
<1>3. (DirectoriesApart(raw) => (ReturnedTo(next - 1))') /\ (BetweenRuns(next - 1))'
  BY <1>1, <1>2 DEF ReturnedTo, BetweenRuns
<1>4. (\E S : out' \in Seq(S)) /\ \A i \in 1..Len(out') : out'[i].size \in 0..(Word - 1)
  BY <1>1, <1>2 DEF TypeInv
<1>5. total' \in Nat
  BY <1>1, <1>2 DEF TypeInv
<1> QED BY <1>1, <1>2, <1>3, <1>4, <1>5, MergeGoesOn

---------------------------------------------------------------------------
(* readDirRecords again: its steps keep the whole invariant. *)

LEMMA OpenDirectoryInv ==
  ASSUME IInv, OpenDirectory
  PROVE  IInv'
<1>1. /\ UNCHANGED <<dir, pos, raw, next, run, total, out>> /\ pc = "start" /\ TypeInv /\ Phases
      /\ next = 1 /\ run = << >> /\ out = << >> /\ err = "nil"
  BY DEF OpenDirectory, IInv, Phases, TypeInv
<1>2. \/ pc' = "parse" /\ err' = "nil" /\ ~TooLarge /\ ~OutOfBounds
      \/ pc' = "failed" /\ err' \in {"notDirectory", "readError"}
      \/ pc' = "failed" /\ err' = "corrupt" /\ (TooLarge \/ OutOfBounds)
  BY <1>1 DEF OpenDirectory, Fail
<1>3. (SectorStart(dir.size))' = SectorStart(dir.size) /\ TooLarge' = TooLarge /\ OutOfBounds' = OutOfBounds
  BY <1>1 DEF SectorStart, TooLarge, OutOfBounds
<1>4. TypeInv'
  BY <1>1, <1>2, <1>3 DEF TypeInv
<1>5. Phases' /\ MergeInv' /\ Blamed'
  BY <1>1, <1>2, <1>3 DEF Phases, MergeInv, Blamed
<1>6. ParseInv'
  BY OpenStart DEF ParseInv
<1> QED BY <1>4, <1>5, <1>6 DEF IInv

LEMMA SkipPaddingInv ==
  ASSUME IInv, SkipPadding
  PROVE  IInv'
<1>1. /\ UNCHANGED <<dir, pc, raw, next, run, total, out, err>> /\ pc = "parse" /\ TypeInv /\ Phases
  BY DEF SkipPadding, Parsing, IInv
<1>2. (AtBoundary /\ ParsedSoFar)'
  BY SkipParses
<1>3. TypeInv'
  BY <1>1, <1>2 DEF TypeInv, AtBoundary
<1>4. Phases' /\ MergeInv' /\ Blamed'
  BY <1>1 DEF Phases, MergeInv, Blamed, TooLarge, OutOfBounds
<1> QED BY <1>2, <1>3, <1>4 DEF IInv, ParseInv

LEMMA ParseRecordInv ==
  ASSUME IInv, ParseRecord
  PROVE  IInv'
<1>1. /\ UNCHANGED <<dir, next, run, total, out>> /\ pc = "parse" /\ pos < dir.size /\ Cell # ZeroCell
      /\ TypeInv /\ Phases /\ AtBoundary /\ ParsedSoFar /\ next = 1 /\ run = << >> /\ out = << >>
      /\ err = "nil"
  BY DEF ParseRecord, Parsing, IInv, ParseInv, Phases
<1>2. (SectorStart(dir.size))' = SectorStart(dir.size) /\ RecordedAt' = RecordedAt
  BY <1>1 DEF SectorStart, RecordedAt
<1>3. CASE Malformed(Cell, dir.size - pos)
  <2>1. pc' = "failed" /\ err' = "corrupt" /\ UNCHANGED <<pos, raw>>
    BY <1>3 DEF ParseRecord, Fail
  <2>2. Refused'
    <3>1. pos \in RecordedAt /\ Cell = dir.cells[pos + 1]
      BY <1>1, AtRecord DEF Cell
    <3>2. \E p \in RecordedAt : Malformed(dir.cells[p + 1], dir.size - p)
      BY <1>3, <3>1
    <3> QED BY <1>1, <1>2, <3>2 DEF Refused, Malformed
  <2>3. TypeInv'
    BY <1>1, <1>2, <2>1 DEF TypeInv
  <2>4. Phases' /\ ParseInv' /\ MergeInv' /\ Blamed'
    BY <2>1, <2>2 DEF Phases, ParseInv, MergeInv, Blamed
  <2> QED BY <2>3, <2>4 DEF IInv
<1>4. CASE ~Malformed(Cell, dir.size - pos)
  <2>1. UNCHANGED <<pc, err>>
    BY <1>4 DEF ParseRecord
  <2>2. (AtBoundary /\ ParsedSoFar)' /\ raw' \in Seq(RecordCell)
        /\ pos' \in 0..(SectorStart(dir.size) + BlockSize)
    BY <1>1, <2>1, RecordParses
  <2>3. next' \in 1..(Len(raw') + 1)
    BY <1>1, <2>2
  <2>4. TypeInv'
    BY <1>1, <1>2, <2>1, <2>2, <2>3 DEF TypeInv
  <2>5. Phases' /\ MergeInv' /\ Blamed'
    BY <1>1, <2>1 DEF Phases, MergeInv, Blamed, TooLarge, OutOfBounds
  <2> QED BY <2>2, <2>4, <2>5 DEF IInv, ParseInv
<1> QED BY <1>3, <1>4

LEMMA ParsedAllInv ==
  ASSUME IInv, ParsedAll
  PROVE  IInv'
<1>1. /\ UNCHANGED <<dir, pos, raw, next, run, total, out, err>> /\ pc = "parse" /\ pc' = "merge"
      /\ pos >= dir.size /\ TypeInv /\ Phases /\ ParsedSoFar /\ next = 1 /\ run = << >>
      /\ out = << >> /\ err = "nil"
  BY DEF ParsedAll, IInv, ParseInv, Phases
<1>2. raw = Recorded /\ ~Refused
  BY <1>1, ParsedIsRecorded
<1>3. RecordedAt' = RecordedAt /\ (SectorStart(dir.size))' = SectorStart(dir.size)
  BY <1>1 DEF RecordedAt, SectorStart
<1>4. (raw = Recorded /\ ~Refused)'
  BY <1>1, <1>2, <1>3 DEF Recorded, Refused, Malformed
<1>5. (ReturnedTo(next - 1))' /\ (BetweenRuns(next - 1))'
  <2>1. next' - 1 = 0 /\ out' = << >>
    BY <1>1
  <2>2. {i \in LastRecords(raw) : i <= 0} = {} /\ \A k \in LastRecords(raw) : ~(k <= 0)
    BY DEF LastRecords
  <2>3. Cardinality({i \in LastRecords(raw) : i <= 0}) = 0
    BY <2>2, FS_EmptySet
  <2> QED BY <1>1, <2>1, <2>2, <2>3 DEF ReturnedTo, BetweenRuns
<1>6. TypeInv'
  BY <1>1, <1>3 DEF TypeInv
<1>7. Phases' /\ ParseInv' /\ Blamed'
  BY <1>1 DEF Phases, ParseInv, Blamed, TooLarge, OutOfBounds
<1> QED BY <1>1, <1>4, <1>5, <1>6, <1>7 DEF IInv, MergeInv

LEMMA StutterInv ==
  ASSUME IInv, UNCHANGED vars
  PROVE  IInv'
<1>1. UNCHANGED <<dir, pc, pos, raw, next, run, total, out, err>>
  BY DEF vars
<1>2. RecordedAt' = RecordedAt /\ (SectorStart(dir.size))' = SectorStart(dir.size)
      /\ (SectorStart(pos))' = SectorStart(pos)
  BY <1>1 DEF RecordedAt, SectorStart
<1>3. Recorded' = Recorded /\ Refused' = Refused /\ \A p : (Before(p))' = Before(p)
      /\ (Before(pos))' = Before(pos)
  BY <1>1, <1>2 DEF Recorded, Refused, Malformed, Before
<1>4. TypeInv' /\ Phases'
  BY <1>1, <1>2 DEF IInv, TypeInv, Phases, TooLarge, OutOfBounds
<1>5. ParseInv'
  BY <1>1, <1>2, <1>3 DEF IInv, ParseInv, AtBoundary, ParsedSoFar, Cell, Malformed
<1>6. MergeInv'
  BY <1>1, <1>2, <1>3 DEF IInv, MergeInv, ReturnedTo, BetweenRuns, InRun
<1>7. Blamed'
  BY <1>1, <1>3 DEF IInv, Blamed, TooLarge, OutOfBounds
<1> QED BY <1>4, <1>5, <1>6, <1>7 DEF IInv

---------------------------------------------------------------------------
(* The invariant holds in every behaviour of readDirRecords. *)
LEMMA InvHolds == Spec => []IInv
<1>1. Init => IInv
  BY InitInv
<1>2. IInv /\ [Next]_vars => IInv'
  <2> SUFFICES ASSUME IInv, [Next]_vars
               PROVE  IInv'
    OBVIOUS
  <2>1. CASE OpenDirectory
    BY <2>1, OpenDirectoryInv
  <2>2. CASE SkipPadding
    BY <2>2, SkipPaddingInv
  <2>3. CASE ParseRecord
    BY <2>3, ParseRecordInv
  <2>4. CASE ParsedAll
    BY <2>4, ParsedAllInv
  <2>5. CASE PassThrough
    BY <2>5, PassThroughInv
  <2>6. CASE BeginRun
    BY <2>6, BeginRunInv
  <2>7. CASE ExtendRun
    BY <2>7, ExtendRunInv
  <2>8. CASE NoFinalExtent
    BY <2>8, NoFinalExtentInv
  <2>9. CASE MergedAll
    BY <2>9, MergedAllInv
  <2>10. CASE UNCHANGED vars
    BY <2>10, StutterInv
  <2> QED
    BY <2>1, <2>2, <2>3, <2>4, <2>5, <2>6, <2>7, <2>8, <2>9, <2>10 DEF Next
<1> QED BY <1>1, <1>2, PTL DEF Spec

---------------------------------------------------------------------------
(* Every variable of readDirRecords and mergeMultiExtent keeps a value of  *)
(* the code's type, and parsing never gets past the sector the extent ends *)
(* in (read.go:115-146).                                                   *)
THEOREM DirRecordsTyped == Spec => []TypeOK
<1>1. IInv => TypeOK
  <2> SUFFICES ASSUME IInv PROVE TypeOK
    OBVIOUS
  <2>1. TypeInv
    BY DEF IInv
  <2>2. /\ \A i \in 1..Len(raw) : raw[i] \in RecordCell
        /\ \A i \in 1..Len(run) : run[i] \in RecordCell
    BY <2>1 DEF TypeInv
  <2> QED BY <2>1, <2>2 DEF TypeInv, TypeOK
<1> QED BY <1>1, InvHolds, PTL

(* read.go:101-103: every record of a directory is parsed, once and in     *)
(* order, whatever the sector size and the padding its sectors end in.     *)
THEOREM EveryRecordIsRead == Spec => []ReadsEveryRecord
<1>1. IInv => ReadsEveryRecord
  BY DEF IInv, MergeInv, ReadsEveryRecord
<1> QED BY <1>1, InvHolds, PTL

LEMMA AllReturned ==
  ASSUME IInv, pc = "done"
  PROVE  /\ DirectoriesApart(raw) => ReturnedTo(Len(raw))
         /\ BetweenRuns(Len(raw)) /\ raw = Recorded /\ ~Refused
         /\ raw \in Seq(RecordCell) /\ Len(raw) \in Nat
         /\ \A k \in LastRecords(raw) : k <= Len(raw)
<1>1. /\ DirectoriesApart(raw) => ReturnedTo(next - 1)
      /\ BetweenRuns(next - 1) /\ raw = Recorded /\ ~Refused
      /\ raw \in Seq(RecordCell) /\ next \in 1..(Len(raw) + 1) /\ next > Len(raw)
  BY DEF IInv, MergeInv, Phases, TypeInv
<1>2. next - 1 = Len(raw) /\ Len(raw) \in Nat
  BY <1>1
<1>3. \A k \in LastRecords(raw) : k <= Len(raw)
  BY <1>2 DEF LastRecords
<1> QED BY <1>1, <1>2, <1>3

(* read.go:150-158: each file is returned once, in the order of the        *)
(* directory, with all its extents and with the size they add up to, over  *)
(* however many records it is spread, and each directory as it is, unless  *)
(* a directory has the name of a file that lacks its last record and       *)
(* stands behind it.                                                       *)
THEOREM EveryExtentIsKept == Spec => []KeepsEveryExtent
<1>1. IInv => KeepsEveryExtent
  <2> SUFFICES ASSUME IInv, pc = "done", DirectoriesApart(raw) PROVE KeepsEveryExtent
    BY DEF KeepsEveryExtent
  <2>1. ReturnedTo(Len(raw)) /\ \A k \in LastRecords(raw) : k <= Len(raw)
    BY AllReturned
  <2>2. {i \in LastRecords(raw) : i <= Len(raw)} = LastRecords(raw)
    BY <2>1
  <2>3. Len(out) = Cardinality(LastRecords(raw))
    BY <2>1, <2>2 DEF ReturnedTo
  <2> QED BY <2>1, <2>3 DEF ReturnedTo, KeepsEveryExtent
<1> QED BY <1>1, InvHolds, PTL

(* The checks of the code on an extent and on a record are those the       *)
(* limits and the format call for.                                         *)
LEMMA ChecksAreRight ==
  ASSUME TypeInv
  PROVE  /\ Permitted(dir) <=> ~TooLarge /\ ~OutOfBounds
         /\ Malformation <=> Refused
<1>1. /\ dir.lba \in Nat /\ dir.size \in Nat /\ dir.maxAlloc \in Nat
      /\ BlockSize \in Nat /\ MaxDirExtent \in Nat /\ MaxUnknownAlloc \in Nat
  BY DirRecordsAssumption DEF TypeInv, Directory
<1>2. Permitted(dir) <=> ~TooLarge /\ ~OutOfBounds
  <2> DEFINE start == dir.lba * BlockSize
  <2>1. start \in Nat
    BY <1>1, Multiples
  <2>2. start + dir.size <= dir.maxAlloc <=> ~(start > dir.maxAlloc - dir.size)
    <3> HIDE DEF start
    <3> QED BY <1>1, <2>1
  <2>3. dir.size <= MaxDirExtent /\ dir.size <= dir.maxAlloc
          <=> ~(dir.size > MaxDirExtent \/ dir.size > dir.maxAlloc)
    BY <1>1
  <2> QED BY <2>2, <2>3, Zenon DEF Permitted, TooLarge, OutOfBounds
<1>3. ASSUME NEW p \in RecordedAt
      PROVE  p + dir.cells[p + 1].len > dir.size <=> dir.cells[p + 1].len > dir.size - p
  <2>1. p \in Nat /\ dir.cells[p + 1] \in RecordCell
    <3>1. p \in 0..(Len(dir.cells) - 1) /\ IsRecord(dir.cells[p + 1])
      BY DEF RecordedAt
    <3>2. dir.cells \in Seq(AnyCell) /\ Len(dir.cells) \in Nat
      BY Cells DEF TypeInv
    <3>3. p + 1 \in 1..Len(dir.cells)
      BY <3>1, <3>2
    <3>4. dir.cells[p + 1] \in AnyCell
      BY <3>2, <3>3
    <3> QED BY <3>1, <3>2, <3>4 DEF AnyCell, IsRecord
  <2>2. dir.cells[p + 1].len \in Nat
    BY <2>1, CellFields
  <2> HIDE DEF RecordedAt
  <2> QED BY <1>1, <2>1, <2>2
<1>4. Malformation <=> Refused
  BY <1>3, Zenon DEF Malformation, Refused, Malformed
<1> QED BY <1>2, <1>4

(* A directory is refused as corrupt exactly when it is damaged: what is   *)
(* returned comes from an extent within the limits, from well-formed       *)
(* records and from sound files only, and what is refused as corrupt lacks *)
(* one of the three (read.go:103-146, 166-199).                            *)
THEOREM OnlyDamageIsRefused == Spec => []RefusesExactlyDamage
<1>1. IInv => RefusesExactlyDamage
  <2> SUFFICES ASSUME IInv PROVE RefusesExactlyDamage
    OBVIOUS
  <2>1. ASSUME pc = "done", DirectoriesApart(Recorded)
        PROVE  Sound(Recorded)
    <3>1. /\ ReturnedTo(Len(raw)) /\ BetweenRuns(Len(raw)) /\ raw = Recorded
          /\ Len(raw) \in Nat /\ \A k \in LastRecords(raw) : k <= Len(raw)
          /\ DirectoriesApart(raw)
      BY <2>1, AllReturned
    <3>2. ASSUME NEW k \in 1..Len(raw), GoesOn(raw[k])
          PROVE  k < Len(raw) /\ ~raw[k + 1].isDir /\ raw[k + 1].id = raw[k].id
      <4>1. k # Len(raw)
        BY <3>1, <3>2 DEF BetweenRuns
      <4>2. k < Len(raw) /\ k \in 1..(Len(raw) - 1)
        BY <3>1, <4>1
      <4>3. raw[k + 1].id = raw[k].id
        BY <3>1, <3>2, <4>2 DEF ReturnedTo
      <4>4. ~raw[k + 1].isDir
        BY <3>1, <3>2, <4>2, <4>3 DEF DirectoriesApart
      <4> QED BY <4>2, <4>3, <4>4
    <3>3. \A k \in LastRecords(raw) : Total(FileEndingAt(raw, k)) < Word
      BY <3>1 DEF ReturnedTo
    <3> QED BY <3>1, <3>2, <3>3 DEF Sound
  <2>2. pc = "done" => ~TooLarge /\ ~OutOfBounds /\ ~Refused
    BY AllReturned DEF IInv, Phases
  <2>3. err = "corrupt" => TooLarge \/ OutOfBounds \/ Refused \/ ~Sound(Recorded)
    BY DEF IInv, Blamed
  <2>4. /\ Permitted(dir) <=> ~TooLarge /\ ~OutOfBounds
        /\ Malformation <=> Refused
    BY ChecksAreRight DEF IInv
  <2> QED BY <2>1, <2>2, <2>3, <2>4, Zenon DEF RefusesExactlyDamage
<1> QED BY <1>1, InvHolds, PTL
=============================================================================
