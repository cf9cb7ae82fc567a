---------------------------- MODULE MCDirRecords ----------------------------
(***************************************************************************)
(* Sectors of five bytes and records of two or three, so that a sector may *)
(* end in a record, in padding or inside a record. Two files of 7 bytes    *)
(* fit a size field of 16, three do not.                                   *)
(***************************************************************************)
EXTENDS DirRecords, SequencesExt

R(len, id, multi, size) ==
  [kind |-> "record", len |-> len, nameFits |-> TRUE, id |-> id, isDir |-> FALSE,
   multi |-> multi, lba |-> 0, size |-> size]

Items ==
  { R(2, "x", TRUE, 7), R(2, "x", FALSE, 7), R(3, "x", TRUE, 0), R(2, "y", FALSE, 1),
    [R(2, "x", FALSE, 0) EXCEPT !.isDir = TRUE], [R(2, "x", TRUE, 0) EXCEPT !.isDir = TRUE],
    [R(2, "y", FALSE, 0) EXCEPT !.nameFits = FALSE],
    R(1, "y", FALSE, 0), R(12, "y", FALSE, 0), ZeroCell }

\* The items of runs that end, break off and outgrow the size field.
RunItems ==
  { R(2, "x", TRUE, 7), R(2, "x", FALSE, 7), R(2, "y", FALSE, 1),
    [R(2, "x", TRUE, 0) EXCEPT !.isDir = TRUE], ZeroCell }

Smaller(a, b) == IF a < b THEN a ELSE b

\* An item where it lies in the extent; the data of a record is told by its place.
\* A record that claims more than any extent has room for takes up three bytes.
Put(cells, item) ==
  cells \o (IF item = ZeroCell THEN <<ZeroCell>>
            ELSE <<[item EXCEPT !.lba = Len(cells)]>> \o [k \in 1..(Smaller(item.len, 3) - 1) |-> Inside])

Cells(items) == FoldLeft(Put, << >>, items)

\* Two sectors, padded to their end.
Filled(cells, n) ==
  [p \in 1..n |-> IF p <= Len(cells) THEN cells[p] ELSE ZeroCell]

Dir(cells) ==
  [isDir |-> TRUE, lba |-> 1, size |-> Len(cells), maxAlloc |-> 100, cells |-> cells]

MCCells ==
  LET whole == {Cells(items) : items \in UNION {[1..n -> Items] : n \in 0..3} \cup [1..4 -> RunItems]}
      cut == {SubSeq(c, 1, Len(c) - 1) : c \in {w \in whole : Len(w) > 1}}
      padded == {Filled(c, 10) : c \in {w \in whole : Len(w) < 10}}
  IN {c \in whole \cup cut \cup padded : Legible(c)}

\* Extents that are no directory's, too long, past the end of the image or cut by it,
\* and one as long as a directory may be.
MCOdd ==
  LET d == Dir(Cells(<<R(2, "x", FALSE, 7)>>)) IN
  { Dir(Filled(d.cells, 25)), Dir(Filled(d.cells, 26)), [d EXCEPT !.isDir = FALSE],
    [d EXCEPT !.maxAlloc = 1], [d EXCEPT !.maxAlloc = 7], [d EXCEPT !.maxAlloc = 6],
    [d EXCEPT !.size = 60], [d EXCEPT !.size = 20],
    [d EXCEPT !.maxAlloc = 50, !.lba = 40] }

MCDirectories == {Dir(c) : c \in MCCells} \cup MCOdd
=============================================================================
