----------------------------- MODULE MCIsoFile -----------------------------
(***************************************************************************)
(* A 10-byte image of 4-byte blocks: blocks 0 and 1 are whole and block 2  *)
(* is cut short, as a truncated image is.                                  *)
(***************************************************************************)
EXTENDS IsoFile

Plain(lba, size) == [isDir |-> FALSE, lba |-> lba, size |-> size, extents |-> << >>]
Multi(size, exts) == [isDir |-> FALSE, lba |-> 0, size |-> size, extents |-> exts]
E(lba, size) == [lba |-> lba, size |-> size]

MCRecords ==
  { Plain(1, 6),                                       \* up to the last byte of the image
    Plain(2, 3),                                       \* runs past the end of the image
    Plain(9, 0),                                       \* an empty file
    [Plain(0, 4) EXCEPT !.isDir = TRUE],
    Multi(5, <<E(2, 2), E(0, 0), E(0, 3)>>),           \* out of order, one empty
    Multi(5, <<E(1, 2), E(2, 1)>>),                    \* two bytes short of Size
    Multi(3, <<E(1, 2), E(2, 2)>>) }                   \* overruns Size

MCDeclared == {-1, 4, 10}
MCOffsets == {-1, 0, 3, 5}
=============================================================================
