---------------------------- MODULE MCReadFile -----------------------------
(***************************************************************************)
(* A 14-byte image of 4-byte blocks; the ceiling for an unknown size is 12 *)
(* bytes and growth starts at one byte, so an 8-byte read doubles thrice.  *)
(***************************************************************************)
EXTENDS ReadFile

Plain(lba, size) == [isDir |-> FALSE, lba |-> lba, size |-> size, extents |-> << >>]
Multi(size, exts) == [isDir |-> FALSE, lba |-> 0, size |-> size, extents |-> exts]
E(lba, size) == [lba |-> lba, size |-> size]

MCRecords ==
  { Plain(1, 10),                                      \* up to the last byte of the image
    Plain(3, 4),                                       \* past the end of the image
    Plain(0, 13),                                      \* more than the unknown-size ceiling
    Plain(0, 15),                                      \* more than a slice can hold
    Plain(9, 0),                                       \* an empty file anywhere
    [Plain(0, 4) EXCEPT !.isDir = TRUE],
    Multi(9, <<E(2, 6), E(0, 0), E(0, 3)>>),           \* out of order, one empty
    Multi(7, <<E(1, 2), E(2, 3)>>),                    \* two bytes short of Size
    Multi(3, <<E(1, 2), E(2, 2)>>),                    \* overruns Size
    Multi(8, <<E(0, 1), E(0, 2), E(2, 5)>>) }

\* Unknown, too small, one byte short, true, and larger than the image is.
MCDeclared == {-1, 4, 13, 14, 16}

\* A known size equal to the ceiling for an unknown one.
MCSentinelDeclared == {12}
=============================================================================
