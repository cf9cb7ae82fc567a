----------------------------- MODULE MCBuilder -----------------------------
(***************************************************************************)
(* Sectors of 104 bytes: "." and ".." take 68 of them and the file B the   *)
(* 36 that are left, so a sector may end with a record or in padding, and  *)
(* a directory of two children has a second one.                           *)
(* a_b and a-b collide, and the order of a_b and B depends on what they    *)
(* are sorted by.                                                          *)
(***************************************************************************)
EXTENDS Builder

a_b == <<"a", "_", "b">>
a_minus_b == <<"a", "-", "b">>

MCFilePaths == { <<a_b>>, <<a_minus_b>>, <<<<"B">>>>, <<<<"B">>, <<".">>, a_b>> }
MCDirPaths == { <<<<"c">>>>, <<<<"B">>, <<"c">>>> }
MCContents == { [tag |-> "empty", size |-> 0], [tag |-> "long", size |-> 150] }

\* A directory and a file whose names differ in case only.
MCShadowFiles == { <<<<"C">>>> }
MCShadowDirs == { <<<<"c">>>> }

\* A file whose size rounds up past a word of 1024.
MCWideContents == { [tag |-> "wide", size |-> 1000], [tag |-> "long", size |-> 150] }
MCWideFiles == { <<a_b>>, <<<<"B">>>> }
=============================================================================
