----------------------------- MODULE MCListing -----------------------------
(***************************************************************************)
(* Every image of up to four sectors of descriptors, scanned with a bound  *)
(* of three, with directories that say no more than whether Rock Ridge is  *)
(* there; and images whose directories have entries to list, in all three  *)
(* kinds of trees.                                                         *)
(***************************************************************************)
EXTENDS Listing

---------------------------------------------------------------------------
(* Entries. *)

BytesOf(name) == [i \in 1..Len(name) |-> Byte[name[i]]]

Sp(skip) == [sig |-> SP, data |-> <<190, 239, skip>>]
Nm(name) == [sig |-> NM, bytes |-> BytesOf(name)]
Px(mode) == [sig |-> PX, mode |-> mode]
Tf == [sig |-> <<84, 70>>, data |-> <<0>>]
Ce(block, offset, length) == [sig |-> CE, block |-> block, offset |-> offset, length |-> length]
Part(flags, name) == [flags |-> flags, bytes |-> BytesOf(name)]
Sl(comps) == [sig |-> SL, comps |-> comps]

---------------------------------------------------------------------------
(* Blocks of 64 bytes with the continuation areas, one to a block or two.  *)

Block(entries) ==
  LET bytes == Bytewise(entries) IN bytes \o [i \in 1..(64 - Len(bytes)) |-> 0]

Size(entries) == Len(Bytewise(entries))

RestOfName == <<Nm(<<"b", "o">>)>>
Middle == <<Nm(<<"_">>), Ce(0, 0, Size(RestOfName))>>
RestOfLink == <<Sl(<<Part(0, <<"b">>), Part(4, << >>), Part(0, <<"c">>)>>), Px(41471)>>
Loop == <<Nm(<<"o">>), Ce(2, 0, 34)>>

MCBytes == Block(RestOfName \o Middle) \o Block(RestOfLink) \o Block(Loop)

ToRest == Ce(0, 0, Size(RestOfName))
ToMiddle == Ce(0, Size(RestOfName), Size(Middle))
ToLink == Ce(1, 0, Size(RestOfLink))

---------------------------------------------------------------------------
(* Records, each with what it was mastered from. *)

\* The first of the areas is in the record.
File(id, all, name) ==
  [id |-> id, sua |-> Bytewise(all[1]), isDir |-> FALSE, lba |-> Size(all[1]),
   name |-> name, link |-> << >>, mode |-> 0, written |-> all]

A1 == <<"A", ";", "1">>
Dot(entries) == [File(Self, <<entries>>, << >>) EXCEPT !.isDir = TRUE]
DotDot == [File(Parent, << << >> >>, << >>) EXCEPT !.isDir = TRUE]
Named(name, all) == File(A1, all, name)
Spoken(flags, name) == [flags |-> flags, text |-> name]

Plain == File(<<"A", ".", ";", "1">>, << << >> >>, <<"A">>)
WholeName == [Named(<<"a", "_">>, << <<Tf, Nm(<<"a", "_">>), Px(33188)>> >>) EXCEPT !.mode = 33188]
Split == Named(<<"a", "b", "o">>, << <<Nm(<<"a">>), ToRest>>, RestOfName >>)
InAreas == Named(<<"_", "b", "o">>, << <<ToMiddle>>, Middle, RestOfName >>)
Long == Named(<<"c", "o", "_", "b", "o">>, << <<Nm(<<"c", "o">>), ToMiddle>>, Middle, RestOfName >>)
Linked ==
  [Named(<<"A">>, << <<Sl(<<Part(8, << >>), Part(1, <<"a">>)>>), ToLink>>, RestOfLink >>) EXCEPT
     !.mode = 41471,
     !.link = <<Spoken(8, << >>), Spoken(1, <<"a">>), Spoken(0, <<"b">>), Spoken(4, << >>), Spoken(0, <<"c">>)>>]
Relative ==
  [Named(<<"c">>, << <<Sl(<<Part(2, << >>), Part(0, <<"c", "o">>)>>), Nm(<<"c">>)>> >>) EXCEPT
     !.link = <<Spoken(2, << >>), Spoken(0, <<"c", "o">>)>>]

\* A chain that leads to itself, a length beyond a block, one past the image, and
\* an entry that claims more than there is.
Cyclic == Named(<<"a">>, << <<Nm(<<"a">>), Ce(2, 0, 34)>>, Loop, Loop, Loop, Loop >>)
TooLong == Named(<<"a">>, << <<Ce(0, 0, 65), Nm(<<"a">>)>> >>)
Outside == Named(<<"a">>, << <<Nm(<<"a">>), Ce(2, 60, 34)>>, << >> >>)
Overlong == [Named(<<"A">>, << << >> >>) EXCEPT !.sua = NM \o <<9, 1, 0>> \o BytesOf(<<"a">>)]

\* The area is of odd length, and a zero byte pads the record.
Padded == [Named(<<"a", "_", "b", "o">>, << <<Nm(<<"a", "_">>), ToRest>>, RestOfName >>) EXCEPT !.sua = @ \o <<0>>]

\* LEN_SKP: each area begins with two bytes of something else.
Skipped(f) == [f EXCEPT !.sua = <<7, 7>> \o @]

JolietFile == File(Wide(<<"a", "b", ";", "1">>), << << >> >>, <<"a", "b">>)

---------------------------------------------------------------------------
D(type, root, size, files) == [type |-> type, root |-> root, blockSize |-> size, files |-> files]

Bare == <<Dot(<< >>)>>
Susp == <<Dot(<<Sp(0)>>)>>
End == D("terminator", "notDir", 0, << >>)

MCDescriptors ==
  { D("primary", "dir", 4, Susp), D("primary", "dir", 0, Bare),
    D("primary", "notDir", 2, << >>), D("primary", "corrupt", 4, << >>),
    D("joliet", "dir", 4, Bare), D("joliet", "corrupt", 4, << >>), D("joliet", "notDir", 4, << >>),
    D("supplement", "dir", 4, Bare), D("other", "notDir", 0, << >>),
    End, D("foreign", "notDir", 0, << >>) }

Primary64(dot, files) == D("primary", "dir", 64, <<Dot(dot), DotDot>> \o files)
JolietTree == D("joliet", "dir", 64, <<Dot(<< >>), DotDot, JolietFile>>)

RockRidgeFiles ==
  { <<f>> : f \in {Plain, WholeName, Split, InAreas, Long, Linked, Relative,
                   Cyclic, TooLong, Outside, Overlong} }
  \cup { <<Split, Linked, Plain>>, <<Long, Cyclic, InAreas>> }

Sets(n) == [1..n -> MCDescriptors]

MCImages ==
  Sets(0) \cup Sets(1) \cup Sets(2) \cup Sets(3) \cup Sets(4)
  \cup { <<Primary64(<<Sp(0)>>, files), End>> : files \in RockRidgeFiles }
  \cup { <<Primary64(<<Sp(2)>>, <<Skipped(f), Skipped(Linked)>>), JolietTree, End>> : f \in {Long, WholeName} }
  \cup { <<Primary64(<< >>, <<Plain>>), JolietTree, End>>, <<Primary64(<< >>, <<Plain>>), End>> }

\* Records whose System Use Area is padded.
MCPaddedImages == { <<Primary64(<<Sp(0)>>, <<Padded>>), End>>, <<Primary64(<<Sp(0)>>, <<WholeName, Padded>>), End>> }
=============================================================================
