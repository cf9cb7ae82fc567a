----------------------------- MODULE RockRidge -----------------------------
(***************************************************************************)
(* The System Use Area behind the identifier of a directory record         *)
(* (rockridge.go). It is a sequence of bytes, from which SUSP entries are  *)
(* cut by the lengths they claim: three loops of the code, that of         *)
(* ceEntry, of detectSUSPSkip and of parseRockRidge, walk it alike.        *)
(***************************************************************************)
EXTENDS Names, SequencesExt

\* A loop goes on at offset o only over an entry that lies within the area.
Whole(sua, o) == o + 4 <= Len(sua) /\ sua[o + 3] >= 4 /\ o + sua[o + 3] <= Len(sua)

\* The signatures, in ASCII.
CE == <<67, 69>>
SP == <<83, 80>>
NM == <<78, 77>>
PX == <<80, 88>>
SL == <<83, 76>>

\* The elements of s at the positions in I, in their order.
ElementsAt(s, I) ==
  LET upTo[i \in 0..Len(s)] ==
        IF i = 0 THEN << >> ELSE IF i \in I THEN Append(upTo[i - 1], s[i]) ELSE upTo[i - 1]
  IN upTo[Len(s)]

\* The payloads of the entries of a signature that such a loop comes to, if they
\* have at least n bytes.
Of(sua, sig, n) ==
  LET from[o \in 0..Len(sua)] ==
        IF ~Whole(sua, o) THEN << >>
        ELSE IF <<sua[o + 1], sua[o + 2]>> = sig /\ sua[o + 3] >= n + 4
             THEN <<SubSeq(sua, o + 5, o + sua[o + 3])>> \o from[o + sua[o + 3]]
             ELSE from[o + sua[o + 3]]
  IN from[0]

\* le16 and le32 of the bytes from offset i on.
LE16(b, i) == b[i + 1] + 256 * b[i + 2]
LE32(b, i) == LE16(b, i) + 65536 * LE16(b, i + 2)

\* Where the area goes on. A length of zero stands for "not found" too:
\* collectSUSP does not tell the two apart.
CEEntry(sua) ==
  LET found == Of(sua, CE, 24) IN
  IF found = << >> THEN [block |-> 0, offset |-> 0, length |-> 0]
  ELSE LET d == found[1]
       IN [block |-> LE32(d, 0), offset |-> LE32(d, 8), length |-> LE32(d, 16)]

\* The SP entry of the root "." record: is SUSP in use, and how much is skipped?
DetectSUSPSkip(sua) ==
  LET sps == Of(sua, SP, 3)
      found == ElementsAt(sps, {i \in DOMAIN sps : sps[i][1] = 190 /\ sps[i][2] = 239})
  IN IF found = << >> THEN [skip |-> 0, found |-> FALSE]
     ELSE [skip |-> found[1][3], found |-> TRUE]

---------------------------------------------------------------------------
(* parseRockRidge *)

\* The components of an SL entry, cut by their lengths like the entries.
Components(comps) ==
  LET from[i \in 0..Len(comps)] ==
        IF i + 2 > Len(comps) \/ i + 2 + comps[i + 2] > Len(comps) THEN << >>
        ELSE << [flags |-> comps[i + 1], text |-> Text(SubSeq(comps, i + 3, i + 2 + comps[i + 2]))] >>
             \o from[i + 2 + comps[i + 2]]
  IN from[0]

Flag(c, bit) == (c.flags \div bit) % 2 = 1
Continues(c) == Flag(c, 1)
IsCur(c) == Flag(c, 2)
IsPar(c) == ~IsCur(c) /\ Flag(c, 4)
IsRoot(c) == ~IsCur(c) /\ ~IsPar(c) /\ Flag(c, 8)

ComponentText(c) ==
  CASE IsCur(c) -> <<".">> [] IsPar(c) -> <<".", ".">> [] IsRoot(c) -> << >> [] OTHER -> c.text

StartsAtRoot(sl, c) == IsRoot(c) /\ sl.target = << >> /\ sl.comp = << >>

\* slTarget and slComp after one more component; the target is absolute only if
\* the root comes first, and no slash follows a slash.
AddComponent(sl, c) ==
  LET comp == sl.comp \o ComponentText(c)
      slash == IF sl.target # << >> /\ Last(sl.target) # "/" THEN <<"/">> ELSE << >>
  IN IF StartsAtRoot(sl, c) THEN [sl EXCEPT !.target = <<"/">>]
     ELSE IF Continues(c) THEN [sl EXCEPT !.comp = comp]
     ELSE [target |-> sl.target \o slash \o comp, comp |-> << >>]

\* Text, and what AddComponent puts around it.
Character == STRING \cup {".", "/"}

\* The target a list of components spells; one that goes on behind the last is dropped.
Target(comps) ==
  LET add == [i \in 1..Len(comps) |-> [sl \in [target : Seq(Character), comp : Seq(Character)] |->
                                          AddComponent(sl, comps[i])]]
      loop[i \in 0..Len(comps)] ==
        IF i = 0 THEN [target |-> << >>, comp |-> << >>] ELSE add[i][loop[i - 1]]
  IN loop[Len(comps)].target

\* rrInfo of a whole area.
ParseRockRidge(sua) ==
  LET names == Of(sua, NM, 1)
      modes == Of(sua, PX, 4)
      links == Of(sua, SL, 1)
      comps == FlattenSeq([i \in 1..Len(links) |-> Components(Tail(links[i]))])
  IN [hasName |-> names # << >>,
      name |-> FlattenSeq([i \in 1..Len(names) |-> Text(Tail(names[i]))]),
      hasMode |-> modes # << >>,
      mode |-> IF modes = << >> THEN 0 ELSE LE16(Last(modes), 0),
      isSymlink |-> links # << >>,
      symlink |-> Target(comps)]
=============================================================================
