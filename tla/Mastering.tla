----------------------------- MODULE Mastering -----------------------------
(***************************************************************************)
(* What a mastering tool writes into System Use Areas: SUSP and RRIP       *)
(* entries, and what they say. Nothing of this is in the code. The reader  *)
(* in RockRidge, which sees only bytes, is measured by it.                 *)
(***************************************************************************)
EXTENDS RockRidge

Octet == 0..255

\* A component of a link, as text and as bytes; of the flags at most one is set.
LinkPart == [flags : {0, 1, 2, 4, 8}, text : Seq(STRING)]
Component == [flags : {0, 1, 2, 4, 8}, bytes : Seq(Octet)]

SUSPEntry ==
  [sig : {NM}, bytes : Seq(Octet)] \cup [sig : {PX}, mode : Nat] \cup [sig : {SL}, comps : Seq(Component)]
  \cup [sig : {CE}, block : Nat, offset : Nat, length : Nat]
  \cup [sig : Octet \X Octet \ {NM, PX, SL, CE}, data : Seq(Octet)]

\* A number in both byte orders.
Both(v) ==
  LET b == <<v % 256, (v \div 256) % 256, (v \div 65536) % 256, v \div 16777216>> IN b \o Reverse(b)

Encoded(comps) == FlattenSeq([i \in 1..Len(comps) |-> <<comps[i].flags, Len(comps[i].bytes)>> \o comps[i].bytes])

Payload(e) ==
  CASE e.sig = NM -> <<0>> \o e.bytes
    [] e.sig = PX -> Both(e.mode)
    [] e.sig = SL -> <<0>> \o Encoded(e.comps)
    [] e.sig = CE -> Both(e.block) \o Both(e.offset) \o Both(e.length)
    [] OTHER -> e.data

\* The bytes of an area, whose entries follow one another.
Bytewise(entries) ==
  FlattenSeq([i \in 1..Len(entries) |->
                LET p == Payload(entries[i]) IN entries[i].sig \o <<Len(p) + 4, 1>> \o p])

\* Numbers fit into the bytes they have, and the length of an entry into one; an SP entry
\* has its two check bytes, and LEN_SKP.
Writable(e) ==
  /\ Payload(e) \in Seq(Octet) /\ Len(Payload(e)) <= 251
  /\ e.sig = PX => e.mode < 65536
  /\ e.sig = SL => \A i \in 1..Len(e.comps) : Len(e.comps[i].bytes) <= 255
  /\ e.sig = SP => Len(e.data) = 3 /\ e.data[1] = 190 /\ e.data[2] = 239

---------------------------------------------------------------------------
(* What entries say *)

With(entries, sig) == ElementsAt(entries, {i \in DOMAIN entries : entries[i].sig = sig})

SaidName(entries) ==
  LET names == With(entries, NM) IN FlattenSeq([i \in 1..Len(names) |-> Text(names[i].bytes)])

SaidMode(entries) == LET modes == With(entries, PX) IN IF modes = << >> THEN 0 ELSE Last(modes).mode

\* The components of all SL entries, with their text.
Decoded(comps) == [i \in 1..Len(comps) |-> [flags |-> comps[i].flags, text |-> Text(comps[i].bytes)]]
SaidLink(entries) ==
  LET links == With(entries, SL) IN FlattenSeq([i \in 1..Len(links) |-> Decoded(links[i].comps)])

\* A link begins at the root or does not, and ends with a whole component.
Spellable(link) ==
  \A i \in 1..Len(link) :
    /\ link[i].flags = 8 => i = 1
    /\ link[i].flags \in {0, 1} => link[i].text # << >> /\ Last(link[i].text) # "/"
    /\ i = Len(link) => link[i].flags # 1

\* Between components is a slash, unless one goes on in the next, or is the root.
Spelled(link) ==
  FlattenSeq([i \in 1..Len(link) |->
    (IF i = 1 \/ link[i - 1].flags \in {1, 8} THEN << >> ELSE <<"/">>)
    \o CASE link[i].flags = 2 -> <<".">>
         [] link[i].flags = 4 -> <<".", ".">>
         [] link[i].flags = 8 -> <<"/">>
         [] OTHER -> link[i].text])

\* The identifiers that stand for a name, and the same in a Joliet tree.
Identifiers(name) == {name, name \o Version, name \o <<".">> \o Version}
Wide(id) == [i \in 1..(2 * Len(id)) |-> IF i % 2 = 1 THEN "0x00" ELSE id[i \div 2]]

Nameable(name) == name # << >> /\ Last(name) # "." /\ \A i \in 1..Len(name) : name[i] # ";"
=============================================================================
