------------------------------- MODULE Listing -------------------------------
(***************************************************************************)
(* ListDir of the root of an image that was opened (fs.go): the names, and *)
(* the other Rock Ridge attributes, that rrFor gathers for each record     *)
(* from its System Use Area and the continuation areas it leads to. An     *)
(* area is read from the image, a read may fail, and Close may come        *)
(* between any two.                                                        *)
(***************************************************************************)
EXTENDS Opening

CONSTANTS
  Bytes,     \* the image as far as continuation areas lie in it, byte by byte
  MaxAreas   \* the bound of collectSUSP, 16 in the code

ASSUME ListingAssumption ==
  /\ Bytes \in Seq(0..255)
  /\ MaxAreas \in Nat

VARIABLES
  stage,    \* "idle", "entry", "follow", "done" or "failed"
  listed,   \* out of ListDir, with the attributes of every entry
  susp,     \* out of collectSUSP
  cur,      \* the area it is at
  areas     \* i, the continuation areas read for the entry

listVars == <<stage, listed, susp, cur, areas>>

ListInit ==
  /\ Init
  /\ stage = "idle"
  /\ listed = << >>
  /\ susp = << >> /\ cur = << >> /\ areas = 0

IsSpecial(f) == f.id \in {Self, Parent}

Root == IF tree = "joliet" THEN image[joliet] ELSE image[pvd]
Files == ElementsAt(Root.files, {i \in DOMAIN Root.files : ~IsSpecial(Root.files[i])})
Entry == Files[Len(listed) + 1]

\* Reads of an FS that was closed fail.
Reading == UNCHANGED vars
ReadMayFail == Faults \/ handle = "closed"

\* The directory itself: readDirRecords, as DirRecords has it.
ListDir ==
  /\ Reading
  /\ pc = "opened" /\ stage = "idle"
  /\ \/ Root.root # "dir" /\ stage' = "failed"
     \/ ReadMayFail /\ stage' = "failed"
     \/ Root.root = "dir" /\ handle = "open" /\ stage' = "entry"
  /\ UNCHANGED <<listed, susp, cur, areas>>

---------------------------------------------------------------------------
(* rrFor, collectSUSP *)

\* Mutation of SystemUse: nothing is skipped.
SystemUseWhole(f) == f.sua

SystemUse(f) == SubSeq(f.sua, suspSkip + 1, Len(f.sua))

BeginEntry ==
  /\ Reading
  /\ stage = "entry" /\ Len(listed) < Len(Files)
  /\ susp' = SystemUse(Entry)
  /\ cur' = susp'
  /\ areas' = 0
  /\ stage' = "follow"
  /\ UNCHANGED listed

\* Mutation of Followable: the chain is followed to its end.
FollowableForever(ce) == ce.length # 0 /\ ce.length <= blockSize

Followable(ce) == areas < MaxAreas /\ ce.length # 0 /\ ce.length <= blockSize

Offset(ce) == ce.block * blockSize + ce.offset
InImage(ce) == Offset(ce) + ce.length <= Len(Bytes)
Area(ce) == SubSeq(Bytes, Offset(ce) + 1, Offset(ce) + ce.length)

\* Mutation of Collected: the new area is put before the others.
CollectedBefore(area) == area \o susp

Collected(area) == susp \o area

FollowArea ==
  /\ Reading
  /\ stage = "follow" /\ handle = "open"
  /\ LET ce == CEEntry(cur) IN
       /\ Followable(ce) /\ InImage(ce)
       /\ susp' = Collected(Area(ce))
       /\ cur' = Area(ce)
  /\ areas' = areas + 1
  /\ UNCHANGED <<stage, listed>>

---------------------------------------------------------------------------
(* effectiveName, and the entry ListDir makes of it *)

EffectiveName(f, rr) ==
  IF rr.hasName THEN rr.name
  ELSE IF tree = "joliet" THEN JolietName(f.id)
  ELSE CleanName(f.id)

\* cut, which is not in the code: a continuation area could not be read.
Show(cut) ==
  LET rr == ParseRockRidge(susp) IN
  /\ listed' = Append(listed, [name |-> EffectiveName(Entry, rr), isDir |-> Entry.isDir,
                               lba |-> Entry.lba, rr |-> rr, cut |-> cut])
  /\ stage' = "entry"
  /\ UNCHANGED <<susp, cur, areas>>

EndOfAreas ==
  /\ Reading
  /\ stage = "follow" /\ ~Followable(CEEntry(cur))
  /\ Show(FALSE)

\* collectSUSP makes do with what it has, and returns no error.
AreaUnreadable ==
  /\ Reading
  /\ stage = "follow" /\ Followable(CEEntry(cur))
  /\ ReadMayFail \/ ~InImage(CEEntry(cur))
  /\ Show(TRUE)

ListedAll ==
  /\ Reading
  /\ stage = "entry" /\ Len(listed) = Len(Files)
  /\ stage' = "done"
  /\ UNCHANGED <<listed, susp, cur, areas>>

---------------------------------------------------------------------------
ListStep == ListDir \/ BeginEntry \/ FollowArea \/ EndOfAreas \/ AreaUnreadable \/ ListedAll

ListNext ==
  \/ Next /\ UNCHANGED listVars
  \/ ListStep

ListSpec ==
  /\ ListInit /\ [][ListNext]_<<vars, listVars>>
  /\ WF_<<vars, listVars>>(OpenStep /\ UNCHANGED listVars)
  /\ WF_<<vars, listVars>>(ListStep)

---------------------------------------------------------------------------
\* Every variable holds a value of the code's type.
ListTypeOK ==
  /\ TypeOK
  /\ stage \in {"idle", "entry", "follow", "done", "failed"}
  /\ \A i \in 1..Len(listed) : listed[i].rr.mode \in 0..(2^16 - 1) /\ listed[i].isDir \in BOOLEAN
  /\ \A area \in {susp, cur} : \A i \in 1..Len(area) : area[i] \in 0..255
  /\ areas \in 0..MaxAreas
  /\ stage # "idle" => pc = "opened" /\ (stage # "failed" => Len(listed) <= Len(Files))

(* LEN_SKP, as the SP entry of the root was mastered to say it: as many    *)
(* bytes come before the entries in the records of its tree. The entry is  *)
(* in the first "." record of the root, and in no Joliet tree.             *)
RootEntries == IF Dots(Root) = << >> \/ Dots(Root)[1].written = << >> THEN << >> ELSE Dots(Root)[1].written[1]
Lead == LET sps == With(RootEntries, SP) IN IF sps = << >> THEN 0 ELSE sps[1].data[3]

LeadWritten ==
  /\ \A i \in 1..Len(RootEntries) : Writable(RootEntries[i])
  /\ Dots(Root) # << >> => Dots(Root)[1].sua \in {Bytewise(RootEntries), Bytewise(RootEntries) \o <<0>>}
  /\ tree = "joliet" => With(RootEntries, SP) = << >>

(* What a record was mastered from. Its first area is in the record, and   *)
(* each CE entry leads to the area the next entries were written to.       *)
CEOf(entries) == With(entries, CE)[1]
AreaAt(f, k) == IF k = 1 THEN SubSeq(f.sua, Lead + 1, Len(f.sua)) ELSE Area(CEOf(f.written[k - 1]))

Leads(entries) ==
  /\ Len(With(entries, CE)) = 1
  /\ CEOf(entries).length \in 1..blockSize /\ InImage(CEOf(entries))

\* The identifiers of a name in the tree that was chosen.
StandsFor(id, name) ==
  /\ Nameable(name)
  /\ id \in IF tree = "joliet" THEN {Wide(i) : i \in Identifiers(name)} ELSE Identifiers(name)

\* The areas hold what was written, each up to a byte that may pad it, and are no
\* more than the code's bound lets it read.
Sound(f) ==
  LET n == Len(f.written) IN
  /\ LeadWritten
  /\ n \in 1..(MaxAreas + 1)
  /\ \A k \in 1..n :
       /\ \A i \in 1..Len(f.written[k]) : Writable(f.written[k][i])
       /\ AreaAt(f, k) \in {Bytewise(f.written[k]), Bytewise(f.written[k]) \o <<0>>}
       /\ IF k < n THEN Leads(f.written[k]) ELSE With(f.written[k], CE) = << >>
  /\ LET all == FlattenSeq(f.written) IN
       /\ IF With(all, NM) = << >> THEN StandsFor(f.id, f.name) ELSE SaidName(all) = f.name
       /\ SaidLink(all) = f.link /\ Spellable(f.link)
       /\ SaidMode(all) = f.mode

\* No byte lies behind the last entry of an area that goes on in another.
Aligned(f) ==
  \A k \in 1..(Len(f.written) - 1) : AreaAt(f, k) = Bytewise(f.written[k])

Attributes(e) == [name |-> e.name, target |-> e.rr.symlink, mode |-> e.rr.mode]
Mastered(f) == [name |-> f.name, target |-> Spelled(f.link), mode |-> f.mode]

ShownAsMastered(e, f) == Sound(f) /\ ~e.cut => Attributes(e) = Mastered(f)

\* Every file but "." and ".." is listed once, in the order of the directory.
ListedInOrder ==
  /\ stage = "done" => Len(listed) = Len(Files)
  /\ \A i \in 1..Len(listed) :
       listed[i].lba = Files[i].lba /\ listed[i].isDir = Files[i].isDir

(* From the opening of an image to the entries of its directory: whatever  *)
(* tree is chosen, every file but "." and ".." is listed once, in order,   *)
(* with the name, the link target and the mode it was mastered with, over  *)
(* as many continuation areas as collectSUSP's bound allows (fs.go:83-84), *)
(* and behind as many bytes as the root's SP entry was mastered to skip.   *)
ListsAsMastered ==
  /\ ListedInOrder
  /\ err = "nil" =>
       \A i \in 1..Len(listed) : \A f \in {Files[i]} : Aligned(f) => ShownAsMastered(listed[i], f)

(* fs.go:83-84: rrFor follows "any SUSP CE continuation areas so long      *)
(* names / symlink targets are not truncated", whatever byte pads a record *)
(* to an even length.                                                      *)
NothingTruncated ==
  err = "nil" => \A i \in 1..Len(listed) : \A f \in {Files[i]} : ShownAsMastered(listed[i], f)

(* A continuation area that cannot be read is passed over without an error *)
(* (fs.go:105): all it may do is to shorten what is shown. A name is the   *)
(* beginning of the name, or the one of the identifier, a target is the    *)
(* beginning of the target, and neither is made of parts of others. Of the *)
(* mode nothing is said: an area that is lost may hold it.                 *)
ShortenedAtWorst ==
  err = "nil" =>
    \A i \in 1..Len(listed) : \A f \in {Files[i]} :
      listed[i].cut /\ Sound(f) /\ Aligned(f) =>
        /\ IsPrefix(listed[i].name, f.name) \/ ~listed[i].rr.hasName
        /\ IsPrefix(listed[i].rr.symlink, Spelled(f.link))

(* Opening and listing return, whatever descriptors the image is made of,  *)
(* and also if its continuation areas lead back to themselves.             *)
ListReturns == <>(pc = "failed" \/ stage \in {"done", "failed"})
==============================================================================
