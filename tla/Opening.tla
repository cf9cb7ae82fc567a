------------------------------ MODULE Opening ------------------------------
(***************************************************************************)
(* Opening an image: OpenFile, Open or OpenReader scans the volume         *)
(* descriptors one sector at a time (volume.go), and chooseTree settles    *)
(* which directory tree the FS will traverse (fs.go). Any read may fail.   *)
(* A descriptor is what the scan looks at in its sector, with the records  *)
(* of the directory its root record leads to.                              *)
(***************************************************************************)
EXTENDS Mastering

CONSTANTS
  Images,       \* the sequences of descriptors from the first sector on
  MaxSectors,   \* maxDescriptorSector - systemAreaSectors, 84 in the code
  SectorSize,   \* sectorSize
  Faults        \* may a read of the image, os.Open or Stat fail?

\* A record as parseDirRecord leaves it. What it was mastered from is not in the code: a
\* name, the components of a link, a mode, and the entries written for it, area by area.
FileRecord ==
  [id : Seq(STRING), sua : Seq(0..255), isDir : BOOLEAN, lba : Nat,
   name : Seq(STRING), link : Seq(LinkPart), mode : Nat, written : Seq(Seq(SUSPEntry))]

\* root: what parseDirRecord makes of the root record in a descriptor.
Descriptor ==
  [type : {"primary", "joliet", "supplement", "terminator", "other", "foreign"},
   root : {"dir", "notDir", "corrupt"}, blockSize : Nat, files : Seq(FileRecord)]

ASSUME OpeningAssumption ==
  /\ MaxSectors \in Nat
  /\ SectorSize \in Nat \ {0}
  /\ Faults \in BOOLEAN
  /\ Images \subseteq Seq(Descriptor)

VARIABLES
  image,
  via,         \* the function the caller used
  pc,          \* "start", "scan", "choose", "opened" or "failed"
  sector,      \* the descriptor the scan is at, from 1
  pvd,         \* the descriptor of v.pvdRoot, 0 while havePVD is false
  joliet,      \* the descriptor of v.jolietRoot, 0 while hasJoliet is false
  blockSize,   \* v.BlockSize
  handle,      \* the image file: "none", "open" or "closed"
  tree,        \* the tree chosen: "rockRidge", "joliet" or "base"
  suspSkip,    \* fs.suspSkip
  err

vars == <<image, via, pc, sector, pvd, joliet, blockSize, handle, tree, suspSkip, err>>

\* OpenReader is Open, with the interface of the other drivers.
Calls == {"OpenFile", "Open", "OpenReader"}

Init ==
  /\ image \in Images
  /\ via \in Calls
  /\ pc = "start"
  /\ sector = 1
  /\ pvd = 0 /\ joliet = 0
  /\ blockSize = 0
  /\ handle = IF via = "OpenFile" THEN "none" ELSE "open"
  /\ tree = "none"
  /\ suspSkip = 0
  /\ err = "nil"

---------------------------------------------------------------------------
\* Mutation of AfterFailure: OpenFile forgets the file it has opened.
AfterFailureKept == handle

\* A caller's reader stays the caller's; OpenFile closes the file it opened.
AfterFailure == IF via = "OpenFile" /\ handle = "open" THEN "closed" ELSE handle

Fail(e) ==
  /\ pc' = "failed"
  /\ err' = e
  /\ handle' = AfterFailure
  /\ UNCHANGED <<image, via, sector, pvd, joliet, blockSize, tree, suspSkip>>

\* os.Open and Stat, for OpenFile only.
Start ==
  /\ pc = "start"
  /\ pc' = "scan"
  /\ handle' = "open"
  /\ UNCHANGED <<image, via, sector, pvd, joliet, blockSize, tree, suspSkip, err>>

StartFails ==
  /\ pc = "start" /\ via = "OpenFile" /\ Faults
  /\ pc' = "failed"
  /\ err' = "fault"
  /\ handle' \in {"none", "closed"}
  /\ UNCHANGED <<image, via, sector, pvd, joliet, blockSize, tree, suspSkip>>

---------------------------------------------------------------------------
(* readVolume *)

Scanning == pc = "scan" /\ sector <= MaxSectors
Here == image[sector]

\* Mutation of NextSector: the loop does not advance.
SameSector == UNCHANGED <<image, via, pc, handle, tree, suspSkip, err, sector>>

NextSector ==
  /\ sector' = sector + 1
  /\ UNCHANGED <<image, via, pc, handle, tree, suspSkip, err>>

ReadFails ==
  /\ Scanning /\ Faults
  /\ Fail("fault")

ImageEnds ==
  /\ Scanning /\ sector > Len(image)
  /\ Fail("EOF")

Foreign ==
  /\ Scanning /\ sector <= Len(image)
  /\ Here.type = "foreign"
  /\ Fail("badDescriptor")

EffectiveBlockSize(n) == IF n = 0 THEN SectorSize ELSE n

Primary ==
  /\ Scanning /\ sector <= Len(image)
  /\ Here.type = "primary"
  /\ \/ /\ Here.root = "corrupt"
        /\ Fail("corrupt")
     \/ /\ Here.root # "corrupt"
        /\ blockSize' = EffectiveBlockSize(Here.blockSize)
        /\ pvd' = sector
        /\ NextSector
        /\ UNCHANGED joliet

\* Mutation of IsJoliet: the error of parseDirRecord is not looked at.
IsJolietUnchecked(d) == d.type = "joliet"

\* A supplementary descriptor that is not Joliet's, or whose root does not
\* parse, is passed over, like a descriptor of another type.
IsJoliet(d) == d.type = "joliet" /\ d.root # "corrupt"

Supplement ==
  /\ Scanning /\ sector <= Len(image)
  /\ Here.type \in {"joliet", "supplement", "other"}
  /\ joliet' = IF IsJoliet(Here) THEN sector ELSE joliet
  /\ NextSector
  /\ UNCHANGED <<pvd, blockSize>>

\* Mutation of Complete: a set without a primary descriptor is taken.
CompleteAlways == TRUE

Complete == pvd # 0

Terminator ==
  /\ Scanning /\ sector <= Len(image)
  /\ Here.type = "terminator"
  /\ \/ /\ ~Complete
        /\ Fail("badDescriptor")
     \/ /\ Complete
        /\ pc' = "choose"
        /\ UNCHANGED <<image, via, sector, pvd, joliet, blockSize, handle, tree, suspSkip, err>>

NoTerminator ==
  /\ pc = "scan" /\ sector > MaxSectors
  /\ Fail("badDescriptor")

---------------------------------------------------------------------------
(* chooseTree *)

\* Mutation of Choice: Joliet is preferred.
ChoiceJolietFirst(hasRR) ==
  IF joliet # 0 THEN "joliet" ELSE IF hasRR THEN "rockRidge" ELSE "base"

Choice(hasRR) ==
  IF hasRR THEN "rockRidge" ELSE IF joliet # 0 THEN "joliet" ELSE "base"

\* The "." records of the directory of a descriptor, and what the first says of SUSP.
Dots(d) ==
  IF d.root # "dir" THEN << >> ELSE ElementsAt(d.files, {i \in DOMAIN d.files : d.files[i].id = Self})

SUSPOf(d) ==
  IF Dots(d) = << >> THEN [skip |-> 0, found |-> FALSE] ELSE DetectSUSPSkip(Dots(d)[1].sua)

\* primarySUSP: an error of reading the primary root reads as "no Rock Ridge".
ChooseTree ==
  /\ pc = "choose"
  /\ \E readable \in IF Faults THEN BOOLEAN ELSE {TRUE} :
       /\ tree' = Choice(readable /\ SUSPOf(image[pvd]).found)
       /\ suspSkip' = IF tree' = "rockRidge" THEN SUSPOf(image[pvd]).skip ELSE suspSkip
       /\ err' = IF readable THEN err ELSE "fault"
  /\ pc' = "opened"
  /\ UNCHANGED <<image, via, sector, pvd, joliet, blockSize, handle>>

\* FS.Close, when the reader is an io.Closer.
Close ==
  /\ pc = "opened" /\ handle = "open"
  /\ handle' = "closed"
  /\ UNCHANGED <<image, via, pc, sector, pvd, joliet, blockSize, tree, suspSkip, err>>

\* The steps of the opening itself; a call of the system need not ever fail.
OpenStep ==
  \/ Start
  \/ ImageEnds \/ Foreign \/ Primary \/ Supplement \/ Terminator \/ NoTerminator
  \/ ChooseTree

Next == OpenStep \/ StartFails \/ ReadFails \/ Close

Spec == Init /\ [][Next]_vars /\ WF_vars(OpenStep)

---------------------------------------------------------------------------
\* Every variable holds a value of the code's type, and the scan its bound.
TypeOK ==
  /\ via \in Calls
  /\ pc \in {"start", "scan", "choose", "opened", "failed"}
  /\ sector \in 1..(MaxSectors + 1)
  /\ pvd \in 0..MaxSectors /\ joliet \in 0..MaxSectors
  /\ blockSize \in Nat
  /\ handle \in {"none", "open", "closed"}
  /\ tree \in {"none", "rockRidge", "joliet", "base"}
  /\ suspSkip \in 0..255
  /\ err \in {"nil", "fault", "EOF", "badDescriptor", "corrupt"}

(* The descriptor set as ECMA-119 8 has it: k is its terminator if nothing *)
(* before it is foreign or a second terminator, or a primary descriptor    *)
(* without a root, and the reader looks no further than its bound.         *)
TerminatedAt(k) ==
  /\ k <= MaxSectors
  /\ image[k].type = "terminator"
  /\ \A j \in 1..(k - 1) :
       /\ image[j].type \notin {"foreign", "terminator"}
       /\ image[j].type = "primary" => image[j].root # "corrupt"
  /\ \E j \in 1..(k - 1) : image[j].type = "primary"

(* readVolume accepts exactly the images with a complete descriptor set:   *)
(* one it opens has a primary descriptor and a terminator in its bounds,   *)
(* and only an I/O error makes it refuse one that has.                     *)
OpensExactlyVolumes ==
  /\ pc = "opened" => \E k \in 1..Len(image) : TerminatedAt(k)
  /\ pc = "failed" /\ err # "fault" => ~\E k \in 1..Len(image) : TerminatedAt(k)

LastOf(k, Test(_)) ==
  LET hits == {j \in 1..(k - 1) : Test(image[j])}
  IN IF hits = {} THEN 0 ELSE CHOOSE j \in hits : \A i \in hits : i <= j

(* With several descriptors of a kind the last one wins, for the roots and *)
(* for the block size alike: they are never taken from two descriptors.    *)
(* readDirRecords divides by the block size (read.go:130).                 *)
PicksOneDescriptor ==
  pc = "opened" =>
    LET k == CHOOSE k \in 1..Len(image) : TerminatedAt(k) IN
    /\ pvd = LastOf(k, LAMBDA d : d.type = "primary")
    /\ joliet = LastOf(k, LAMBDA d : d.type = "joliet" /\ d.root # "corrupt")
    /\ blockSize = IF image[pvd].blockSize = 0 THEN SectorSize ELSE image[pvd].blockSize

(* fs.go:53-55: Rock Ridge before Joliet before the base tree; an image    *)
(* with Rock Ridge is read through another tree only if its primary root   *)
(* could not be read, and never through a Joliet tree it does not have.    *)
TreeByPrecedence ==
  pc = "opened" =>
    /\ tree = "rockRidge" => SUSPOf(image[pvd]).found
    /\ tree = "joliet" => joliet # 0
    /\ tree # "rockRidge" /\ err = "nil" => ~SUSPOf(image[pvd]).found
    /\ tree = "base" => joliet = 0

(* OpenFile leaks no file whatever step fails (fs.go:127-143), and Open    *)
(* and OpenReader leave the reader they were given open when they fail.    *)
FailureReleasesTheFile ==
  pc = "failed" => IF via = "OpenFile" THEN handle # "open" ELSE handle = "open"
=============================================================================
