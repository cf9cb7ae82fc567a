------------------------------ MODULE Builder ------------------------------
(***************************************************************************)
(* create.go: the caller grows a tree with AddDir and AddFile, and WriteTo *)
(* lays it out and masters it through an io.WriterAt, one write at a time, *)
(* any of which may fail. Nodes keep their identifiers from one layout to  *)
(* the next, so a tree may be written, edited and written again, over the  *)
(* image an earlier attempt left behind.                                   *)
(*                                                                         *)
(* A path is the sequence of its components, the root is << >>, and a      *)
(* sector of the image holds what was encoded into it: a descriptor, a     *)
(* part of a path table, directory records, or a part of a file.           *)
(***************************************************************************)
EXTENDS Names, SequencesExt

CONSTANTS
  DirPaths,     \* arguments of AddDir
  FilePaths,    \* arguments of AddFile
  Contents,     \* its data
  SectorSize,   \* sectorSize, 2048 in the code
  SystemArea,   \* sectors before the descriptors, 16 in the code
  Word,         \* 2^32, the range of the code's uint32 arithmetic
  MaxAdds,      \* bound: calls of AddDir and AddFile
  MaxWrites     \* bound: calls of WriteTo

Content == [tag : STRING, size : Nat]

\* A component of a path between two slashes.
Component == Seq(STRING)

\* Up to MaxAdds siblings can be numbered within the width of a name.
ASSUME BuilderAssumption ==
  /\ SectorSize \in Nat \ {0}
  /\ SystemArea \in Nat \ {0}
  /\ Word \in Nat \ {0}
  /\ MaxAdds \in Nat /\ MaxWrites \in Nat
  /\ Contents \subseteq Content
  /\ DirPaths \subseteq Seq(Component) /\ FilePaths \subseteq Seq(Component)
  /\ \A k \in 1..MaxAdds : Len(Decimal(k)) < NameWidth

VARIABLES
  tree,     \* the nodes below b.root, by path
  sink,     \* the sectors of the image behind the io.WriterAt, as far as written
  plan,     \* the writes a running WriteTo has still to do
  result,   \* what the last call returned: "none", "ok", "refused" or "failed"
  adds, writes

vars == <<tree, sink, plan, result, adds, writes>>

\* f, but v for x.
With(f, x, v) == [y \in DOMAIN f \cup {x} |-> IF y = x THEN v ELSE f[y]]

NoData == [tag |-> "", size |-> 0]

\* id = << >> is the empty string of a node no layout has seen.
NewDir == [isDir |-> TRUE, data |-> NoData, id |-> << >>]
NewFile(data) == [isDir |-> FALSE, data |-> data, id |-> << >>]

Init ==
  /\ tree = [p \in {<< >>} |-> NewDir]
  /\ sink = << >>
  /\ plan = << >>
  /\ result = "none"
  /\ adds = 0
  /\ writes = 0

---------------------------------------------------------------------------
(* AddDir, AddFile *)

Ancestors(path) == {SubSeq(path, 1, k) : k \in 0..Len(path)}

\* Mutation of Blocked: mkdirAll does not check what it walks through.
BlockedNever(path) == FALSE

\* mkdirAll meets a file on its way.
Blocked(path) == \E q \in Ancestors(path) : q \in DOMAIN tree /\ ~tree[q].isDir

MkdirAll(path) ==
  [q \in DOMAIN tree \cup Ancestors(path) |-> IF q \in DOMAIN tree THEN tree[q] ELSE NewDir]

Adding ==
  /\ plan = << >> /\ adds < MaxAdds
  /\ adds' = adds + 1
  /\ UNCHANGED <<sink, plan, writes>>

AddDir(path) ==
  /\ Adding
  /\ LET parts == SplitPath(path) IN
       \/ /\ Blocked(parts)
          /\ result' = "refused"
          /\ UNCHANGED tree
       \/ /\ ~Blocked(parts)
          /\ tree' = MkdirAll(parts)
          /\ result' = "none"

\* A file at the path is replaced, by a node without an identifier.
AddFile(path, data) ==
  /\ Adding
  /\ LET parts == SplitPath(path)
         refused == \/ parts = << >>
                    \/ Blocked(Front(parts))
                    \/ parts \in DOMAIN tree /\ tree[parts].isDir
     IN \/ /\ refused
           /\ result' = "refused"
           /\ UNCHANGED tree
        \/ /\ ~refused
           /\ tree' = With(MkdirAll(Front(parts)), parts, NewFile(data))
           /\ result' = "none"

---------------------------------------------------------------------------
(* layout: the identifiers *)

Directories(t) == {p \in DOMAIN t : t[p].isDir}
Children(t, d) == {p \in DOMAIN t : p # << >> /\ Front(p) = d}


\* The comparison of sortedChildren: by identifier if both have one, else by name.
Precedes(t, p, q) ==
  IF t[p].id = << >> \/ t[q].id = << >>
  THEN Below(Last(p), Last(q))
  ELSE Below(t[p].id, t[q].id)

\* sort.Slice sorts up to twelve elements by insertion ...
Insert(t, sorted, p) ==
  LET stay == {0} \cup {i \in 1..Len(sorted) : ~Precedes(t, p, sorted[i])}
  IN InsertAt(sorted, (CHOOSE i \in stay : \A j \in stay : j <= i) + 1, p)

Sorted(t, found) ==
  LET upTo[i \in 0..Len(found)] ==
        IF i = 0 THEN << >> ELSE Insert(t, upTo[i - 1], found[i])
  IN upTo[Len(found)]

\* ... starting from whatever order the iteration over the map came up with.
SortedChildren(t, d) == {Sorted(t, found) : found \in SetToSeqs(Children(t, d))}

Candidate(t, p, k) ==
  LET base == IsoIdentifier(Last(p), t[p].isDir)
  IN IF k = 1 THEN base ELSE Disambiguate(base, t[p].isDir, k)

\* Mutation of FreeVariant: the variants are numbered through the directory.
FreeVariantCounted(t, ids, p) ==
  IF \A q \in DOMAIN ids : ids[q] # Candidate(t, p, 1) THEN 1 ELSE Cardinality(DOMAIN ids) + 1

\* The first variant that none of the siblings before p has; ids are theirs.
FreeVariant(t, ids, p) ==
  LET free == {k \in 1..(Cardinality(DOMAIN ids) + 1) :
                 \A q \in DOMAIN ids : ids[q] # Candidate(t, p, k)}
  IN CHOOSE k \in free : \A j \in free : k <= j

AssignIdentifier(t, ids, p) == With(ids, p, Candidate(t, p, FreeVariant(t, ids, p)))

Assigned(t, order) ==
  LET ids[i \in 0..Len(order)] ==
        IF i = 0 THEN << >> ELSE AssignIdentifier(t, ids[i - 1], order[i])
  IN ids[Len(order)]

Assignments(t, d) == {Assigned(t, order) : order \in SortedChildren(t, d)}

\* The trees assignIdentifiers may leave.
Identified(t) ==
  LET dirs == Directories(t)
      choices == {f \in [dirs -> UNION {Assignments(t, d) : d \in dirs}] :
                    \A d \in dirs : f[d] \in Assignments(t, d)}
  IN {[p \in DOMAIN t |-> IF p = << >> THEN t[p]
                          ELSE [t[p] EXCEPT !.id = f[Front(p)][p]]] : f \in choices}

---------------------------------------------------------------------------
(* layout: the extents. Every identifier is assigned now, so the order of  *)
(* siblings is that of their identifiers.                                  *)

IdPath(t, p) == [k \in 1..Len(p) |-> t[SubSeq(p, 1, k)].id]

IdPathBelow(t, p, q) ==
  \E k \in 1..Len(p) :
    /\ k <= Len(q)
    /\ SubSeq(IdPath(t, p), 1, k - 1) = SubSeq(IdPath(t, q), 1, k - 1)
    /\ Below(IdPath(t, p)[k], IdPath(t, q)[k])

Ordered(S, Before(_, _)) ==
  [i \in 1..Cardinality(S) |-> CHOOSE x \in S : Cardinality({y \in S : Before(y, x)}) = i - 1]

\* Breadth first, and the siblings by identifier.
OrderedDirs(t) ==
  Ordered(Directories(t),
          LAMBDA p, q : Len(p) < Len(q) \/ (Len(p) = Len(q) /\ IdPathBelow(t, p, q)))

\* layout places the files depth first.
OrderedFiles(t) ==
  Ordered(DOMAIN t \ Directories(t), LAMBDA p, q : IdPathBelow(t, p, q))

OrderedChildren(t, d) == Ordered(Children(t, d), LAMBDA p, q : IdPathBelow(t, p, q))

SectorsFor(n) == ((n + SectorSize - 1) % Word) \div SectorSize

\* A pad byte makes both lengths even.
DirRecordLen(idLen) == 33 + idLen + (IF idLen % 2 = 0 THEN 1 ELSE 0)
PathTableEntryLen(idLen) == 8 + idLen + (IF idLen % 2 # 0 THEN 1 ELSE 0)

PathTableIdent(t, d) == IF d = << >> THEN Self ELSE t[d].id

Sum(s) ==
  LET upTo[i \in 0..Len(s)] == IF i = 0 THEN 0 ELSE upTo[i - 1] + s[i]
  IN upTo[Len(s)]

PathTableSize(t) ==
  LET dirs == OrderedDirs(t)
  IN Sum([i \in 1..Len(dirs) |-> PathTableEntryLen(Len(PathTableIdent(t, dirs[i])))])

\* directoryExtentSize: where a record of rl bytes goes that would start at pos, never
\* across a sector.
Fit(pos, rl) ==
  IF pos \div SectorSize # (pos + rl - 1) \div SectorSize
  THEN (pos \div SectorSize + 1) * SectorSize
  ELSE pos

\* pos after each of the records with identifiers of these lengths.
Ends(ids) ==
  LET pos[i \in 0..Len(ids)] ==
        IF i = 0 THEN 0 ELSE Fit(pos[i - 1], DirRecordLen(ids[i])) + DirRecordLen(ids[i])
  IN pos

DirectoryExtentSize(t, d) ==
  LET kids == OrderedChildren(t, d)
      ids == [i \in 1..(Len(kids) + 2) |-> IF i <= 2 THEN 1 ELSE Len(t[kids[i - 2]].id)]
  IN ((Ends(ids)[Len(ids)] + SectorSize - 1) \div SectorSize) * SectorSize

PathTableLLBA == SystemArea + 2
PathTableSectors(t) == SectorsFor(PathTableSize(t))
PathTableMLBA(t) == PathTableLLBA + PathTableSectors(t)

\* What layout stores in the nodes: lba[p] and len[p] of every node's extent.
Layout(t) ==
  LET order == OrderedDirs(t) \o OrderedFiles(t)
      len == [p \in DOMAIN t |->
                IF t[p].isDir THEN DirectoryExtentSize(t, p) ELSE t[p].data.size % Word]
      next[i \in 0..Len(order)] ==
        IF i = 0 THEN PathTableMLBA(t) + PathTableSectors(t)
        ELSE next[i - 1] + SectorsFor(len[order[i]])
  IN [len |-> len,
      lba |-> [p \in DOMAIN t |-> next[(CHOOSE i \in 1..Len(order) : order[i] = p) - 1]]]

TotalSectors(t, l) ==
  LET ends == {PathTableMLBA(t) + PathTableSectors(t)}
              \cup {l.lba[p] + SectorsFor(l.len[p]) : p \in DOMAIN t}
  IN CHOOSE e \in ends : \A x \in ends : x <= e

---------------------------------------------------------------------------
(* The sectors WriteTo writes *)

Record(id, isDir, l, p) == [id |-> id, isDir |-> isDir, lba |-> l.lba[p], len |-> l.len[p]]

\* Mutation of ParentOf: parent pointers are not wired up.
ParentOfSelf(d) == d

ParentOf(d) == IF d = << >> THEN d ELSE Front(d)

\* Mutation of EmitAt: a record that ends with its sector is taken to cross into the next.
EmitAtNextSector(pos, rl) ==
  IF pos \div SectorSize # (pos + rl) \div SectorSize
  THEN (pos \div SectorSize + 1) * SectorSize
  ELSE pos

\* directoryExtent finds the place of each record anew: this is the code of its emit.
EmitAt(pos, rl) ==
  IF pos \div SectorSize # (pos + rl - 1) \div SectorSize
  THEN (pos \div SectorSize + 1) * SectorSize
  ELSE pos

\* pos behind each of the records it emitted.
Emitted(ids) ==
  LET pos[i \in 0..Len(ids)] ==
        IF i = 0 THEN 0 ELSE EmitAt(pos[i - 1], DirRecordLen(ids[i])) + DirRecordLen(ids[i])
  IN pos

\* Each record in the sector it was emitted to, behind the records before it. One
\* emitted behind the extent's length is lost.
DirectoryExtent(t, l, d) ==
  LET kids == OrderedChildren(t, d)
      recs == <<Record(Self, TRUE, l, d), Record(Parent, TRUE, l, ParentOf(d))>>
              \o [i \in 1..Len(kids) |-> Record(t[kids[i]].id, t[kids[i]].isDir, l, kids[i])]
      ids == [i \in 1..Len(recs) |-> Len(recs[i].id)]
      Sector(i) == (Emitted(ids)[i] - DirRecordLen(ids[i])) \div SectorSize + 1
      In(s) == Ordered({i \in 1..Len(recs) : Sector(i) = s}, LAMBDA i, j : i < j)
  IN [s \in 1..(l.len[d] \div SectorSize) |->
        [kind |-> "records", records |-> [k \in 1..Len(In(s)) |-> recs[In(s)[k]]]]]

PathTable(t, l, msb) ==
  LET dirs == OrderedDirs(t)
      Index(d) == CHOOSE i \in 1..Len(dirs) : dirs[i] = d
      entries == [i \in 1..Len(dirs) |->
                    [id |-> PathTableIdent(t, dirs[i]), lba |-> l.lba[dirs[i]],
                     parent |-> Index(ParentOf(dirs[i]))]]
  IN [s \in 1..((PathTableSize(t) + SectorSize - 1) \div SectorSize) |->
        [kind |-> "pathTable", msb |-> msb, entries |-> entries, part |-> s]]

PrimaryVolumeDescriptor(t, l) ==
  [kind |-> "primary", spaceSize |-> TotalSectors(t, l), pathTableSize |-> PathTableSize(t),
   pathTableL |-> PathTableLLBA, pathTableM |-> PathTableMLBA(t),
   root |-> Record(Self, TRUE, l, << >>)]

FileData(data) ==
  [s \in 1..((data.size + SectorSize - 1) \div SectorSize) |->
     [kind |-> "data", tag |-> data.tag, part |-> s]]

WriteAt(lba, sectors) == [lba |-> lba, sectors |-> sectors]

\* Mutation of WrittenFiles: breadth first, as the directories are.
WrittenFilesByDepth(t) ==
  Ordered(DOMAIN t \ Directories(t),
          LAMBDA p, q : Len(p) < Len(q) \/ (Len(p) = Len(q) /\ IdPathBelow(t, p, q)))

\* WriteTo goes through the tree on its own, depth first as well.
WrittenFiles(t) ==
  Ordered(DOMAIN t \ Directories(t), LAMBDA p, q : IdPathBelow(t, p, q))

\* It writes nothing for an empty file.
FilesWithData(t) ==
  LET files == WrittenFiles(t)
      kept[i \in 0..Len(files)] ==
        IF i = 0 THEN << >>
        ELSE IF t[files[i]].data.size = 0 THEN kept[i - 1]
        ELSE Append(kept[i - 1], files[i])
  IN kept[Len(files)]

\* The writes of WriteTo, in their order.
Writes(t) ==
  LET l == Layout(t)
      dirs == OrderedDirs(t)
      files == FilesWithData(t)
  IN [s \in 1..SystemArea |-> WriteAt(s - 1, <<[kind |-> "zero"]>>)]
     \o << WriteAt(SystemArea, <<PrimaryVolumeDescriptor(t, l)>>),
           WriteAt(SystemArea + 1, <<[kind |-> "terminator"]>>),
           WriteAt(PathTableLLBA, PathTable(t, l, FALSE)),
           WriteAt(PathTableMLBA(t), PathTable(t, l, TRUE)) >>
     \o [i \in 1..Len(dirs) |-> WriteAt(l.lba[dirs[i]], DirectoryExtent(t, l, dirs[i]))]
     \o [i \in 1..Len(files) |-> WriteAt(l.lba[files[i]], FileData(t[files[i]].data))]

---------------------------------------------------------------------------
(* WriteTo *)

WriteTo ==
  /\ plan = << >> /\ writes < MaxWrites
  /\ tree' \in Identified(tree)
  /\ plan' = Writes(tree')
  /\ result' = "none"
  /\ writes' = writes + 1
  /\ UNCHANGED <<sink, adds>>

Written(w, n) ==
  LET new == w.lba..(w.lba + n - 1)
  IN [s \in DOMAIN sink \cup new |-> IF s \in new THEN w.sectors[s - w.lba + 1] ELSE sink[s]]

WriteNext ==
  /\ plan # << >>
  /\ sink' = Written(Head(plan), Len(Head(plan).sectors))
  /\ plan' = Tail(plan)
  /\ result' = IF Len(plan) = 1 THEN "ok" ELSE "none"
  /\ UNCHANGED <<tree, adds, writes>>

\* The writer fails part of the way, and WriteTo returns its error.
WriteFails ==
  /\ plan # << >>
  /\ \E n \in 0..(Len(Head(plan).sectors) - 1) : sink' = Written(Head(plan), n)
  /\ plan' = << >>
  /\ result' = "failed"
  /\ UNCHANGED <<tree, adds, writes>>

Next ==
  \/ \E path \in DirPaths : AddDir(path)
  \/ \E path \in FilePaths, data \in Contents : AddFile(path, data)
  \/ WriteTo
  \/ WriteNext
  \/ WriteFails

Spec == Init /\ [][Next]_vars

---------------------------------------------------------------------------
(* The image as the package's reader sees it *)

SectorsAt(lba, n) ==
  [i \in 1..n |-> IF lba + i - 1 \in DOMAIN sink THEN sink[lba + i - 1] ELSE [kind |-> "missing"]]

\* The records of a directory, as readDirRecords collects them.
Records(dir) ==
  LET sectors == SectorsAt(dir.lba, dir.len \div SectorSize)
      found[i \in 0..Len(sectors)] ==
        IF i = 0 THEN << >>
        ELSE IF sectors[i].kind = "records" THEN found[i - 1] \o sectors[i].records
        ELSE found[i - 1]
  IN found[Len(sectors)]

\* "." and ".." are not listed.
Listed(r) == r.id # Self /\ r.id # Parent

RootRecord == sink[SystemArea].root

Depth == CHOOSE n \in {Len(p) : p \in DOMAIN tree} : \A p \in DOMAIN tree : Len(p) <= n

\* Every record reachable from the root, with the identifiers on the way to it.
Reachable ==
  LET In(e) == {[path |-> Append(e.path, r.id), rec |-> r] : r \in {x \in ToSet(Records(e.rec)) : Listed(x)}}
      seen[i \in 0..(Depth + 1)] ==
        IF i = 0 THEN {[path |-> << >>, rec |-> RootRecord]}
        ELSE seen[i - 1] \cup UNION {In(e) : e \in {x \in seen[i - 1] : x.rec.isDir}}
  IN seen[Depth + 1]

NotFound == [id |-> << >>, isDir |-> FALSE, lba |-> -1, len |-> 0]

\* The entry resolveFrom finds for shown names: the first exact match in each directory.
Lookup(names) ==
  LET Find(rec, name) ==
        LET hits == SelectSeq(Records(rec), LAMBDA r : Listed(r) /\ CleanName(r.id) = name)
        IN IF hits = << >> THEN NotFound ELSE Head(hits)
  IN FoldLeft(Find, RootRecord, names)

---------------------------------------------------------------------------
\* Every variable holds a value of the code's type.
TypeOK ==
  /\ << >> \in DOMAIN tree /\ tree[<< >>].isDir
  /\ \A p \in DOMAIN tree :
       /\ DOMAIN tree[p] = {"isDir", "data", "id"}
       /\ tree[p].isDir \in BOOLEAN
       /\ tree[p].data \in Contents \cup {NoData}
       /\ p # << >> => Front(p) \in DOMAIN tree /\ tree[Front(p)].isDir
  /\ DOMAIN sink \subseteq Nat
  /\ result \in {"none", "ok", "refused", "failed"}
  /\ plan # << >> => result = "none"
  /\ adds \in 0..MaxAdds /\ writes \in 0..MaxWrites

(* create.go:49-50, the image reads back: after a WriteTo that returned    *)
(* nil, the reader finds in the image exactly the nodes of the tree, each  *)
(* under its identifiers and with its data, also when the image still      *)
(* holds sectors of an earlier or a failed attempt.                        *)
ReadsBack ==
  result = "ok" =>
    {[path |-> e.path, isDir |-> e.rec.isDir,
      data |-> IF e.rec.isDir THEN << >>
               ELSE SectorsAt(e.rec.lba, (e.rec.len + SectorSize - 1) \div SectorSize)] :
        e \in Reachable}
    = {[path |-> IdPath(tree, p), isDir |-> tree[p].isDir,
        data |-> IF tree[p].isDir THEN << >> ELSE FileData(tree[p].data)] :
        p \in DOMAIN tree}

\* layout has just run, and WriteTo has not written yet.
LaidOut == plan # << >> /\ Head(plan).lba = 0

(* create.go:236: siblings that collide once uppercased and truncated get  *)
(* identifiers of their own, within the width of level 1, also when some   *)
(* of them keep an identifier from an earlier layout.                      *)
IdentifiersDistinct ==
  LaidOut =>
    /\ \A p, q \in DOMAIN tree \ {<< >>} :
         p # q /\ Front(p) = Front(q) => tree[p].id # tree[q].id
    /\ \A p \in DOMAIN tree \ {<< >>} :
         /\ tree[p].id # << >>
         /\ Len(Stem(CleanName(tree[p].id))) <= NameWidth
         /\ Len(Extension(CleanName(tree[p].id))) <= ExtWidth

EndOf(w) == w.lba + Len(w.sectors)

(* WriteTo and layout agree although each goes through the tree and counts *)
(* the sectors on its own: the writes follow one another without a gap or  *)
(* an overlap, and the last ends where the volume descriptor says the      *)
(* volume ends (create.go:444).                                            *)
WritesAreContiguous ==
  LaidOut =>
    /\ \A i \in 1..(Len(plan) - 1) : EndOf(plan[i]) = plan[i + 1].lba
    /\ EndOf(Last(plan)) = TotalSectors(tree, Layout(tree))

(* ECMA-119 6.9.1 as create.go:250-252 and 360-362 cite it: both path      *)
(* tables name each directory at the extent whose "." and ".." records     *)
(* agree with the table, parents come first, siblings are in order, and    *)
(* the tables are where and as long as the volume descriptor says.         *)
PathTablesAgree ==
  result = "ok" =>
    LET pvd == sink[SystemArea]
        n == (pvd.pathTableSize + SectorSize - 1) \div SectorSize
        table == sink[pvd.pathTableL].entries
    IN /\ \A s \in 1..n : \A at \in {pvd.pathTableL, pvd.pathTableM} :
            sink[at + s - 1] = [kind |-> "pathTable", msb |-> at = pvd.pathTableM,
                                entries |-> table, part |-> s]
       /\ {table[i].lba : i \in 1..Len(table)} = {e.rec.lba : e \in {x \in Reachable : x.rec.isDir}}
       /\ \A i \in 1..Len(table) :
            LET dir == sink[table[i].lba].records IN
            /\ dir[1].id = Self /\ dir[1].lba = table[i].lba
            /\ dir[2].id = Parent /\ dir[2].lba = table[table[i].parent].lba
            /\ i > 1 => table[i].parent < i
       /\ \A i \in 2..(Len(table) - 1) :
            \/ table[i].parent < table[i + 1].parent
            \/ /\ table[i].parent = table[i + 1].parent
               /\ Below(table[i].id, table[i + 1].id)

\* The tree as if no layout had seen it.
Unwritten(t) == [p \in DOMAIN t |-> [t[p] EXCEPT !.id = << >>]]

(* create.go:236, 266: which identifiers a layout puts into a directory is *)
(* decided by the names in it: neither those that nodes keep of an earlier *)
(* layout nor the order the map is iterated in adds or removes one. Which  *)
(* child gets which is not, in general: see IdentifiersDeterministic.      *)
IdentifiersFromNames ==
  plan = << >> =>
    \A d \in Directories(tree) : \A fresh \in Assignments(Unwritten(tree), d) :
      \A ids \in Assignments(tree, d) : Range(ids) = Range(fresh)

(* create.go:236 "Resolve sibling identifier collisions deterministically" *)
(* and 266 "stable, standard-ordered output": whatever order the map of    *)
(* the children is iterated in, each child gets the same identifier.       *)
IdentifiersDeterministic ==
  plan = << >> => \A d \in Directories(tree) : Cardinality(Assignments(tree, d)) = 1

(* create.go:49-50 again, by the names the reader shows: every node of a   *)
(* written tree is found under the name ListDir gives for it.              *)
FoundByShownName ==
  result = "ok" =>
    \A p \in DOMAIN tree :
      Lookup([k \in 1..Len(p) |-> CleanName(IdPath(tree, p)[k])]).lba = Layout(tree).lba[p]
=============================================================================
