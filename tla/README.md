# A verification development for go-filesystems/iso9660

`iso9660` is a Go package that reads ECMA-119 (ISO 9660) images, with Rock
Ridge and Joliet names, and masters new ones. This directory holds TLA+ modules
of its core, the TLC configurations that check them, and theorems about them
whose proofs the TLA+ proof system checks.

## The system

| component | source | state | operations |
|---|---|---|---|
| opening | `volume.go`, `fs.go`, `openreader.go` | the `Volume` being filled, the image handle, the chosen tree | `OpenFile`, `Open`, `OpenReader`, `readVolume`, `chooseTree`, `Close` |
| path resolution | `fs.go` | the recursion of `resolveFrom` | `ReadFile`, `ListDir`, `Stat`, `OpenFile`, `ReadLink` |
| directory records | `dirrecord.go`, `read.go` | none between calls | `parseDirRecord`, `readDirRecords`, `mergeMultiExtent` |
| Rock Ridge / SUSP | `rockridge.go`, `fs.go` | none between calls; in a call, the areas collected so far | `detectSUSPSkip`, `ceEntry`, `collectSUSP`, `parseRockRidge`, `rrFor`, `effectiveName` |
| whole-file read | `read.go` | output buffer and its capacity | `readFile`, `appendAt`, `checkSize`, `checkExtent` |
| random access | `openfile.go` | the placed extents, `closed` | `openRecord`, `ReadAt`, `Size`, `Close` |
| builder | `create.go` | the node tree with the identifiers of the last layout | `AddDir`, `AddFile`, `WriteTo` |
| names | `create.go`, `dirrecord.go`, `fs.go` | none | `isoIdentifier`, `disambiguate`, `cleanName`, `jolietName`, `splitPath` |

How they interact: opening reads the descriptors through an `io.ReaderAt` and
leaves an `FS` with the root record of one of up to three directory trees, and with
the number of bytes to skip in every System Use Area. What a record is called, where a link
leads and what mode a file has is gathered from that area, anew for each call, over
continuation areas anywhere in the image. A call on
a path resolves it record by record, following links, and hands the record
found to `readFile` or `openRecord`. Both read the image through the same
`io.ReaderAt`, which may return short reads, errors, and `io.EOF` with or after
the last byte, and which `FS.Close` may close under them. An open file is shared by
goroutines without a lock. The builder is the other side: the image it writes
through an `io.WriterAt` is what the reader opens.

What is hard here is not concurrency alone (only `isoFile` and the closes are
concurrent). It is that every length is a claim that may be short, long or empty,
that reads and writes fail half way, that an image of unknown size cannot be checked in
advance, that the builder's nodes carry state from one `WriteTo` to the next, that
the builder computes every place twice, that links recurse, and that a name is
put together from areas any of which may be missing, without an error. `PROJECT.json`
lists the hazards at their lines, each with the properties that cover it.

What makes the components correct: reads return the file's bytes and honest
errors; claims never cost memory or lead to a panic; an opened image has a complete
descriptor set; a directory is listed as it was mastered; a lookup means what its path says and returns; a written image
reads back.

## Modules

| module | models |
|---|---|
| `Image` | a record, its extents, the bytes they hold, and the `io.ReaderAt` contract of the backing reader (external) |
| `ReaderAt` | the promise of an open file: each call is answered in one step from one fixed content |
| `IsoFile` | `openfile.go`; implements `ReaderAt` |
| `ReadFile` | `readFile` and `appendAt` |
| `Names` | the conversions of names and identifiers, on sequences of characters |
| `Builder` | `create.go`, and the written image as the reader sees it |
| `DirRecords` | `readDirRecords`, `parseDirRecord` and `mergeMultiExtent` |
| `PathWalk` | what a path means: one list of components in which a link is replaced by its target |
| `Resolve` | `resolveFrom` with its frames, and the calls above it; implements `PathWalk` |
| `RockRidge` | the System Use Area, byte by byte: SUSP entries, and the attributes read from them |
| `Mastering` | not in the code: the entries a mastering tool writes into System Use Areas, their bytes, and what they say |
| `Opening` | the descriptor scan, the choice of the tree, and the life of the image file |
| `Listing` | `ListDir` of the root of an image that `Opening` opened, through `collectSUSP`; composes `Opening`, `RockRidge` and `Names` |
| `ImageLemmas`, `DataLemmas` | lemmas the proofs share: reading the image; sequences, finite sets and recursive functions |
| `IsoFileProofs`, `ReadFileProofs`, `OpeningProofs`, `ResolveProofs`, `DirRecordsProofs`, `BuilderProofs` | theorems and their proofs |
| `MC*` | the instances TLC checks |

### Image, IsoFile, ReaderAt

A byte of the image is its address in the image, so a wrong byte can never
compare equal to the right one; zero bytes the driver fills in are `Zero`. The variable
`start` is not in the code: it holds where each extent begins in the file
according to ECMA-119 6.5.1, and the properties compare the code's result with it.
Between records and the code lies nothing else: `placed`, `covered`, `closed` are
`f.extents`, `f.covered`, `f.closed`; one `PlaceExtent` is one iteration of
`openRecord`'s loop; one `ReadAtStep` is one iteration of `ReadAt`'s loop, with at most
one read of the image. An iteration reads only fields that never change and its
own buffer, so it may be one step; `Close` and `CloseImage` fall between
any two. `f.extents[i]` would panic if the search found nothing: `NoGap` says it
always finds the byte's extent.

`KeepsPromise` is the refinement: `ReadAt` spread over many reads of the image
answers as if it had been served in one step, also when the file is closed
meanwhile (`closed` is read once, at the beginning, so a call that began before
`Close` may still answer with data).

### ReadFile

`CheckRecord`, `ValidateExtent`, `Reserve`, `AppendAt` and `ReturnData` are the parts of
`readFile` in order; `AppendAt` is one iteration of `appendAt` or its return.
`Grow` gives `slices.Grow` the freedom its documentation leaves: any capacity that is
enough, by as much more (`Spare`) as the runtime likes. Since a larger capacity makes later
steps longer, the run takes several. `asked`, not in the code, is what `make` and
`slices.Grow` were asked for: this is what the code decides, and what `AskedBounded` bounds.

### Names and Builder

Collisions, their resolution and the order of records are decided by strings, so
`Names` keeps them as sequences of characters of a small alphabet in byte order and
translates the conversions one for one. `NameWidth` and `ExtWidth` are the 8 and 3 of level 1.
Where bytes matter, in Rock Ridge and Joliet names, `Codes` gives the characters their ASCII codes.
In the run `builder` `NameWidth` is 2, so that bases are truncated and collide.
`Decimal` writes the number of a variant, of any length, as `Sprintf` does.

In `Builder`, `tree` is `b.root` by path. A node keeps `id` from layout to layout;
extents are a function of the identified tree (`Layout`), since each
layout computes all of them anew. The iteration order of the children map
is the choice of a permutation in `SortedChildren`, which then sorts by insertion, as
`sort.Slice` does up to twelve elements, with the comparison of the code. `WriteTo` is
layout and the list of writes it will do; `WriteNext` does one of them; `WriteFails`
lands a prefix of one and returns the error. `sink` survives: a later `WriteTo` writes
over it. Sectors hold values (records, table parts, file parts) instead of bytes,
each placed by the code's own arithmetic on record lengths; uint32 arithmetic is
taken modulo `Word`. Timestamps and text fields of the volume descriptor are left out.

What the code computes twice is two definitions here, so that they can disagree: `Fit` pads the records of
a directory in `directoryExtentSize`, `EmitAt` in `directoryExtent`; `OrderedFiles` is the order of
`layout`, `WrittenFiles` that of `WriteTo`.

### DirRecords

The bytes of an extent are cells: zero, the first byte of a record with what
`parseDirRecord` decodes there, or a byte inside one. `pos` moves as in the code, so
a record may cross a sector and padding is skipped from wherever it begins.
`Legible` leaves out extents in which the skip would land inside a record (one that crosses
a sector behind padding). The read of the extent gives all of it or an error; how `appendAt` reads
is in `ReadFile`. `run` is `merged` with the records gathered for it, and `total` the sum of their sizes.
The two guards of the loop that can never hold (`read.go:131, 141`) are left out.

The promise is stated without either loop. `Recorded` says by positions which records the directory holds, and
`FileEndingAt` by neighbours which of them are one file: a record that is no directory's and has the
flag goes on in the next (`GoesOn`), and a directory is an entry on its own, as the comment at `read.go:163` has it.
`Tells` is what the caller must be told of a file. `Permitted`, `Malformation` and `Sound` are the
limits on the extent, the shape of its records, and what makes its files complete: `RefusesExactlyDamage` says that
all three hold of what is returned, and that one of them fails of what is refused as corrupt.

The code departs from this in one case. A file that lacks its last record, in front of a directory
with the same identifier, takes the directory for its next extent (`read.go:178` compares identifiers
only), and what is returned is one record of a directory's kind with the extents of both. `DirectoriesApart` excludes
these directories, and only these, from what is said of a returned list; without it `KeepsEveryExtent` and
`RefusesExactlyDamage` are false. The run contains them, and the hazards list the case.

### PathWalk and Resolve

A frame of `stack` is a call of `resolveFrom`. Directories are sequences of
records in image order, already parsed, and the first match counts. `Faults` lets the
read of a directory fail at any component. The promise `PathWalk` has neither frames nor a
recursion; it may give up only after more than `MaxHops` links.

### RockRidge, Opening and Listing

A descriptor is what `readVolume` looks at in its sector, with the records of the
directory its root record leads to. `pvd` and `joliet` hold which descriptor the root
records were taken from. `ChooseTree` includes the read of the primary root by `primarySUSP`,
whose failure reads as "no Rock Ridge". `handle` is the file `OpenFile` opened, or the
reader a caller passed in.

System Use Areas are sequences of bytes, and entries are cut from them by the lengths
they claim, as the three loops of `rockridge.go` do (`Of`). `Bytes` is the image, as far as
continuation areas lie in it. One `FollowArea` is one iteration of `collectSUSP`, with its
one read; `AreaUnreadable` is its break on an error. `Close` may come between any two.
`Show` is what `ListDir` makes of the record. Its `rr` keeps the mode and the target as well,
which `Stat` and `ReadLink` get from the same `rrFor`.

Two things are not in the code: what a record was mastered from (`name`, `link`, `mode`, and the entries
`written` for it, area by area), and `cut`, whether an area could not be read. `Mastering` is the other side of
the format, as SUSP and RRIP have it: `Bytewise` writes entries one behind another, each with its signature,
length and payload, numbers in both byte orders; `SaidName`, `SaidMode` and `SaidLink` are what a list of entries
says, whatever else stands between them; `Spelled` writes a link with a slash between components.

`Sound(f)` relates the two: each area of the record, the first in its System Use Area, the others in the image
where the `CE` entry of the one before leads (`AreaAt`), behind as many bytes as were to be skipped (`Lead`), holds the bytes of its entries (`Writable`: each fits the
byte its length has) and perhaps one zero byte; there are no more areas than the code follows; together they
say the record's link and mode, and its name, or say no name and its identifier stands for it.
`Lead` is LEN_SKP as the `SP` entry of the root's "." record was mastered, and none in a Joliet tree (`LeadWritten`); it is not the
`suspSkip` that `detectSUSPSkip` found, so that a wrong detection, or a skip applied in the wrong tree, shows. `Aligned(f)` says that the
zero byte is behind none but the last area. `ListsAsMastered` asks that each such record be shown with name,
target and mode as mastered (`Aligned` is what `listing_padded` shows to be needed). `ShortenedAtWorst` is about
records one of whose areas could not be read: their names and targets. Of their mode nothing is promised, since the lost area
may hold it. Of other records only the types, their place
in the list, `ListReturns` and `AttributesAreTheRecords` are asked. The run has both kinds.

## Runs

| run | result | what it shows |
|---|---|---|
| `isofile` | holds | contract, bytes, placement, refinement and the return of every call of shared random access |
| `isofile_eager` | violated | `io.EOF` with the last byte makes a complete read fail |
| `readfile` | holds | whole-file reads: bytes, memory, completeness of the validation |
| `readfile_sentinel` | violated | a known size equal to the unknown-size ceiling is not checked |
| `builder` | holds | images read back, over stale sinks too; places, path tables, identifiers distinct and decided by names |
| `builder_order` | violated | identifiers depend on map order after an edit |
| `builder_shadow` | violated | a directory hides a file whose name differs in case |
| `builder_wide` | violated | uint32 wrap: a file near 4 GiB is given no sectors |
| `resolve` | holds | `resolveFrom` means the path with its links replaced, returns, and follows no more links than its bound on depth allows |
| `dirrecords` | holds | each record read once, each file with all its extents, exactly damage refused (but for `DirectoriesApart`) |
| `listing` | holds | exactly the complete descriptor sets open; precedence; no leaked file; directories are listed as mastered in all three trees, over continuation areas, failing reads and a close |
| `listing_padded` | violated | a padded record loses the attributes in its continuation area |

### What the violations mean

* `isofile_eager`. `openfile.go:136` promises that `p` is filled with a nil error
  whenever the bytes exist. `io.ReaderAt` lets a reader return `io.EOF` with a full read at
  the end of its source; `ReadAt` (`openfile.go:185`) then returns an error.
  `appendAt` (`read.go:92`) handles the same answer.
* `readfile_sentinel`. `sizeUnknown` (`read.go:61`) compares with 1 GiB, which is also
  the size of an image of exactly 1 GiB: its extents are not checked.
* `builder_order`. `create.go:236` promises determinism. After a `WriteTo` the old
  children are compared by identifier and new ones by name (`create.go:275-281`), which
  can be cyclic: a_b before B (identifiers), B before a-b and a-b before a_b (names).
* `builder_shadow`. `C` (directory) and `C;1` (file) are distinct identifiers
  with one shown name.
* `builder_wide`. `sectorsFor` (`create.go:505`) wraps for sizes of 2^32-2047 and more;
  the run scales the word to 2^10 and the file to 1000 bytes.
* `listing_padded`. A record may end in a zero byte that makes its length even, behind a System Use Area of
  odd length, and `dirrecord.go:78` keeps that byte. `collectSUSP` (`fs.go:107`) appends the next area
  behind it, where `parseRockRidge` takes it for the beginning of an entry and stops. `fs.go:83` promises that
  names and targets are not truncated. (The comment at `rockridge.go:23` says that CE is
  not decoded at all; the code decodes it.)

`fs.go:156` calls `maxSymlinkHops` a bound per lookup. It bounds the depth of the
recursion; `WorkBounded` states what that leaves: with targets of w components, a number of links
that grows with w to the power of `MaxHops`. Run `resolve` reaches it.

### Bounds, and why they are enough

* `isofile`: two callers (every pair of overlapping calls; nothing is
  shared between calls but fields that `Close` and `openRecord` write), a 10-byte image of
  4-byte blocks cut inside its last block, seven records (one extent ending at the last byte,
  one past it, empty, directory, out-of-order with an empty extent, short of the size,
  overrunning it), sizes unknown, too small and true, offsets before, at, inside
  and past the end, lengths that cross two extents. `MaxOffset` bounds `start` only.
* `readfile`: ten records of the same kinds and two about the ceilings; sizes unknown,
  smaller by much and by one, true, and larger; growth begins at one byte so that a
  read doubles several times; each growth leaves room for no more bytes than asked, for one, for three, or for more than any file.
* `builder`: three additions and two writes in any order, so every tree of up
  to three additions is also edited after a write or a failed write. Sectors are 104
  bytes: ".", ".." and the record of the file `B` fill one exactly, and
  two children need a second; the 16 sectors of the system area are two. Contents are
  empty or two sectors long. Names are chosen to collide (`a_b`, `a-b`) and to
  change places when sorted by identifier (`a_b`, `B`). `Word` is far above every size except
  in `builder_wide`.
* `resolve`: all paths of up to three components over seven names, a hop limit of two,
  and links that exceed it in depth and in number. On the second image each link leads through two
  others, so that the bound on the number of links is met.
* `dirrecords`: all sequences of up to three of ten items (parts of runs, single records, directories,
  three kinds of malformed records, padding), and of four of the five that runs are made of; each as it is,
  without its last byte, and padded to two sectors; sectors of five bytes and records of two or three, so
  every alignment occurs; sizes of which two fit the size field and three do not. Besides, extents that are
  no directory's, that end at or past the end of the image, and that are as long as `MaxDirExtent` (25 bytes here) or a byte
  longer, the last two readable as a whole.
* `listing`: every sequence of up to four descriptors of eleven kinds, with a scan bound of three, so
  that the bound, the end of the image and the terminator each come first; and 17 images with records to
  list. Blocks are 64 bytes and `MaxAreas` is 4: the chains are one, two and three areas long, and one leads back to
  itself and meets the bound. Records have a name in one area or in three, targets with
  root, "." and ".." and a component split over two areas, a mode behind them, entries that claim too much,
  areas longer than a block and past the image, and bytes to skip.
* `listing_padded`: two of the same images, with a padded record.

Deadlock is checked for `isofile`, whose callers call for ever. It says little there, since a close is
always possible; that calls end is what `EveryCallReturns` says. The other systems stop:
a read, the reading of a directory, a lookup and a listing end, and the builder's calls are bounded.

### Fairness

`IsoFile` assumes that a `ReadAt` that is in its loop keeps running (weak
fairness of each `ReadAtStep(c)`): a goroutine is scheduled, and a
read of the image returns. Nothing obliges a caller to call, or anyone to close. `openRecord` needs no
fairness: its loop is over a slice in memory, and no property is about its end.
`ReadFile`, `DirRecords`, `Resolve`, `Opening` and `Listing` are sequential, and weak fairness of their own step says
that the code runs on. In `Resolve` and `Opening` the failing reads are outside the fair step: a call
must return although no read ever fails. `ListSpec` has weak fairness of the opening's step and of the listing's,
each for itself, so that a `Close`, which nothing obliges, is no progress of either. The builder has no liveness property.

## Proofs

All theorems are about every value of the constants that the assumptions admit:
any block size, image length, set of records, declared sizes, callers, offsets and
lengths, `io.EOF` with or after the last byte, and faults or none; any directory, image of
directories and links, path and bound on hops; any names, contents and number of calls of the builder.

`ImageAssumption`, `IsoFileAssumption`, `ReadFileAssumption`, `OpeningAssumption`, `ListingAssumption` and
`NamesAssumption` only type the constants. Three say more:

* `ResolveAssumption`: a root is a directory, an image has finitely many directories, and the records of each
  are a sequence, as `readDirRecords` returns it. The code does not check the first (`volume.go:67`): `Opening` and `Listing` have
  roots that are none, which every lookup of a path with a component refuses.
* `DirRecordsAssumption`: the cells of an extent fit together (`Legible`, see above), and an extent has no more
  cells than its record says.
* `BuilderAssumption`: the decimal of every number up to `MaxAdds` is shorter than `NameWidth`. In the code bases have
  eight characters, so that this says: fewer than 10^7 additions. The tilde and the number of a variant then fit into a base.

* `ImageLemmas` has what the proofs about reading need: what `SourceRead` may return, which byte of
  the file an address of an extent is, and what appending to a sequence does.
* `IsoFileProofs`: `IInv` extends the type invariant with what `openRecord` has done
  so far: each placed extent is at its `start`, the extents passed over without being placed
  are empty, `covered` is the start of the next extent, and the placed extents
  partition the bytes below `covered`. Without the partition (`NoGap`, `PlacedInOrder`)
  `DeliversTheFile` is not inductive: the search could miss. For each call it says that the buffer
  holds the file's bytes from `off` on and stays within `p` and the file.
  From it follow `TypeCorrect`, `ReadsDeliverTheFile`, `ReadsKeepTheContract`,
  `SearchNeverPanics` and `ExtentsPlacedInOrder`. `ReadsAreFilled` has the
  hypothesis `EagerEOF = FALSE`, without which run `isofile_eager` refutes it.
* `ReadFileProofs`: `IInv` ties `Len(data)` to `start[next] + done`, bounds what was
  asked for by what was delivered, whatever capacity was given, and keeps what validation established about the
  extents while they are read. From it follow `TypeCorrect`, `ReadFileReturnsTheFile`,
  `ResliceNeverPanics`, `MemoryIsBounded` and `ValidatedReadsAreWhole`;
  `KnownSizesAreChecked` has the hypothesis that no declared size is the
  ceiling, without which run `readfile_sentinel` refutes it.

* `IsoFileProofs` again: the detailed `IsoFile` implements `ReaderAt` (`PromiseKept`). The mapping takes a call in its
  loop to a pending one that shows nothing, and the content to what the extents hold. `IInv` of `IsoFileProofs`
  says of each byte where it comes from; `DeliveredIsSlice` turns this into "a slice of the content", with
  `NoGap` for the bytes no extent holds. Each action then maps to one of the promise or to a stutter:
  iterations that stay in the loop and the closing of the image are hidden, the one that ends the loop is the
  answer, and the entry of a call is where `closed` is looked at, in both.
* `ResolveProofs`: `IInv` is `TypeInv`, `Following` and `WorkLeft`. `Following` says of every frame of the recursion that
  it follows final links, unless it is the outermost of a `ReadLink`, and that a frame that does never rests on a
  link. The record a nested frame returns is put into the frame below, so the property of the outermost frame
  alone is not inductive. From it follows `LinksAreFollowed`. `WorkLeft` gives each frame a budget: a frame `d` levels below the bound can
  still lead to `Cost(d)` links for each of its components, and what was followed plus what all frames may still lead to stays
  within the bound. A link moves one component's budget into a new frame, one level deeper, whose target has at
  most the widest target's components (`WorkIsBounded`, links in cycles included).
  `RecursionWalksThePath` is the refinement of `PathWalk`: its list of components is what is left in the frames, from the
  innermost out (`TodoSplits`). A step of the top frame walks the head of that list; entering a link replaces the head by
  the target; a return takes an empty frame off and changes nothing the promise sees. The subtle part is the last component:
  the code follows it by the frame's own `followFinal`, the promise by whether anything is left
  in any frame, and `FollowsAsReplaced` shows from `Following` that these are the same.
* `DirRecordsProofs`: while the extent is parsed, `IInv` says that `raw` are the records recorded before `pos`, in order
  (`ParsedSoFar`), and that `pos` is never inside a record (`AtBoundary`: within its sector only records precede it, which is where
  `Legible` is needed). While runs are merged, it says that `out` are the files that end before `next`, each with all its
  extents and its total size (`ReturnedTo`), and that `run` is the part before `next` of the file `next`
  belongs to, or that no run is open (`InRun`, `BetweenRuns`). `Recorded` and `FileEndingAt` speak of positions and
  neighbours, so each step has to be counted: `Before(p)`, a cardinality, places a record in the list.
  `Blamed` keeps why a directory was refused: an extent not `Permitted`, a `Malformation`, or a run whose records, by
  neighbours, lack a last one or outgrow the size field. From these follow `DirRecordsTyped`, `EveryRecordIsRead`,
  `EveryExtentIsKept` and `OnlyDamageIsRefused`, for every directory, sector size and bound.
* `BuilderProofs`, identifiers. `IInv` says that no directory has more children than there were additions, that nodes
  keep valid identifiers of level 1 once they have one, and that the tree a running `WriteTo` writes has distinct ones. `assignIdentifiers` takes the first of
  the base and its variants that no sibling has. That there is one is a counting argument: the decimals of different numbers differ, so
  do the variants, also after the base is cut and trailing characters are cleaned; there are as many variants as children, and each sibling
  takes away one at most. `IdentifiersAreDistinct` covers a layout in which some siblings
  keep identifiers of an earlier one.
* `BuilderProofs`, places. Distinct identifiers make the order of children, and of paths (`IdPathBelow`), a strict total order.
  So `OrderedDirs` and `OrderedFiles` list every node once, and the recursive `next` of `Layout` gives each the
  sectors behind those of the node before it. `Writes` lists the same nodes, each as long as its own
  bytes, which is as long as layout assumed when `directoryExtentSize` and `sectorsFor` do not wrap (`SizesFit`).
  The plan of a `WriteTo` is therefore a chain from sector 0 to `TotalSectors`. `WInv` says that what is left of a running `WriteTo` is the
  end of such a chain, after any prefix and any failed earlier `WriteTo`. `WritesFollowOneAnother` has the hypothesis
  `SizesFit`, without which run `builder_wide` refutes it; `BuilderTyped` has none.
* `BuilderProofs`, the image. `ImageInv` says that the writes a running `WriteTo` has done are in the sink, whole, and that
  all of them are once it returned nil and until the tree changes. It is kept because every later write begins behind them
  (the chain of `WInv`), whatever an earlier or a failed attempt left there. What the reader finds follows in three steps.
  A directory's sectors hold the rows of "." and "..", and of its children, each in the sector
  its place falls into (`ExtentIs`); together the sectors hold each row, so `Records` gives exactly these.
  A child's record has the place that the same layout gave the child, so the next level is read from the right sectors:
  the search up to a depth finds the nodes up to that depth, by their identifiers, and ends at the deepest node.
  And the sectors of a file are the ones its own write filled. This gives `ImageReadsBack`. For the path tables,
  `OrderedDirs` lists a directory behind its parent and siblings in the order of their identifiers, so the number of
  the parent is that of an earlier entry, and "." and ".." are the first two records of the first sector of the directory.
  `PathTablesNameDirectories` states this under `DotsFit`: two records of 34 bytes fit into a sector
  (`sectorSize` is 2048), since `PathTablesAgree` looks for both there.
  Both theorems have the hypothesis `SizesFit`; with a size that wraps, a file's later sectors are written over.
* `OpeningProofs`: `IInv` says of the descriptors before the sector that the scan may pass
  them (`Scanned`) and that `pvd` and `joliet` are the last of their kinds among them; `Verdict` says what a failure
  and an acceptance mean for the set, `HandleKept` who holds the file. `Listing` takes only steps of `Opening` or none
  (`ListingImplementsOpening`), so the first four theorems hold of `ListSpec`, which the run checks. That only one sector
  can end the set is what makes "the last before the terminator" of `PicksOneDescriptor` well defined.

  For `ListDir`, `Chain` gives the areas of a record from the bytes of the image alone, one after another, and `UpTo` what
  the first of them hold together. `LInv` says that while `collectSUSP` runs, `susp` and `cur` are these two at the area
  it is at, and that every area before could be followed (`Followed`); that every entry shown was parsed from such a
  prefix, which ends where the chain ends, at the bound, or at a read that failed (`Shows`); and how many entries there are
  at each stage (`Counted`). A close changes none of what these depend on (`OpenedStays`). The payloads
  of the entries of an area are bytes, as many as its reader asks for (`PayloadsTyped`), so no index of `ceEntry` or
  `detectSUSPSkip` is out of range and the numbers they form are bytes and uint16. This
  gives `ListingTyped`, `EveryRecordIsListed` (the first conjunct of `ListsAsMastered`) and `AttributesAreTheRecords`,
  for every image, byte by byte.

  `ShownAsItWasMastered` and `CutIsABeginning` state `ListsAsMastered` and `ShortenedAtWorst` for every image, entry and number
  of areas. They follow from `Shows` and from what the reader makes of areas that were written entry by entry:

  * Bytes are read back. A walk over the bytes of an entry and what follows it finds its payload, if it has the
    signature, and goes on behind it (`OfIs`, `OfBehind`); so `Of` finds in `Bytewise(w)`, padded by a byte or not, the payloads of
    the entries of a signature, in their order and no others (`OfWritten`). The same for the components of a link
    (`ComponentsBehind`, `EncodedRead`). From the payloads the numbers come back (`BothRead`), so `CEEntry` is the `CE` entry
    that was written (`ContinuationRead`), and `ParseRockRidge` has the name, mode and components the entries say (`RockRidgeRead`).
  * Links are spelled. `TargetSpelled` has the invariant of the loop over components: what it has put together so far, with the
    component it is in, is how the components so far are spelled; at the end of a component nothing is left over.
  * Names come out of identifiers. Cut at the first ";" and at a dot before it, each identifier that stands for a name gives the name
    (`NameShown`), in a Joliet tree after the high bytes were dropped (`WideRead`).
  * The skip is the one that was mastered. `detectSUSPSkip` reads LEN_SKP out of an area of written entries (`SkipRead`), only
    `chooseTree` sets it (`SkipKept`), and for the Joliet and base trees it stays zero; so it is `Lead` (`LeadIs`).
  * Areas are followed. The chain from a sound record is its areas in order (`ChainWritten`), and what was gathered up to one of them is
    the bytes of the entries of all so far (`UpToWritten`); so a listing that was not cut has them all, and
    one that was cut has the first of them (`AreasGathered`). What the first entries say is a beginning
    of what all say, for names (`NameJoin`) and links (`LinkJoin`, `SpelledJoin`).

Recursive functions are reasoned about without an induction rule over operators: `DataLemmas` has
`LeastNatural` (a nonempty set of naturals has a least element), from it `StaysIn`, `StaysEqual` and `InductionTo` for sets and
functions, and `RecursionExists`, which builds a recursive function from its steps one value at a time; a definition by
`CHOOSE` then is that function. `WalkExists` and `WalkStays` do the same for a function that is defined by its own value at
a later offset, as the loops over entries are (`Of`): every entry has at least four bytes, so the offsets grow.

Only model-checked are

* the liveness properties, which need fairness and ENABLED;
* `IdentifiersFromNames`: the set of identifiers a layout gives to the children of a directory depends on their names only. Which child
  keeps which identifier may change: after an edit, as `builder_order` shows, and from the tenth
  variant of a base on even without one (`~10` sorts before `~2`; see the hazards). No property claims that a tree
  written again keeps its identifiers.

## Not modelled

* The mutating methods: each returns `ErrReadOnly` and changes nothing. `Size`, timestamps and descriptive fields.
* Surrogate pairs in Joliet names: a character is two bytes. CL, PL and RE entries: the code does not look at them.
* Directories below the root in `Listing`, and the areas of records in `Resolve`: `Resolve` takes each directory as
  parsed, with the names and kinds that `rrFor` gives in `Listing`. `Builder` reads back the records
  of each sector, as `DirRecords` shows the parser to find them.
* More than 65535 directories, where the parent index of the path table is cut (`create.go:377`).
* A write that tears a sector: the next `WriteTo` overwrites it whole.
* More than twelve children of a directory, where `sort.Slice` stops sorting by insertion, and variants whose number
  is as long as a whole base.

## Plan

Done: every component but the mutating methods, and theorems about all of them. What is left:

* `DirRecords` composed with `IsoFile`: the extents of a merged record.
* A run of its own for a directory that a run of records reaches under its identifier (`read.go:178`).
