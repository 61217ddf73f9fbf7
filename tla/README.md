# finspect in TLA+

finspect mounts storage back ends (the local disk, S3 buckets, Google Drive) into one
virtual file system, copies, moves and lists files across them, and keeps a searchable
record of their metadata. This directory holds TLA+ models of its logic, the TLC
configurations that check them, and proofs that TLAPS checks.

1. [The system](#1-the-system)
2. [Modules](#2-modules)
3. [Runs](#3-runs)
4. [Fairness](#4-fairness)
5. [Proofs](#5-proofs)
6. [Where the code and its documentation disagree](#6-where-the-code-and-its-documentation-disagree)
7. [What is not modelled](#7-what-is-not-modelled)
8. [Plan](#8-plan)

## 1. The system

| Component | Source | State | Operations | Hard behaviour | What makes it correct |
|---|---|---|---|---|---|
| Router | `pkg/vfs/router.go` | `mounts` (map), `paths` (list, longest first), `closed` | `Mount`, `Unmount`, `Close`; 17 operations on paths, each resolved to an adaptor | lookups hold a read lock and the adaptor is called after it is released; `Rename` and `ReadDir` look twice | the list agrees with the map; answers are those of some table in force; nothing reaches an adaptor after `Close` |
| Metadata service | `pkg/metadata/service.go` | cache with a five-minute life, SQLite rows, full-text documents | `Extract`, `GetOrExtract`, `Store`, `StoreWithContent`, `Delete`, `UpdateDirectory`, `Walk`, `ClearCache` | no lock is held across file, store and index; the file changes meanwhile; crashes between the places | rows that look current are whole; rows converge; `Delete` forgets; walks visit all and end |
| SQLite store | `pkg/metadata/sqlite_store_*.go` | the `metadata` table and its FTS index | `Get`, `Put`, `Delete`, `BatchPut`, `BatchDelete`, `Search` | triggers that keep a second table; ids; filters as SQL | a text search misses no row and finds none that never had the word |
| Search index | `pkg/search/bleve_index.go` | bleve documents | `Index`, `IndexWithContent`, `Delete`, `BatchIndex`, `Search` | separate from the store; the same filters written again | the two searches select the same |
| Extractors | `pkg/metadata/extractors.go` | none | hashes, media type, text | – | – |
| File watcher | `adaptors/filesystem/watcher.go` | `watches` (map), one goroutine per watch, the kernel's queue | `Watch`, `Unwatch`, `Disconnect`, the goroutine `run` | a tree that changes while it is added; a consumer that stops; stopping a blocked goroutine | nothing outlives its watch; every directory is covered; stopping returns |
| Local adaptor | `adaptors/filesystem/filesystem.go` | `connected` | one system call each | – | – |
| Cloud wrapper | `adaptors/cloud/vfs_wrapper.go` | handles with a buffer | `Create`, `Write`, `Close` (uploads), `RemoveAll`, `ReadDir` | the upload happens in `Close`; everything is several requests | what was written is uploaded; `RemoveAll` clears |
| S3 adaptor | `adaptors/s3/s3.go` | objects, keys without directories | `Stat`, `List`, `Read`, `Write`, `Delete`, `Move`, `Copy`, `CreateDirectory` | listings in pages, copy then delete, markers for directories | a move keeps the file; a listing has what stays |
| Google Drive adaptor | `adaptors/googledrive/googledrive.go` | files with parents, names not unique | the same interface | each name of a path is a request; check-then-create of folders; a lookup whose error is ignored | a name comes to denote two files in known ways only; a call nothing disturbs does what its path says |
| Copy command | `cmd/finspect/cp.go` | none but its place in the tree | `copyFile` piece by piece, `copyDirectory` | errors in a deferred `Close`; trees that change, or hold their own copy | success means that files are whole; nothing else is touched |
| Move and remove commands | `cmd/finspect/{mv,rm}.go` | none | looks, then `Rename`, `Remove` or `RemoveAll` | check-then-act; errors of `Stat` taken for "not there" | nothing is lost but what came in between; what is said to be gone is gone |
| Saved mounts | `cmd/finspect/{main,vfs,mount}.go` | mounts in `~/.finspect/config.yaml`, viper's copy, the router of the session | `initConfig`, `loadMounts`, `mount`, `saveMountConfig` | sessions that overlap; a file written in place; keys viper rewrites; a map's order | a saved mount stays; what can be mounted is |
| Configuration | `pkg/config`, `cmd/finspect/config.go` | the files on the search path | `Load`, `LoadOrCreate`, `Validate`, `MergeEnvironment`, `GetMount`; `config init`, `show`, `validate`, `path` | the order of these; look-then-create; two formats | what is said to be valid is; what is there is kept |
| Other commands | `cmd/finspect/{ls,stat,search,metadata,...}.go` | none | one operation each, and output | – | – |
| Path helpers | `internal/pathutil` | none | pure functions that no package calls | – | – |

How they interact: a command asks the router; the router resolves the path and calls an
adaptor with the rest of it; a cloud adaptor is an object store behind the wrapper, which
turns handles and directories into requests. The metadata service is given an adaptor
directly, reads files through it and keeps rows in SQLite and documents in bleve. The
watcher sends events on a channel its caller owns. `PROJECT.json` lists, under `hazards`,
the places where this is hard to test, each with the properties that watch it.

## 2. Modules

A module `X` is the model of a component: its state as VARIABLES, `Init`, one action for
each operation or atomic step of one, `Next`, `Spec`. `XProps` states the properties,
`MCX` gives the constants their small values, and `XProofs` holds the proofs; those of
`MetadataTree` and `MetadataSearch` are in `MetadataServiceProofs`, and those of `FileCopy` in
`CommandsProofs`. Definitions
marked "Fault of D" next to a definition `D` are never part of a specification: they are
`D` with a bug one could have written, and each is put in place of `D` once to see that the
property it breaks really is broken.

### VFSPath, MountTable, Router

A cleaned path is the sequence of its components, so the three conditions of `resolve`
(equal, or starts with mount + "/", or the mount is "/") are all "is a prefix of", and
`RelPath` keeps whether the rest starts with a slash (under the root mount it does not).
`path.Clean` is the constant `Clean` from the strings callers pass to paths, or to
`Relative` for a string that is not absolute.

`MountTable` is what is promised: a map changed atomically, in which the longest mount
point above a path owns it. There is no list in it. `Router` is the code: `mounts` and
`paths` are the two fields, `Mount` appends and sorts (`sort.Slice` is not stable, so any
arrangement that is longest first), `Unmount` removes the first occurrence, `Resolve`
takes the first entry of the list that covers the path. Operations that resolve once are
one action, `LookOnce`: the lock makes their look atomic, and the adaptor is called
without it. `Needs` has the capabilities each one asks for. `Rename` is `RenameOld` and
`RenameNew`, `ReadDir` is `ReadDirLook` followed by `ReadDirList` or `ReadDirResolve`;
the table changes between them. `legal` is history: the answers that the tables in force
during a call would give. `ListMounts` only reads, and is left out.

### MetadataService, MetadataTree

Every access to the file, the cache, the store and the index is a step of its own, in the
order the code makes them. A file is a version number, each with a ModTime of its own;
metadata is the version `Stat` saw and the version the extractors read, so that a row that
mixes two versions can be told. A failed read leaves the metadata of `Stat`. An expired
cache entry stays in the code's map, where nobody heeds it, and is dropped from the model's
by `Expire`. `Restart` ends the process in the middle of any call.

`MetadataTree` extends it with `Walk` and `UpdateDirectory`. The recursion is the stack
`trip.frames`, one frame for each directory: the names listed and not yet dealt with, and,
for `UpdateDirectory`, the batch. The order of entries is the adaptor's, so any. `fn` may
stop a walk at any call. Files come and go at any step, `Stat` and `ReadDir` may fail on what is there, and
`BatchPut` is one transaction. `told` is history: the paths whose failure was handed to `fn` or warned about.

### MetadataSearch

The metadata table, the FTS5 index that triggers keep beside it in builds with `fts5`, and the
documents of bleve; then the searches over them, as operators. A text is a set of words and a query
asks for one word or none; strings matter only where the two searches treat them differently, which the
constants say: `Like` (a prefix as a LIKE pattern) and `StartsWith`, `TagWords` and `JSONWords` (the words of
a tag and those of its JSON, which is what the tables have), `TagLike` (a tag looked for in the JSON of a
row's tags), `Occurs` (a word as part of another). FTS5 with external content takes the words it
is to drop from the content table, which the triggers let change first, so `Triggered` only adds words.
The ids of rows are what ties the index to the table: `Ids` is given out once, as AUTOINCREMENT does.
Modification times and `IsDir` are filters like the others and left out, and so are the order of answers
and their number. `had` is history. Since one module reasons about the service and about this one, names
that both would have are told apart here: `SearchSpec`, `Records` for metadata, `BatchPutRows`.

### Watcher

The adaptor's methods are called by one goroutine at a time (it has no lock, and no caller
in the repository shares it). The watch goroutine is `TakeEvent`, `SendEvent`, `StatCreated`,
`Expand` and `Exit`, with its two selects as the stages `idle` and `send`. `addRecursive`
is `filepath.Walk`, one step at a time, with the work left in `todo`: a visit looks at a directory and
reads the names in it, and the callback then adds it. Either may fail on a directory that is there, and
the code skips it. `missed` is history: the directories skipped, and those created in a directory whose
names had been read and which was not yet added. The kernel
and fsnotify are external: marks on directories, an event for a change of a marked directory
or its entries, a queue that overflows.

### FileCopy

Handles for writing on an object (a buffer, uploaded by `Close` after it was marked closed)
and on a local file (every write is seen at once), and `copyFile`, one piece at a time, with
its deferred `Close`. Another handle writes the same files. `Sync` changes nothing in either
kind of handle; `Chmod` after a copy is best effort and left out.

### ObjectStore

A bucket is a function from keys to contents. A key is a path with or without a final slash,
the marker of a directory having one. Each operation is the requests it makes: `HeadObject`
and `Probe` for `Stat` (any error of the first falls through to the second, as in the code),
pages of `ListPage`, `DeleteEach` in the order of the listing, `CopyObject` and then
`DeletePath` for `Rename`. `Source` is what S3 makes of the source of a copy, which the adaptor does not
encode. Requests are atomic; those of other clients, one failure and the
end of the program come in between. A key prefix (`SetPrefix`) is set by nobody and left out.
`was`, `written`, `removed` and `body` are history: what the bucket held when a call began
and what other clients did to the keys it concerns.

### GoogleDrive

`file` is the drive: files by id, each with a name and the folder it is in, names not unique. A
call goes through stages, each one request: `Find` is one name of `getFileID`, `Walk` and `Make`
are one name of `getOrCreateFolder`, which starts from the root again after a failed lookup, and
the stages after them are the request each operation makes with the id it found. Of several files
of a name any may come first in the answer. `Save` creates a file when the lookup before it failed
for whatever reason, as `Write` does. Drive is external: a folder goes with what is in it, files
are not put into files nor folders below themselves, and an update that names the parents of a
file, as `Write` does, is accepted or refused (it may count as a request that fails). A listing is
one request, since `List` asks for as many pages as there are before anything is done with them.
What is below a folder (`Under`) is the least set that has the folder and, with a folder, what is in it.
`was` (the drive when a call began), `quiet` (no other call was in progress since) and `sure` (no
lookup of it failed) are history, kept only for calls the properties speak of.

### Commands

`mv`, `rm` and `cp` over the local file system, with a step for every call the commands make of it,
and other programs that write, make, move and remove in between. A path is the sequence of its names. Files
are things of their own, so that a file that was renamed, replaced or removed while it is open is told
from the one at its path; a file has one name, since links are left out. `copyDirectory` is the stack `cmd.dirs`, with the entries each level has listed
and not dealt with; the loop of `rm` is `cmd.next`. The system calls behind the adaptor are external:
`MayCreate`, `MayRemove`, `Renamed` and the others say what they do, and `os.RemoveAll` removes entry by
entry (`RemoveBelow`, `RemoveTop`) in directories it has open: `top` and `held` are where they are after
others have moved them or a directory above them. `touched` and `missed` are history: the paths that other
programs changed, and those whose `Stat` failed.

### SavedMounts

Each run of finspect is a session: `Start` is `initConfig`, `Load` one turn of the loop of
`loadMounts` in any order, `Mount` what the mount command does, and `Truncate` and `Write` the two
halves of viper's `WriteConfigAs`. viper is external: it keeps keys in lower
case, splits them at dots and treats a file it cannot read as one without settings. A point with a dot so
becomes part of another entry (`WithEntry`): mostly one that nobody reads, but a point such as `/a.type` makes a
map of the setting of `/a`, which `loadMounts` then skips. Two sessions that write at once may leave a file that is no
YAML, or one with entries of both (`Mixed`). The table of mounts
is that of one session, since the router starts empty. `saved`, `spoiled`, `down`, `stale` and `blind`
are history: what was saved last, which keys a step spoiled in one of the ways the property names, and
what a session could not know.

### Configuration

The configuration files, as documents that say something of some settings, and the commands that read
and write them, a step for each look and each write. `Decoded` is unmarshalling over the defaults,
where the formats differ in what happens to the list of mounts, `Valid`, `Expanded` and
`MergeEnvironment` are the functions of those names, in the order `Load` and its callers apply them.
`GetMount` is compared with the mount the router would choose. Users edit files at any time.

`Save` empties the file and encodes into it. The YAML encoder does so in pieces: `WritePiece` leaves any part of
the text, which is one that does not parse (`CutFile`) or one that says less (`ShortFile`), and `WriteRest` the
rest; JSON is written at once. Two that write one file may mix their texts. `strange` (files a user has
changed, or that were left half written), `touched`, `mixed` and `amid` (another emptied the file of a
command while it wrote, or wrote while it read) are history, as are `missed` and `stayed`.

## 3. Runs

Times are with two workers.

| Run | Instance | Distinct states | What it shows |
|---|---|---|---|
| `MCRouter` | mount points `/`, `/a`, `/a/b`, five names (one not absolute, two for `/`), two adaptors with different capabilities, one client | 640 000, 90 s | `TypeOK`; `ListAgrees`: the list is the map's mount points, each once, longest first; `AnswerExplained`; `NoReachAfterClose`; `ImplementsTable`: the router refines `MountTable` |
| `MCMetadataService` | one file with two versions, two clients, all operations, one failure, restarts | 2.1 million, 130 s | `CurrentIsWhole`: no row or cache entry mixes two versions and looks current; `DeleteForgets`; `OrphansOnlyFromDelete`; `RowsConverge`: a row that missed a change is put right as long as calls succeed |
| `MCMetadataTree` | a directory with a file and a subdirectory with a file, two changes or restarts, one failure | 870 000, 45 s | `WalkVisitsAll`, `UpdateStoresAll`: nothing that stayed is missed without a word; `TripsEnd` |
| `MCMetadataSearch` | two files, `/a_b` and `/axb`; seven words, three tags; three ids; every query | 120 000, 50 s | `SearchTypeOK`; `TextFound`: a text search misses no row but by words of a tag that JSON writes otherwise; `HitsWereTrue`: what it has too many leads only to rows that once had the word; `SearchesAgree`: how the two builds of the store and bleve select the same |
| `MCMetadataInSync` | the same | – | a statement of a comment that the code does not keep, see section 6 |
| `MCWatcher` | root, two nested directories, a file; two watches; queue of two, channel of one; two changes, one failure | 820 000, 130 s | `AliveIsListed`: no goroutine outlives its watch; `CoveredWhenQuiet`: nothing is left out but below what was skipped; `StopReturns` |
| `MCFileCopy` | a local file and an object, copies in every direction, one other handle, files of two pieces, one failure | 740 000, 10 s | `WritesAreUploaded`; `SuccessIsWhole` |
| `MCObjectStore` | `/d`, `/d/x` and `/d%2Fx`, pages of one key; one client lists, removes trees, renames and opens, the other writes, removes and makes directories; one failure, crashes | 2.1 million, 60 s | `RemoveAllClears`; `ListsWhatStays`; `MoveKeeps`: the file is under one of its names at every moment |
| `MCGoogleDrive` | `/d`, `/x`, `/d/x`; two contents, two files; one client in every operation, another that writes; one failure, crashes | 1.2 million, 80 s | `TwinsExplained`: the ways a second file of a name arises; `AloneDoes`, `AloneTouches`: an undisturbed call does what its path says and nothing else |
| `MCCommands` | all trees of two names, two levels and two files, and one of three levels; `mv`, `cp` and `rm` with the arguments of these levels; one change by others, one failed call | 710 000, 120 s | `MoveLosesOnlyNew`, `OnlyWhatIsNamed`: what a command may not touch; `RemovedWhenWell`, `CopyIsWhole`: what it did when it ends well; `CommandsEnd` |
| `MCSavedMounts` | points `/a`, `/a/`, `/A`, `/a.x`, `/a.type` and one that is not absolute; two directories; two sessions, three mounts; one outage, one failure, crashes | 10 million, 160 s | `SavedStays`; `LoadsWhatItRead`; `ReplacesOnlyUnmounted` |
| `MCConfiguration` | a YAML and a JSON path; three documents, two environments; one command of any kind, another that is `config init`, one edit, one failure, crashes | 4.8 million, 165 s | `SaysValidOnlyOfValid`; `FirstOfTheSearch`; `CreatesTogether`; `KeepsWhatIsThere`; `GetMountAgrees` |

The router's and the search's type invariants are checked by their runs; those of the metadata service,
of saved mounts and of the drive are proved (section 5).

Why the bounds are enough:

- Router: three nested mount points are the least for which "longest first" differs from
  "any order", and for which a mount can be taken from under another. One client is enough
  because clients do not share state other than the table, and the table changes at every
  step of that client. `MaxMoves` = 2 lets an unmount and a mount fall between two looks, which
  is what `Rename` is exposed to. The proofs remove these bounds.
- Metadata: one file, because no operation on one path touches another; two versions are
  enough for one to be mixed with the other; two clients are enough for each pair of operations
  to overlap, and a third adds no new pair. The tree has both kinds of entry at both levels, and
  two changes let a file go and come back. The proofs remove these bounds: trees of any depth.
- MetadataSearch: `/a_` as a LIKE pattern matches both files; `port` occurs in `report`; the tag `R&D`
  is stored as `R\u0026D`, which is the words `R` and `u0026D`, and the LIKE of a tag does not find it; `null` is what a row without tags has in that column. Two
  files are the least for one to answer for another; three ids let a file be deleted and stored again
  while the other keeps its row. The proofs remove these bounds.
- Watcher: a directory in a directory is what recursive watching must find; two changes let one
  come and another come in it, or one go and come back. A queue of two overflows. One failure leaves out
  a directory, with or without what is below it. The proofs remove
  these bounds, as they do for the next two.
- FileCopy: two pieces tell a part from the whole and the first from the last.
- ObjectStore: pages of one key make every listing of more than one key a continued one. With
  `/d` and `/d/x`, and a marker for `/d`, a listing has an object, a marker and a common prefix; `/d%2Fx`
  is read as `/d/x` where a copy names its source.
- Commands: a command has at most two arguments, and two names are the least for one to be beside the
  other; three levels let a tree be moved or copied below another. One change is what comes between a
  look and an act. A copy below itself reaches `MaxDepth`, which stands for the longest path the system
  accepts, after one round. The two names are alike, so that sources begin with the first of them.
- SavedMounts: two sessions are the least for one to write what the other has not read; three mounts let
  one of them save again after that. The points are one for each thing that happens to a name: nothing,
  a second spelling of a path, capital letters, a dot, a dot followed by `type`, and no slash. A file the user names with `--config`
  is one that is never written. The proofs remove these bounds.
- Configuration: two paths in the search, so that the first can appear after it was looked at; each document
  is there for a difference between the formats, or between before and after expansion; one edit falls
  between a look and a read. Of a text that is written in pieces two kinds of parts can be told apart, and two
  that write are the least for one to spoil the other's. The proofs remove these bounds.
- GoogleDrive: paths of one and two names, so that folders are looked for and made on the way, and
  one name at both depths. Two files are what twins are; a folder and a file in it are the least for
  `RemoveAll`. Ids are given out once, so two is also how many files are created in a behaviour. The
  other client only writes: `Write` makes the folders above the file as `Mkdir` does. One client on the
  paths `/d`, `/d/d` and `/d/d/x` with four files, which a file and its copy two folders below its own path
  take, was checked too (1.8 million states). The proofs remove these bounds.

Symmetry of the sessions is used in `MCSavedMounts`, of the contents in `MCGoogleDrive` and
`MCObjectStore`, and of the row ids in `MCMetadataSearch`; they check no liveness, and nothing in the
models or the properties tells apart the sessions, the contents or the ids. Deadlock is checked in every
run.

The bounds `MaxMoves`, `MaxVersion`, `MaxFaults`, `MaxChanges` (which counts restarts in the tree),
`MaxMounts`, `MaxOutages`, `MaxEdits`, `MaxLen`, `MaxFiles` and `MaxQueue` are guards on what the
environment does (the last is also a fact of the kernel), and `MaxDepth` is the file system's limit. Two
of them guard steps of the code: `MaxLen` limits what another handle writes, and `MaxFiles` the files
created on a drive; a call that would need more waits, or ends with a failure or a crash.

## 4. Fairness

- `MetadataService.FairSpec`: a goroutine that can take its next step takes it, calls return, and
  cache entries expire. Nothing is assumed of clients calling, of files changing or of the process
  dying. `RowsConverge` carries its own premise: `GetOrExtract` of the file succeeds again and again.
- `MetadataTree.FairTreeSpec`: the walk goes on while it can. It ends since what it visits is on a
  stack of names already listed.
- `Watcher.FairSpec`: goroutines that can run do. Exit is strongly fair: a Go `select` picks at
  random among its ready cases, and `stop`, once closed, stays ready whenever the goroutine is at
  either select. Nothing is assumed of the consumer.
- `Commands.FairSpec`: a command that can take its next step takes it. Other programs change the tree a
  bounded number of times, without which a directory that grows as fast as it is copied has no end.

## 5. Proofs

`RouterProofs` proves, for any set of paths, adaptors, names and clients that satisfies
`RouterAssumption`, what `MCRouter` checks on three mount points.

- `ResolveIsLookup`: for every list that agrees with the map, the first entry that covers a path
  is the longest mount point above it. This rests on `PrefixesNest` (of two prefixes of one path,
  the one that is not longer is a prefix of the other) and on lengths of strings growing along
  prefixes, which `RouterAssumption` states of `PathLen`.
- The inductive invariant is `IInv == TableInv /\ CallsInv`. `ListAgrees` is inductive by itself
  together with the type of the map (`TableInv`). The properties of answers are not: a `Rename` that
  waits between its looks has no answer yet, so `CallsInv` says of a waiting call what its next look
  will need, that its first route is what some table of `legal` gave, that `legal` contains what the
  present table would answer as long as nothing moved, and that a call that began after `Close`
  carries no route.
- From it: `RouterTyped`, `RouterListAgrees`, `RouterAnswersExplained`, `RouterNoReachAfterClose`.
- `RouterImplementsTable`: every step maps, under `found <- call[c].found`, to a step or a stutter of
  `MountTable`.

`RouterAssumption` asks that paths are sequences of names, `Clean["/"]` is the root, a longer path
is a longer string, and the obvious facts about constants.

`MetadataServiceProofs` proves `ServiceTyped`, `ServiceCurrentIsWhole`, `ServiceDeleteForgets` and
`ServiceOrphansOnlyFromDelete` for any files, clients, versions and failures, with an index or without.
The invariant is `IInv`: beside `TypeOK`, a file is absent or at its newest version; every metadata
record, in a row, in the cache or in the hands of a call, is `Sound` (its `Stat` is of a version the file
has had, and its content, if read, of one that is no older and no newer than the newest); without an
index there are no documents; of two calls in progress neither is alone (`Apart`); and each call is
`CallFine`. That is where the work of a step goes: a call's stage fits its operation and what it has in
hand (`Fits`), and a call that is alone has done to the three places what its stage says (`Reached`).
`CurrentIsWhole` follows since under the newest ModTime the content lies between it and itself. `OneCall`
is the step of one call in general, and the lemma of each action an instance of it; `Apart` is why the
other calls, none of which is alone, need nothing.

`MetadataServiceProofs` also proves `TreeWalkVisitsAll`, `TreeUpdateStoresAll` and `TreeCurrentIsWhole`
(`WalkVisitsAll`, `UpdateStoresAll`, `CurrentIsWhole`) of the traversals in `MetadataTree`, for any tree that
satisfies `TreeAssumption`: every set of paths has one whose parent is elsewhere, which is how it says that no
path is below itself. `TreeInvariant` is the service's `IInv` together with `TInv`. Its parts say that the
frames of the stack are those of a directory, of one in it, and so on from the root (`Stacked`), where the
stage of the traversal has it (`Placed`), which call it waits for (`Calling`), and that what stayed did so
with all that is above it (`TreeHolds`). Two parts carry the properties, which speak of the end only, through
the recursion: `Visiting` has it that of each directory called back for, what stayed in it has been called
back for too, or is about to be, or is among the names left in some frame, or the directory's failure was
told; `Storable` that what has no row yet is `Ahead`, that is, collected in a batch or at or below a name that
is left, or `Reported`. With the stack empty nothing is left or ahead.
`Below` is defined by the sets closed under `Parent`, so that `BelowInduction`, the induction along the
tree, is one instance of its definition.

Of `MetadataSearch` it proves `SearchTyped`, `EveryWordFound` and `StaleHitsWereTrue` (`SearchTypeOK`, `TextFound`
and `HitsWereTrue`) for any files, ids, words and metadata that satisfy `SearchAssumption`. The
invariant is `SearchIInv == SearchTypeOK /\ IdsDiffer /\ TextStored /\ HitsWereTrue`, where `TextStored` says of the
index what `TextFound` says of the search. `HitsWereTrue` is not inductive
alone: that words left behind under an id never come to stand for another file needs that two rows never
have one id (`IdsDiffer`), that every id in the index was given out (in `SearchTypeOK`), and that a new row takes
an id that was not. `StoredKeeps` and `RemovedKeeps` are the two cases that matter, for any set of files, so
that the single and the batch operations are both instances.

The last theorem there is `BothSearchesAgree` (`SearchesAgree`). It needs nothing of the invariant but types, and the premise that table and documents hold the same: `SelectedIs` and `FilteredIs` write the two filters as what
they ask of one file, `TableFinds` and `LikeWithTags` those of the store, and `EachTagFinds` is why bleve,
which asks for all tags, finds what the store finds for each.

`SavedMountsProofs` proves `SavedMountsTyped`, `SavedMountsStay`, `SavedMountsLoad` and
`SavedMountsReplace` for any sessions, points, directories and spellings that satisfy
`MountsAssumption`. The invariant is `IInv`: types, `SavedStays`, and for every session `Good`: what it
has read and not kept up with is what the file has lost or it could not know, or is what its own mount replaces or
spoils (`Knows`), every entry is
yet to be loaded or loaded as far as its directory allows (`Loads`), a session that is about to write
has found its point free (`Frees`), and its stage fits what it holds (`Works`). `SavedStays` alone is
not inductive: a session writes all it has in memory, so that the file is only as good as what each
session read when it started.

`ConfigurationProofs` proves `ConfigurationKeeps` and `ConfigurationCreates` (`KeepsWhatIsThere`,
`CreatesTogether`) for any paths, documents, environments, commands and edits. The invariant says of the
files that a text only finspect wrote is empty, the defaults or a piece of them (`OwnTexts`), and that of a file
in which there is a piece, or which somebody is writing, one is writing whose text nobody has emptied since, so that
the piece will not stay (`Settled`): it is the last who emptied the file that finishes it. Of each command it says what it
may rely on of the file it looks at: nothing is there when it is about to create without `--force`,
unless another touched it or `Stat` failed; something is there from then on; and what it has when it is
done, if it did not read amid the writing of another (`Knowing`). `TouchedIsGood` is the lemma about interference: what a command knows survives any text
that another puts in the file. That the defaults load as themselves, and an empty YAML text as the
defaults, is `DefaultsLoad`.

The other three theorems of `ConfigurationProofs` are `ConfigurationSaysValid`, `ConfigurationFirst` and
`ConfigurationMounts` (`SaysValidOnlyOfValid`, `FirstOfTheSearch`, `GetMountAgrees`). They rest on a second
invariant, `TInv`. `Searching` says how much of the search list a command has `Passed`, and that none of
that was there all the time; `Reporting` carries the source of what a command holds from stage to stage:
when it reports, its configuration is the expansion of a document that was valid, and after `show` the
merge of one. Neither property is inductive, since both speak of the end only. `ExpandedIs` and `MergedIs`
say which settings expanding and merging leave alone. `ConfigurationMounts` is about `GetMount` itself:
of the mounts a path starts with there is a longest (`LargestOf`, by the well-foundedness of the natural
numbers), and what is longest is below the others since two paths above one path are comparable. For this
`ConfigurationAssumption` has it that mounts are lists, that environments do not set the mounts (`loader.go:140`
does not), and that more than one path is searched, as in `getDefaultSearchPaths`; `AboveAssumption` says
of `Above` what holds of clean paths.

`CommandsProofs` proves `CommandsMove`, `CommandsChange`, `CommandsRemove` and `CommandsCopy`
(`MoveLosesOnlyNew`, `OnlyWhatIsNamed`, `RemovedWhenWell`, `CopyIsWhole`) for any names, depth, trees, calls,
changes by others and failures that satisfy `CommandsAssumption`: of the trees that what is above something
is a directory, of the calls that they have their arguments and that `mv` and `cp` are not asked for the root.
`MoveLosesOnlyNew` speaks of the rename and the last two of the end; the invariant `IInv` says what leads
there:

- `Tree`: a file is at one path, and what is above something is a directory. `RenamedIs` and `TreeRenamed`
  say what a rename, by `mv` or by others, makes of that.
- `Follows`: `RemoveAll` works at the argument, or at or below a path that others have touched.
- `Moves` and `Removes`: what is at `mv`'s destination came after it had looked, or did not show; the
  arguments `rm` has dealt with are `Gone`.
- `Pairs`: every source on the stack of `copyDirectory`, and the file being copied, has the place of its
  copy as its destination, and the file being written is at that place or where others have put it. `Sourced` keeps what the first
  `Stat` told.
- `Copies`: of the files that are `Owed` a copy, each is `Copied`, or `Ahead`: below the directory about to
  be read, in `copyFile`'s hands, or in what some level has listed and not dealt with. With the stack empty
  nothing is ahead.
- `Endless`: while a directory is copied below itself there is always a directory that is `Deeper`, that
  `cp` will still come to and whose copy is below it. `MovedLonger` is why there is another when it has.

The names of paths are reasoned about with `PrefixIs`, `PrefixOrder` and the lemmas after them. The proof
of `CopyIsWhole` did not go through as the property first stood: it had asked for the copies of files in the
destination as well, which TLC does not refute on trees as low as those of its run, but which fails when a
copy below itself reaches places where it has put something before. It now speaks of files outside it.

`CommandsProofs` also proves `FileCopyUploads` and `FileCopyIsWhole` (`WritesAreUploaded`, `SuccessIsWhole`) for
any paths, data and handles that satisfy `FileAssumption`. (Definitions of `FileCopy` say "File" in
their names where `Commands` has one like it, so that one module can reason about both.) `WritesAreUploaded` becomes inductive with the
stage of the handle (`SentWhenClosed`): one that has given its buffer to an upload is not open. For
`SuccessIsWhole` the invariant has the copier's handle fit the stage of the copy (`CopierFits`), and says
what the destination of an undisturbed copy holds (`Faithful`): in the buffer, and in the file if it is a
local one, the first `copy.at` pieces of the source, and all of them (`Whole`) once the source has
answered with its end. That `Read` returned what is in the source now is in it too, since an object is
read into memory when it is opened. `ResizedIs` and the lemmas after it say what writing at the end makes
of a sequence.

`WatcherProofs` proves `WatcherAliveIsListed` and `WatcherCovers` (`AliveIsListed`, `CoveredWhenQuiet`) for
any finite tree, watches, queues and failures that satisfy `WatcherAssumption`. `AliveIsListed` needs the
call in progress: `Placed` ties the stage of each goroutine to the map and to what the caller does with it,
and `CallerFits` the map to the call. `CoveredWhenQuiet` speaks of all directories below a path and of a
quiet moment; the inductive form, `Covers`, speaks of one step of the tree at any moment: a directory that
is `Due`, since the one it is in is marked, or read and about to be added, and was not skipped, is marked or
missed itself, or is `Awaited`, that is, still to be visited or added (`todo`), or announced by an event in
the queue or in the goroutine's hands. When the goroutine is idle and the queue empty nothing is awaited,
and marks go on from a directory to those in it, until one was missed. `Below` is defined by
the sets closed under `Parent` instead of by recursion, so that the induction along the tree is one
instance of its definition. `WatcherStopHeard` is the safety half of `StopReturns`, which itself stays with
TLC: while `Unwatch` or `Disconnect` waits, the goroutine it waits for has been told to stop and runs, or
has exited (`Placed` says that `stop` is set exactly during that wait).

`ObjectStoreProofs` proves `ObjectStoreMoves`, `ObjectStoreRemovesAll` and `ObjectStoreListsAll`
(`MoveKeeps`, `RemoveAllClears`, `ListsWhatStays`) for any finite set of paths, contents, clients, sizes of
pages and failures that satisfy `StoreAssumption`, however names are decoded. The invariant is that the bucket has its type and every
call is `Good`: `Fits` (its stage and what it holds fit its operation), `Lists` (what a listing has is what
was there at some time, and what stayed is in it, or comes after the token) and `Moves` (where the body of
a rename is in each stage). `Lists` rests on the order of keys: `PageIsLower` (what is in a page comes
before what is not) and `AfterPage` (the token lies between) hold for every rank of keys. `SeenFits`,
`SeenLists` and `SeenMoves` are the lemmas about interference: what another client writes or removes a call
notes in `written` or `removed`, and needs no more.

`GoogleDriveProofs` proves `DriveTyped`, `DriveAloneDoes`, `DriveAloneTouches` and `DriveTwinsExplained`
(`AloneDoes`, `AloneTouches`, `TwinsExplained`) for any paths, contents, clients, failures and number of files
that satisfy `DriveAssumption`. The first two speak mostly of the end of a call, which nobody else and no
failed lookup disturbed, on a drive whose names were unique. The invariant `IInv` says how such a call gets
there:

- `Typed`: the drive is a forest of files and folders, each in a folder that is there; ids not given out are
  free.
- `Fits`: what a call is looking for, or does with what it found, fits its operation and its paths.
- `Clear`: no folder has the name of the one a call is about to create, if it is quiet. This is the part
  about twins, and the only one that holds on ambiguous drives.
- `Kept`: what has become of the drive since the call began. It is as it was for operations that change
  nothing before their last request; `Shrunk` for `RemoveAll`, where what is missing was at or below its path;
  and `Grown` for those that make folders, where what is new are folders on the way to a `Target` that was not
  there.
- `Placed`: what the call has found is at the prefix of the path it has come to; the source of a move or a copy
  is at the old path as it was; the folder to write into is at the parent of the new one.
- `Does`: when the call is done, what the properties say of it.
- `Apart`: of two calls in progress neither is quiet, so that `OneCall` has a step of one call leave the others
  fine whatever it makes of the drive.

The lemmas rest on what a path names. `Named` is the set of the files that a trail from the root leads to;
`NamedNext` says what one name more makes of it, and `PathInduction` (what holds of the root, and of what is in a
folder if of the folder, holds of all paths) gives the rest: `OneFile` (a path of a drive with unique names names
one file at most), `OnePath` (a file is at one path), `WithinNames` and `OldNames` (what a path names when files
were added or removed), `NamesBeside` (what is not below a file that is removed or moved keeps its path). `Under`
is defined by closed sets, so that `UnderLeast`, the induction downwards, is one instance of its definition.
Each change of the drive then has one lemma that says what it makes of the names (`CreatedNames`, `Deleted`,
`MadeFine`, `NewFileFine`, `OverFine`, `MovedFine`, `CopiedFine`), and the lemma of an action applies it.

The proof of `AloneDoes` did not go through as the property first stood. It had a copy leave the old path as it
was; but a copy to a path two levels below the file makes a folder of the file's name beside it, so
that the old path names both. The paths of the run are too short for that; on longer ones TLC shows it. The property now says
that the folder is all that is new there. `DriveTwinsExplained` needs `Clear` for folders, and for files that a
`Write` on its own either found the file, which then keeps its name, or found none of it.

The assumptions are the `ASSUME`s of the modules, which TLC evaluates in every run, and TLC has checked
the invariants that are stronger than their properties on the instances of the runs. What only TLC checks:

- liveness (`RowsConverge`, `TripsEnd`, `StopReturns`, `CommandsEnd`), since the prover does not handle
  `ENABLED`;
- `InSync`, which does not hold.

## 6. Where the code and its documentation disagree

The first is a run; TLC's counterexample is the behaviour described.

- `MCMetadataInSync` / `InSync`: "Triggers to keep FTS in sync" (`sqlite_store_fts.go:88`). They do not: the
  table has external content, and when the trigger for updates runs FTS5 reads the words to drop from the
  metadata table, which has the new ones by then. A text search goes on finding a file by words its row no
  longer has. (The trigger for deletes drops nothing either; no search shows it, as `HitsWereTrue` says.)

Others were met while the models were written and have no run of their own:

- `cp` reports success when the upload failed: it happens in a deferred `Close` whose error is dropped
  (`cp.go:94`), after "Sync to ensure data is written" (`cp.go:101`). `SuccessIsWhole` and `CopyIsWhole`
  are what does hold.
- When `GetOrExtract` finds that a file has changed it is to "Extract fresh metadata" (`service.go:203`),
  but `Extract` answers from its cache, which may be five minutes old, and the old metadata is put back in
  the store; `RowsConverge` is what does hold.
- `metadata index --full-text` is to "use full-text search index" (`cmd/finspect/metadata.go:85`); the
  walk behind it calls `GetOrExtract`, which never writes to the index.
- `WithSizeRange` "filters by size range" (`search/types.go:118`); bleve's query has no such filter. Nor does
  it heed `SortOrder`, and the store's search ignores `Query.Offset` (`metadata.go:126`). `SearchesAgree` is
  about queries without sizes. It also leaves out tags with `&`, `<` or `>`, which JSON escapes and LIKE
  does not find; nor does a text search find such a file by the words of the tag, as `TextFound` says: with
  the tag `R&D` it has the words `R` and `u0026D`. Of several tags the store asks for any and bleve for all, as the property states. The
  text `null` finds every row without tags in the store, where the property lets the store find more.
- `ReadDir("/")` on a closed router without a root mount lists the mounts (`errors.go:40` has
  `ErrClosed` for that); `AnswerExplained` leaves this case out.
- A `Rename` whose two looks straddle an unmount and a mount may be refused with `ErrCrossDevice`
  although no table had the paths on different adaptors (`errors.go:22`); `AnswerExplained` asks for
  an explained answer only when nothing moved in between.
- `Router.Close` does not close the adaptors (`interface.go:75` says it does).
- A recursive watch "watches all subdirectories" (`interface.go:197`). A file created in a directory that
  was itself just created is not announced. `addRecursive` reads the names in a directory before it adds it
  (`filepath.Walk` calls back after reading them), so that a directory created in between is never watched,
  and it skips every error, such as the limit of watches, without a word (`watcher.go:189`).
  `CoveredWhenQuiet` is what does hold.
- `Sync` of an object's handle stores nothing (`interface.go:89`).
- In a bucket, `ReadDir` of a directory made by `Mkdir` lists the directory itself as a file
  (`interface.go:172`), `Rename` of a directory fails (`interface.go:163`), and `Stat` of the mount point
  finds nothing, so that the README's `metadata index /s3` visits one path that does not exist.
- `Copy` gives S3 the source as bucket and key without encoding it (`s3.go:282`), and S3 decodes it: `Rename`
  (`interface.go:163`) of a file with `+` or `%XX` in its name fails, or copies the object that is so read
  and deletes the file. `MoveKeeps` is about names that read as themselves.
- In a bucket, `Remove` of an empty directory succeeds and removes nothing: `Delete` takes the key
  without its slash (`interface.go:157`: "removes the named file or empty directory").
- On a drive, a write to a file that is there creates a second one of its name when the lookup before
  it failed (`interface.go:151`: creates or truncates); `Remove` of a folder deletes all that is in it
  (`interface.go:157`); `Mkdir` over a file succeeds and makes no folder; `Rename` onto a name that is
  taken leaves two files of that name; `Write`, `Mkdir` and a copy two levels below a file make a folder of its
  name beside it, since only folders are looked for when one is to be made (`googledrive.go:414`).
- `cp f f` empties the file and reports success; `cp -r` of a directory below itself copies what it has just
  made until a path is too long; `cp -r` onto a directory above its source may overwrite files it has
  still to copy. `CopyIsWhole` says of the second that it never ends well, and nothing of files in the
  destination, which `cp` may have made itself or written over.
  A directory that goes between the listing and its copy makes `cp` panic, since the error of `Stat` is
  dropped (`cp.go:117`).
- `cp` goes on writing to the file it has open, and `rm -r` in the directories it has open, when others move
  them to a path that the command does not name; `OnlyWhatIsNamed` states it.
- `mv` and `rm -f` take every error of `Stat` for "not there": `rm -f` may then say nothing and leave the
  file, and `mv` may overwrite one.
- With `--config other.yaml` the mounts of that file are loaded, and the mount command writes them all to
  `~/.finspect/config.yaml`. Capital letters of a mount point are lost there, and a point with a dot is
  split: `/a.type` or `/a.path` makes a map of that setting of `/a`, and the saved mount is skipped from then on
  (`vfs.go:98`, `vfs.go:46-55`). `/a` and `/a/` can both be saved; which is mounted next time is a matter of the
  map's order.
- `LoadOrCreate` "loads configuration or creates default" (`loader.go:108`). It and `config init` write straight to the file, YAML in pieces
  (`config.go:357`): another that reads meanwhile may fail or get a part, and a process that dies leaves one.
  `CreatesTogether` is what does hold.
- `config show` is to show "all values expanded" (`cmd/finspect/config.go:74`): the environment is merged
  after the expansion and stays as it is. Validation comes before both, so that a mount path that expands to
  nothing, or to that of another, is never refused (`SaysValidOnlyOfValid`).
- `"${TMPDIR:-/tmp}"` in `config.yaml:10` expands to nothing: `os.ExpandEnv` knows no defaults.
- An empty YAML file is the defaults, an empty JSON file an error; a JSON file's first mount is decoded into
  the default one, so that a type left out is `filesystem` there and an error in YAML. The mounts of
  `finspect.yaml` are not those the commands mount, which are in `~/.finspect/config.yaml`.
- `GetMount` compares strings, so that `/database` belongs to a mount at `/data`, and `/data/` owns nothing
  but what starts with it; `GetMountAgrees` is about mount paths where this makes no difference.

## 7. What is not modelled

- What extractors compute, formats of rows, queries, output and logging: data, not control.
- The local adaptor's other methods: each hands one call to the operating system. `Commands` has those
  calls, on paths below the mount.
- Links. Through one `cp` writes to a path nobody named, and two arguments may be one file;
  `OnlyWhatIsNamed` and `CopyIsWhole` are about trees without them.
- Commands that look something up and print it (`ls`, `stat`, `search`, `metadata`): each is one operation
  of a modelled component. The metadata commands mount the current directory at `/`
  (`metadata.go:541`), so that one database used from two directories has rows of both under the same keys;
  the models have one directory.
- `Mkdir` of the mount point itself of S3 and its empty key; `GetSignedURL`, which nobody calls; connecting
  to S3 and Drive.
- The path helpers, which no package calls.
- Configuration files with neither extension: they are read as YAML and, if that fails, as JSON over what YAML had
  decoded until then (`config.go:319`).
- Concurrent use of one local adaptor: nobody does it, and its map of watches has no lock for it.
- A copy between two mounts as a tree: `FileCopy` has a file between two kinds of handles, `Commands` a tree
  on one file system.

## 8. Plan

Done: the router with its abstract table; the metadata service and its traversals; the searches; the
watcher; handles and `copyFile`; the S3 and the Google Drive file systems; `mv`, `rm` and `cp -r`; saved
mounts and the configuration. Every safety property that a passing run checks
is also proved.

Open: nothing of this plan. A next step would be the abstract file system that both cloud adaptors stand for
when a client is alone, with `AloneDoes` as its refinement, and the copy of a tree between two mounts.
