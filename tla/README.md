# A TLA+ model of OptiFS

OptiFS is a FUSE file system that removes duplicates: when a file that was
written is closed, its content is hashed, and if the content exists already the
file is replaced, on the underlying file system, by a hard link to the file that
has it. Owner, mode, times and extended attributes of each file are kept by
OptiFS itself, so that two files sharing an inode can differ in them.

The modules here are translated from `src/code/OptiFS/filesystem`. Paths below
are relative to it.

## Inventory

| component | state | operations | what is hard |
|---|---|---|---|
| metadata store, `metadata/regular_file_metadata_api.go` | `regularFileMetadataHash`: content hash -> `MapEntry` {`ReferenceCount` uint32, `EntryList`: reference -> metadata, `IndexCounter` uint64} | `IsContentHashUnique`, `CreateRegularFileMapEntry`, `LookupRegularFileEntry`, `RetrieveRecent`, `CreateRegularFileMetadata`, `RemoveRegularFileMetadata`, lookups, migrations | each function locks for itself, so a Release is six critical sections and a removal four; pointers to entries outlive the lock |
| node persistence hash, `metadata/persistence_api.go` | `nodePersistenceHash`: path -> stable attributes, (hash, reference) | `StoreRegFileInfo`, `StoreDirInfo`, `UpdateNodeInfo`, `RetrieveNodeInfo`, `RemoveNodeInfo` | it must agree with the store and with the underlying names, under another lock than either |
| write buffers, `vfs/node.go` | `hashHashMap`: path -> hashes of the chunks written, creator | Create, Write, Release | keyed by path, shared by handles |
| virtual file system, `vfs/node.go`, `vfs/common.go` | the go-fuse node tree, open handles, the underlying directory tree | about thirty FUSE handlers | requests run concurrently, Release runs after `close()` returned |
| file handle, `vfs/file.go` | descriptor, hash and reference at open, `mu` | Read, Fsync, Flush, Release, Getlk, Setlk, Setlkw | the lock calls are never reached (see Not modelled) |
| directories, `metadata/directory_metadata_api.go` | `dirMetadataHash`: path -> metadata | Mkdir, Rmdir, Rename of a directory | keys are paths, a rename changes many |
| persistence, `metadata/persistence_api.go`, `main.go` | three `.gob` files | periodic save, retrieval, `InsureIntegrity` | three saves under three locks, truncate then encode, mount before retrieval |
| permissions, `permissions/permissions.go` | none | `CheckPermissions`, `CheckOpenPermissions`, `CheckMask` | four checks that go through a mode each in its own way |
| sysadmin, `permissions/sysadmin.go`, `main.go` | `SysAdmin`, one `.gob` file | retrieve, set, change UID and GID, save | processes that overlap, saved only at the end, validity of the ids |
| attributes, `metadata/common.go`, `metadata/general_api.go`, `vfs/common.go` | owner, mode, size, times, `XAttr` of a `MapEntryMetadata`; the writer of each buffer | Setattr, Getattr, extended attributes, migration in Release | every close makes new metadata and moves the attributes to it, while Setattr may be changing the old |
| hashing, `hashing/hash.go` | none | BLAKE3 | none |

How they interact: a FUSE request reads `nodePersistenceHash` for the path of its
node, uses the (hash, reference) pair it finds to look metadata up in the store,
acts on the underlying file system by path, and updates the hash. Open copies
the pair into the handle; Write appends to the buffer of the path; Release takes
the buffer, calls the store, updates the node info, links, renames, and fills in
the metadata. Nothing spans these steps: there is no transaction and no lock
held from one to the next, except the lock the kernel holds on a directory while
it creates, links, renames or unlinks in it. Lookups of names the kernel knows take
no lock (`EntryTimeout` is 0, so every use of a name is a Lookup).

What makes each correct: the store never loses metadata that is in use and counts
it exactly; node infos lead to metadata, and metadata's Path to a file with the
right content; a file reads back what was written to it alone; equal contents are
stored once; every request returns; a file keeps its owner, mode and extended
attributes whoever else has the same content; access(2) says what the other requests
will do, and somebody may always run the file system; what is saved can be loaded into
a state with the same properties. `PROJECT.json` lists the hazards by line.

## Plan

Done, in this order:

1. `MetadataStore`, its runs, and `MetadataStoreProofs`.
2. `RegularFiles`, which composes the store with the node infos, the write
   buffers and the directory.
3. `RegularFilesProofs`: `FilesSpec => Spec`, so that every theorem about the
   store holds inside the file system, and `FilesTypeOK`; `DistinctFilesProofs`:
   `Undisturbed`.
4. `Persistence`: the saves, a crash at any point, retrieval and
   `InsureIntegrity`, composed with `RegularFiles`; `PersistenceProofs`.
5. `Directories`: Mkdir, Lookup, Rmdir, Rename (exchange too), with
   `dirMetadataHash`, its saves and a crash; `DirectoriesProofs`: all it promises.
6. `FileStore`, what clients are promised, which `RegularFiles` implements where the
   code does (`ImplementsFileStore`), proved in `DistinctFilesProofs`.
7. `Permissions` and `Sysadmin`, with `main`'s start-up; `SysadminProofs`.
8. `Attributes`: Setattr and the extended attributes beside Release, composed with
   `RegularFiles` and `Permissions`; `AttributesProofs`.
9. `CalmFiles`: the invariant that makes deduplication safe where requests take
   turns; `CalmFilesProofs`: everything `files_concurrent` checks.
10. `KeptAttributes`: the invariant that says which metadata a file's attributes are in
    at each stage of a Release; in `AttributesProofs`, everything `attributes` checks.

11. `RestartsIInv`: the invariant of `CalmFiles` across restarts; in
    `PersistenceProofs`, everything `persistence` checks.

To do:

12. The invariant of `CalmFiles` with hard links.
13. The attributes of directories, over `Directories`, and requests that arrive between
    the mount and the end of the retrieval, over `Persistence`.

## MetadataStore

A request is a member of `Threads`; `pc` says which critical section it runs
next. `metadataMutex` is released between two of them, so each is one action and
the others run in between.

| action | code |
|---|---|
| `BeginStore`, `IsContentHashUnique` | Release has a hash and asks whether it is new |
| `CheckMapEntry`, `CreateMapEntry` | the two critical sections of `CreateRegularFileMapEntry` |
| `LookupMapEntry` | `LookupRegularFileEntry`; ENODATA ends the request |
| `RetrieveRecent` | its loop: an entry with an index and no reference makes it run for ever (`spin`), holding the read lock; `WriteLockFree` then stays false |
| `CreateMetadata` | `CreateRegularFileMetadata` through the pointer looked up before |
| `BeginRemove`, `FindMetadata`, `DeleteMetadata`, `TestEmpty`, `DeleteMapEntry` | `RemoveRegularFileMetadata`: lookup, delete and decrement, unlocked test, delete by hash |

A `MapEntry` is an address in `Entries`, so an entry that was replaced in the
table lives on for whoever holds it. Removals take any pair, also one removed before: hard
links share a pair, so the same one can be removed twice (the runs leave out pairs
never handed out, `KnownReferences`). The zero hash of an
empty file is in the model: it is always "unique" and never removed.

The code breaks its own promises when two requests work on one content hash at
once (`store_lost`). The properties therefore say what holds on
every other hash, the ones outside the history variable `contended`: damage to one
hash never spreads. `RefsNeverReused` holds without that condition, and
`RequestsReturn` of behaviours in which no hash is ever contended.

## RegularFiles

It extends the store: `ReleaseTest`, `ReleaseCreateEntry`, ..., `UnlinkRemoves` run
the store's own actions, so every step is a step of the store or leaves it alone.
It adds the underlying directory (`names`, and `tmp` for the `~(TMP)` names), the
content of inodes, node infos, the Path of each metadata, write buffers and, for
each request, its handle and local variables (`req`). `crashed` is the nil
dereference of `FillAttr(nil)`, in a Create or a Lookup. `own`, `want`, `used` and
`overlap` are history.

A Release is the sequence `TakeBuffer`, `LookupOldMetadata`, the store's steps,
`UpdateInfo`, then for a duplicate `LinkOriginal` or `LinkFails`,
`SwapInDuplicate`, `FillMetadata`, and `Drop` where the code removes metadata.
Create, Link, Rename and Unlink are two to four steps each and exclude each
other (`DirectoryFree`: the kernel's directory lock); Lookup, Open, Write and Release
run beside anything. A Lookup is `LookupBegin` (Lstat), `LookupReadsInfo`, under the
lock of the node infos, and then `LookupFills`, under that of the metadata, or
`LookupStoresInfo`, where the node has no hash and reference. Unlink's removal of the
metadata may come between the first and the last: then `LookupFills` ends the process.

Steps that the models merge: Unlink's `syscall.Unlink` and the start of the removal;
Open's look at the node info and `syscall.Open`; Create's open and `RetrieveNodeInfo`
(what runs beside them under the kernel's lock touches the directory or the node infos,
not both in one step, so it may as well come before or after); Rename's begin, where only
the lock is taken, and `RetrieveNodeInfo`; the two `RetrieveNodeInfo` and the
`StoreRegFileInfo` of a Link, which is used with one request at a time only. `UnlinkForgets`
removes a node info only where Unlink found one when it began, as the code does.
Underlying system calls fail only as the state makes them fail
(a missing name, `~(TMP)` in the way); disk and permission errors are left out.
A node of go-fuse whose name was removed has the placeholder path `Gone`.

`Workload` says which kinds of request clients send. Open with O_TRUNC truncates the
underlying file, as `syscall.Open` does with the flags it is given; whether the kernel
leaves O_TRUNC in them or sends a Setattr is up to the mount, so both are modelled,
Setattr in `Attributes`. Properties are stated for
the paths and hashes outside `overlap`: those on which no two requests were engaged
at once, and to which no Release on such a path has carried the damage. A Release and an
Unlink are engaged on their path and their hash, a Lookup on its path; two Lookups do
each other no harm. `NoCrash` says that no Create or Lookup is about to dereference nil,
unless its path, or the content its node info names, is in `overlap`. `Undisturbed`
needs no such condition, only contents that are never repeated.

## FileStore

What a client sees of files: the file each name stands for, and the content it shows. It
knows nothing of hashes, shared inodes, temporary names or the steps of a request:
Create, Write, Truncate, Link, Unlink and Rename each take effect at once. In
`RegularFiles`, `Store` is its instance with `file <- own` (whose file the client put
there) and `shown <- Shown` (what the underlying file under the name holds), and
`ImplementsFileStore` says that every step of a request is one of these operations or
changes nothing that shows. So a Release, with its dozen steps, never shows. It holds
where no content is written twice (`files_distinct`, and proved) and where contents
repeat, one request at a time, without rewrites, truncations and renames (`files_sequential`); what
the code does outside is under Findings.

## Permissions and Sysadmin

`Permissions` has the checks as operators: a mode and an access mask are sets of bit
numbers, a caller a record of uid and gid. `CheckMask` shifts the mode as the code
does, on 32 bits; `checkMode` picks the bit of the caller's class; `checkOpenIntent`
keeps its `flags == O_RDONLY` test, so a read-only open with any other flag asks for
nothing and the check is left to Read.

`Sysadmin` is about processes over one save file. `pc` says where a process is in
main: `Start` (first retrieval, SetSysadmin or the check), `Change` (a change command up
to `os.Create`) or `Mount` (mount and second retrieval into the struct in use),
`Unmount` (the final save up to `os.Create`), `Encode`, and `Crash` anywhere. gob leaves
out zero fields and does not touch what was left out, so `Retrieved` merges. `admin` is
history, the sysadmin that the commands so far should have left, and `disturbed` is set
when processes overlap or one dies with changes it has not saved: then a change command
is overwritten by the final save of a mounted process, or whoever starts next becomes
the sysadmin. `SomeoneMayRun` has no such condition. `AccessPredicts` compares the
checks under whatever sysadmin is in memory.

## Attributes

It extends `RegularFiles`: `FileRequest` is the same steps, each with what it does to
attributes, and permission checks before them. `attrs` has owner, mode, size and `XAttr`
pointer of each metadata; a map is named by the metadata it was made for (`xattrs`), as
Release copies the pointer and not the map; `writer` is the user in each buffer;
`inodeMode` is the underlying mode.

| steps | code |
|---|---|
| `CreateAs`, `OpenAs`, `WriteAs`, `PwriteAs` | Create records the creator and opens with the client's mode, from which open(2) takes the server's umask (`Masked`); Open and Write check; two writes to one inode change the size of its other names |
| `TakeWriter`, `NewBlank`, `LinkAs`, `FillAttributes` | Release takes the writer with the buffer, makes blank metadata, stats the link, then migrates the old attributes or makes them up: from the spare file for a duplicate, from the inode otherwise |
| `SetattrBegin`, `SetMode`, `SetOwner`, `SetSize`, `SkipField`, `EndSetattr` | Setattr: one lookup and check at the start, then one field per critical section, any of which may refuse |
| `XattrBegin`, `SetCustomXAttr`, `RemoveCustomXAttr` | Setxattr and Removexattr with the two flags |

There is one setter at a time: the kernel holds the inode's lock for it, and for Unlink
(`UnlinkLocks`), but not for Release. `Umask` is a constant: `main` never clears the
umask it was started with, so a new file has the mode its client gave less that umask, in
the inode and, by Release's Fstat, in the metadata, while chmod gives the mode itself;
the 0644 of a spare file loses it too (`ServerMode`). `given` is what clients gave
each file in that sense. The
properties compare it with what Getattr and Getxattr find, for files no request is at
work on (`AtRest`). Left out are: `collided`, a Setattr and a Release of one file at
once, where the change is lost; `dropped`, a rewrite that left the file without
metadata but with a node info that names some, and a file whose metadata that node info
has come to name since (`Misled`); `spared`, a mode from the spare file (`attributes_mode`); `cut`, a size from
Setattr, which truncates nothing, or of a file whose inode was written to under
another name. `XAttrsKept` needs neither `collided` nor `spared`: the map survives.
`LookupId` reads the uid's hexadecimal digits as a decimal number, as the code prints it
with `%x` (10 is looked up as "a" and refused). A user is one number for uid and gid.

## Persistence

It extends `RegularFiles`: `Serve` is any step of it while the process serves. The
node infos and the metadata are saved one after the other by the regular save
(`Tick`, then `CreateNodesFile`, `EncodeNodes`, `CreateMetadataFile`,
`EncodeMetadata`) and, when the file system is unmounted, by main's final save, which
runs the same steps beside the regular one. `os.Create` truncates, so a file is
`<< >>` until it has been encoded. The mutexes are held from one to the other.
The kernel unmounts only what is not in use, so no request is running in `Unmount`.

`Exit` and `Crash` end the process and start the next in one step, `Restart`: memory is
what the files hold, the underlying files stay (the page cache survives a SIGKILL;
the loss of unsynced data in a power failure is not modelled). Before
`CheckIntegrity` (`InsureIntegrity`) someone may remove underlying files, which is
what the check looks for. It runs alone: requests that arrive between the mount and
its end are left out; the file of the directories' metadata is in `Directories`. The
check only asks whether a path exists, so it keeps the node info of a file that was
replaced after the save.

A crash damages what the snapshot has not got: `dirty` collects the hashes and paths
changed since the last complete round of saves began, `InHand` those a request other
than a Lookup is in the middle of (a Lookup changes one node info at most, in one step).
`Restart` adds them to `overlap`, so the properties of `RegularFiles`
speak of all the others, and everything is damaged while a file is truncated.

## Directories

It stands beside `RegularFiles`, as the two meet only in the code that is common to
them (`HandleNodeInstantiation`, `Rename`) and not in any entry of the maps. Its state
is the underlying `tree` (path -> inode), the two maps keyed by path (`info`, of
stable attributes, and `dirMeta`, of owners), go-fuse's `node` tree, a record `req` per
request and the two saved files. Paths are at most two names long, which is what it
takes to have a directory below the one that moves.

| steps | code |
|---|---|
| `MkdirBegin`, `MkdirUnderlying`, `UpdateOwner` | `Mkdir`, with Lookup's steps between the last two |
| `LookupBegin`, `Stat`, `RetrieveNodeInfo`, `LookupDirMetadata` or `StoreInfo` and `CreateDirEntry`, `UpdateDirEntry` | `Lookup` and `HandleNodeInstantiation`; a known node without metadata is ENODATA, and a nil dereference in `Mkdir` (`Panic`) |
| `RmdirBegin` to `RmdirReply` | `Rmdir`: the system call, the metadata, the node info |
| `RenameBegin` to `RenameReply` | `Rename` and `renameExchange`: the system call, the old and the new node info, the copy of the metadata, the removal of the old |
| `Reply`, `RmdirReply`, `RenameReply`, `Forget` | what go-fuse does with its nodes when a handler has returned (external) |
| `SaveNodePersistenceHash`, `SaveDirMetadataHash` | the two saves, one after the other |
| `Crash` | the end of the process, perhaps within a save (`torn`), retrieval and `InsureIntegrity` |

Handlers compute their paths when they begin (`path`, `to`) and use them to the end;
`at` and `into` are where go-fuse finds the nodes when the handler returns: in the
parents' nodes, which move when a directory above is renamed.
`locks` are the kernel's: a directory that is changed, looked up for a name the kernel
does not know, removed, or moved to another parent. Moving a directory inside its
parent does not lock it, and so Mkdir in it can run meanwhile. Some steps are two or
three critical sections of the code: the lookup and the update in `UpdateDirEntry` and in
`UpdateOwner`; `RenameCopiesEntry`, which looks the old metadata up, makes the
new and copies; Rename's begin and `RetrieveNodeInfo`. What another request could see in
between is a path that is in use or stale. Requests that
permissions refuse change nothing and are left out; `UpdateDirEntry`'s second call on a
node that is new stands for both, as nothing distinguishes them.

`maker` is history: who made the directory an inode stands for, which its owner in
`dirMeta` is compared with. `stale` is history too: the paths nothing is promised of any
more. A path gets there when two requests work on it at once (not two lookups), when
something that was below a directory is moved with it, when it is the source of an
exchange, when a stale directory is renamed to it, and when the snapshot a crash falls
back on differs from memory there. `Mkdir` and `Rmdir` do not take a path out again.
The other paths keep the properties, whatever happens on the stale ones.

## Runs

| run | bounds | shows |
|---|---|---|
| `store` | 2 requests, 2 hashes and the zero hash, 3 entries, 3 references in all | the seven safety properties of the store, and that every request returns |
| `store_lost` (violation) | 1 hash | two requests on one hash: a reference in use cannot be found |
| `files_concurrent` | 2 requests, 2 paths, 2 contents, at most one overlapping hash or path, more only while a Lookup and an Unlink meet | contents, node infos, counts, shared inodes, temporary names, no crash |
| `files_distinct` | 2 requests, 2 paths, two releases with a result, no empty file closed | without repeated contents every path keeps its own file, and the file store is implemented |
| `files_sequential` | 1 request, 3 paths, files of up to two writes, 3 releases | contents survive deduplication, unlinks and hard links, and the file store is implemented |
| `persistence` | 1 request, 2 paths, 2 contents, 3 inodes, 3 releases, 1 regular save, 1 restart | contents, node infos, counts and no crash across a restart; an unmount loses nothing |
| `files_rewrite` (violation) | 1 request | a write to one duplicate shows in the other |
| `directories` | 2 requests at once, 2 directories with one subdirectory each, 2 users, 3 inodes, 5 requests in all (3 before and 1 after a crash when a map was saved), 2 saves, 1 crash | owners, node infos, nothing left behind, distinct nodes and no panic on paths that are not stale |
| `directories_moved` (violation) | 1 request, no saves | a directory that moved with the one above it has no metadata |
| `access` | 2 processes at once, 3 starts in all, numbers with and without an account | nobody is locked out, changes last, who runs it is its sysadmin, access(2) agrees with the other checks |
| `attributes` | 1 file request and 1 setter, 2 users, 2 paths, 1 content (or empty), 3 releases, 1 Setattr or 2 Setxattr, umask 022 and a mode that it takes a bit from | owner, mode, extended attributes and size of files at rest |
| `attributes_mode` (violation) | the same | a duplicate has the spare file's mode |

Why the bounds are enough for what they look for: every race in the store is between
two requests and needs one entry to be created, emptied and created again
(3 entries); a third hash adds nothing as hashes meet only in the table. A
duplicate, its original and a file that takes the original's place need three inodes
and two paths; with more requests the same pairs of steps interleave. A Lookup that
meets an Unlink puts both its path and its content into `overlap`; the run follows the two
until one has returned or the process has ended (`FewOverlaps`). Symmetry
over requests, paths and contents is used where no liveness is checked; `View` drops
local variables that are dead, and `LowestFirst` numbers addresses and inodes in
the order they are taken, as they are interchangeable. In `persistence` no request runs
within the steps of a save that commute with it (`PromptSaves`), and the last process,
which no other follows, makes no saves; a stale snapshot that does harm needs a file
closed before the save, one in its place after it and one after the restart: three
releases. In `directories` the longest chain is to make a directory and one below it,
move the first, make another in its place and look it up (5 requests); three inodes
are a directory, the one below and the newcomer, and one number is soon used again.
A save matters only for what is done before and after it, which takes two requests and
one in the next process to see the result. In `access` a first start, a change
command beside a mounted process and a start that finds the result make three. In
`attributes` what Release does with attributes depends on whether there is old metadata
and whether the content is known: a file, its duplicate and a rewrite of either are three
releases; the setter meets a Release at each of its stages (steps of the store, which
touch no attribute, run to their end first: `LowestFirst`). Deadlock is not checked: clients
may stop, the bounds stop the model, and `RetrieveRecent`'s loop stops the code.

Each passing property has a mutant of a mapped definition (marked `mutant of` in
the modules) that makes it fail under the same run.

## Fairness

`FairSpec` has weak fairness of each request's own steps after it began. The code
justifies it: a handler runs in its own goroutine, every lock it takes is
released by its holder as long as nobody is in `RetrieveRecent`'s loop, and Go's
RWMutex does not starve writers. `store` runs under it; the other specifications have
safety properties only. Nothing is assumed of clients: no request has to
be sent.

## Proofs

`MetadataStoreProofs` proves the safety properties of `MetadataStore` for every set
of hashes, threads and entries and every bound, from `StoreAssumption` alone (the
"nil" values are no members of the sets, the bound on indices is at most the
largest count, and there are finitely many threads and entries).

`IInv` is the inductive invariant. `CountExact` and `NothingLost` are not inductive:
`CountExact` could be broken by a request that decrements for a reference that is
already gone, so `ProgressSound` says what the one request at work on a hash
(`Alone`) has established at each point; `NothingLost` could be broken by a deletion
of a non-empty entry or by a creation over one, which `ProgressSound` excludes at
`delete` and at `create`; `PointersSound` and `TableSound` tie pointers to hashes,
so that a request on another hash cannot touch the entry; `FreshCells` and
`KeysHandedOut` give the state of a new entry and make the next reference new;
`EmptyEntryInHand` accounts for entries that are empty for a moment. Each action
has a lemma. The theorems `TypeCorrectness`, `CountIsExact`, `NothingIsLost`,
`RetrieveRecentTerminates` and `NoEmptyEntryStays` follow from it, and
`StoresSucceed` and `ReferencesAreFresh` state action properties.

`RegularFilesProofs` proves `FilesRefineStore` and `FilesTypeCorrectness` from
`FilesAssumption` (blank values are no members of the sets, hashes are contents), for
every workload. Its invariant `FilesIInv` adds `StageSound` to the types: what a
request holds at each stage, such as a new metadata from `info` to `fill`. It is
needed because handlers use what they fetched steps ago. Each action has a lemma; a
step of the file system is then a step of the store because it calls the store's own
actions with typed arguments.

`DistinctFilesProofs` proves `Undisturbed` when "duplicate" is not in `Workload`.
`DistinctIInv` is the strengthening: chunks are in one buffer, or in hashes that were
taken before, never in both (`ChunksApart`, `TakenUsed`), so the hash a Release takes
is not in the table nor in another request's hands (`HashInHand`), so no Release
finds a duplicate (`NoDuplicate`) and every inode stays its client's (`OwnFiles`).
It also proves `ImplementsFileStore` there: `names` is `own`, so what a path shows is its
file's content and each system call is the file store's operation; every other step
leaves both alone.

`CalmFilesProofs` proves the six properties of `files_concurrent` for any numbers of
requests, paths, inodes, contents and references, when clients write each file once, look
files up and remove them (`Workload \subseteq WrittenOnce`). The six say something only of
calm paths and hashes, those outside `overlap`, and none is inductive. `CalmIInv`, in
`CalmFiles`, has five parts, each inductive with the ones before it. `FilesApart`: a handle
is alone on its inode, its buffer is what was written, and so the hash of a Release is that
of the whole file. `Meetings`: two requests engaged on one hash or path are in `overlap`, so
a calm one is in one request's hands; that goes for a Lookup's path too (`LookupsApart`). `StoreFound`: what that request knows of the store at
each stage, such as that a duplicate has, besides the new metadata, the one `RetrieveRecent`
returned. `NodesFound`: the circle that deduplication turns on. A node info with a calm hash
leads to metadata of that hash (`InfoFound`), whose Path leads back (`MetadataFound`) to a
file that has the content (`ContentFound`), on the inode that all files of the hash share
(`Shared`); while a Release or an Unlink is under way the circle is open at one place, and
`HandleFound`, `UnlinkFound` and `LinkFound` say where. `ZeroFound` says of empty files, which
are outside that circle, that their node infos lead to metadata with their path, so that a
Lookup finds it. What a Lookup has read it can rely on (`LookFound`): an Unlink that took
the metadata away meanwhile would have met it on the path. `NoCrash` follows. So `LinkOriginal` always finds the
right file (`OriginalFound`), and the count of references is that of files, as the two
correspond one to one (`FilesAndReferences`). A step is shown to keep the last part by what
it leaves alone: everything but its own request (`NodeStep`), or all but one path
(`AtPath`). Two things were learnt on the way. A Release on a path where requests have met
leaves metadata that may be another file's, so it spoils its own hash too: the history
variable did not say so, and the run's bound (`FewOverlaps`) stops before a state
where it shows. And the zero hash has no part in sharing: empty files are
never linked, and as their metadata is never removed, a node info that a crash brings back
may lead to that of a file that was at its path before. TLC checks `CalmIInv` too, when it is added to the invariants of
`FilesConcurrent.cfg`.

`PersistenceProofs` carries the store's promises over any number of saves, crashes and
restarts (`StoreSurvives`), and proves `ExitKeepsEverything`, for every workload and
any number of requests. `PersistenceIInv` adds to `FilesIInv`: what a file holds is a
map the store could have (`SavedSound`); a hash that is not `dirty` looks the same in it
as in memory (`SavedAgrees`); a request in the store works on the hash it remembers
(`HashRemembered`), so `InHand` covers every hash whose entry may be empty for a
moment; while the file system is closing, what has been encoded is what memory holds
(`ClosingSaves`); and before the integrity check nothing runs and every entry is in the
table (`StartingSound`), so that the check's subtractions leave counts exact
(`RemovalArithmetic`).
It also proves `NodesExist` for one request at a time, every workload. Two can break it: a
Lookup stores a node info for a file that an Unlink is taking away, after a crash that lost
the node info there was (TLC finds it with two threads). `NamesSound` strengthens it:
a node info is without a file only from the system call that takes the name away to the
step that removes the node info (`MissingInHand`), and at the stages between, the name is
there that the request will store a node info for (`NameSound`). The integrity check
establishes it, whatever the snapshots hold.

The rest of `PersistenceProofs` is about files, for clients that write each file once, look
files up and remove them: `ContentsSurvive`, `MetadataSurvives`, `CountsSurvive` and
`NoCrash`, the sharing of inodes too, over any number of saves, crashes and restarts, for
any number of requests. `RestartsIInv` is the invariant. Its first part is that of
`CalmFiles`, less what the integrity check restores (`CalmKept`, `StartingFound`): a path
whose underlying file was removed keeps its node info until then. `NodesAgree` and
`SavedAgrees` say that the saved maps are memory's but for what has changed. That is not
enough, as the two are saved at different times: a saved node info could lead to
a reference that only the other map, or only the older of two rounds, knows of. `Leads` is
what excludes it: where a path has changed and its content counts as unchanged, an Unlink is
about to take its metadata away (`Removing`), so that the content is in hand and a
crash now damages it. It is said of memory's node infos and of the saved ones, against
`dirty` and against `since` (`ChangesLead`), and while the regular save is between its two
maps (`Late`) also against the round in progress, which becomes `dirty` when the round ends.
`ServeLeads` is the hard step: a request changes path and content one after the other,
and must not be able to change only the path (`ChangeLeads`, `TouchesChange`,
`RemovalsGoOn`). `HandsLead` is the same for what requests have in hand when a round begins.
A crash is then `UndamagedStays` and `UndamagedLeads`: what is undamaged looks the same in
the new process, and no node info from outside leads there, so what node infos and
metadata said of each other they go on to say (`UndamagedFound`). `CheckFinds` does the
same for the integrity check, which may take metadata only of paths that are gone, as
no two node infos lead to one reference. On the instance of `persistence` TLC finds no
violation of `RestartsIInv`.

`SysadminProofs` proves the five properties of `access` from `SysadminAssumption`, for any
accounts, numbers and processes. `MaskAgrees` is the arithmetic: a bit of the shifted mode
is the bit of the class. `SysadminIInv` adds that whoever runs has a sysadmin with an
account's uid (`AdminsSound`), as the change commands look the uid up and gob never drops
`Set`, and that an undisturbed process is alone with the sysadmin in its memory
(`OneCopy`), without which the second retrieval could bring an older one back.

`DirectoriesProofs` proves the six properties of `directories` from
`DirectoriesAssumption` (blank values are no members of the sets), for any names, users,
inodes, requests, saves and crashes. None is inductive. `DirectoriesIInv` says first
that on every path that is not stale and that no request has begun to change, tree, node
info, metadata and node agree (`PathsIntact`, `Intact`); the properties follow, as
`Sound` paths are such. While a request is changing a path, `LookupSound`, `MkdirSound`,
`RmdirSound` and `MoveSound` say which of the four it has brought into line at each
stage, so that they agree again when it returns. A step of one request must not disturb
the stage of another: that is `PathsSound` (two requests share no path that is not stale,
unless both are lookups) and `LocksSound`, with `RenameSound` for what the locks of a
rename keep in place: the directory moved, its new parent, and nothing beneath a
directory that moves down. `InodesApart` makes nodes distinct. The hard action is
`RenameReply`, where go-fuse moves nodes, and with them the places and locks of the
other requests: `MovedPlace` must keep two locks, or two places, apart
(`LocksMove`, `PlacesMove`), and `LeftWrong` must cover every path that does not come
out intact (`NodesMove`). The first sections of the module are about paths and
`MovedTree`, the one in the middle is a lemma per action, and `StepKeeps` is what they
share: it reduces an action to the paths its request uses.

`AttributesProofs` proves that attributes, checks and the setter add nothing to what files
do (`AttributesRefineFiles`), so that what is proved of `FilesSpec` holds of
`AttributesSpec`, and `AttributesTypeOK`. `AttributesIInv` adds to `FilesIInv` that each
request between its start and the end of Release has a descriptor and a file
(`HandlesSound`) and that the setter has metadata (`SetterSound`): the handlers write
through both long after they got them.

It also proves the three other properties of `attributes`, `AttributesKept`, `XAttrsKept`
and `SizeRight`, for any paths, inodes, contents, users, modes and number of requests and
Setattrs, where, as in that run, one file request is at work at a time beside the setter
and nothing is linked or renamed (`OneAtATime`). The invariant is `Kept`, in
`KeptAttributes`, for every umask. `MetaAt` says where a file's attributes are: in the old metadata from
`LookupOldMetadata` until `FillAttributes` has copied them, although the node info names
the new one since `UpdateInfo`; otherwise in what the node info names. `FilesKept` is the
three properties said of that metadata, for files at rest or not. `FilesApartHere`: no
request and no other file's node info can come to that metadata or to its map. `NewKept`:
nobody else has the new metadata, so blanking and filling it harms no file. `SetterAt`:
what the setter holds is its file's metadata or has the same map, which is why Setxattr
survives a Release and Setattr does not. `CallKept`: the store's calls remove the
metadata they are meant to. The proof has one lemma per step of the request
(`OpenAsKept` to `FillAttributesKept`), which takes the setter to be anywhere, and one per
kind of step of the setter (`SetterBeginsKept`, `SetterWritesKept`, `StoredKept`), which
takes the request to be anywhere. `FrameKeeps` is what the steps that leave attributes
alone share. The proof did not go through at first because the property was false beyond
the run's bounds, with three paths and five releases (see Findings): `Misled` is the
correction. TLC checks `KeptIInv` too, when it is added to the invariants of
`Attributes.cfg`.

Only model-checked: `RequestsReturn` (liveness is out of the prover's reach); and, in
`files_sequential`, `ReadsBack` with hard links and `ImplementsFileStore` when contents
repeat.

## Findings

`PROJECT.json` has four, one for each violation run: metadata lost by two releases of
equal new content; writes that show in duplicates; directories left without metadata when
the one above them, or the one they are exchanged with, is renamed; and the mode of a new
file replaced by 0644 when its content is known.

The models also hold behaviour that no violation run is about:

- `RetrieveRecent` never ends on an entry whose references are all gone, and keeps the
  read lock (`regular_file_metadata_api.go:61`): the `spin` of `MetadataStore`.
- A file that is rewritten with content that exists already loses its metadata
  (`node.go:1350`), and ends the process at the next Lookup (`Drop`, `dropped`). Its node
  info goes on naming the hash and the reference: when the hash loses its last metadata
  and gets a new entry, whose references start again, it names another file's metadata,
  and a Setattr of the one changes the other (`Misled`). Other properties leave these
  files out or are checked where nobody rewrites, so none fails by it.
- A Lookup uses the result of `LookupRegularFileMetadata` unchecked
  (`vfs/common.go:343`, `:349`), and takes no lock of the directory when the kernel knows
  the name: an Unlink of the file that removes the metadata (`node.go:1029`) after the
  Lookup has found the node info ends the process (`LookupFills`).
- Hard links share one reference. Unlinking one of them removes the metadata of both
  (`node.go:1029`), and the next Lookup of the other ends the process, without any
  concurrency. `files_sequential` reaches it (`UnlinkFile`, `LookupFills`), and checks the
  contents there, not `NoCrash`.
- Renaming a duplicate onto its duplicate does nothing underneath (`node.go:1542`), so the
  old name stays, without a node info (`RenameFile`; it breaks `ImplementsFileStore`,
  which is checked where nobody renames, or where there are no duplicates).
- Setattr's size changes only the metadata (`common.go:204`), Setattr of a file without
  metadata is ignored with OK (`node.go:430`), and a Setattr beside a Release of the file
  is lost (`SetSize`, `SetattrBegin`, `collided`).
- chown looks ids up in hexadecimal (`common.go:82`; `LookupId`).
- A buffer left under a path by a rename or an unlink keeps its owner, whom the next file
  created there gets (`node.go:931`; `CreateAs`). In `attributes` unlinked files are
  closed first, as its workload has no unlink of open files.
- `ChangeSysadminGID` looks its argument up among the users (`sysadmin.go:191`); with both
  change flags only the uid is changed (`main.go:80`).
- Getxattr assigns to its own copy of the slice (`metadata/common.go:76`), so the
  caller's buffer stays as it was. Create ignores the error of its open (`node.go:922`).
  The times that Setattr leaves out are stored all the same (`common.go:160`). These three
  are outside the models.

## Not modelled

File locks: `file.go` has Getlk, Setlk and Setlkw, but go-fuse offers them to the kernel
only with `MountOptions.EnableLocks`, which `main.go` does not set, so they are not
reached. Times, device numbers and the attributes of directories other than the owner.
Requests that arrive before the retrieval has ended. Mknod, and RENAME_EXCHANGE of regular
files. Reads, statfs, symbolic links and special files are thin wrappers of one system
call. `code/NFS`, `code/examples` and `code/experimenting` are prototypes OptiFS does not
use. Logging, the debug printers and the flag parser are left out.
BLAKE3 is taken to be injective.
