----------------------------- MODULE RegularFiles -----------------------------
(***************************************************************************)
(* The life of regular files in vfs/node.go: Create, Open, Write, Release  *)
(* (which deduplicates), Lookup, Link, Rename and Unlink, run by concurrent *)
(* FUSE requests over the metadata store, the persistence hash, the write  *)
(* buffers and the underlying file system.                                 *)
(*                                                                         *)
(* A request is a member of Threads.  Between two of its store calls it    *)
(* runs the store's own actions (module MetadataStore), so every step of   *)
(* this module is a step of the store or leaves it alone.  A request that  *)
(* opens a file is that open file description until it is released.        *)
(*                                                                         *)
(* All files are in one directory.  The kernel holds the directory's lock  *)
(* during Create, Link, Rename and Unlink, so those exclude each other;    *)
(* Lookup, Open, Write and Release run beside anything, and Release runs   *)
(* after close() has returned to the program.                              *)
(***************************************************************************)
EXTENDS MetadataStore, Sequences

CONSTANTS
    Path,       \* names in the directory
    NoPath,     \* the blank Path of metadata not yet filled in
    Gone,       \* go-fuse's placeholder path of a node without a parent
    Inode,      \* inodes of the underlying file system, never reused here
    NoFile,     \* no inode: the name does not exist
    Chunk,      \* what one Write can carry
    NoChunk,    \* no Write in progress
    MaxWrites,  \* bound on the writes that go into one buffer or file
    NoInfo,     \* a missing key of nodePersistenceHash
    NoBuffer,   \* a missing key of hashHashMap
    NoMeta,     \* a nil *MapEntryMetadata
    Workload    \* what the clients do: a subset of WorkloadKinds

WorkloadKinds ==
    {"duplicate",    \* write content that was written before
     "rewrite",      \* open an existing file for writing
     "truncate",     \* the same with O_TRUNC, where the kernel passes it on
     "unlink",       \* unlink files that are closed
     "unlinkOpen",   \* unlink files that are open
     "rename", "link", "lookup"}

\* The hash of a file is the sequence of the chunks whose hashes it is made from:
\* BLAKE3 is taken to be injective.
Contents == UNION {[1..n -> Chunk] : n \in 0..MaxWrites}

Meta == [entry : Entries, ref : Refs]
Info == [hash : AllHash, ref : 0..MaxIndex]

ASSUME FilesAssumption ==
    /\ MaxWrites \in Nat
    /\ NoHash = << >>
    /\ Hash = Contents \ {<< >>}
    /\ NoPath \notin Path /\ Gone \notin Path /\ NoPath # Gone
    /\ NoFile \notin Inode
    /\ NoBuffer \notin Contents
    /\ NoInfo \notin Info
    /\ Path \cap Contents = {}     \* overlap holds members of both
    /\ Workload \subseteq WorkloadKinds

VARIABLES
    names,      \* the underlying directory: path -> inode or NoFile
    tmp,        \* the same for the names path~(TMP)
    data,       \* the content of each inode
    nodeInfo,   \* nodePersistenceHash: path -> (ContentHash, RefNum) or NoInfo
    metaPath,   \* the Path field of each MapEntryMetadata
    buffer,     \* hashHashMap: path -> what was written, or NoBuffer
    req,        \* what each request holds
    crashed,    \* a nil dereference has ended the process
    own,        \* history: the file the client put at each path
    want,       \* history: what the client wrote to each file
    used,       \* history: chunks written so far
    overlap     \* history: hashes and paths two requests have been engaged on at once,
                \* and those that a Release of one of these spreads the damage to

disk == <<names, tmp, data>>
clients == <<own, want, used>>
filesVars == <<vars, disk, nodeInfo, metaPath, buffer, req, crashed, clients, overlap>>

Stages ==
    {"idle", "create",                                  \* Create
     "open", "pwrite",                                  \* Write
     "released", "storing", "info", "link", "swap", "fill", "dropping",  \* Release
     "stat", "look", "attr",                            \* Lookup
     "linked",                                          \* Link
     "rename", "renamed", "moved",                      \* Rename
     "unlink", "unlinking", "forget"}                   \* Unlink

Request ==
    [stage : Stages,
     path  : Path \cup {NoPath, Gone},  \* the node's path, as go-fuse knows it
     to    : Path \cup {NoPath, Gone},  \* new name; the nodePath of a Release
     inode : Inode \cup {NoFile},       \* what the file descriptor refers to
     file  : Inode \cup {NoFile},       \* history: the client's file
     info  : Info,                      \* the hash and reference read at the start
     exists : BOOLEAN,                  \* customExists of an Unlink
     chunk : Chunk \cup {NoChunk},       \* what a Write carries
     hash  : AllHash,                   \* newHash of a Release
     dup   : BOOLEAN,                   \* not isUnique
     old   : Meta \cup {NoMeta},        \* oldMetadata
     rec   : Meta \cup {NoMeta},        \* what RetrieveRecent returned
     new   : Meta \cup {NoMeta}]        \* what CreateRegularFileMetadata returned

NewInfo == [hash |-> NoHash, ref |-> 0]

Blank ==
    [stage |-> "idle", path |-> NoPath, to |-> NoPath, inode |-> NoFile, file |-> NoFile,
     info |-> NewInfo, exists |-> FALSE, chunk |-> NoChunk, hash |-> NoHash, dup |-> FALSE, old |-> NoMeta, rec |-> NoMeta, new |-> NoMeta]

FilesTypeOK ==
    /\ names \in [Path -> Inode \cup {NoFile}]
    /\ tmp \in [Path -> Inode \cup {NoFile}]
    /\ data \in [Inode -> Contents]
    /\ nodeInfo \in [Path -> Info \cup {NoInfo}]
    /\ metaPath \in [Entries -> [Refs -> Path \cup {NoPath, Gone}]]
    /\ buffer \in [Path -> Contents \cup {NoBuffer}]
    /\ req \in [Threads -> Request]
    /\ crashed \in BOOLEAN
    /\ own \in [Path -> Inode \cup {NoFile}]
    /\ want \in [Inode -> Contents]
    /\ used \in SUBSET Chunk
    /\ overlap \in SUBSET (AllHash \cup Path)

FilesInit ==
    /\ Init
    /\ names = [p \in Path |-> NoFile]
    /\ tmp = [p \in Path |-> NoFile]
    /\ data = [i \in Inode |-> << >>]
    /\ nodeInfo = [p \in Path |-> NoInfo]
    /\ metaPath = [e \in Entries |-> [r \in Refs |-> NoPath]]
    /\ buffer = [p \in Path |-> NoBuffer]
    /\ req = [t \in Threads |-> Blank]
    /\ crashed = FALSE
    /\ own = [p \in Path |-> NoFile]
    /\ want = [i \in Inode |-> << >>]
    /\ used = {}
    /\ overlap = {}

-----------------------------------------------------------------------------
(* Helpers.                                                                 *)

Stage(t) == req[t].stage

\* A process that dereferenced nil runs no further step.
At(t, stage) == ~crashed /\ Stage(t) = stage

Goto(t, stage) == req' = [req EXCEPT ![t].stage = stage]

Return(t) == req' = [req EXCEPT ![t] = Blank]

IsOpen(t) == Stage(t) \in {"open", "pwrite"}

\* The kernel's lock on the directory.
DirectoryFree ==
    \A t \in Threads :
        Stage(t) \notin {"create", "linked", "rename", "renamed", "moved",
                         "unlink", "unlinking", "forget"}

Exists(p) == p \in Path /\ names[p] # NoFile

\* Inodes no name, descriptor or history variable speaks of.
FreshInodes ==
    {i \in Inode :
        /\ want[i] = << >>
        /\ \A p \in Path : i \notin {names[p], tmp[p], own[p]}
        /\ \A t \in Threads : i \notin {req[t].inode, req[t].file}}

\* What RetrieveNodeInfo yields, zero values on a miss.
InfoOf(p) == IF p \in Path /\ nodeInfo[p] # NoInfo THEN nodeInfo[p] ELSE NewInfo

\* LookupRegularFileMetadata finds metadata (it takes the zero hash too).
HasMetadata(info) ==
    table[info.hash] # NoEntry /\ info.ref \in live[table[info.hash]]

MetadataOf(info) ==
    IF HasMetadata(info) THEN [entry |-> table[info.hash], ref |-> info.ref] ELSE NoMeta

PathOf(meta) == metaPath[meta.entry][meta.ref]

\* FillAttr would be called with nil: a node that is not new has no metadata.
FillsFromNil(t) ==
    /\ Stage(t) \in {"create", "attr"}
    /\ req[t].info # NewInfo /\ ~HasMetadata(req[t].info)

\* RetrieveRecent's result when it returns metadata.
Newest(e) == {r \in live[e] : \A s \in live[e] : s <= r}

\* mutant of Patched: the offset is ignored.
PatchedAtEnd(content, off, c) == Append(content, c)

\* Pwrite of one chunk inside or at the end of the file.
Patched(content, off, c) ==
    [n \in 1..(IF off = Len(content) THEN off + 1 ELSE Len(content)) |->
        IF n = off + 1 THEN c ELSE content[n]]

\* go-fuse moves the nodes of its tree once the handler has succeeded.
Moved(from, to) ==
    [t \in Threads |->
        IF IsOpen(t) /\ req[t].path = to /\ to # from THEN [req[t] EXCEPT !.path = Gone]
        ELSE IF IsOpen(t) /\ req[t].path = from THEN [req[t] EXCEPT !.path = to]
        ELSE req[t]]

\* Requests engaged on a hash and a path, from when they know them to their return.
Engaged ==
    {t \in Threads :
        Stage(t) \in {"released", "storing", "info", "link", "swap", "fill", "dropping",
                      "unlink", "unlinking", "forget"}}

\* A Lookup is engaged on its path; two of them do each other no harm.
InLookup(t) == Stage(t) \in {"stat", "look", "attr"}

On(t, p) == p \in Path /\ p \in {req[t].path, req[t].to}

\* What a request on hash h and path p finds another one engaged on.
Overlapping(h, p) ==
    LET onHash == {t \in Engaged : req[t].hash = h}
        onPath == {t \in Engaged : On(t, p)}
        lookups == {t \in Threads : InLookup(t) /\ On(t, p)} IN
    overlap \cup (IF onHash = {} THEN {} ELSE {h})
            \cup (IF onPath \cup lookups = {} THEN {} ELSE {h, p} \cup {req[t].hash : t \in onPath})

\* The same for a Lookup.
LookupOverlapping(p) ==
    LET onPath == {t \in Engaged : On(t, p)} IN
    overlap \cup (IF onPath = {} THEN {} ELSE {p} \cup {req[t].hash : t \in onPath})

-----------------------------------------------------------------------------
(* Create, Open and Write.                                                  *)

\* Create of a new name: the file is opened, and an empty buffer records the
\* creator unless one is left under the path; then the node info is read.
Create(t, p) ==
    /\ At(t, "idle") /\ pc[t] = "idle"
    /\ DirectoryFree
    /\ names[p] = NoFile
    /\ \E i \in FreshInodes :
          /\ names' = [names EXCEPT ![p] = i]
          /\ data' = [data EXCEPT ![i] = << >>]
          /\ own' = [own EXCEPT ![p] = i]
          /\ req' = [req EXCEPT ![t] =
                [Blank EXCEPT !.stage = "create", !.path = p, !.inode = i, !.file = i,
                              !.info = InfoOf(p)]]
    /\ buffer' = [buffer EXCEPT ![p] = IF @ = NoBuffer THEN << >> ELSE @]
    /\ UNCHANGED <<vars, tmp, nodeInfo, metaPath, crashed, want, used, overlap>>

\* HandleNodeInstantiation: a node taken for new gets zero node info; an
\* existing one without metadata ends the process.
CreateStoresInfo(t) ==
    LET p == req[t].path  info == req[t].info IN
    /\ At(t, "create")
    /\ nodeInfo' = IF info = NewInfo THEN [nodeInfo EXCEPT ![p] = NewInfo] ELSE nodeInfo
    /\ crashed' = FillsFromNil(t)
    /\ IF FillsFromNil(t) THEN UNCHANGED req ELSE Goto(t, "open")
    /\ UNCHANGED <<vars, disk, metaPath, buffer, clients, overlap>>

\* Open of an existing file for writing, with or without O_TRUNC: the handle
\* keeps the hash and reference it finds in the persistence hash.
Open(t, p, trunc) ==
    /\ "rewrite" \in Workload
    /\ trunc => "truncate" \in Workload
    /\ At(t, "idle") /\ pc[t] = "idle"
    /\ Exists(p) /\ own[p] # NoFile
    /\ req' = [req EXCEPT ![t] =
          [Blank EXCEPT !.stage = "open", !.path = p, !.inode = names[p],
                        !.file = own[p], !.info = InfoOf(p)]]
    /\ data' = IF trunc THEN [data EXCEPT ![names[p]] = << >>] ELSE data
    /\ want' = IF trunc THEN [want EXCEPT ![own[p]] = << >>] ELSE want
    /\ UNCHANGED <<vars, names, tmp, nodeInfo, metaPath, buffer, crashed, own, used, overlap>>

\* Write, first half: the chunk's hash goes to the buffer of the node's path.
\* A node without a path gets a placeholder nobody will look up again.
HashChunk(t, c) ==
    LET p == req[t].path
        kept == IF p = Gone \/ buffer[p] = NoBuffer THEN << >> ELSE buffer[p] IN
    /\ At(t, "open")
    /\ "duplicate" \in Workload \/ c \notin used
    /\ Len(kept) < MaxWrites
    /\ "rewrite" \in Workload \/ Len(data[req[t].inode]) < MaxWrites
    /\ buffer' = IF p = Gone THEN buffer ELSE [buffer EXCEPT ![p] = Append(kept, c)]
    /\ used' = used \cup {c}
    /\ req' = [req EXCEPT ![t].stage = "pwrite", ![t].chunk = c]
    /\ UNCHANGED <<vars, disk, nodeInfo, metaPath, crashed, own, want, overlap>>

\* Write, second half: Pwrite to the inode the descriptor refers to.
PwriteChunk(t, off) ==
    LET i == req[t].inode  f == req[t].file IN
    /\ At(t, "pwrite")
    /\ off <= Len(data[i]) /\ off < MaxWrites
    /\ "rewrite" \in Workload \/ off = Len(data[i])
    /\ data' = [data EXCEPT ![i] = Patched(@, off, req[t].chunk)]
    /\ want' = [want EXCEPT ![f] = Patched(@, off, req[t].chunk)]
    /\ Goto(t, "open")
    /\ UNCHANGED <<vars, names, tmp, nodeInfo, metaPath, buffer, crashed, own, used, overlap>>

-----------------------------------------------------------------------------
(* Release of a handle opened for writing.                                  *)

\* mutant of TakeBuffer: the buffer is not deleted.
TakeBufferKeeping(t) ==
    LET p == req[t].path
        kept == IF p = Gone \/ buffer[p] = NoBuffer THEN << >> ELSE buffer[p] IN
    /\ At(t, "open")
    /\ req' = [req EXCEPT ![t].stage = "released", ![t].to = p, ![t].hash = kept]
    /\ overlap' = Overlapping(kept, p) \cup (IF p \in overlap THEN {kept} ELSE {})
    /\ UNCHANGED <<vars, disk, nodeInfo, metaPath, buffer, crashed, clients>>

\* The buffer of the node's path is taken and hashed; none is the zero hash.
\* (On a path where requests have met, the metadata may be another file's.)
TakeBuffer(t) ==
    LET p == req[t].path
        kept == IF p = Gone \/ buffer[p] = NoBuffer THEN << >> ELSE buffer[p] IN
    /\ At(t, "open")
    /\ buffer' = IF p = Gone THEN buffer ELSE [buffer EXCEPT ![p] = NoBuffer]
    /\ req' = [req EXCEPT ![t].stage = "released", ![t].to = p, ![t].hash = kept]
    /\ overlap' = Overlapping(kept, p) \cup (IF p \in overlap THEN {kept} ELSE {})
    /\ UNCHANGED <<vars, disk, nodeInfo, metaPath, crashed, clients>>

\* oldMetadata, by what the handle was opened with; then the store is called.
LookupOldMetadata(t) ==
    /\ At(t, "released")
    /\ BeginStore(t, req[t].hash)
    /\ req' = [req EXCEPT ![t].stage = "storing", ![t].old = MetadataOf(req[t].info)]
    /\ UNCHANGED <<disk, nodeInfo, metaPath, buffer, crashed, clients, overlap>>

\* mutant of ReleaseTest: every content counts as unique.
ReleaseTestUnique(t) ==
    /\ At(t, "storing")
    /\ IsContentHashUnique(t)
    /\ UNCHANGED <<disk, nodeInfo, metaPath, buffer, req, crashed, clients, overlap>>

\* The store's steps; Release remembers isUnique, rec and the new metadata.
ReleaseTest(t) ==
    /\ At(t, "storing")
    /\ IsContentHashUnique(t)
    /\ req' = [req EXCEPT ![t].dup = ~Unique(hashArg[t])]
    /\ UNCHANGED <<disk, nodeInfo, metaPath, buffer, crashed, clients, overlap>>

ReleaseCreateEntry(t) ==
    /\ At(t, "storing")
    /\ CheckMapEntry(t) \/ CreateMapEntry(t)
    /\ UNCHANGED <<disk, nodeInfo, metaPath, buffer, req, crashed, clients, overlap>>

\* Without an entry Release returns ENODATA and the descriptor stays open.
ReleaseLookupEntry(t) ==
    /\ At(t, "storing")
    /\ LookupMapEntry(t)
    /\ IF table[hashArg[t]] = NoEntry THEN Return(t) ELSE UNCHANGED req
    /\ UNCHANGED <<disk, nodeInfo, metaPath, buffer, crashed, clients, overlap>>

ReleaseRecent(t) ==
    LET e == entryPtr[t] IN
    /\ At(t, "storing")
    /\ RetrieveRecent(t)
    /\ \E rec \in {NoMeta} \cup [entry : {e}, ref : Newest(e)] :
          /\ (rec = NoMeta) = (live[e] = {})
          /\ req' = [req EXCEPT ![t].rec = rec]
    /\ UNCHANGED <<disk, nodeInfo, metaPath, buffer, crashed, clients, overlap>>

ReleaseNewMetadata(t) ==
    LET e == entryPtr[t] IN
    /\ At(t, "storing")
    /\ CreateMetadata(t)
    /\ req' = [req EXCEPT ![t].stage = "info", ![t].new = [entry |-> e, ref |-> index[e] + 1]]
    /\ UNCHANGED <<disk, nodeInfo, metaPath, buffer, crashed, clients, overlap>>

\* RemoveRegularFileMetadata(newHash, newRef), on the way out.
DropNew(t) ==
    /\ BeginRemove(t, req[t].hash, req[t].new.ref)
    /\ Goto(t, "dropping")

\* mutant of UpdateInfo: the node info is not updated.
UpdateInfoOmitted(t) ==
    /\ At(t, "info")
    /\ IF req[t].dup /\ req[t].rec = NoMeta
       THEN DropNew(t)
       ELSE Goto(t, IF req[t].dup THEN "link" ELSE "fill") /\ UNCHANGED vars
    /\ UNCHANGED <<disk, nodeInfo, metaPath, buffer, crashed, clients, overlap>>

\* UpdateNodeInfo: nothing when the path has no node info (any more).
\* A duplicate whose original RetrieveRecent did not find is given up.
UpdateInfo(t) ==
    LET p == req[t].to
        info == [hash |-> req[t].hash, ref |-> req[t].new.ref] IN
    /\ At(t, "info")
    /\ nodeInfo' = IF p # Gone /\ nodeInfo[p] # NoInfo
                   THEN [nodeInfo EXCEPT ![p] = info] ELSE nodeInfo
    /\ IF req[t].dup /\ req[t].rec = NoMeta
       THEN DropNew(t)
       ELSE Goto(t, IF req[t].dup THEN "link" ELSE "fill") /\ UNCHANGED vars
    /\ UNCHANGED <<disk, metaPath, buffer, crashed, clients, overlap>>

\* syscall.Link(rec.Path, nodePath~(TMP)): rec.Path is read now.
CanLink(t) ==
    /\ Exists(PathOf(req[t].rec))
    /\ req[t].to # Gone
    /\ tmp[req[t].to] = NoFile

LinkOriginal(t) ==
    /\ At(t, "link")
    /\ CanLink(t)
    /\ tmp' = [tmp EXCEPT ![req[t].to] = names[PathOf(req[t].rec)]]
    /\ Goto(t, "swap")
    /\ UNCHANGED <<vars, names, data, nodeInfo, metaPath, buffer, crashed, clients, overlap>>

LinkFails(t) ==
    /\ At(t, "link")
    /\ ~CanLink(t)
    /\ DropNew(t)
    /\ UNCHANGED <<disk, nodeInfo, metaPath, buffer, crashed, clients, overlap>>

\* mutant of SwapInDuplicate: Link instead of Rename, the temporary name stays.
SwapInDuplicateByLink(t) ==
    LET p == req[t].to IN
    /\ At(t, "swap")
    /\ names' = [names EXCEPT ![p] = tmp[p]]
    /\ Goto(t, "fill")
    /\ UNCHANGED <<vars, tmp, data, nodeInfo, metaPath, buffer, crashed, clients, overlap>>

\* syscall.Rename(tmp, nodePath): nothing happens between two names of one
\* inode; a name that has been unlinked meanwhile comes back.  (A temporary name
\* left behind is in the way of the next Release at the path.)
SwapInDuplicate(t) ==
    LET p == req[t].to IN
    /\ At(t, "swap")
    /\ IF names[p] = tmp[p]
       THEN UNCHANGED disk
       ELSE /\ names' = [names EXCEPT ![p] = tmp[p]]
            /\ tmp' = [tmp EXCEPT ![p] = NoFile]
            /\ UNCHANGED data
    /\ Goto(t, "fill")
    /\ overlap' = IF names[p] = tmp[p] /\ req[t].hash \in overlap
                  THEN overlap \cup {p} ELSE overlap
    /\ UNCHANGED <<vars, nodeInfo, metaPath, buffer, crashed, clients>>

\* mutant of FillMetadata: every duplicate's new metadata is removed.
FillMetadataThenDrop(t) ==
    LET new == req[t].new  old == req[t].old IN
    /\ At(t, "fill")
    /\ metaPath' = [metaPath EXCEPT ![new.entry][new.ref] =
          IF old = NoMeta THEN req[t].to ELSE PathOf(old)]
    /\ IF req[t].dup THEN DropNew(t) ELSE Return(t) /\ UNCHANGED vars
    /\ UNCHANGED <<disk, nodeInfo, buffer, crashed, clients, overlap>>

\* MigrateRegularFileMetadata, MigrateDuplicateFileMetadata (which the removal
\* of the new metadata follows), FullMapEntryMetadataUpdate or
\* InitialiseNewDuplicateFileMetadata: the new metadata gets its Path.
FillMetadata(t) ==
    LET new == req[t].new  old == req[t].old IN
    /\ At(t, "fill")
    /\ metaPath' = [metaPath EXCEPT ![new.entry][new.ref] =
          IF old = NoMeta THEN req[t].to ELSE PathOf(old)]
    /\ IF req[t].dup /\ old # NoMeta THEN DropNew(t) ELSE Return(t) /\ UNCHANGED vars
    /\ UNCHANGED <<disk, nodeInfo, buffer, crashed, clients, overlap>>

\* The steps of RemoveRegularFileMetadata at the end of a Release.
Drop(t) ==
    /\ At(t, "dropping")
    /\ RemoveStep(t)
    /\ IF pc'[t] = "idle" THEN Return(t) ELSE UNCHANGED req
    /\ UNCHANGED <<disk, nodeInfo, metaPath, buffer, crashed, clients, overlap>>

-----------------------------------------------------------------------------
(* Lookup and Link.                                                         *)

\* Lstat finds the file.  Names are looked up at every use (main.go sets
\* EntryTimeout to 0), without the directory's lock when the kernel knows the
\* name, so that an Unlink may run between the steps of a Lookup.
LookupBegin(t, p) ==
    /\ "lookup" \in Workload
    /\ At(t, "idle") /\ pc[t] = "idle"
    /\ Exists(p)
    /\ ~\E u \in Threads : Stage(u) \in {"create", "linked"} /\ p \in {req[u].path, req[u].to}
    /\ req' = [req EXCEPT ![t] = [Blank EXCEPT !.stage = "stat", !.path = p]]
    /\ overlap' = LookupOverlapping(p)
    /\ UNCHANGED <<vars, disk, nodeInfo, metaPath, buffer, crashed, clients>>

\* RetrieveNodeInfo: a node without hash and reference is taken for new.
LookupReadsInfo(t) ==
    LET info == InfoOf(req[t].path) IN
    /\ At(t, "stat")
    /\ req' = [req EXCEPT ![t].stage = IF info = NewInfo THEN "look" ELSE "attr",
                          ![t].info = info]
    /\ UNCHANGED <<vars, disk, nodeInfo, metaPath, buffer, crashed, clients, overlap>>

\* LookupRegularFileMetadata, whose error is ignored, and FillAttr.
LookupFills(t) ==
    /\ At(t, "attr")
    /\ crashed' = FillsFromNil(t)
    /\ IF FillsFromNil(t) THEN UNCHANGED req ELSE Return(t)
    /\ UNCHANGED <<vars, disk, nodeInfo, metaPath, buffer, clients, overlap>>

\* A node taken for new is stored again with the zero hash and reference.
LookupStoresInfo(t) ==
    /\ At(t, "look")
    /\ nodeInfo' = [nodeInfo EXCEPT ![req[t].path] = NewInfo]
    /\ Return(t)
    /\ UNCHANGED <<vars, disk, metaPath, buffer, crashed, clients, overlap>>

\* Link: the hard link exists before the persistence hash knows of it.
LinkBegin(t, p, q) ==
    /\ "link" \in Workload
    /\ At(t, "idle") /\ pc[t] = "idle"
    /\ DirectoryFree
    /\ Exists(p) /\ names[q] = NoFile
    /\ names' = [names EXCEPT ![q] = names[p]]
    /\ own' = [own EXCEPT ![q] = own[p]]
    /\ req' = [req EXCEPT ![t] =
          [Blank EXCEPT !.stage = "linked", !.path = p, !.to = q]]
    /\ UNCHANGED <<vars, tmp, data, nodeInfo, metaPath, buffer, crashed, want, used, overlap>>

\* HandleHardlinkInstantiation stores the source's hash and reference; the
\* link is undone when the source has none or the target has some already.
LinkStoresInfo(t) ==
    LET p == req[t].path  q == req[t].to IN
    /\ At(t, "linked")
    /\ IF nodeInfo[p] # NoInfo /\ nodeInfo[q] = NoInfo
       THEN /\ nodeInfo' = [nodeInfo EXCEPT ![q] = nodeInfo[p]]
            /\ UNCHANGED <<names, own>>
       ELSE /\ names' = [names EXCEPT ![q] = NoFile]
            /\ own' = [own EXCEPT ![q] = NoFile]
            /\ UNCHANGED nodeInfo
    /\ Return(t)
    /\ UNCHANGED <<vars, tmp, data, metaPath, buffer, crashed, want, used, overlap>>

-----------------------------------------------------------------------------
(* Rename of a regular file, without RENAME_EXCHANGE.                       *)

\* The source's node info is read; without it Rename fails with ENOENT.
RenameBegin(t, p, q) ==
    /\ "rename" \in Workload
    /\ At(t, "idle") /\ pc[t] = "idle"
    /\ DirectoryFree
    /\ Exists(p) /\ p # q
    /\ nodeInfo[p] # NoInfo
    /\ req' = [req EXCEPT ![t] =
          [Blank EXCEPT !.stage = "rename", !.path = p, !.to = q, !.info = InfoOf(p)]]
    /\ UNCHANGED <<vars, disk, nodeInfo, metaPath, buffer, crashed, clients, overlap>>

\* syscall.Rename: no effect between two names of one inode, also when Release
\* has made one inode of the client's two files.
RenameFile(t) ==
    LET p == req[t].path  q == req[t].to
        moved(f) == IF f[p] = f[q] THEN f ELSE [f EXCEPT ![q] = f[p], ![p] = NoFile] IN
    /\ At(t, "rename")
    /\ names' = moved(names)
    /\ own' = moved(own)
    /\ Goto(t, "renamed")
    /\ UNCHANGED <<vars, tmp, data, nodeInfo, metaPath, buffer, crashed, want, used, overlap>>

\* RemoveNodeInfo(originalPath), then StoreRegFileInfo(newPath): what the
\* target had is overwritten, its metadata and every Path stay as they are.
RenameRemovesInfo(t) ==
    /\ At(t, "renamed")
    /\ nodeInfo' = [nodeInfo EXCEPT ![req[t].path] = NoInfo]
    /\ Goto(t, "moved")
    /\ UNCHANGED <<vars, disk, metaPath, buffer, crashed, clients, overlap>>

RenameStoresInfo(t) ==
    /\ At(t, "moved")
    /\ nodeInfo' = [nodeInfo EXCEPT ![req[t].to] = req[t].info]
    /\ req' = [Moved(req[t].path, req[t].to) EXCEPT ![t] = Blank]
    /\ UNCHANGED <<vars, disk, metaPath, buffer, crashed, clients, overlap>>

-----------------------------------------------------------------------------
(* Unlink.                                                                  *)

\* The node info is read before the file goes.
UnlinkBegin(t, p) ==
    /\ "unlink" \in Workload
    /\ At(t, "idle") /\ pc[t] = "idle"
    /\ DirectoryFree
    /\ Exists(p) /\ own[p] # NoFile
    /\ "unlinkOpen" \in Workload \/ \A u \in Threads : IsOpen(u) => req[u].path # p
    /\ req' = [req EXCEPT ![t] =
          [Blank EXCEPT !.stage = "unlink", !.path = p, !.info = InfoOf(p),
                        !.exists = (nodeInfo[p] # NoInfo), !.hash = InfoOf(p).hash]]
    /\ overlap' = Overlapping(InfoOf(p).hash, p)
    /\ UNCHANGED <<vars, disk, nodeInfo, metaPath, buffer, crashed, clients>>

\* mutant of UnlinkFile: the metadata is left in the store.
UnlinkFileOnly(t) ==
    LET p == req[t].path IN
    /\ At(t, "unlink")
    /\ names' = [names EXCEPT ![p] = NoFile]
    /\ own' = [own EXCEPT ![p] = NoFile]
    /\ Goto(t, "forget")
    /\ UNCHANGED <<vars, tmp, data, nodeInfo, metaPath, buffer, crashed, want, used, overlap>>

\* syscall.Unlink, then RemoveRegularFileMetadata; a reference of zero (or the
\* zero hash) is not found by it.
UnlinkFile(t) ==
    LET p == req[t].path  info == req[t].info IN
    /\ At(t, "unlink")
    /\ names' = [names EXCEPT ![p] = NoFile]
    /\ own' = [own EXCEPT ![p] = NoFile]
    /\ IF info.ref = 0 \/ info.hash = NoHash
       THEN Goto(t, "forget") /\ UNCHANGED vars
       ELSE Goto(t, "unlinking") /\ BeginRemove(t, info.hash, info.ref)
    /\ UNCHANGED <<tmp, data, nodeInfo, metaPath, buffer, crashed, want, used, overlap>>

UnlinkRemoves(t) ==
    /\ At(t, "unlinking")
    /\ RemoveStep(t)
    /\ Goto(t, IF pc'[t] = "idle" THEN "forget" ELSE "unlinking")
    /\ UNCHANGED <<disk, nodeInfo, metaPath, buffer, crashed, clients, overlap>>

\* mutant of UnlinkForgets: the node info stays.
UnlinkForgetsNothing(t) ==
    /\ At(t, "forget")
    /\ req' = [Moved(req[t].path, Gone) EXCEPT ![t] = Blank]
    /\ UNCHANGED <<vars, disk, nodeInfo, metaPath, buffer, crashed, clients, overlap>>

\* RemoveNodeInfo, where there was one at the start; then go-fuse drops the
\* node from its tree.
UnlinkForgets(t) ==
    /\ At(t, "forget")
    /\ nodeInfo' = IF req[t].exists THEN [nodeInfo EXCEPT ![req[t].path] = NoInfo] ELSE nodeInfo
    /\ req' = [Moved(req[t].path, Gone) EXCEPT ![t] = Blank]
    /\ UNCHANGED <<vars, disk, metaPath, buffer, crashed, clients, overlap>>

-----------------------------------------------------------------------------
ReleaseStep(t) ==
    \/ TakeBuffer(t)
    \/ LookupOldMetadata(t)
    \/ ReleaseTest(t)
    \/ ReleaseCreateEntry(t)
    \/ ReleaseLookupEntry(t)
    \/ ReleaseRecent(t)
    \/ ReleaseNewMetadata(t)
    \/ UpdateInfo(t)
    \/ LinkOriginal(t)
    \/ LinkFails(t)
    \/ SwapInDuplicate(t)
    \/ FillMetadata(t)
    \/ Drop(t)

NamespaceStep(t) ==
    \/ CreateStoresInfo(t)
    \/ LookupReadsInfo(t)
    \/ LookupStoresInfo(t)
    \/ LookupFills(t)
    \/ LinkStoresInfo(t)
    \/ RenameFile(t)
    \/ RenameRemovesInfo(t)
    \/ RenameStoresInfo(t)
    \/ UnlinkFile(t)
    \/ UnlinkRemoves(t)
    \/ UnlinkForgets(t)

ClientStep(t) ==
    \/ \E p \in Path :
          \/ Create(t, p)
          \/ \E trunc \in BOOLEAN : Open(t, p, trunc)
          \/ LookupBegin(t, p)
          \/ UnlinkBegin(t, p)
          \/ \E q \in Path : LinkBegin(t, p, q) \/ RenameBegin(t, p, q)
    \/ \E c \in Chunk : HashChunk(t, c)
    \/ \E off \in 0..MaxWrites : PwriteChunk(t, off)

FilesNext ==
    \E t \in Threads : ClientStep(t) \/ ReleaseStep(t) \/ NamespaceStep(t)

FilesSpec == FilesInit /\ [][FilesNext]_filesVars

-----------------------------------------------------------------------------
(* What clients get when they write each file once and no two requests are  *)
(* engaged at once on one content hash or one path: on the hashes and paths *)
(* for which that is so, whatever happens on the others.                    *)

Calm == (AllHash \cup Path) \ overlap

\* No request uses the path: it exists and is closed, or does not exist.
Settled(p) ==
    \A t \in Threads : Stage(t) = "idle" \/ p \notin {req[t].path, req[t].to}

Closed(p) == own[p] # NoFile /\ Settled(p) /\ {p, want[own[p]]} \subseteq Calm

\* A path shows the file the client put there, with what the client wrote,
\* whichever inode Release has made it a link to; removed files stay removed.
ReadsBack ==
    \A p \in Path :
        p \in Calm =>
        IF own[p] # NoFile
        THEN want[own[p]] \in Calm => Exists(p) /\ data[names[p]] = want[own[p]]
        ELSE Exists(p) => data[names[p]] \notin Calm

\* A closed file's node info leads to its metadata, whose Path leads back:
\* the next duplicate links to a file with the right content, and Lookup
\* never fills its answer from nil.
NodeHasMetadata ==
    \A p \in Path :
        Closed(p) =>
            /\ InfoOf(p).hash = want[own[p]]
            /\ HasMetadata(InfoOf(p))
            /\ PathOf(MetadataOf(InfoOf(p))) = p

\* technical_manual.md:306: ReferenceCount is the number of files with the
\* content, once the requests engaged on it have returned.
CountsFiles ==
    \A h \in Calm \cap Hash :
        (\A t \in Threads : Stage(t) = "idle" \/ req[t].hash # h) =>
            Cardinality({p \in Path : InfoOf(p).hash = h}) =
                (IF table[h] = NoEntry THEN 0 ELSE count[table[h]])

\* Closed files with equal content occupy one inode: nothing is stored twice.
DuplicatesShareInode ==
    \A p, q \in Path :
        /\ Closed(p) /\ Closed(q)
        /\ want[own[p]] = want[own[q]] /\ want[own[p]] # NoHash
        => names[p] = names[q]

\* The temporary link exists only between Link and Rename.
NoLinkLeftBehind ==
    \A p \in Path :
        tmp[p] # NoFile /\ {p, data[tmp[p]]} \subseteq Calm =>
            \E t \in Threads : Stage(t) = "swap" /\ req[t].to = p

\* No Create or Lookup is about to end the process, on a path and a content on
\* which requests have not met.
NoCrash ==
    \A t \in Threads :
        FillsFromNil(t) => ~({req[t].path, req[t].info.hash} \subseteq Calm)

-----------------------------------------------------------------------------
(* What clients get when no content is ever written twice.                  *)

\* Files are then never linked by Release: whatever runs at the same time,
\* each path is the file the client put there, with what was written to it.
Undisturbed ==
    \A p \in Path :
        /\ names[p] = own[p]
        /\ own[p] # NoFile => data[own[p]] = want[own[p]]

-----------------------------------------------------------------------------
(* The abstract file store.                                                 *)

\* What reading each path returns.
Shown == [p \in Path |-> IF Exists(p) THEN data[names[p]] ELSE NoBuffer]

Store == INSTANCE FileStore WITH
    File <- Inode, NoContent <- NoBuffer, file <- own, shown <- Shown

\* Deduplication does not show: each step of a request creates, writes,
\* truncates, links, renames or unlinks files as a client means it to, at once,
\* or changes nothing that a client can read; a Release never does.
ImplementsFileStore == Store!Spec

-----------------------------------------------------------------------------
(* What a request holds at each stage: with FilesTypeOK and the store's IInv *)
(* this is inductive.                                                       *)

RequestSound(r) ==
    /\ r.stage \in {"create", "open", "pwrite"} => {r.inode, r.file} \subseteq Inode
    /\ r.stage \in {"open", "pwrite"} => r.path \in Path \cup {Gone}
    /\ r.stage = "pwrite" => r.chunk \in Chunk
    /\ r.stage \in {"released", "storing", "info", "link", "swap", "fill"} => r.to \in Path \cup {Gone}
    /\ r.stage \in {"info", "link", "swap", "fill"} => r.new \in Meta
    /\ r.stage = "swap" => r.to \in Path
    /\ r.stage \in {"create", "stat", "look", "attr", "unlink", "unlinking", "forget"} =>
          r.path \in Path
    /\ r.stage \in {"linked", "rename", "renamed", "moved"} => {r.path, r.to} \subseteq Path

StageSound == \A t \in Threads : RequestSound(req[t])

FilesIInv == FilesTypeOK /\ StageSound /\ IInv

-----------------------------------------------------------------------------
(* Why files stay undisturbed while no content is written twice: a hash that *)
(* Release takes has never been stored, so no Release finds a duplicate.     *)

ChunksOf(s) == {s[n] : n \in DOMAIN s}

Releasing(t) == Stage(t) \in {"released", "storing"}

\* Hashes in the table or on their way into it.
Taken == {h \in Hash : table[h] # NoEntry \/ \E t \in Threads : Releasing(t) /\ req[t].hash = h}

\* Names, contents and descriptors are the client's own.
OwnFiles ==
    /\ names = own /\ data = want
    /\ \A t \in Threads : Stage(t) \in {"create", "open", "pwrite"} => req[t].inode = req[t].file

NoDuplicate == \A t \in Threads : req[t].dup = FALSE /\ Stage(t) \notin {"link", "swap"}

\* A hash on its way is in one request's hands, and not in the table before
\* IsContentHashUnique.
HashInHand ==
    \A t \in Threads :
        /\ Stage(t) = "storing" => hashArg[t] = req[t].hash
        /\ Stage(t) = "released" \/ (Stage(t) = "storing" /\ pc[t] = "unique") =>
              req[t].hash = NoHash \/ table[req[t].hash] = NoEntry
        /\ \A u \in Threads \ {t} :
              Releasing(t) /\ Releasing(u) /\ req[t].hash = req[u].hash => req[t].hash = NoHash

\* No chunk is in two buffers, or in a buffer and in a hash taken before.
ChunksApart ==
    \A p \in Path :
        buffer[p] # NoBuffer =>
            /\ ChunksOf(buffer[p]) \subseteq used
            /\ \A q \in Path \ {p} :
                  buffer[q] # NoBuffer => ChunksOf(buffer[p]) \cap ChunksOf(buffer[q]) = {}
            /\ \A h \in Taken : ChunksOf(buffer[p]) \cap ChunksOf(h) = {}

TakenUsed == \A h \in Taken : ChunksOf(h) \subseteq used

DistinctIInv == OwnFiles /\ NoDuplicate /\ HashInHand /\ ChunksApart /\ TakenUsed

-----------------------------------------------------------------------------
(* What the repository says of clients that open a file again to write.     *)

\* technical_manual.md:442, that "any changes to one file would be reflected
\* in the other" is fixed: a file shows what was written to it alone.
ChangesStayPrivate ==
    \A p \in Path :
        own[p] # NoFile /\ Exists(p) => data[names[p]] = want[own[p]]
=============================================================================
