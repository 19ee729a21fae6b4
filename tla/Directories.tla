----------------------------- MODULE Directories -----------------------------
(***************************************************************************)
(* The life of directories in vfs/node.go: Mkdir, Lookup, Rmdir, Rename    *)
(* with and without RENAME_EXCHANGE, over the underlying tree, the two     *)
(* maps keyed by path (nodePersistenceHash and dirMetadataHash) and        *)
(* go-fuse's node tree; the saves of both maps, a crash, and what the next *)
(* process makes of them.                                                  *)
(*                                                                         *)
(* The tree is two deep.  A request is a member of Threads; it computes    *)
(* its paths when it begins and uses them to the end.  The kernel holds    *)
(* the lock of the directories a request changes, but none while it looks  *)
(* up a name it knows already, and moving a directory inside its parent    *)
(* does not lock it.  A request that permissions refuse changes nothing    *)
(* and is left out; of the metadata only the owner is kept.                *)
(***************************************************************************)
EXTENDS Integers, Sequences

CONSTANTS
    Top,            \* names in the root directory
    Sub,            \* names in its subdirectories
    Inode,          \* inodes of the underlying file system, used again when free
    NoInode,        \* the path does not exist
    User,           \* the clients' users
    Server,         \* the user the file system runs as: owner of what it makes
    Blank,          \* owner of a metadata entry not filled in yet
    NoMeta,         \* a missing key of dirMetadataHash
    NoInfo,         \* a missing key of nodePersistenceHash
    NoNode,         \* the kernel knows no node of that path
    Threads,
    MaxRequests,    \* bound on the requests
    MaxSaves,       \* bound on the files saved
    MaxCrashes

Root == << >>
Path == {<<n>> : n \in Top} \cup {<<n, m>> : n \in Top, m \in Sub}
Parent(p) == SubSeq(p, 1, Len(p) - 1)
Beneath(p) == {r \in Path : Len(p) < Len(r) /\ r[1] = p[1]}
Within(p) == {p} \cup Beneath(p)

\* A stable attribute is a hash of the path and the underlying inode a node was
\* first seen with; the hash is taken to be injective.
Attr == Path \X Inode

Owner == User \cup {Server, Blank}

ASSUME DirectoriesAssumption ==
    /\ NoInode \notin Inode
    /\ NoInfo \notin Attr
    /\ NoNode \notin Attr
    /\ NoMeta \notin Owner
    /\ MaxRequests \in Nat /\ MaxSaves \in Nat /\ MaxCrashes \in Nat

VARIABLES
    tree,           \* the underlying tree: path -> inode
    info,           \* nodePersistenceHash: path -> stable attribute
    dirMeta,        \* dirMetadataHash: path -> owner
    node,           \* go-fuse's tree: path -> stable attribute of the node
    req,            \* what each request is doing, with its locals
    begun,          \* requests begun
    savedInfo,      \* OptiFSNodePersistenceSave.gob
    savedDirs,      \* OptiFSDirMetadataSave.gob
    next,           \* the file that is written next
    saves,          \* files written
    crashes,
    maker,          \* history: who made the directory an inode stands for
    stale           \* history: paths the module promises nothing of any more

disk == <<tree, maker>>
maps == <<info, dirMeta>>
snapshot == <<savedInfo, savedDirs, next, saves, crashes>>
vars == <<disk, maps, node, req, begun, snapshot, stale>>

-----------------------------------------------------------------------------
Idle ==
    [stage |-> "idle", op |-> "none", path |-> Root, to |-> Root, at |-> Root, into |-> Root,
     locks |-> {}, user |-> Server, inode |-> NoInode, attr |-> NoInfo]

Init ==
    /\ tree = [p \in Path |-> NoInode]
    /\ info = [p \in Path |-> NoInfo]
    /\ dirMeta = [p \in Path |-> NoMeta]
    /\ node = [p \in Path |-> NoNode]
    /\ req = [t \in Threads |-> Idle]
    /\ begun = 0
    /\ savedInfo = info /\ savedDirs = dirMeta
    /\ next = "nodes"
    /\ saves = 0 /\ crashes = 0
    /\ maker = [i \in Inode |-> Server]
    /\ stale = {}

Stage(t) == req[t].stage
At(t, s) == Stage(t) = s
Active == {t \in Threads : Stage(t) # "idle"}
Goto(t, s) == req' = [req EXCEPT ![t].stage = s]
Return(t) == req' = [req EXCEPT ![t] = Idle]

\* The underlying tree as system calls see it.
IsDir(p) == p # Root => tree[p] # NoInode
Known(p) == p # Root => node[p] # NoNode
HasChildren(p) == \E r \in Beneath(p) : tree[r] # NoInode

\* The tree f with what is at p put in the place of q, and back to front when
\* the two are exchanged.
Rebased(r, q, p) == p \o SubSeq(r, Len(q) + 1, Len(r))
Value(f, r, none) == IF r \in Path THEN f[r] ELSE none
MovedTree(f, p, q, none) ==
    [r \in Path |->
        CASE r \in Within(q) -> Value(f, Rebased(r, q, p), none)
          [] r \in Within(p) \ Within(q) -> none
          [] OTHER -> f[r]]
ExchangedTree(f, p, q, none) ==
    [r \in Path |->
        CASE r \in Within(q) -> Value(f, Rebased(r, q, p), none)
          [] r \in Within(p) \ Within(q) -> Value(f, Rebased(r, p, q), none)
          [] OTHER -> f[r]]

\* Where the node at r is after the move of p to q, or their exchange, and where
\* a name in the directory at r's parent is.
MovedPath(r, p, q, swap) ==
    IF r \in Within(p) THEN Rebased(r, p, q)
    ELSE IF swap /\ r \in Within(q) THEN Rebased(r, q, p) ELSE r
MovedPlace(r, p, q, swap) ==
    IF r = Root THEN r ELSE Append(MovedPath(Parent(r), p, q, swap), r[Len(r)])

-----------------------------------------------------------------------------
(* Beginning a request.                                                     *)

\* Paths whose entries a request works on, or moves.  It keeps the paths it has
\* begun with (path, to), while the nodes it will add, move or remove are
\* found in their parents' nodes, wherever those are by then (at, into).
Uses(r) ==
    {r.path, r.at, r.into} \cup
    IF r.op \in {"rename", "exchange"} THEN Within(r.path) \cup Within(r.to) ELSE {}

UsedBy(T) == (UNION {Uses(req[t]) : t \in T}) \ {Root}
Settled(p) == p \notin UsedBy(Active)

Locked(d) == \E t \in Active : d \in req[t].locks
LockedForChange(d) == \E t \in Active : d \in req[t].locks /\ req[t].op # "lookup"

\* Two requests at once on one path may leave anything behind, but two lookups.
Begin(t, r) ==
    /\ At(t, "idle")
    /\ begun < MaxRequests
    /\ begun' = begun + 1
    /\ req' = [req EXCEPT ![t] = r]
    /\ stale' = stale \cup
          (Uses(r) \cap UsedBy({s \in Active : r.op # "lookup" \/ req[s].op # "lookup"}))
    /\ UNCHANGED <<disk, maps, node, snapshot>>

\* The kernel knows the directory and not the name.
MkdirBegin(t, p, u) ==
    /\ Known(Parent(p))
    /\ node[p] = NoNode
    /\ ~Locked(Parent(p))
    /\ Begin(t, [Idle EXCEPT !.stage = "mkdir", !.op = "mkdir", !.path = p, !.at = p,
                             !.locks = {Parent(p)}, !.user = u])

\* A name the kernel knows is looked up again, as its entry is never cached.
LookupBegin(t, p) ==
    /\ Known(Parent(p))
    /\ node[p] = NoNode =>
          /\ ~LockedForChange(Parent(p))
          /\ \A s \in Active : req[s].op = "lookup" => req[s].at # p
    /\ Begin(t, [Idle EXCEPT !.stage = "stat", !.op = "lookup", !.path = p, !.at = p,
                             !.locks = IF node[p] = NoNode THEN {Parent(p)} ELSE {}])

RmdirBegin(t, p) ==
    /\ node[p] # NoNode
    /\ ~Locked(Parent(p)) /\ ~Locked(p)
    /\ Begin(t, [Idle EXCEPT !.stage = "rmdir", !.op = "rmdir", !.path = p, !.at = p,
                             !.locks = {Parent(p), p}])

\* p can be moved to q: q is not within p, and the tree stays two deep.
Movable(p, q) ==
    /\ p # q /\ q \notin Beneath(p)
    /\ Len(q) > Len(p) =>
          /\ ~HasChildren(p)
          /\ \A r \in Beneath(p) : node[r] = NoNode /\ \A t \in Active : req[t].at # r

\* Rename checks permissions and fails when the path has no node info, with
\* "big error, why doesn't it??".
RenameBegin(t, p, q, op) ==
    /\ node[p] # NoNode
    /\ Known(Parent(q))
    /\ Movable(p, q)
    /\ op = "exchange" => node[q] # NoNode /\ Movable(q, p)
    /\ LET locks == {Parent(p), Parent(q)} \cup {q}
                        \cup (IF Parent(p) # Parent(q) THEN {p} ELSE {}) IN
       /\ \A d \in locks : ~Locked(d)
       /\ Begin(t, IF info[p] = NoInfo THEN Idle
                   ELSE [Idle EXCEPT !.stage = "rename", !.op = op, !.path = p, !.to = q,
                                     !.at = p, !.into = q, !.locks = locks, !.attr = info[p]])

-----------------------------------------------------------------------------
(* Mkdir and Lookup.                                                        *)

\* syscall.Mkdir; a parent that has been moved away, or a name taken by now,
\* is an error.
MkdirUnderlying(t) ==
    /\ At(t, "mkdir")
    /\ IF IsDir(Parent(req[t].path)) /\ ~IsDir(req[t].path)
       THEN \E i \in Inode :
               /\ \A p \in Path : tree[p] # i
               /\ tree' = [tree EXCEPT ![req[t].path] = i]
               /\ maker' = [maker EXCEPT ![i] = req[t].user]
               /\ Goto(t, "stat")
       ELSE Return(t) /\ UNCHANGED disk
    /\ UNCHANGED <<maps, node, begun, snapshot, stale>>

Stat(t) ==
    /\ At(t, "stat")
    /\ LET i == tree[req[t].path] IN
       IF i = NoInode THEN Return(t)
       ELSE req' = [req EXCEPT ![t].stage = "node", ![t].inode = i]
    /\ UNCHANGED <<disk, maps, node, begun, snapshot, stale>>

\* HandleNodeInstantiation: RetrieveNodeInfo finds the node, or it is new.
RetrieveNodeInfo(t) ==
    /\ At(t, "node")
    /\ LET p == req[t].path IN
       req' = IF info[p] = NoInfo
              THEN [req EXCEPT ![t].stage = "info", ![t].attr = <<p, req[t].inode>>]
              ELSE [req EXCEPT ![t].stage = "meta", ![t].attr = info[p]]
    /\ UNCHANGED <<disk, maps, node, begun, snapshot, stale>>

\* A node that is found must have metadata: otherwise HandleNodeInstantiation
\* returns ENODATA, and Mkdir asks a nil node for its attributes.
LookupDirMetadata(t) ==
    /\ At(t, "meta")
    /\ LET mkdir == req[t].op = "mkdir" IN
       IF dirMeta[req[t].path] # NoMeta
       THEN Goto(t, IF mkdir THEN "update" ELSE "reply")
       ELSE IF mkdir THEN Goto(t, "panic") ELSE Return(t)
    /\ UNCHANGED <<disk, maps, node, begun, snapshot, stale>>

\* mutant of StoreInfo: the underlying inode instead of the stable attribute.
StoreInfoUnderlying(t) ==
    /\ At(t, "info")
    /\ info' = [info EXCEPT ![req[t].path] = req[t].inode]
    /\ Goto(t, "entry")
    /\ UNCHANGED <<disk, dirMeta, node, begun, snapshot, stale>>

StoreInfo(t) ==
    /\ At(t, "info")
    /\ info' = [info EXCEPT ![req[t].path] = req[t].attr]
    /\ Goto(t, "entry")
    /\ UNCHANGED <<disk, dirMeta, node, begun, snapshot, stale>>

CreateDirEntry(t) ==
    /\ At(t, "entry")
    /\ dirMeta' = [dirMeta EXCEPT ![req[t].path] = Blank]
    /\ Goto(t, "update")
    /\ UNCHANGED <<disk, info, node, begun, snapshot, stale>>

\* The owner is the underlying directory's; Mkdir does this once more for a
\* node that is new.  Without an entry Mkdir returns an error.
UpdateDirEntry(t) ==
    /\ At(t, "update")
    /\ LET p == req[t].path IN
       IF dirMeta[p] = NoMeta
       THEN /\ IF req[t].op = "mkdir" THEN Return(t) ELSE Goto(t, "reply")
            /\ UNCHANGED dirMeta
       ELSE /\ dirMeta' = [dirMeta EXCEPT ![p] = Server]
            /\ Goto(t, IF req[t].op = "mkdir" THEN "owner" ELSE "reply")
    /\ UNCHANGED <<disk, info, node, begun, snapshot, stale>>

\* Mkdir looks its metadata up again and gives it to the caller.
UpdateOwner(t) ==
    /\ At(t, "owner")
    /\ LET p == req[t].path IN
       IF dirMeta[p] = NoMeta THEN Return(t) /\ UNCHANGED dirMeta
       ELSE dirMeta' = [dirMeta EXCEPT ![p] = req[t].user] /\ Goto(t, "reply")
    /\ UNCHANGED <<disk, info, node, begun, snapshot, stale>>

\* go-fuse adds the child to the parent's node, wherever that is by now; a
\* child that is another node than before has no children yet.
Reply(t) ==
    /\ At(t, "reply")
    /\ LET p == req[t].at IN
       node' = [r \in Path |->
          CASE r = p -> req[t].attr
            [] r \in Beneath(p) /\ node[p] # req[t].attr -> NoNode
            [] OTHER -> node[r]]
    /\ Return(t)
    /\ UNCHANGED <<disk, maps, begun, snapshot, stale>>

\* The kernel forgets a node that is not in use.
Forget(p) ==
    /\ node[p] # NoNode
    /\ \A r \in Beneath(p) : node[r] = NoNode
    /\ \A t \in Active : p \notin {req[t].at, req[t].into} \cup req[t].locks \cup {Parent(req[t].at)}
    /\ node' = [node EXCEPT ![p] = NoNode]
    /\ UNCHANGED <<disk, maps, req, begun, snapshot, stale>>

-----------------------------------------------------------------------------
(* Rmdir.                                                                   *)

RmdirUnderlying(t) ==
    /\ At(t, "rmdir")
    /\ LET p == req[t].path IN
       IF IsDir(p) /\ ~HasChildren(p)
       THEN tree' = [tree EXCEPT ![p] = NoInode] /\ Goto(t, "dropEntry")
       ELSE Return(t) /\ UNCHANGED tree
    /\ UNCHANGED <<maker, maps, node, begun, snapshot, stale>>

RmdirRemovesEntry(t) ==
    /\ At(t, "dropEntry")
    /\ dirMeta' = [dirMeta EXCEPT ![req[t].path] = NoMeta]
    /\ Goto(t, "dropInfo")
    /\ UNCHANGED <<disk, info, node, begun, snapshot, stale>>

\* mutant of RmdirRemovesInfo: only the metadata is removed.
RmdirKeepsInfo(t) ==
    /\ At(t, "dropInfo")
    /\ Goto(t, "unlink")
    /\ UNCHANGED <<disk, maps, node, begun, snapshot, stale>>

RmdirRemovesInfo(t) ==
    /\ At(t, "dropInfo")
    /\ info' = [info EXCEPT ![req[t].path] = NoInfo]
    /\ Goto(t, "unlink")
    /\ UNCHANGED <<disk, dirMeta, node, begun, snapshot, stale>>

RmdirReply(t) ==
    /\ At(t, "unlink")
    /\ node' = [r \in Path |-> IF r \in Within(req[t].at) THEN NoNode ELSE node[r]]
    /\ Return(t)
    /\ UNCHANGED <<disk, maps, begun, snapshot, stale>>

-----------------------------------------------------------------------------
(* Rename.                                                                  *)

\* renameat2 exchanges only inside the root: renameExchange answers EBUSY
\* unless both parents are the root of the file system.
CanExchange(p, q) == Parent(p) = Root /\ Parent(q) = Root /\ IsDir(p) /\ IsDir(q)
CanRename(p, q) == IsDir(p) /\ IsDir(Parent(q)) /\ ~(IsDir(q) /\ HasChildren(q))

RenameUnderlying(t) ==
    /\ At(t, "rename")
    /\ LET p == req[t].path
           q == req[t].to IN
       \/ /\ req[t].op = "rename" /\ CanRename(p, q)
          /\ tree' = MovedTree(tree, p, q, NoInode)
          /\ Goto(t, "oldInfo")
       \/ /\ req[t].op = "exchange" /\ CanExchange(p, q)
          /\ tree' = ExchangedTree(tree, p, q, NoInode)
          /\ Goto(t, "oldInfo")
       \/ /\ IF req[t].op = "rename" THEN ~CanRename(p, q) ELSE ~CanExchange(p, q)
          /\ Return(t)
          /\ UNCHANGED tree
    /\ UNCHANGED <<maker, maps, node, begun, snapshot, stale>>

\* mutant of RenameRemovesInfo: the old path keeps its node info.
RenameKeepsInfo(t) ==
    /\ At(t, "oldInfo")
    /\ Goto(t, "newInfo")
    /\ UNCHANGED <<disk, maps, node, begun, snapshot, stale>>

RenameRemovesInfo(t) ==
    /\ At(t, "oldInfo")
    /\ info' = [info EXCEPT ![req[t].path] = NoInfo]
    /\ Goto(t, "newInfo")
    /\ UNCHANGED <<disk, dirMeta, node, begun, snapshot, stale>>

\* mutant of RenameStoresInfo: nothing is stored under the new path.
RenameStoresNoInfo(t) ==
    /\ At(t, "newInfo")
    /\ Goto(t, "copy")
    /\ UNCHANGED <<disk, maps, node, begun, snapshot, stale>>

RenameStoresInfo(t) ==
    /\ At(t, "newInfo")
    /\ info' = [info EXCEPT ![req[t].to] = req[t].attr]
    /\ Goto(t, "copy")
    /\ UNCHANGED <<disk, dirMeta, node, begun, snapshot, stale>>

\* mutant of RenameCopiesEntry: the new entry stays as it was created.
RenameCopiesNothing(t) ==
    /\ At(t, "copy")
    /\ IF dirMeta[req[t].path] = NoMeta
       THEN Goto(t, "move") /\ UNCHANGED dirMeta
       ELSE /\ dirMeta' = [dirMeta EXCEPT ![req[t].to] = Blank]
            /\ Goto(t, "oldEntry")
    /\ UNCHANGED <<disk, info, node, begun, snapshot, stale>>

\* Without metadata to copy Rename returns early, with success.
RenameCopiesEntry(t) ==
    /\ At(t, "copy")
    /\ IF dirMeta[req[t].path] = NoMeta
       THEN Goto(t, "move") /\ UNCHANGED dirMeta
       ELSE /\ dirMeta' = [dirMeta EXCEPT ![req[t].to] = dirMeta[req[t].path]]
            /\ Goto(t, "oldEntry")
    /\ UNCHANGED <<disk, info, node, begun, snapshot, stale>>

\* mutant of RenameRemovesEntry: the old entry stays.
RenameKeepsEntry(t) ==
    /\ At(t, "oldEntry")
    /\ Goto(t, "move")
    /\ UNCHANGED <<disk, maps, node, begun, snapshot, stale>>

RenameRemovesEntry(t) ==
    /\ At(t, "oldEntry")
    /\ dirMeta' = [dirMeta EXCEPT ![req[t].path] = NoMeta]
    /\ Goto(t, "move")
    /\ UNCHANGED <<disk, info, node, begun, snapshot, stale>>

\* Paths with something at them, or about to have.
Touched(T) ==
    {r \in Path : tree[r] # NoInode \/ info[r] # NoInfo \/ dirMeta[r] # NoMeta \/ node[r] # NoNode}
        \cup UsedBy(T)

\* The paths a rename leaves wrong: all that moved with the directory, whose
\* entries stay under the old paths; an exchanged directory, whose entries are
\* dropped; and the new path of a directory that was wrong already.
LeftWrong(t) ==
    LET p == req[t].path
        q == req[t].to
        touched == Touched(Active \ {t}) IN
    {r \in Beneath(p) : {r, Rebased(r, p, q)} \cap touched # {}}
        \cup {r \in Beneath(q) : {r, Rebased(r, q, p)} \cap touched # {}}
        \cup (IF req[t].op = "exchange" THEN {p} ELSE {})
        \cup (IF p \in stale THEN {q} ELSE {})

\* go-fuse moves or exchanges the children of the two parents' nodes; requests
\* in flight move with them.
RenameReply(t) ==
    /\ At(t, "move")
    /\ LET p == req[t].at
           q == req[t].into
           swap == req[t].op = "exchange" IN
       /\ node' = IF swap THEN ExchangedTree(node, p, q, NoNode)
                          ELSE MovedTree(node, p, q, NoNode)
       /\ req' = [s \in Threads |->
             IF s = t THEN Idle
             ELSE [req[s] EXCEPT !.at = MovedPlace(@, p, q, swap),
                                 !.into = MovedPlace(@, p, q, swap),
                                 !.locks = {MovedPath(d, p, q, swap) : d \in @}]]
    /\ stale' = stale \cup LeftWrong(t)
    /\ UNCHANGED <<disk, maps, begun, snapshot>>

-----------------------------------------------------------------------------
(* Saves, a crash and the next process.                                     *)

\* SavePersistantStorage writes the two maps one after the other.
SaveNodePersistenceHash ==
    /\ next = "nodes" /\ saves < MaxSaves
    /\ savedInfo' = info
    /\ next' = "dirs"
    /\ saves' = saves + 1
    /\ UNCHANGED <<disk, maps, node, req, begun, savedDirs, crashes, stale>>

SaveDirMetadataHash ==
    /\ next = "dirs" /\ saves < MaxSaves
    /\ savedDirs' = dirMeta
    /\ next' = "nodes"
    /\ saves' = saves + 1
    /\ UNCHANGED <<disk, maps, node, req, begun, savedInfo, crashes, stale>>

\* The process ends, perhaps while it writes the next file, which has been
\* truncated by then.  The next process loads both maps and InsureIntegrity
\* removes the node infos and metadata of directories that do not exist.
Crash(torn) ==
    /\ crashes < MaxCrashes
    /\ crashes' = crashes + 1
    /\ savedInfo' = IF torn /\ next = "nodes" THEN [p \in Path |-> NoInfo] ELSE savedInfo
    /\ savedDirs' = IF torn /\ next = "dirs" THEN [p \in Path |-> NoMeta] ELSE savedDirs
    /\ LET missing == {p \in Path : savedInfo'[p] # NoInfo /\ ~IsDir(p)} IN
       /\ info' = [p \in Path |-> IF p \in missing THEN NoInfo ELSE savedInfo'[p]]
       /\ dirMeta' = [p \in Path |-> IF p \in missing THEN NoMeta ELSE savedDirs'[p]]
    /\ stale' = stale \cup UsedBy(Active)
          \cup {p \in Path : savedInfo'[p] # info[p] \/ savedDirs'[p] # dirMeta[p]}
    /\ next' = "nodes"
    /\ node' = [p \in Path |-> NoNode]
    /\ req' = [t \in Threads |-> Idle]
    /\ UNCHANGED <<disk, begun, saves>>

-----------------------------------------------------------------------------
MkdirStep(t) ==
    \/ \E p \in Path, u \in User : MkdirBegin(t, p, u)
    \/ MkdirUnderlying(t)
    \/ UpdateOwner(t)

LookupStep(t) ==
    \/ \E p \in Path : LookupBegin(t, p)
    \/ Stat(t)
    \/ RetrieveNodeInfo(t)
    \/ LookupDirMetadata(t)
    \/ StoreInfo(t)
    \/ CreateDirEntry(t)
    \/ UpdateDirEntry(t)
    \/ Reply(t)

RmdirStep(t) ==
    \/ \E p \in Path : RmdirBegin(t, p)
    \/ RmdirUnderlying(t)
    \/ RmdirRemovesEntry(t)
    \/ RmdirRemovesInfo(t)
    \/ RmdirReply(t)

RenameStep(t) ==
    \/ \E p, q \in Path, op \in {"rename", "exchange"} : RenameBegin(t, p, q, op)
    \/ RenameUnderlying(t)
    \/ RenameRemovesInfo(t)
    \/ RenameStoresInfo(t)
    \/ RenameCopiesEntry(t)
    \/ RenameRemovesEntry(t)
    \/ RenameReply(t)

\* A nil dereference ends the process: the next step is Crash.
Panic(t) == At(t, "panic")

Next ==
    \/ /\ \A t \in Threads : ~Panic(t)
       /\ \/ \E t \in Threads : MkdirStep(t) \/ LookupStep(t) \/ RmdirStep(t) \/ RenameStep(t)
          \/ \E p \in Path : Forget(p)
          \/ SaveNodePersistenceHash
          \/ SaveDirMetadataHash
    \/ \E torn \in BOOLEAN : Crash(torn)

Spec == Init /\ [][Next]_vars

-----------------------------------------------------------------------------
(* What holds of every path that is not stale: no two requests were at work *)
(* on it at once, no directory above it was moved and it was not exchanged, *)
(* and the last crash found its entries saved.                              *)

Sound(p) == p \notin stale /\ Settled(p)

DirTypeOK ==
    /\ tree \in [Path -> Inode \cup {NoInode}]
    /\ maker \in [Inode -> User \cup {Server}]
    /\ info \in [Path -> Attr \cup {NoInfo}] /\ savedInfo \in [Path -> Attr \cup {NoInfo}]
    /\ dirMeta \in [Path -> Owner \cup {NoMeta}] /\ savedDirs \in [Path -> Owner \cup {NoMeta}]
    /\ node \in [Path -> Attr \cup {NoNode}]
    /\ next \in {"nodes", "dirs"}
    /\ stale \subseteq Path
    /\ begun \in 0..MaxRequests /\ saves \in 0..MaxSaves /\ crashes \in 0..MaxCrashes

\* A directory that exists has metadata, and its owner is whoever made it,
\* under whatever name it has by now, also after a restart.
OwnersKept ==
    \A p \in Path : Sound(p) /\ IsDir(p) => dirMeta[p] = maker[tree[p]]

\* The node the kernel knows is the one the node info gives, so the next Lookup
\* finds it again and Rename finds an entry.
NodesAreKnown ==
    \A p \in Path : Sound(p) /\ node[p] # NoNode => IsDir(p) /\ info[p] = node[p]

\* Neither map holds an entry for a directory that does not exist.
NothingLeft ==
    \A p \in Path : Sound(p) /\ ~IsDir(p) => info[p] = NoInfo /\ dirMeta[p] = NoMeta

\* Two directories are never one node to the kernel.
DirectoriesDistinct ==
    \A p, q \in Path :
        Sound(p) /\ Sound(q) /\ p # q /\ info[p] # NoInfo => info[p] # info[q]

\* Mkdir always gets a node from HandleNodeInstantiation.
NoPanic == \A t \in Threads : Panic(t) => req[t].path \in stale

-----------------------------------------------------------------------------
(* The inductive invariant.                                                 *)

Place == Path \cup {Root}
Renaming(t) == Stage(t) \in {"rename", "oldInfo", "newInfo", "copy", "oldEntry", "move"}
Instantiating(t) == Stage(t) \in {"stat", "node", "meta", "info", "entry", "update", "reply"}
Removing(t) == Stage(t) \in {"rmdir", "dropEntry", "dropInfo", "unlink"}

Request ==
    [stage : {"idle", "mkdir", "stat", "node", "meta", "info", "entry", "update", "owner",
              "reply", "panic", "rmdir", "dropEntry", "dropInfo", "unlink", "rename",
              "oldInfo", "newInfo", "copy", "oldEntry", "move"},
     op : {"none", "mkdir", "lookup", "rmdir", "rename", "exchange"},
     path : Place, to : Place, at : Place, into : Place, locks : SUBSET Place,
     user : User \cup {Server}, inode : Inode \cup {NoInode}, attr : Attr \cup {NoInfo}]

\* What a request has got at each stage.
RequestSound(t) ==
    /\ IF At(t, "idle") THEN req[t] = Idle ELSE req[t].path \in Path /\ req[t].at \in Path
    /\ Stage(t) \in {"mkdir", "owner", "panic"} => req[t].op = "mkdir"
    /\ Instantiating(t) => req[t].op \in {"mkdir", "lookup"}
    /\ Removing(t) => req[t].op = "rmdir"
    /\ Renaming(t) => req[t].op \in {"rename", "exchange"}
    /\ ~Renaming(t) => req[t].to = Root /\ req[t].into = Root
    /\ Stage(t) = "node" => req[t].inode \in Inode
    /\ Stage(t) \in {"meta", "info", "entry", "update", "owner", "reply"} => req[t].attr \in Attr

\* The two paths of a rename, and the locks it keeps.  What it does in the root
\* no other rename moves, and nothing is beneath a directory it moves down.
RenameSound(t) ==
    Renaming(t) =>
        /\ req[t].to \in Path /\ req[t].into \in Path /\ req[t].attr \in Attr
        /\ req[t].path # req[t].to /\ req[t].to \notin Beneath(req[t].path)
        /\ req[t].at # req[t].into
        /\ Len(req[t].at) = Len(req[t].path) /\ Len(req[t].into) = Len(req[t].to)
        /\ {Parent(req[t].at), Parent(req[t].into), req[t].into} \subseteq req[t].locks
        /\ Parent(req[t].at) # Parent(req[t].into) => req[t].at \in req[t].locks
        /\ Root \in {Parent(req[t].path), Parent(req[t].to)} =>
              req[t].at = req[t].path /\ req[t].into = req[t].to
        /\ req[t].op = "exchange" /\ ~At(t, "rename") =>
              Parent(req[t].path) = Root /\ Parent(req[t].to) = Root
        /\ Len(req[t].path) < Len(req[t].to) =>
              \A r \in Beneath(req[t].path) :
                  node[r] = NoNode /\ \A s \in Active : req[s].at # r

\* Locks on subdirectories come with the lock on the directory above, and two
\* requests share no lock unless both look up names.
LocksSound(s, t) ==
    /\ \A d \in req[t].locks : Len(d) = 2 => Parent(d) \in req[t].locks
    /\ s # t /\ req[s].locks \cap req[t].locks # {} =>
          req[s].op = "lookup" /\ req[t].op = "lookup"

\* Nor do they share a path that is not stale, where each is still in place.
PathsSound(s, t) ==
    /\ req[t].at # req[t].path => {req[t].at, req[t].path} \subseteq stale
    /\ req[t].into # req[t].to => {req[t].into, req[t].to} \subseteq stale
    /\ s # t /\ ~(Uses(req[s]) \cap Uses(req[t]) \cap Path \subseteq stale) =>
          req[s].op = "lookup" /\ req[t].op = "lookup"

RequestsSound ==
    /\ req \in [Threads -> Request]
    /\ \A t \in Threads : RequestSound(t) /\ RenameSound(t)
    /\ \A s, t \in Active : LocksSound(s, t) /\ PathsSound(s, t)

\* An inode is one directory.
InodesApart == \A p, q \in Path : p # q /\ tree[p] = tree[q] => tree[p] = NoInode

\* Tree, maps and nodes agree on a path; its node has the directory's inode,
\* which tells it from the nodes of all other directories.
Intact(p) ==
    /\ IF tree[p] = NoInode
       THEN info[p] = NoInfo /\ dirMeta[p] = NoMeta /\ node[p] = NoNode
       ELSE info[p] \in Path \X {tree[p]} /\ dirMeta[p] = maker[tree[p]]
    /\ node[p] \in {NoNode, info[p]}

\* Requests that have changed nothing, as yet or at all.
Harmless(t) == req[t].op = "lookup" \/ Stage(t) \in {"mkdir", "rmdir", "rename"}
PathsIntact ==
    \A p \in Path \ stale : (\A t \in Active : p \in Uses(req[t]) => Harmless(t)) => Intact(p)

LookupSound(t) ==
    LET p == req[t].path IN
    req[t].op = "lookup" /\ p \notin stale =>
        /\ Stage(t) \in {"stat", "node", "meta", "reply"}
        /\ Stage(t) # "stat" => tree[p] # NoInode
        /\ Stage(t) \in {"meta", "reply"} => req[t].attr = info[p]

\* A new directory finds nothing under its path, so it gets a node of its own
\* and then its metadata.
MkdirSound(t) ==
    LET p == req[t].path IN
    req[t].op = "mkdir" /\ p \notin stale =>
        /\ Stage(t) \notin {"meta", "panic"}
        /\ ~At(t, "mkdir") =>
              tree[p] # NoInode /\ maker[tree[p]] = req[t].user /\ node[p] = NoNode
        /\ Stage(t) \in {"stat", "node", "info"} => info[p] = NoInfo /\ dirMeta[p] = NoMeta
        /\ At(t, "node") => req[t].inode = tree[p]
        /\ Stage(t) \in {"info", "entry", "update", "owner", "reply"} =>
              req[t].attr = <<p, tree[p]>>
        /\ Stage(t) \in {"entry", "update", "owner", "reply"} => info[p] = req[t].attr
        /\ Stage(t) \in {"update", "owner"} => dirMeta[p] # NoMeta
        /\ At(t, "reply") => dirMeta[p] = req[t].user

RmdirSound(t) ==
    LET p == req[t].path IN
    Removing(t) /\ p \notin stale =>
        /\ ~At(t, "rmdir") => tree[p] = NoInode
        /\ Stage(t) \in {"dropInfo", "unlink"} => dirMeta[p] = NoMeta
        /\ At(t, "unlink") => info[p] = NoInfo

\* The directory is under its new path before its node info and its metadata.
MoveSound(t) ==
    LET p == req[t].path
        q == req[t].to
        moved == Renaming(t) /\ ~At(t, "rename") IN
    /\ Renaming(t) /\ p \notin stale => node[p] \in {NoNode, req[t].attr}
    /\ At(t, "rename") /\ p \notin stale => req[t].attr = info[p]
    /\ moved /\ req[t].op = "rename" /\ p \notin stale =>
          /\ tree[p] = NoInode
          /\ ~At(t, "oldInfo") => info[p] = NoInfo
          /\ At(t, "move") => dirMeta[p] = NoMeta
    /\ moved /\ p \notin stale /\ q \notin stale =>
          /\ tree[q] # NoInode /\ req[t].attr \in Path \X {tree[q]}
          /\ Stage(t) \in {"oldInfo", "newInfo", "copy"} => dirMeta[p] = maker[tree[q]]
          /\ Stage(t) \in {"copy", "oldEntry", "move"} => info[q] = req[t].attr
          /\ Stage(t) \in {"oldEntry", "move"} => dirMeta[q] = maker[tree[q]]

StagesSound ==
    \A t \in Active : LookupSound(t) /\ MkdirSound(t) /\ RmdirSound(t) /\ MoveSound(t)

DirectoriesIInv ==
    DirTypeOK /\ RequestsSound /\ InodesApart /\ PathsIntact /\ StagesSound

-----------------------------------------------------------------------------
(* What the code says of itself.                                            *)

\* node.go:1078, "all nodes in our system MUST have custom metadata": when
\* nothing is running, neither has a directory that the kernel knows none.
EveryDirectoryHasMetadata ==
    Active = {} => \A p \in Path : node[p] # NoNode => dirMeta[p] # NoMeta
=============================================================================
