----------------------------- MODULE Attributes -----------------------------
(***************************************************************************)
(* The owner, mode, size and extended attributes of regular files: how     *)
(* Release carries them from a file's old metadata to the new one or makes *)
(* them up for a file it has deduplicated, and how Setattr and Setxattr    *)
(* change them beside it (vfs/node.go, vfs/common.go, metadata/common.go). *)
(*                                                                         *)
(* Every step of a file request is a step of RegularFiles that also does   *)
(* what the code does to the attributes.  One more request, the setter,    *)
(* changes attributes: the kernel holds the inode's lock during Setattr,   *)
(* Setxattr and Removexattr, so a file has one at a time, but not during   *)
(* Release, which runs after close() has returned.                         *)
(*                                                                         *)
(* A user is one number that stands for uid and gid: the code treats both  *)
(* alike.  There is one extended attribute.  Times are left out.           *)
(***************************************************************************)
EXTENDS RegularFiles, Permissions

CONSTANTS
    User,       \* uids of the clients
    Account,    \* uids that have an account on the machine
    Admin,      \* the sysadmin's uid
    Umask,      \* the server's umask, as a set of bits
    Mode,       \* modes that clients give
    MaxCalls,   \* bound on the setter's requests; a Setattr counts as two
    NoSetter,   \* the setter has no file in hand
    Value,      \* values of the extended attribute
    NoValue     \* the attribute is not in the map

ASSUME AttributesAssumption ==
    /\ User \subseteq Nat /\ Account \subseteq Nat /\ Admin \in Nat /\ MaxCalls \in Nat
    /\ Mode \subseteq SUBSET ModeBits /\ Umask \subseteq ModeBits
    /\ NoValue \notin Value
    /\ NoMeta \notin Meta
    /\ NoSetter \notin Inode

VARIABLES
    attrs,      \* Uid, Mode, Size and the XAttr pointer of each MapEntryMetadata
    xattrs,     \* each XAttr map, at the metadata it was made for
    writer,     \* the uid of each writeStore in hashHashMap
    inodeMode,  \* the mode of each underlying inode
    caller,     \* the user of each request
    taken,      \* callerUid of each Release, and st.Size of a duplicate
    setter,     \* the Setattr, Setxattr or Removexattr in progress
    calls,      \* what the setter's requests so far count for
    given,      \* history: the attributes the clients gave each file, a new one less the umask
    spared,     \* history: files whose mode is the spare file's
    cut,        \* history: files whose Size is not of their content's making
    collided,   \* history: files that a Setattr and a Release changed at once
    dropped     \* history: files whose new metadata Release has removed, and files whose
                \* metadata the node infos of these have come to name

attributes == <<attrs, xattrs, writer, inodeMode, caller, taken>>
promises == <<given, spared, cut>>
attributesVars == <<filesVars, attributes, setter, calls, promises, collided, dropped>>

NoUser == 0  \* uint32's zero value, which is also root's uid

Uid == User \cup Account \cup {NoUser}

\* open(2) with O_CREAT, in a process whose umask is never cleared.
Masked(mode) == mode \ Umask

\* That of a spare file, which is opened with 0644.
ServerMode == Masked({8, 7, 5, 2})

AllModes == Mode \cup {Masked(mode) : mode \in Mode} \cup {ServerMode, {}}
AllValues == Value \cup {NoValue}

Attr == [uid : Uid, mode : AllModes, size : 0..MaxWrites, xattr : Meta \cup {NoMeta}]

BlankAttr == [uid |-> NoUser, mode |-> {}, size |-> 0, xattr |-> NoMeta]

Setter ==
    [stage : {"idle", "mode", "owner", "size", "set", "remove"},
     file  : Inode \cup {NoSetter},   \* history: the client's file
     meta  : Meta \cup {NoMeta},      \* the metadata found at the start
     isOwner  : BOOLEAN,
     hasWrite : BOOLEAN]

IdleSetter ==
    [stage |-> "idle", file |-> NoSetter, meta |-> NoMeta,
     isOwner |-> FALSE, hasWrite |-> FALSE]

FieldsTyped ==
    /\ attrs \in [Entries -> [Refs -> Attr]]
    /\ xattrs \in [Entries -> [Refs -> AllValues]]
    /\ writer \in [Path -> Uid]
    /\ inodeMode \in [Inode -> AllModes]
    /\ caller \in [Threads -> Uid]
    /\ taken \in [Threads -> [uid : Uid, size : 0..MaxWrites]]
    /\ setter \in Setter
    /\ calls \in 0..MaxCalls
    /\ given \in [Inode -> [uid : Uid, mode : AllModes, value : AllValues]]
    /\ spared \subseteq Inode /\ cut \subseteq Inode

\* The rest of the history is what every step extends.
AttributesTypeOK == FieldsTyped /\ collided \subseteq Inode /\ dropped \subseteq Inode

AttributesInit ==
    /\ FilesInit
    /\ attrs = [e \in Entries |-> [r \in Refs |-> BlankAttr]]
    /\ xattrs = [e \in Entries |-> [r \in Refs |-> NoValue]]
    /\ writer = [p \in Path |-> NoUser]
    /\ inodeMode = [i \in Inode |-> {}]
    /\ caller = [t \in Threads |-> NoUser]
    /\ taken = [t \in Threads |-> [uid |-> NoUser, size |-> 0]]
    /\ setter = IdleSetter
    /\ calls = 0
    /\ given = [i \in Inode |-> [uid |-> NoUser, mode |-> {}, value |-> NoValue]]
    /\ spared = {} /\ cut = {}
    /\ collided = {} /\ dropped = {}

-----------------------------------------------------------------------------
(* Helpers.                                                                 *)

Person(u) == [uid |-> u, gid |-> u]

\* What the permission checks read of a MapEntryMetadata.
Owned(meta) ==
    LET a == attrs[meta.entry][meta.ref] IN [uid |-> a.uid, gid |-> a.uid, mode |-> a.mode]

Allowed(u, meta, op) == CheckPermissions(Person(u), Person(Admin), Owned(meta), op)

\* Without metadata nothing is checked.
MayOpen(u, info, flags) ==
    HasMetadata(info) =>
        CheckOpenPermissions(Person(u), Person(Admin), Owned(MetadataOf(info)), flags)

MayWrite(u, info) == HasMetadata(info) => Allowed(u, MetadataOf(info), 1)

\* Sprintf("%x", uid), read again as a decimal number; -1 when it has a letter.
ReadAsHex[n \in Nat] ==
    IF n < 10 THEN n
    ELSE IF n % 16 > 9 \/ ReadAsHex[n \div 16] = -1 THEN -1
    ELSE (10 * ReadAsHex[n \div 16]) + (n % 16)

\* user.LookupId as SetAttributes calls it.
LookupId(uid) == ReadAsHex[uid] \in Account

\* Getattr: the custom metadata, or else Lstat of the path, whose owner is the server.
Getattr(p) ==
    IF HasMetadata(InfoOf(p))
    THEN attrs[MetadataOf(InfoOf(p)).entry][InfoOf(p).ref]
    ELSE [uid |-> NoUser, mode |-> inodeMode[names[p]], size |-> Len(data[names[p]]),
          xattr |-> NoMeta]

\* The attribute in the map that metadata points to; a nil map has none.
GetCustomXAttr(attr) ==
    IF attr.xattr = NoMeta THEN NoValue ELSE xattrs[attr.xattr.entry][attr.xattr.ref]

Closing(t) == Stage(t) \in {"released", "storing", "info", "link", "swap", "fill", "dropping"}

\* Setattr beside a Release of the same file may change metadata that Release
\* has already copied, or not filled in yet.
Collisions ==
    {f \in Inode :
        /\ setter.file = f /\ setter.stage \in {"mode", "owner", "size"}
        /\ \E t \in Threads : Closing(t) /\ req[t].file = f}

\* Unlink holds the lock of the inode it removes, too.
Unlinking(p) ==
    \E t \in Threads : Stage(t) \in {"unlink", "unlinking", "forget"} /\ req[t].path = p

\* Release removes the metadata it has just made and leaves the node info naming it.
Dropping == {req[t].file : t \in {u \in Threads : Stage(u) = "dropping"}}

\* Such a node info may come to name another file's metadata, when the hash gets a new
\* entry, whose references start again.
Misled ==
    {own[p] : p \in {q \in Path :
        /\ MetadataOf(InfoOf(q)) # NoMeta
        /\ \E r \in Path \ {q} :
              own[r] \in dropped /\ MetadataOf(InfoOf(r)) = MetadataOf(InfoOf(q))}} \ {NoFile}

\* The new metadata of a Release gets these attributes.
Filled(t, attr) == [attrs EXCEPT ![req[t].new.entry][req[t].new.ref] = attr]

\* mutant of FreshMap: a deduplicated file gets the map of the file it is linked to.
FreshMapShared(t) ==
    IF req[t].dup THEN attrs[req[t].rec.entry][req[t].rec.ref].xattr ELSE req[t].new

\* make(map[string][]byte): the map is empty already.
FreshMap(t) == req[t].new

\* mutant of Migrated: the size is kept too.
MigratedWhole(old, size) == attrs[old.entry][old.ref]

\* MigrateRegularFileMetadata and MigrateDuplicateFileMetadata: all but the size,
\* which is the inode's.  The XAttr pointer is copied, so that both have one map.
Migrated(old, size) == [attrs[old.entry][old.ref] EXCEPT !.size = size]

\* mutant of Fresh: the owner that the inode has.
FreshUnowned(t, mode, size) ==
    [uid |-> NoUser, mode |-> mode, size |-> size, xattr |-> FreshMap(t)]

\* Metadata of a new file, owned by whoever created its buffer.
Fresh(t, mode, size) ==
    [uid |-> taken[t].uid, mode |-> mode, size |-> size, xattr |-> FreshMap(t)]

\* The mode of a spare file that the server has just created.
InitialiseNewDuplicateFileMetadata(t, size) == Fresh(t, ServerMode, size)

\* The mode of the inode.
updateAllFromStat(t, size) == Fresh(t, inodeMode[req[t].inode], size)

-----------------------------------------------------------------------------
(* Create, Open and Write.                                                  *)

\* The creator is recorded with the empty buffer; a buffer that is left under
\* the path keeps its own.  The inode gets the mode less the server's umask.
CreateAs(t, p, u, mode) ==
    /\ Create(t, p)
    /\ writer' = [writer EXCEPT ![p] = IF buffer[p] = NoBuffer THEN u ELSE @]
    /\ inodeMode' = [inodeMode EXCEPT ![req'[t].inode] = Masked(mode)]
    /\ caller' = [caller EXCEPT ![t] = u]
    /\ given' = [given EXCEPT ![req'[t].file] = [uid |-> u, mode |-> Masked(mode), value |-> NoValue]]
    /\ UNCHANGED <<attrs, xattrs, taken, spared, cut>>

\* Opened for writing; a file open for the first time has no metadata.
OpenAs(t, p, u) ==
    /\ MayOpen(u, InfoOf(p), {"RDWR"})
    /\ Open(t, p, FALSE)
    /\ caller' = [caller EXCEPT ![t] = u]
    /\ UNCHANGED <<attrs, xattrs, writer, inodeMode, taken, promises>>

\* Write checks the metadata that the handle was opened with.
WriteAs(t, c) ==
    LET p == req[t].path IN
    /\ MayWrite(caller[t], req[t].info)
    /\ HashChunk(t, c)
    /\ writer' = IF p # Gone /\ buffer[p] = NoBuffer
                 THEN [writer EXCEPT ![p] = caller[t]] ELSE writer
    /\ UNCHANGED <<attrs, xattrs, inodeMode, caller, taken, promises>>

-----------------------------------------------------------------------------
(* Release.                                                                 *)

\* The writer is taken with the buffer.
TakeWriter(t) ==
    LET p == req[t].path IN
    /\ TakeBuffer(t)
    /\ taken' = [taken EXCEPT ![t] =
          [uid |-> IF p = Gone \/ buffer[p] = NoBuffer THEN NoUser ELSE writer[p], size |-> 0]]
    /\ writer' = IF p = Gone THEN writer ELSE [writer EXCEPT ![p] = NoUser]
    /\ cut' = cut \ {req[t].file}
    /\ UNCHANGED <<attrs, xattrs, inodeMode, caller, given, spared>>

\* Lstat of the temporary link.
LinkAs(t) ==
    /\ LinkOriginal(t)
    /\ taken' = [taken EXCEPT ![t].size = Len(data[names[PathOf(req[t].rec)]])]
    /\ UNCHANGED <<attrs, xattrs, writer, inodeMode, caller, promises>>

\* The new metadata, migrated from the old or made up; a unique file's descriptor
\* is only now asked for the size.
FillAttributes(t) ==
    LET size == IF req[t].dup THEN taken[t].size ELSE Len(data[req[t].inode]) IN
    /\ FillMetadata(t)
    /\ attrs' = Filled(t,
          IF req[t].old # NoMeta THEN Migrated(req[t].old, size)
          ELSE IF req[t].dup THEN InitialiseNewDuplicateFileMetadata(t, size)
          ELSE updateAllFromStat(t, size))
    /\ spared' = IF req[t].old = NoMeta /\ req[t].dup THEN spared \cup {req[t].file} ELSE spared
    /\ UNCHANGED <<xattrs, writer, inodeMode, caller, taken, given, cut>>

-----------------------------------------------------------------------------
(* Setattr: mode, owner and size in this order, each with its own check and *)
(* store, so that a refusal leaves what came before it.                     *)

SetterReturns == setter' = IdleSetter /\ UNCHANGED calls

SetterGoto(stage) == setter' = [setter EXCEPT !.stage = stage] /\ UNCHANGED calls

SetterCalled(weight) ==
    /\ setter.stage = "idle"
    /\ calls + weight <= MaxCalls
    /\ calls' = calls + weight

\* The metadata, the caller's ownership and write permission are read once.  A
\* file without metadata is left as it is, and the caller told that all is well.
SetattrBegin(u, p) ==
    LET meta == MetadataOf(InfoOf(p)) IN
    /\ SetterCalled(2)
    /\ Exists(p) /\ own[p] # NoFile /\ ~Unlinking(p)
    /\ meta # NoMeta
    /\ setter' = [stage |-> "mode", file |-> own[p], meta |-> meta,
                  isOwner |-> IsOwner(Person(u), Owned(meta)), hasWrite |-> Allowed(u, meta, 1)]
    /\ UNCHANGED <<filesVars, attributes, promises>>

\* Each takes metadataMutex for itself.
UpdateMode(meta, mode) == attrs' = [attrs EXCEPT ![meta.entry][meta.ref].mode = mode]
UpdateOwner(meta, uid) == attrs' = [attrs EXCEPT ![meta.entry][meta.ref].uid = uid]

\* mutant of UpdateSize: the size is added.
UpdateSizeAdded(meta, size) ==
    attrs' = [attrs EXCEPT ![meta.entry][meta.ref].size = @ + size]

UpdateSize(meta, size) == attrs' = [attrs EXCEPT ![meta.entry][meta.ref].size = size]

\* chmod, for the owner.
SetMode(mode) ==
    /\ setter.stage = "mode" /\ setter.isOwner
    /\ UpdateMode(setter.meta, mode)
    /\ given' = [given EXCEPT ![setter.file].mode = mode]
    /\ spared' = spared \ {setter.file}
    /\ SetterGoto("owner")
    /\ UNCHANGED <<filesVars, xattrs, writer, inodeMode, caller, taken, cut>>

\* chown, for the owner, to a user whose number is found.
SetOwner(uid) ==
    /\ setter.stage = "owner" /\ LookupId(uid) /\ setter.isOwner
    /\ UpdateOwner(setter.meta, uid)
    /\ given' = [given EXCEPT ![setter.file].uid = uid]
    /\ SetterGoto("size")
    /\ UNCHANGED <<filesVars, xattrs, writer, inodeMode, caller, taken, spared, cut>>

\* truncate, for who may write: the file's content stays as it is.
SetSize(size) ==
    /\ setter.stage = "size" /\ setter.hasWrite
    /\ UpdateSize(setter.meta, size)
    /\ cut' = cut \cup {setter.file}
    /\ SetterReturns
    /\ UNCHANGED <<filesVars, xattrs, writer, inodeMode, caller, taken, given, spared>>

\* A field the caller does not set, or a refusal (EACCES, EINVAL), which ends Setattr.
SkipField ==
    /\ setter.stage \in {"mode", "owner"}
    /\ SetterGoto(IF setter.stage = "mode" THEN "owner" ELSE "size")
    /\ UNCHANGED <<filesVars, attributes, promises>>

EndSetattr ==
    /\ setter.stage \in {"mode", "owner", "size"}
    /\ SetterReturns
    /\ UNCHANGED <<filesVars, attributes, promises>>

-----------------------------------------------------------------------------
(* Setxattr and Removexattr.                                                *)

\* Without metadata the answer is ENODATA, without write permission EACCES.
XattrBegin(u, p, stage) ==
    LET meta == MetadataOf(InfoOf(p)) IN
    /\ SetterCalled(1)
    /\ Exists(p) /\ own[p] # NoFile /\ ~Unlinking(p)
    /\ meta # NoMeta
    /\ Allowed(u, meta, 1)
    /\ setter' = [IdleSetter EXCEPT !.stage = stage, !.file = own[p], !.meta = meta]
    /\ UNCHANGED <<filesVars, attributes, promises>>

Current == attrs[setter.meta.entry][setter.meta.ref]

\* The map changes when it exists and the flags allow it.
Stored(allowed, value) ==
    IF Current.xattr = NoMeta \/ ~allowed THEN UNCHANGED <<xattrs, given>>
    ELSE /\ xattrs' = [xattrs EXCEPT ![Current.xattr.entry][Current.xattr.ref] = value]
         /\ given' = [given EXCEPT ![setter.file].value = value]

\* flag is XATTR_CREATE, XATTR_REPLACE or neither.
SetCustomXAttr(value, flag) ==
    /\ setter.stage = "set"
    /\ Stored(CASE flag = "create" -> GetCustomXAttr(Current) = NoValue
                [] flag = "replace" -> GetCustomXAttr(Current) # NoValue
                [] OTHER -> TRUE, value)
    /\ SetterReturns
    /\ UNCHANGED <<filesVars, attrs, writer, inodeMode, caller, taken, spared, cut>>

RemoveCustomXAttr ==
    /\ setter.stage = "remove"
    /\ Stored(GetCustomXAttr(Current) # NoValue, NoValue)
    /\ SetterReturns
    /\ UNCHANGED <<filesVars, attrs, writer, inodeMode, caller, taken, spared, cut>>

-----------------------------------------------------------------------------
(* A Release that creates metadata, and file steps that leave attributes.    *)

\* CreateRegularFileMetadata: default values, no XAttr map.
NewBlank(t) ==
    /\ ReleaseNewMetadata(t)
    /\ attrs' = [attrs EXCEPT ![req'[t].new.entry][req'[t].new.ref] = BlankAttr]
    /\ UNCHANGED <<xattrs, writer, inodeMode, caller, taken, promises>>

\* Pwrite also changes the size of the files that Release has linked to the inode.
PwriteAs(t, off) ==
    /\ PwriteChunk(t, off)
    /\ cut' = cut \cup
          ({own[p] : p \in {q \in Path : own[q] # NoFile /\ names[q] = req[t].inode}} \ {req[t].file})
    /\ UNCHANGED <<attributes, given, spared>>

UnlinkLocks(t, p) ==
    /\ UnlinkBegin(t, p)
    /\ setter.file # own[p]
    /\ UNCHANGED <<attributes, promises>>

KeepsAttributes(t) ==
    /\ \/ LookupOldMetadata(t) \/ ReleaseTest(t) \/ ReleaseCreateEntry(t)
       \/ ReleaseLookupEntry(t) \/ ReleaseRecent(t) \/ UpdateInfo(t)
       \/ LinkFails(t) \/ SwapInDuplicate(t) \/ Drop(t)
       \/ NamespaceStep(t)
       \/ \E p \in Path :
             \/ LookupBegin(t, p)
             \/ \E q \in Path : LinkBegin(t, p, q) \/ RenameBegin(t, p, q)
    /\ UNCHANGED <<attributes, promises>>

FileRequest(t) ==
    \/ \E p \in Path, u \in User : OpenAs(t, p, u) \/ \E mode \in Mode : CreateAs(t, p, u, mode)
    \/ \E p \in Path : UnlinkLocks(t, p)
    \/ \E c \in Chunk : WriteAs(t, c)
    \/ \E off \in 0..MaxWrites : PwriteAs(t, off)
    \/ TakeWriter(t)
    \/ NewBlank(t)
    \/ LinkAs(t)
    \/ FillAttributes(t)
    \/ KeepsAttributes(t)

SetterStep ==
    \/ \E u \in User, p \in Path :
          SetattrBegin(u, p) \/ \E stage \in {"set", "remove"} : XattrBegin(u, p, stage)
    \/ \E mode \in Mode : SetMode(mode)
    \/ \E uid \in User \cup Account : SetOwner(uid)
    \/ \E size \in 0..MaxWrites : SetSize(size)
    \/ SkipField \/ EndSetattr
    \/ \E value \in Value, flag \in {"create", "replace", "none"} : SetCustomXAttr(value, flag)
    \/ RemoveCustomXAttr

AttributesNext ==
    /\ SetterStep \/ \E t \in Threads : FileRequest(t) /\ UNCHANGED <<setter, calls>>
    /\ collided' = collided \cup Collisions'
    /\ dropped' = dropped \cup Dropping' \cup Misled

AttributesSpec == AttributesInit /\ [][AttributesNext]_attributesVars

-----------------------------------------------------------------------------
(* What clients get.                                                        *)

\* Files that no request is working on: their paths.
AtRest(p) == own[p] # NoFile /\ Settled(p) /\ own[p] \notin dropped

\* technical_manual.md:349, "we can maintain unique attributes over them": a file
\* has the owner and the mode that its clients gave it, a new file's mode less the
\* server's umask, whoever wrote the content first and however often it has been
\* rewritten, deduplicated or renamed.
AttributesKept ==
    \A p \in Path :
        AtRest(p) /\ own[p] \notin collided =>
            /\ Getattr(p).uid = given[own[p]].uid
            /\ own[p] \notin spared => Getattr(p).mode = given[own[p]].mode

\* A file has its own extended attributes, also when one is set while a Release
\* replaces the metadata they hang on.
XAttrsKept ==
    \A p \in Path : AtRest(p) => GetCustomXAttr(Getattr(p)) = given[own[p]].value

\* A file's size is that of its content, unless Setattr has set another.
SizeRight ==
    \A p \in Path :
        AtRest(p) /\ own[p] \notin cut \cup collided => Getattr(p).size = Len(data[names[p]])

\* The same manual, and node.go:1354 of the spare file, "create a new file and copy
\* the metadata to simulate the metadata of a new file": a new file has the mode it
\* was created with.
ModeKept ==
    \A p \in Path :
        AtRest(p) /\ own[p] \notin collided => Getattr(p).mode = given[own[p]].mode

-----------------------------------------------------------------------------
(* What a Release and the setter hold: with AttributesTypeOK and FilesIInv   *)
(* this is inductive.                                                        *)

HasHandle(r) == r.stage \in {"create", "open", "pwrite", "released", "storing", "info",
                             "link", "swap", "fill", "dropping"}

HandlesSound == \A t \in Threads : HasHandle(req[t]) => {req[t].inode, req[t].file} \subseteq Inode

SetterSound == setter.stage # "idle" => setter.file \in Inode /\ setter.meta \in Meta

AttributesIInv == FilesIInv /\ AttributesTypeOK /\ HandlesSound /\ SetterSound
=============================================================================
