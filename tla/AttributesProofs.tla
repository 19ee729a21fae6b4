-------------------------- MODULE AttributesProofs --------------------------
(***************************************************************************)
(* Proofs about Attributes, for any users, modes and values, any number of *)
(* requests beside the setter and any workload: what the handlers do to    *)
(* attributes takes nothing from what RegularFiles says of them, so all    *)
(* that is proved of files and of the store holds here too; attributes     *)
(* keep their types, so a Release or a Setattr never works on metadata or  *)
(* on a descriptor it has not got.  And where file requests come one at a  *)
(* time and nothing is linked or renamed, every file keeps the attributes  *)
(* its clients gave it, with the setter beside the request.                *)
(***************************************************************************)
EXTENDS KeptAttributes, RegularFilesProofs

-----------------------------------------------------------------------------
(* Every step is a step of the files.                                       *)

\* The setter changes nothing but attributes.
LEMMA SetterStepKeepsFiles ==
    ASSUME SetterStep
    PROVE  UNCHANGED filesVars
BY DEF SetterStep, SetattrBegin, XattrBegin, SetMode, SetOwner, SetSize, SkipField, EndSetattr,
   SetCustomXAttr, RemoveCustomXAttr

\* A file request does what RegularFiles says, and more.
LEMMA FileRequestIsFilesStep ==
    ASSUME NEW t \in Threads, FileRequest(t)
    PROVE  FilesNext
<1>1. CASE \/ \E p \in Path, u \in User :
                OpenAs(t, p, u) \/ \E mode \in Mode : CreateAs(t, p, u, mode)
           \/ \E p \in Path : UnlinkLocks(t, p)
           \/ \E c \in Chunk : WriteAs(t, c)
           \/ \E off \in 0..MaxWrites : PwriteAs(t, off)
  <2>1. ClientStep(t)
    BY <1>1 DEF OpenAs, CreateAs, UnlinkLocks, WriteAs, PwriteAs, ClientStep
  <2>. QED  BY <2>1 DEF FilesNext
<1>2. CASE TakeWriter(t) \/ NewBlank(t) \/ LinkAs(t) \/ FillAttributes(t)
  <2>1. ReleaseStep(t)
    BY <1>2 DEF TakeWriter, NewBlank, LinkAs, FillAttributes, ReleaseStep
  <2>. QED  BY <2>1 DEF FilesNext
<1>3. CASE KeepsAttributes(t)
  <2>1. ClientStep(t) \/ ReleaseStep(t) \/ NamespaceStep(t)
    BY <1>3 DEF KeepsAttributes, ClientStep, ReleaseStep
  <2>. QED  BY <2>1 DEF FilesNext
<1>. QED  BY <1>1, <1>2, <1>3 DEF FileRequest

LEMMA AttributesNextIsFilesStep ==
    [AttributesNext]_attributesVars => [FilesNext]_filesVars
<1>1. ASSUME AttributesNext PROVE [FilesNext]_filesVars
  BY <1>1, SetterStepKeepsFiles, FileRequestIsFilesStep DEF AttributesNext
<1>2. ASSUME UNCHANGED attributesVars PROVE UNCHANGED filesVars
  BY <1>2 DEF attributesVars
<1>. QED  BY <1>1, <1>2

\* The owner, mode, size and extended attributes of files, their permission
\* checks and the setter beside them restrict what RegularFiles allows and
\* add nothing to it: every behaviour is one of FilesSpec.
THEOREM AttributesRefineFiles == AttributesSpec => FilesSpec
<1>1. AttributesInit => FilesInit
  BY DEF AttributesInit
<1>. QED  BY <1>1, AttributesNextIsFilesStep, PTL DEF AttributesSpec, FilesSpec

\* So with attributes, too, no metadata becomes unreachable and every
\* ReferenceCount is exact, on each hash that requests take turns on.
THEOREM AttributesLoseNothing == AttributesSpec => [](NothingLost /\ CountExact)
BY AttributesRefineFiles, FilesLoseNothing, PTL

-----------------------------------------------------------------------------
(* Handles.                                                                 *)

\* A step that gives no request another descriptor keeps HandlesSound.
LEMMA HandleUpdate ==
    ASSUME HandlesSound,
           \A t \in Threads :
              HasHandle(req[t])' =>
                  \/ {req'[t].inode, req'[t].file} \subseteq Inode
                  \/ HasHandle(req[t]) /\ req'[t].inode = req[t].inode /\ req'[t].file = req[t].file
    PROVE  HandlesSound'
BY DEF HandlesSound

LEMMA ClientStepKeepsHandles ==
    ASSUME FilesIInv, HandlesSound, NEW t \in Threads, ClientStep(t)
    PROVE  HandlesSound'
<1>. USE DEF FilesIInv, FilesTypeOK
<1>1. CASE \E p \in Path : Create(t, p)
  <2>1. PICK i \in FreshInodes, p \in Path :
           req' = [req EXCEPT ![t] =
                [Blank EXCEPT !.stage = "create", !.path = p, !.inode = i, !.file = i,
                              !.info = InfoOf(p)]]
    BY <1>1 DEF Create
  <2>2. req'[t].inode = i /\ req'[t].file = i /\ i \in Inode
    BY <2>1 DEF Blank, FreshInodes
  <2>3. \A u \in Threads \ {t} : req'[u] = req[u]
    BY <2>1
  <2>. QED  BY <2>2, <2>3, HandleUpdate
<1>2. CASE \E p \in Path, trunc \in BOOLEAN : Open(t, p, trunc)
  <2>1. PICK p \in Path :
           /\ names[p] \in Inode /\ own[p] \in Inode
           /\ req' = [req EXCEPT ![t] =
                [Blank EXCEPT !.stage = "open", !.path = p, !.inode = names[p],
                              !.file = own[p], !.info = InfoOf(p)]]
    BY <1>2 DEF Open, Exists
  <2>2. req'[t].inode = names[p] /\ req'[t].file = own[p]
    BY <2>1 DEF Blank
  <2>3. \A u \in Threads \ {t} : req'[u] = req[u]
    BY <2>1
  <2>. QED  BY <2>1, <2>2, <2>3, HandleUpdate
<1>3. CASE \E p \in Path :
              \/ LookupBegin(t, p) \/ UnlinkBegin(t, p)
              \/ \E q \in Path : LinkBegin(t, p, q) \/ RenameBegin(t, p, q)
  <2>1. req'[t].stage \in {"stat", "unlink", "linked", "rename"}
    <3>1. CASE \E p \in Path : LookupBegin(t, p)
      BY <3>1 DEF LookupBegin, Blank
    <3>2. CASE \E p \in Path : UnlinkBegin(t, p)
      BY <3>2 DEF UnlinkBegin, Blank
    <3>3. CASE \E p, q \in Path : LinkBegin(t, p, q)
      BY <3>3 DEF LinkBegin, Blank
    <3>4. CASE \E p, q \in Path : RenameBegin(t, p, q)
      BY <3>4 DEF RenameBegin, Blank
    <3>. QED  BY <1>3, <3>1, <3>2, <3>3, <3>4
  <2>2. \A u \in Threads \ {t} : req'[u] = req[u]
    BY <1>3 DEF LookupBegin, UnlinkBegin, LinkBegin, RenameBegin
  <2>. QED  BY <2>1, <2>2, HandleUpdate DEF HasHandle
<1>4. CASE \/ \E c \in Chunk : HashChunk(t, c)
           \/ \E off \in 0..MaxWrites : PwriteChunk(t, off)
  <2>1. /\ HasHandle(req[t])
        /\ req'[t].inode = req[t].inode /\ req'[t].file = req[t].file
    BY <1>4 DEF HashChunk, PwriteChunk, At, Stage, Goto, HasHandle, Request
  <2>2. \A u \in Threads \ {t} : req'[u] = req[u]
    BY <1>4 DEF HashChunk, PwriteChunk, Goto
  <2>. QED  BY <2>1, <2>2, HandleUpdate
<1>. QED  BY <1>1, <1>2, <1>3, <1>4 DEF ClientStep

LEMMA ReleaseStepKeepsHandles ==
    ASSUME FilesIInv, HandlesSound, NEW t \in Threads, ReleaseStep(t)
    PROVE  HandlesSound'
<1>. USE DEF FilesIInv, FilesTypeOK
<1>1. HasHandle(req[t])
  BY DEF ReleaseStep, TakeBuffer, LookupOldMetadata, ReleaseTest, ReleaseCreateEntry,
     ReleaseLookupEntry, ReleaseRecent, ReleaseNewMetadata, UpdateInfo, LinkOriginal, LinkFails,
     SwapInDuplicate, FillMetadata, Drop, At, Stage, HasHandle
<1>2. CASE TakeBuffer(t) \/ LookupOldMetadata(t) \/ ReleaseTest(t) \/ ReleaseRecent(t)
           \/ ReleaseNewMetadata(t)
  <2>1. req'[t].inode = req[t].inode /\ req'[t].file = req[t].file
    BY <1>2 DEF TakeBuffer, LookupOldMetadata, ReleaseTest, ReleaseRecent, ReleaseNewMetadata,
       Request
  <2>2. \A u \in Threads \ {t} : req'[u] = req[u]
    BY <1>2 DEF TakeBuffer, LookupOldMetadata, ReleaseTest, ReleaseRecent, ReleaseNewMetadata
  <2>. QED  BY <1>1, <2>1, <2>2, HandleUpdate
<1>3. CASE UpdateInfo(t) \/ LinkOriginal(t) \/ LinkFails(t) \/ SwapInDuplicate(t)
           \/ FillMetadata(t) \/ Drop(t) \/ ReleaseCreateEntry(t) \/ ReleaseLookupEntry(t)
  <2>1. req' = req \/ Return(t) \/ \E stage \in Stages : Goto(t, stage)
    BY <1>3 DEF UpdateInfo, LinkOriginal, LinkFails, SwapInDuplicate, FillMetadata, Drop,
       ReleaseCreateEntry, ReleaseLookupEntry, DropNew, Stages
  <2>2. CASE Return(t)
    <3>1. ~HasHandle(req[t])' /\ \A u \in Threads \ {t} : req'[u] = req[u]
      BY <2>2 DEF Return, Blank, HasHandle
    <3>. QED  BY <3>1, HandleUpdate
  <2>3. CASE \E stage \in Stages : Goto(t, stage)
    <3>1. /\ req'[t].inode = req[t].inode /\ req'[t].file = req[t].file
          /\ \A u \in Threads \ {t} : req'[u] = req[u]
      BY <2>3 DEF Goto, Request
    <3>. QED  BY <1>1, <3>1, HandleUpdate
  <2>4. CASE req' = req
    BY <2>4 DEF HandlesSound
  <2>. QED  BY <2>1, <2>2, <2>3, <2>4
<1>. QED  BY <1>2, <1>3 DEF ReleaseStep

LEMMA NamespaceStepKeepsHandles ==
    ASSUME FilesIInv, HandlesSound, NEW t \in Threads, NamespaceStep(t)
    PROVE  HandlesSound'
<1>. USE DEF FilesIInv, FilesTypeOK
<1>1. CASE CreateStoresInfo(t) \/ LookupReadsInfo(t)
  <2>1. /\ HasHandle(req[t])' => HasHandle(req[t])
        /\ req'[t].inode = req[t].inode /\ req'[t].file = req[t].file
        /\ \A u \in Threads \ {t} : req'[u] = req[u]
    BY <1>1 DEF CreateStoresInfo, LookupReadsInfo, At, Stage, Goto, HasHandle, Request
  <2>. QED  BY <2>1, HandleUpdate
<1>4. CASE LookupFills(t)
  <2>1. req' = req \/ Return(t)
    BY <1>4 DEF LookupFills
  <2>2. /\ ~HasHandle(req[t])' \/ req' = req
        /\ \A u \in Threads \ {t} : req'[u] = req[u]
    BY <2>1 DEF Return, Blank, HasHandle
  <2>. QED  BY <2>2, HandleUpdate
<1>2. CASE \/ LookupStoresInfo(t) \/ LinkStoresInfo(t) \/ RenameFile(t)
           \/ RenameRemovesInfo(t) \/ UnlinkFile(t) \/ UnlinkRemoves(t)
  <2>1. Return(t) \/ \E stage \in {"renamed", "moved", "unlinking", "forget"} : Goto(t, stage)
    BY <1>2 DEF LookupStoresInfo, LinkStoresInfo, RenameFile, RenameRemovesInfo, UnlinkFile,
       UnlinkRemoves
  <2>2. /\ ~HasHandle(req[t])'
        /\ \A u \in Threads \ {t} : req'[u] = req[u]
    BY <2>1 DEF Goto, Return, Request, Blank, HasHandle
  <2>. QED  BY <2>2, HandleUpdate
<1>3. CASE RenameStoresInfo(t) \/ UnlinkForgets(t)
  <2>1. PICK from, to : req' = [Moved(from, to) EXCEPT ![t] = Blank]
    BY <1>3 DEF RenameStoresInfo, UnlinkForgets
  <2>2. ~HasHandle(req[t])'
    BY <2>1 DEF Moved, Blank, HasHandle
  <2>3. ASSUME NEW u \in Threads \ {t}
        PROVE  /\ req'[u].stage = req[u].stage
               /\ req'[u].inode = req[u].inode /\ req'[u].file = req[u].file
    BY <2>1 DEF Moved, Request
  <2>. QED  BY <2>2, <2>3, HandleUpdate DEF HasHandle
<1>. QED  BY <1>1, <1>2, <1>3, <1>4 DEF NamespaceStep

LEMMA HandlesKept ==
    ASSUME FilesIInv, HandlesSound, [FilesNext]_filesVars
    PROVE  HandlesSound'
<1>1. CASE UNCHANGED filesVars
  BY <1>1 DEF filesVars, HandlesSound
<1>. QED  BY <1>1, ClientStepKeepsHandles, ReleaseStepKeepsHandles, NamespaceStepKeepsHandles
             DEF FilesNext

-----------------------------------------------------------------------------
(* Types.                                                                   *)

\* What metadata and maps start with has its type.
LEMMA BlanksAreTyped ==
    /\ BlankAttr \in Attr
    /\ NoUser \in Uid /\ NoValue \in AllValues /\ {} \in AllModes
    /\ IdleSetter \in Setter
    /\ User \cup Account \subseteq Uid /\ Mode \subseteq AllModes /\ Value \subseteq AllValues
<1>1. 0 \in 0..MaxWrites
  BY FilesAssumption
<1>. QED  BY <1>1 DEF BlankAttr, Attr, NoUser, Uid, AllModes, AllValues, IdleSetter, Setter

\* A file's content has a length in the range of sizes.
LEMMA SizeIsTyped ==
    ASSUME FilesTypeOK, NEW i \in Inode
    PROVE  Len(data[i]) \in 0..MaxWrites
BY ContentsAreSequences DEF FilesTypeOK

LEMMA CreateAsKeeps ==
    ASSUME FilesIInv, FieldsTyped, NEW t \in Threads, NEW p \in Path, NEW u \in User,
           NEW mode \in Mode, CreateAs(t, p, u, mode), UNCHANGED <<setter, calls>>
    PROVE  FieldsTyped'
<1>. USE DEF FieldsTyped
<1>1. u \in Uid /\ Masked(mode) \in AllModes /\ NoValue \in AllValues
  BY BlanksAreTyped DEF AllModes
<1>2. writer' \in [Path -> Uid] /\ caller' \in [Threads -> Uid]
  BY <1>1 DEF CreateAs
<1>3. inodeMode' \in [Inode -> AllModes]
  BY <1>1 DEF CreateAs
<1>4. given' \in [Inode -> [uid : Uid, mode : AllModes, value : AllValues]]
  BY <1>1 DEF CreateAs
<1>. QED  BY <1>2, <1>3, <1>4 DEF CreateAs

LEMMA OpenAsKeeps ==
    ASSUME FieldsTyped, NEW t \in Threads, NEW p \in Path, NEW u \in User,
           OpenAs(t, p, u), UNCHANGED <<setter, calls>>
    PROVE  FieldsTyped'
<1>1. u \in Uid
  BY BlanksAreTyped
<1>. QED  BY <1>1 DEF FieldsTyped, OpenAs, promises

LEMMA WriteAsKeeps ==
    ASSUME FieldsTyped, NEW t \in Threads, NEW c \in Chunk, WriteAs(t, c),
           UNCHANGED <<setter, calls>>
    PROVE  FieldsTyped'
<1>1. writer' \in [Path -> Uid]
  BY DEF FieldsTyped, WriteAs
<1>. QED  BY <1>1 DEF FieldsTyped, WriteAs, promises

LEMMA PwriteAsKeeps ==
    ASSUME FilesIInv, FieldsTyped, NEW t \in Threads, NEW off \in 0..MaxWrites, PwriteAs(t, off),
           UNCHANGED <<setter, calls>>
    PROVE  FieldsTyped'
<1>1. cut' \subseteq Inode
  BY DEF FieldsTyped, PwriteAs, FilesIInv, FilesTypeOK
<1>. QED  BY <1>1 DEF FieldsTyped, PwriteAs, attributes

\* The owner taken is the one of a buffer, or none.
LEMMA TakeWriterKeeps ==
    ASSUME FilesIInv, FieldsTyped, NEW t \in Threads, TakeWriter(t), UNCHANGED <<setter, calls>>
    PROVE  FieldsTyped'
<1>. USE DEF FieldsTyped
<1>. DEFINE p == req[t].path
            uid == IF p = Gone \/ buffer[p] = NoBuffer THEN NoUser ELSE writer[p]
<1>1. NoUser \in Uid /\ 0 \in 0..MaxWrites
  BY BlanksAreTyped, FilesAssumption
<1>2. p \in Path \cup {Gone}
  BY DEF TakeWriter, TakeBuffer, At, Stage, FilesIInv, StageSound, RequestSound
<1>3. uid \in Uid
  BY <1>1, <1>2
<1>4. taken' = [taken EXCEPT ![t] = [uid |-> uid, size |-> 0]]
  BY DEF TakeWriter
<1>5. taken' \in [Threads -> [uid : Uid, size : 0..MaxWrites]]
  BY <1>1, <1>3, <1>4
<1>6. writer' \in [Path -> Uid]
  BY <1>1 DEF TakeWriter
<1>. QED  BY <1>5, <1>6 DEF TakeWriter

LEMMA NewBlankKeeps ==
    ASSUME FieldsTyped, NEW t \in Threads, NewBlank(t), UNCHANGED <<setter, calls>>
    PROVE  FieldsTyped'
<1>1. attrs' \in [Entries -> [Refs -> Attr]]
  BY BlanksAreTyped DEF FieldsTyped, NewBlank
<1>. QED  BY <1>1 DEF FieldsTyped, NewBlank, promises

\* The linked file exists, so it has a size.
LEMMA LinkAsKeeps ==
    ASSUME FilesIInv, FieldsTyped, NEW t \in Threads, LinkAs(t), UNCHANGED <<setter, calls>>
    PROVE  FieldsTyped'
<1>. USE DEF FieldsTyped
<1>1. names[PathOf(req[t].rec)] \in Inode
  BY DEF LinkAs, LinkOriginal, CanLink, Exists, FilesIInv, FilesTypeOK
<1>2. Len(data[names[PathOf(req[t].rec)]]) \in 0..MaxWrites
  BY <1>1, SizeIsTyped DEF FilesIInv
<1>3. taken' \in [Threads -> [uid : Uid, size : 0..MaxWrites]]
  BY <1>2 DEF LinkAs
<1>. QED  BY <1>3 DEF LinkAs, promises

\* Both the migrated metadata and the one made up have their type.
LEMMA FillAttributesKeeps ==
    ASSUME FilesIInv, FieldsTyped, HandlesSound, NEW t \in Threads, FillAttributes(t),
           UNCHANGED <<setter, calls>>
    PROVE  FieldsTyped'
<1>. USE DEF FieldsTyped
<1>. DEFINE size == IF req[t].dup THEN taken[t].size ELSE Len(data[req[t].inode])
            attr == IF req[t].old # NoMeta THEN Migrated(req[t].old, size)
                    ELSE IF req[t].dup THEN InitialiseNewDuplicateFileMetadata(t, size)
                    ELSE updateAllFromStat(t, size)
<1>1. req[t].inode \in Inode /\ req[t].file \in Inode
  BY DEF FillAttributes, FillMetadata, At, Stage, HandlesSound, HasHandle
<1>2. size \in 0..MaxWrites
  BY <1>1, SizeIsTyped DEF FilesIInv
<1>3. req[t] \in Request /\ req[t].new \in Meta
  BY DEF FillAttributes, FillMetadata, At, Stage, FilesIInv, FilesTypeOK, StageSound, RequestSound
<1>4. ASSUME req[t].old # NoMeta PROVE attr \in Attr
  <2>1. req[t].old \in Meta
    BY <1>3, <1>4 DEF Request
  <2>2. attrs[req[t].old.entry][req[t].old.ref] \in Attr
    BY <2>1 DEF Meta
  <2>3. attr \in Attr
    BY <1>2, <1>4, <2>2 DEF Migrated, Attr
  <2>. QED  BY <2>3
<1>5. ASSUME req[t].old = NoMeta PROVE attr \in Attr
  <2>1. taken[t].uid \in Uid /\ inodeMode[req[t].inode] \in AllModes /\ ServerMode \in AllModes
    BY <1>1 DEF AllModes
  <2>2. attr \in Attr
    BY <1>2, <1>3, <1>5, <2>1 DEF InitialiseNewDuplicateFileMetadata, updateAllFromStat, Fresh,
       FreshMap, Attr
  <2>. QED  BY <2>2
<1>6. attr \in Attr
  BY <1>4, <1>5
<1>7. attrs' = [attrs EXCEPT ![req[t].new.entry][req[t].new.ref] = attr]
  BY DEF FillAttributes, Filled
<1>8. attrs' \in [Entries -> [Refs -> Attr]]
  BY <1>6, <1>7
<1>9. spared' \subseteq Inode
  BY <1>1 DEF FillAttributes
<1>. QED  BY <1>8, <1>9 DEF FillAttributes

\* The setter's registers hold the file and the metadata it began with.
LEMMA SetterBegins ==
    ASSUME FilesIInv, FieldsTyped, NEW u \in User, NEW p \in Path,
           SetattrBegin(u, p) \/ \E stage \in {"set", "remove"} : XattrBegin(u, p, stage)
    PROVE  FieldsTyped' /\ SetterSound'
<1>. DEFINE meta == MetadataOf(InfoOf(p))
<1>1. own[p] \in Inode /\ meta \in Meta
  <2>1. InfoOf(p) \in Info
    BY InfoIsTyped DEF FilesIInv
  <2>. QED  BY <2>1, MetadataIsTyped DEF SetattrBegin, XattrBegin, FilesIInv, FilesTypeOK
<1>2. CASE SetattrBegin(u, p)
  <2>1. calls + 2 \in 0..MaxCalls
    BY <1>2, AttributesAssumption DEF SetattrBegin, SetterCalled, FieldsTyped
  <2>2. /\ IsOwner(Person(u), Owned(meta)) \in BOOLEAN
        /\ Allowed(u, meta, 1) \in BOOLEAN
    BY DEF IsOwner, Allowed, CheckPermissions, IsUserSysadmin, checkMode
  <2>3. setter' \in Setter /\ setter'.file \in Inode /\ setter'.meta \in Meta
    BY <1>1, <1>2, <2>2 DEF SetattrBegin, Setter
  <2>. QED  BY <1>2, <2>1, <2>3 DEF SetattrBegin, SetterCalled, FieldsTyped, SetterSound,
               attributes, promises
<1>3. CASE \E stage \in {"set", "remove"} : XattrBegin(u, p, stage)
  <2>1. calls + 1 \in 0..MaxCalls
    BY <1>3, AttributesAssumption DEF XattrBegin, SetterCalled, FieldsTyped
  <2>2. PICK stage \in {"set", "remove"} :
           setter' = [stage |-> stage, file |-> own[p], meta |-> meta,
                      isOwner |-> FALSE, hasWrite |-> FALSE]
    BY <1>3 DEF XattrBegin, IdleSetter
  <2>3. setter' \in Setter /\ setter'.file \in Inode /\ setter'.meta \in Meta
    BY <1>1, <2>2 DEF Setter
  <2>. QED  BY <1>3, <2>1, <2>3 DEF XattrBegin, SetterCalled, FieldsTyped, SetterSound,
               attributes, promises
<1>. QED  BY <1>2, <1>3

\* Going on to the next field, or returning.
LEMMA SetterGoes ==
    ASSUME FieldsTyped, SetterSound, NEW stage \in {"owner", "size"},
           SetterReturns \/ (SetterGoto(stage) /\ setter.stage # "idle")
    PROVE  setter' \in Setter /\ SetterSound' /\ calls' = calls
<1>1. CASE SetterReturns
  BY <1>1, BlanksAreTyped DEF SetterReturns, SetterSound, IdleSetter
<1>2. CASE SetterGoto(stage) /\ setter.stage # "idle"
  BY <1>2 DEF SetterGoto, SetterSound, FieldsTyped, Setter
<1>. QED  BY <1>1, <1>2

\* A field of the setter's metadata takes a value of its type.
LEMMA UpdatesAreTyped ==
    ASSUME FieldsTyped, SetterSound, setter.stage # "idle",
           \/ \E mode \in AllModes : UpdateMode(setter.meta, mode)
           \/ \E uid \in Uid : UpdateOwner(setter.meta, uid)
           \/ \E size \in 0..MaxWrites : UpdateSize(setter.meta, size)
    PROVE  attrs' \in [Entries -> [Refs -> Attr]]
<1>. USE DEF FieldsTyped
<1>. DEFINE e == setter.meta.entry  r == setter.meta.ref
<1>1. e \in Entries /\ r \in Refs
  BY DEF SetterSound, Meta
<1>2. attrs[e][r] \in Attr
  BY <1>1
<1>3. PICK attr \in Attr : attrs' = [attrs EXCEPT ![e][r] = attr]
  <2>1. CASE \E mode \in AllModes : UpdateMode(setter.meta, mode)
    BY <1>2, <2>1 DEF UpdateMode, Attr
  <2>2. CASE \E uid \in Uid : UpdateOwner(setter.meta, uid)
    BY <1>2, <2>2 DEF UpdateOwner, Attr
  <2>3. CASE \E size \in 0..MaxWrites : UpdateSize(setter.meta, size)
    BY <1>2, <2>3 DEF UpdateSize, Attr
  <2>. QED  BY <2>1, <2>2, <2>3
<1>. QED  BY <1>3

LEMMA SetattrKeeps ==
    ASSUME FieldsTyped, SetterSound,
           \/ \E mode \in Mode : SetMode(mode)
           \/ \E uid \in User \cup Account : SetOwner(uid)
           \/ \E size \in 0..MaxWrites : SetSize(size)
           \/ SkipField \/ EndSetattr
    PROVE  FieldsTyped' /\ SetterSound'
<1>1. CASE \E mode \in Mode : SetMode(mode)
  <2>1. PICK mode \in Mode : SetMode(mode)
    BY <1>1
  <2>2. mode \in AllModes /\ setter.stage # "idle" /\ setter.file \in Inode
    BY <2>1, BlanksAreTyped DEF SetMode, SetterSound
  <2>3. attrs' \in [Entries -> [Refs -> Attr]]
    BY <2>1, <2>2, UpdatesAreTyped DEF SetMode
  <2>4. given' \in [Inode -> [uid : Uid, mode : AllModes, value : AllValues]]
    BY <2>1, <2>2 DEF SetMode, FieldsTyped
  <2>5. setter' \in Setter /\ SetterSound' /\ calls' = calls
    BY <2>1, <2>2, SetterGoes DEF SetMode
  <2>. QED  BY <2>1, <2>3, <2>4, <2>5 DEF SetMode, FieldsTyped
<1>2. CASE \E uid \in User \cup Account : SetOwner(uid)
  <2>1. PICK uid \in User \cup Account : SetOwner(uid)
    BY <1>2
  <2>2. uid \in Uid /\ setter.stage # "idle" /\ setter.file \in Inode
    BY <2>1, BlanksAreTyped DEF SetOwner, SetterSound
  <2>3. attrs' \in [Entries -> [Refs -> Attr]]
    BY <2>1, <2>2, UpdatesAreTyped DEF SetOwner
  <2>4. given' \in [Inode -> [uid : Uid, mode : AllModes, value : AllValues]]
    BY <2>1, <2>2 DEF SetOwner, FieldsTyped
  <2>5. setter' \in Setter /\ SetterSound' /\ calls' = calls
    BY <2>1, <2>2, SetterGoes DEF SetOwner
  <2>. QED  BY <2>1, <2>3, <2>4, <2>5 DEF SetOwner, FieldsTyped
<1>3. CASE \E size \in 0..MaxWrites : SetSize(size)
  <2>1. PICK size \in 0..MaxWrites : SetSize(size)
    BY <1>3
  <2>2. setter.stage # "idle" /\ setter.file \in Inode
    BY <2>1 DEF SetSize, SetterSound
  <2>3. attrs' \in [Entries -> [Refs -> Attr]]
    BY <2>1, <2>2, UpdatesAreTyped DEF SetSize
  <2>4. cut' \subseteq Inode
    BY <2>1, <2>2 DEF SetSize, FieldsTyped
  <2>5. setter' \in Setter /\ SetterSound' /\ calls' = calls
    BY <2>1, SetterGoes DEF SetSize
  <2>. QED  BY <2>1, <2>3, <2>4, <2>5 DEF SetSize, FieldsTyped
<1>4. CASE SkipField \/ EndSetattr
  <2>1. setter' \in Setter /\ SetterSound' /\ calls' = calls
    BY <1>4, SetterGoes DEF SkipField, EndSetattr
  <2>. QED  BY <1>4, <2>1 DEF SkipField, EndSetattr, FieldsTyped, attributes, promises
<1>. QED  BY <1>1, <1>2, <1>3, <1>4

\* The map that changes is one that the setter's metadata points to.
LEMMA StoredIsTyped ==
    ASSUME FieldsTyped, SetterSound, setter.stage # "idle", NEW allowed \in BOOLEAN,
           NEW value \in AllValues, Stored(allowed, value)
    PROVE  /\ xattrs' \in [Entries -> [Refs -> AllValues]]
           /\ given' \in [Inode -> [uid : Uid, mode : AllModes, value : AllValues]]
<1>. USE DEF FieldsTyped
<1>1. CASE Current.xattr = NoMeta \/ ~allowed
  BY <1>1 DEF Stored
<1>2. CASE ~(Current.xattr = NoMeta \/ ~allowed)
  <2>1. setter.file \in Inode /\ setter.meta \in Meta
    BY DEF SetterSound
  <2>2. Current \in Attr
    BY <2>1 DEF Current, Meta
  <2>3. Current.xattr \in Meta
    BY <1>2, <2>2 DEF Attr
  <2>4. Current.xattr.entry \in Entries /\ Current.xattr.ref \in Refs
    BY <2>3 DEF Meta
  <2>. DEFINE e == Current.xattr.entry  r == Current.xattr.ref
  <2>5. /\ xattrs' = [xattrs EXCEPT ![e][r] = value]
        /\ given' = [given EXCEPT ![setter.file].value = value]
    BY <1>2 DEF Stored
  <2>. HIDE DEF e, r
  <2>6. xattrs' \in [Entries -> [Refs -> AllValues]]
    BY <2>4, <2>5 DEF e, r
  <2>7. given' \in [Inode -> [uid : Uid, mode : AllModes, value : AllValues]]
    BY <2>1, <2>5
  <2>. QED  BY <2>6, <2>7
<1>. QED  BY <1>1, <1>2

LEMMA XattrKeeps ==
    ASSUME FieldsTyped, SetterSound,
           \/ \E value \in Value, flag \in {"create", "replace", "none"} :
                 SetCustomXAttr(value, flag)
           \/ RemoveCustomXAttr
    PROVE  FieldsTyped' /\ SetterSound'
<1>1. setter.stage # "idle"
  BY DEF SetCustomXAttr, RemoveCustomXAttr
<1>2. setter' \in Setter /\ SetterSound' /\ calls' = calls
  BY SetterGoes DEF SetCustomXAttr, RemoveCustomXAttr
<1>3. /\ xattrs' \in [Entries -> [Refs -> AllValues]]
      /\ given' \in [Inode -> [uid : Uid, mode : AllModes, value : AllValues]]
  <2>1. CASE RemoveCustomXAttr
    BY <1>1, <2>1, StoredIsTyped, BlanksAreTyped DEF RemoveCustomXAttr
  <2>2. CASE \E value \in Value, flag \in {"create", "replace", "none"} :
                SetCustomXAttr(value, flag)
    <3>1. PICK value \in Value, flag \in {"create", "replace", "none"} :
             SetCustomXAttr(value, flag)
      BY <2>2
    <3>. DEFINE allowed == CASE flag = "create" -> GetCustomXAttr(Current) = NoValue
                             [] flag = "replace" -> GetCustomXAttr(Current) # NoValue
                             [] OTHER -> TRUE
    <3>2. Stored(allowed, value)
      BY <3>1 DEF SetCustomXAttr
    <3>3. allowed \in BOOLEAN /\ value \in AllValues
      BY BlanksAreTyped
    <3>. HIDE DEF allowed
    <3>. QED  BY <1>1, <3>2, <3>3, StoredIsTyped
  <2>. QED  BY <2>1, <2>2
<1>. QED  BY <1>2, <1>3 DEF SetCustomXAttr, RemoveCustomXAttr, FieldsTyped

-----------------------------------------------------------------------------
(* The invariant.                                                           *)

LEMMA FileRequestKeeps ==
    ASSUME AttributesIInv, NEW t \in Threads, FileRequest(t), UNCHANGED <<setter, calls>>
    PROVE  FieldsTyped' /\ SetterSound'
<1>. USE DEF AttributesIInv, AttributesTypeOK
<1>1. SetterSound'
  BY DEF SetterSound
<1>2. CASE (\E p \in Path : UnlinkLocks(t, p)) \/ KeepsAttributes(t)
  BY <1>1, <1>2 DEF UnlinkLocks, KeepsAttributes, FieldsTyped, attributes, promises
<1>3. CASE \E p \in Path, u \in User :
              OpenAs(t, p, u) \/ \E mode \in Mode : CreateAs(t, p, u, mode)
  BY <1>1, <1>3, OpenAsKeeps, CreateAsKeeps
<1>4. CASE \/ \E c \in Chunk : WriteAs(t, c)
           \/ \E off \in 0..MaxWrites : PwriteAs(t, off)
  BY <1>1, <1>4, WriteAsKeeps, PwriteAsKeeps
<1>5. CASE TakeWriter(t) \/ NewBlank(t) \/ LinkAs(t) \/ FillAttributes(t)
  BY <1>1, <1>5, TakeWriterKeeps, NewBlankKeeps, LinkAsKeeps, FillAttributesKeeps
<1>. QED  BY <1>2, <1>3, <1>4, <1>5 DEF FileRequest

LEMMA SetterStepKeeps ==
    ASSUME AttributesIInv, SetterStep
    PROVE  FieldsTyped' /\ SetterSound'
<1>. USE DEF AttributesIInv, AttributesTypeOK
<1>1. CASE \E u \in User, p \in Path :
              SetattrBegin(u, p) \/ \E stage \in {"set", "remove"} : XattrBegin(u, p, stage)
  BY <1>1, SetterBegins
<1>2. CASE \/ \E mode \in Mode : SetMode(mode)
           \/ \E uid \in User \cup Account : SetOwner(uid)
           \/ \E size \in 0..MaxWrites : SetSize(size)
           \/ SkipField \/ EndSetattr
  BY <1>2, SetattrKeeps
<1>3. CASE \/ \E value \in Value, flag \in {"create", "replace", "none"} :
                 SetCustomXAttr(value, flag)
           \/ RemoveCustomXAttr
  BY <1>3, XattrKeeps
<1>. QED  BY <1>1, <1>2, <1>3 DEF SetterStep

LEMMA AttributesInitEstablishes == AttributesInit => AttributesIInv
<1>. SUFFICES ASSUME AttributesInit PROVE AttributesIInv
  OBVIOUS
<1>1. FilesIInv
  BY FilesInitEstablishesIInv DEF AttributesInit
<1>2. /\ 0 \in 0..MaxWrites /\ 0 \in 0..MaxCalls
      /\ BlankAttr \in Attr /\ IdleSetter \in Setter
      /\ NoUser \in Uid /\ NoValue \in AllValues /\ {} \in AllModes
  BY BlanksAreTyped, FilesAssumption, AttributesAssumption
<1>3. FieldsTyped
  BY <1>2 DEF AttributesInit, FieldsTyped
<1>4. HandlesSound /\ SetterSound
  BY DEF AttributesInit, FilesInit, HandlesSound, HasHandle, Blank, SetterSound, IdleSetter
<1>. QED  BY <1>1, <1>3, <1>4 DEF AttributesIInv, AttributesTypeOK, AttributesInit

LEMMA AttributesNextKeeps ==
    AttributesIInv /\ [AttributesNext]_attributesVars => AttributesIInv'
<1>. SUFFICES ASSUME AttributesIInv, [AttributesNext]_attributesVars PROVE AttributesIInv'
  OBVIOUS
<1>1. FilesIInv' /\ HandlesSound'
  BY AttributesNextIsFilesStep, FilesNextKeepsIInv, HandlesKept DEF AttributesIInv
<1>2. CASE AttributesNext
  <2>1. FieldsTyped' /\ SetterSound'
    BY <1>2, SetterStepKeeps, FileRequestKeeps DEF AttributesNext
  <2>2. Dropping' \subseteq Inode /\ Collisions' \subseteq Inode
    BY <1>1 DEF Collisions, Dropping, HandlesSound, HasHandle, Stage
  <2>3. Misled \subseteq Inode
    BY DEF Misled, AttributesIInv, FilesIInv, FilesTypeOK
  <2>4. collided' \subseteq Inode /\ dropped' \subseteq Inode
    BY <1>2, <2>2, <2>3 DEF AttributesNext, AttributesIInv, AttributesTypeOK
  <2>. QED  BY <1>1, <2>1, <2>4 DEF AttributesIInv, AttributesTypeOK
<1>3. CASE UNCHANGED attributesVars
  <2>1. FieldsTyped' /\ SetterSound' /\ collided' \subseteq Inode /\ dropped' \subseteq Inode
    BY <1>3 DEF attributesVars, attributes, promises, FieldsTyped, SetterSound, AttributesIInv,
       AttributesTypeOK
  <2>. QED  BY <1>1, <2>1 DEF AttributesIInv, AttributesTypeOK
<1>. QED  BY <1>2, <1>3

\* Whoever is in a Release or a Setattr holds the file and the metadata it
\* started with, and attributes are typed.
THEOREM AttributesInvariant == AttributesSpec => []AttributesIInv
BY AttributesInitEstablishes, AttributesNextKeeps, PTL DEF AttributesSpec

\* Every metadata that is reached has an owner, a mode, a size that a file can
\* have, and an XAttr pointer that is nil or some metadata's map; the setter
\* writes through its metadata only while it has some.
THEOREM AttributesTypeCorrectness == AttributesSpec => []AttributesTypeOK
<1>1. AttributesIInv => AttributesTypeOK
  BY DEF AttributesIInv
<1>. QED  BY <1>1, AttributesInvariant, PTL

-----------------------------------------------------------------------------
(* The store, while the request is alone.                                   *)

\* The one file request t, where nothing is linked or renamed.
OneAtATime(t) == Threads = {t} /\ Workload \cap {"link", "rename"} = {}

SameMetadata == \A info \in Info : MetadataOf(info)' = MetadataOf(info)

\* What a request that is alone knows of its hash.
LEMMA Progress ==
    ASSUME NEW t, Threads = {t}, FilesIInv, contended = {}
    PROVE  LET h == hashArg[t]  e == table[h] IN
           /\ h \in AllHash
           /\ pc[t] = "create" => e = NoEntry
           /\ pc[t] \in {"lookup", "recent", "alloc", "dec", "test", "delete"} => e # NoEntry
           /\ pc[t] \in {"recent", "alloc", "dec", "test"} => entryPtr[t] = e /\ e \in Entries
           /\ pc[t] = "dec" => refArg[t] \in live[e]
           /\ pc[t] = "delete" => live[e] = {}
BY DEF FilesIInv, IInv, TypeOK, ProgressSound, Quiet, Busy, PointersSound

\* Metadata is found by the hash and the reference, in the store.
LEMMA SameStore ==
    ASSUME UNCHANGED <<table, live>>
    PROVE  SameMetadata
BY DEF SameMetadata, MetadataOf, HasMetadata

\* A new entry holds nothing, and there was none.
LEMMA EntryCreated ==
    ASSUME NEW t, Threads = {t}, FilesIInv, contended = {}, CreateMapEntry(t)
    PROVE  SameMetadata
<1>1. pc[t] = "create" /\ table[hashArg[t]] = NoEntry /\ hashArg[t] \in AllHash
  BY Progress DEF CreateMapEntry, Step
<1>2. PICK e \in Entries \ allocated : table' = [table EXCEPT ![hashArg[t]] = e]
  BY DEF CreateMapEntry
<1>3. live' = live /\ live[e] = {} /\ table \in [AllHash -> Entries \cup {NoEntry}]
  BY <1>2 DEF CreateMapEntry, FilesIInv, IInv, FreshCells, TypeOK
<1>4. ASSUME NEW info \in Info PROVE MetadataOf(info)' = MetadataOf(info)
  <2>1. info.hash \in AllHash
    BY DEF Info
  <2>2. CASE info.hash = hashArg[t]
    BY <1>1, <1>2, <1>3, <2>1, <2>2 DEF MetadataOf, HasMetadata
  <2>3. CASE info.hash # hashArg[t]
    BY <1>1, <1>2, <1>3, <2>1, <2>3 DEF MetadataOf, HasMetadata
  <2>. QED  BY <2>2, <2>3
<1>. QED  BY <1>4 DEF SameMetadata

\* An entry that is deleted holds nothing.
LEMMA EntryDeleted ==
    ASSUME NEW t, Threads = {t}, FilesIInv, contended = {}, DeleteMapEntry(t)
    PROVE  SameMetadata
<1>1. live[table[hashArg[t]]] = {} /\ hashArg[t] \in AllHash
  BY Progress DEF DeleteMapEntry, Step
<1>2. /\ live' = live /\ table' = [table EXCEPT ![hashArg[t]] = NoEntry]
      /\ table \in [AllHash -> Entries \cup {NoEntry}]
  BY DEF DeleteMapEntry, heap, FilesIInv, IInv, TypeOK
<1>3. ASSUME NEW info \in Info PROVE MetadataOf(info)' = MetadataOf(info)
  <2>1. info.hash \in AllHash
    BY DEF Info
  <2>2. CASE info.hash = hashArg[t]
    BY <1>1, <1>2, <2>1, <2>2 DEF MetadataOf, HasMetadata
  <2>3. CASE info.hash # hashArg[t]
    BY <1>1, <1>2, <2>1, <2>3 DEF MetadataOf, HasMetadata
  <2>. QED  BY <2>2, <2>3
<1>. QED  BY <1>3 DEF SameMetadata

\* A node info loses its metadata only if that is what is deleted.
LEMMA MetadataDeleted ==
    ASSUME NEW t, Threads = {t}, FilesIInv, contended = {}, DeleteMetadata(t)
    PROVE  \A info \in Info :
              MetadataOf(info)' =
                 IF MetadataOf(info) = [entry |-> entryPtr[t], ref |-> refArg[t]] THEN NoMeta
                 ELSE MetadataOf(info)
<1>1. /\ entryPtr[t] \in Entries /\ table' = table
      /\ live' = [live EXCEPT ![entryPtr[t]] = @ \ {refArg[t]}]
      /\ live \in [Entries -> SUBSET Refs] /\ table \in [AllHash -> Entries \cup {NoEntry}]
      /\ NoEntry \notin Entries
  BY Progress, StoreAssumption DEF DeleteMetadata, Step, FilesIInv, IInv, TypeOK
<1>2. ASSUME NEW info \in Info, table[info.hash] # NoEntry
      PROVE  HasMetadata(info)' <=>
                HasMetadata(info) /\ ~(table[info.hash] = entryPtr[t] /\ info.ref = refArg[t])
  <2>1. table[info.hash] \in Entries
    BY <1>1, <1>2 DEF Info
  <2>2. CASE table[info.hash] = entryPtr[t]
    BY <1>1, <1>2, <2>1, <2>2 DEF HasMetadata
  <2>3. CASE table[info.hash] # entryPtr[t]
    BY <1>1, <1>2, <2>1, <2>3 DEF HasMetadata
  <2>. QED  BY <2>2, <2>3
<1>3. ASSUME NEW info \in Info, table[info.hash] = NoEntry
      PROVE  ~HasMetadata(info)' /\ ~HasMetadata(info)
  BY <1>1, <1>3 DEF HasMetadata
<1>4. ASSUME NEW info \in Info, MetadataOf(info) = [entry |-> entryPtr[t], ref |-> refArg[t]],
             HasMetadata(info)
      PROVE  table[info.hash] = entryPtr[t] /\ info.ref = refArg[t]
  BY <1>4 DEF MetadataOf
<1>5. ASSUME NEW info \in Info
      PROVE  MetadataOf(info)' =
                IF MetadataOf(info) = [entry |-> entryPtr[t], ref |-> refArg[t]] THEN NoMeta
                ELSE MetadataOf(info)
  <2>1. CASE HasMetadata(info)'
    BY <1>1, <1>2, <1>3, <1>4, <2>1 DEF MetadataOf
  <2>2. CASE ~HasMetadata(info)'
    BY <1>1, <1>2, <1>3, <1>4, <2>2 DEF MetadataOf
  <2>. QED  BY <2>1, <2>2
<1>. QED  BY <1>5

\* New metadata has a reference that no metadata had.
LEMMA MetadataCreated ==
    ASSUME NEW t, Threads = {t}, FilesIInv, contended = {}, CreateMetadata(t),
           NEW new, new = [entry |-> entryPtr[t], ref |-> index[entryPtr[t]] + 1]
    PROVE  /\ new \in Meta /\ ~HandedOut(new) /\ HandedOut(new)'
           /\ new.entry = table[hashArg[t]] /\ new.ref \in live[new.entry]'
           /\ table' = table
           /\ \A m \in Meta : HandedOut(m) => HandedOut(m)'
           /\ \A e \in Entries : \A r \in Refs : r > index'[e] => r > index[e]
           /\ \A info \in Info :
                 MetadataOf(info)' = MetadataOf(info) \/ MetadataOf(info)' = new
           /\ \A info \in Info : MetadataOf(info) # NoMeta => MetadataOf(info)' = MetadataOf(info)
<1>. DEFINE e == entryPtr[t]
<1>1. /\ e \in Entries /\ e = table[hashArg[t]] /\ table' = table
      /\ index[e] < MaxIndex
      /\ live' = [live EXCEPT ![e] = @ \cup {index[e] + 1}]
      /\ index' = [index EXCEPT ![e] = @ + 1]
  BY Progress DEF CreateMetadata, Step
<1>2. /\ live \in [Entries -> SUBSET Refs] /\ index \in [Entries -> 0..MaxIndex]
      /\ table \in [AllHash -> Entries \cup {NoEntry}]
      /\ NoEntry \notin Entries /\ MaxIndex \in Nat
  BY StoreAssumption DEF FilesIInv, IInv, TypeOK
<1>3. new \in Meta /\ ~HandedOut(new) /\ HandedOut(new)' /\ new.entry = e /\ new.ref = index[e] + 1
  BY <1>1, <1>2 DEF Meta, Refs, HandedOut
<1>4. \A m \in Meta : HandedOut(m) => HandedOut(m)'
  BY <1>1, <1>2 DEF Meta, Refs, HandedOut
<1>5. \A f \in Entries : \A r \in Refs : r > index'[f] => r > index[f]
  BY <1>1, <1>2 DEF Refs
<1>6. ASSUME NEW info \in Info
      PROVE  /\ MetadataOf(info)' = MetadataOf(info) \/ MetadataOf(info)' = new
             /\ HasMetadata(info) => MetadataOf(info)' = MetadataOf(info)
  <2>1. HasMetadata(info) => HasMetadata(info)'
    BY <1>1, <1>2 DEF HasMetadata, Info
  <2>2. HasMetadata(info)' /\ ~HasMetadata(info) =>
           table[info.hash] = e /\ info.ref = index[e] + 1
    BY <1>1, <1>2 DEF HasMetadata, Info
  <2>. QED  BY <1>1, <2>1, <2>2 DEF MetadataOf
<1>7. \A info \in Info : MetadataOf(info) # NoMeta => HasMetadata(info)
  BY DEF MetadataOf
<1>8. new.ref \in live'[new.entry]
  BY <1>1, <1>2, <1>3
<1>. QED  BY <1>1, <1>3, <1>4, <1>5, <1>6, <1>7, <1>8

\* Metadata that is found was handed out; new files have none.
LEMMA MetadataFoundIsOld ==
    ASSUME FilesIInv
    PROVE  /\ \A p \in Path : InfoOf(p) \in Info
           /\ \A info \in Info :
                 MetadataOf(info) # NoMeta =>
                    /\ MetadataOf(info) \in Meta /\ HandedOut(MetadataOf(info))
                    /\ MetadataOf(info) = [entry |-> table[info.hash], ref |-> info.ref]
                    /\ info.ref \in live[table[info.hash]] /\ table[info.hash] # NoEntry
           /\ NewInfo \in Info /\ MetadataOf(NewInfo) = NoMeta
<1>1. /\ live \in [Entries -> SUBSET Refs] /\ index \in [Entries -> 0..MaxIndex]
      /\ table \in [AllHash -> Entries \cup {NoEntry}] /\ KeysHandedOut
      /\ NoEntry \notin Entries /\ MaxIndex \in Nat
  BY StoreAssumption DEF FilesIInv, IInv, TypeOK
<1>2. \A p \in Path : InfoOf(p) \in Info
  BY InfoIsTyped DEF FilesIInv
<1>3. ASSUME NEW info \in Info, MetadataOf(info) # NoMeta
      PROVE  /\ MetadataOf(info) \in Meta /\ HandedOut(MetadataOf(info))
             /\ MetadataOf(info) = [entry |-> table[info.hash], ref |-> info.ref]
             /\ info.ref \in live[table[info.hash]] /\ table[info.hash] # NoEntry
  <2>1. HasMetadata(info)
    BY <1>3 DEF MetadataOf
  <2>2. table[info.hash] \in Entries /\ info.ref \in live[table[info.hash]]
    BY <1>1, <2>1 DEF HasMetadata, Info
  <2>3. info.ref \in Refs /\ info.ref \in 1..index[table[info.hash]]
    BY <1>1, <2>2 DEF KeysHandedOut
  <2>. QED  BY <1>1, <2>1, <2>2, <2>3 DEF MetadataOf, Meta, HandedOut
<1>4. NewInfo \in Info
  BY <1>1 DEF NewInfo, Info, AllHash
<1>5. MetadataOf(NewInfo) = NoMeta
  <2>1. ASSUME MetadataOf(NewInfo) # NoMeta PROVE FALSE
    BY <1>1, <1>3, <1>4, <2>1 DEF NewInfo, Meta, Refs
  <2>. QED  BY <2>1
<1>. QED  BY <1>2, <1>3, <1>4, <1>5

-----------------------------------------------------------------------------
(* Steps that leave attributes where they are.                              *)

\* A step of the request, and what the history makes of it.
Serves(t) ==
    /\ OneAtATime(t) /\ AttributesIInv /\ AttributesIInv' /\ Kept(t)
    /\ UNCHANGED <<setter, calls>>
    /\ collided' = collided \cup Collisions'
    /\ dropped' = dropped \cup Dropping' \cup Misled

\* The types that proofs below use.
LEMMA Typed ==
    ASSUME AttributesIInv, NEW t \in Threads
    PROVE  /\ FilesIInv /\ req \in [Threads -> Request] /\ RequestSound(req[t])
           /\ names \in [Path -> Inode \cup {NoFile}] /\ own \in [Path -> Inode \cup {NoFile}]
           /\ tmp \in [Path -> Inode \cup {NoFile}]
           /\ nodeInfo \in [Path -> Info \cup {NoInfo}] /\ NoInfo \notin Info
           /\ buffer \in [Path -> Contents \cup {NoBuffer}] /\ NoBuffer \notin Contents
           /\ NoFile \notin Inode /\ NoPath \notin Path /\ Gone \notin Path
           /\ attrs \in [Entries -> [Refs -> Attr]] /\ xattrs \in [Entries -> [Refs -> AllValues]]
           /\ NoMeta \notin Meta
BY FilesAssumption, AttributesAssumption
   DEF AttributesIInv, AttributesTypeOK, FieldsTyped, FilesIInv, FilesTypeOK, StageSound

\* What a request can come to hold for a path is metadata.
LEMMA ReachIsTyped ==
    ASSUME AttributesIInv, NEW t \in Threads, NEW p \in Path
    PROVE  Reach(t, p) \subseteq Meta /\ MetaAt(t, p) \in Meta \cup {NoMeta}
<1>1. MetadataOf(InfoOf(p)) \in Meta \cup {NoMeta}
  BY Typed, MetadataFoundIsOld
<1>2. req[t].old \in Meta \cup {NoMeta}
  BY Typed DEF Request
<1>. QED  BY <1>1, <1>2 DEF Reach, MetaAt

\* Attributes and metadata as they were: files keep theirs, if contents stay,
\* or the file is in the request's hands.
LEMMA FrameKeeps ==
    ASSUME NEW t, Serves(t), UNCHANGED <<attrs, xattrs, index, given, spared>>,
           \A p \in Path : own'[p] \in {own[p], NoFile},
           \A p \in Path : Unspoiled(p)' => MetaAt(t, p)' = MetaAt(t, p),
           \A p \in Path : \A m \in Reach(t, p)' :
              m \in Reach(t, p) \/ (HasNew(t) /\ m = req[t].new),
           \A p \in Path : Unspoiled(p)' /\ MetaAt(t, p) = NoMeta =>
              HoldsFile(t)' /\ req'[t].path = p /\ CreatedKept(t)',
           \A p \in Path : Unspoiled(p)' /\ MetaAt(t, p) # NoMeta /\ own[p] \notin cut'
                           /\ ~(HoldsFile(t)' /\ req'[t].path = p) =>
              /\ own[p] \notin cut /\ ~(HoldsFile(t) /\ req[t].path = p)
              /\ Len(data'[names'[p]]) = Len(data[names[p]]),
           \A p \in Path : setter.stage # "idle" /\ own[p] = setter.file /\ ~Unlinking(p) =>
              own'[p] = own[p] /\ ~Unlinking(p)',
           HasNew(t)' =>
              /\ HasNew(t) /\ req'[t].new = req[t].new /\ req'[t].path = req[t].path
              /\ \A p \in Path : p # req[t].path =>
                    MetadataOf(InfoOf(p))' = MetadataOf(InfoOf(p))
    PROVE  MapsFresh' /\ FilesKept(t)' /\ FilesApartHere(t)' /\ SetterKept(t)'
<1>0. /\ t \in Threads /\ AttributesIInv /\ Kept(t) /\ UNCHANGED <<setter, calls>>
      /\ collided \subseteq collided' /\ dropped \subseteq dropped'
  BY DEF Serves, OneAtATime
<1>1. \A m : MapOf(m)' = MapOf(m) /\ HandedOut(m)' = HandedOut(m)
  BY DEF MapOf, HandedOut
<1>2. ASSUME NEW p \in Path, Unspoiled(p)'
      PROVE  Unspoiled(p) /\ own'[p] = own[p]
  BY <1>0, <1>2 DEF Unspoiled
<1>3. MapsFresh'
  BY <1>0, <1>1 DEF Kept, MapsFresh
<1>4. FilesKept(t)'
  <2>. SUFFICES ASSUME NEW p \in Path, Unspoiled(p)'
       PROVE  (IF MetaAt(t, p) = NoMeta
               THEN HoldsFile(t) /\ req[t].path = p /\ CreatedKept(t) ELSE FileKept(t, p))'
    BY DEF FilesKept
  <2>1. Unspoiled(p) /\ own'[p] = own[p] /\ MetaAt(t, p)' = MetaAt(t, p)
    BY <1>2
  <2>2. CASE MetaAt(t, p) = NoMeta
    BY <2>1, <2>2
  <2>3. CASE MetaAt(t, p) # NoMeta
    <3>1. FileKept(t, p)
      BY <1>0, <2>1, <2>3 DEF Kept, FilesKept
    <3>2. FileKept(t, p)'
      BY <1>0, <1>1, <2>1, <2>3, <3>1 DEF FileKept, GetCustomXAttr
    <3>. QED  BY <2>1, <2>3, <3>2
  <2>. QED  BY <2>2, <2>3
<1>5. FilesApartHere(t)'
  <2>. SUFFICES ASSUME NEW p \in Path, NEW q \in Path, p # q, Unspoiled(q)', MetaAt(t, q)' # NoMeta,
                       NEW m \in Reach(t, p)'
       PROVE  (m # MetaAt(t, q) /\ MapOf(m) # MapOf(MetaAt(t, q)))'
    BY DEF FilesApartHere
  <2>1. Unspoiled(q) /\ MetaAt(t, q)' = MetaAt(t, q)
    BY <1>2
  <2>2. FileKept(t, q)
    BY <1>0, <2>1 DEF Kept, FilesKept
  <2>3. CASE m \in Reach(t, p)
    <3>1. m # MetaAt(t, q) /\ MapOf(m) # MapOf(MetaAt(t, q))
      BY <1>0, <2>1, <2>3 DEF Kept, FilesApartHere
    <3>. QED  BY <1>1, <2>1, <3>1
  <2>4. CASE HasNew(t) /\ m = req[t].new
    <3>1. m # MetaAt(t, q) /\ MapOf(m) # MapOf(MetaAt(t, q))
      BY <1>0, <2>1, <2>2, <2>4 DEF Kept, NewKept, FileKept, MapOf
    <3>. QED  BY <1>1, <2>1, <3>1
  <2>. QED  BY <2>3, <2>4
<1>6. SetterKept(t)'
  <2>. SUFFICES ASSUME setter.stage # "idle"
       PROVE  HandedOut(setter.meta)' /\ \E p \in Path : SetterAt(t, p)'
    BY <1>0 DEF SetterKept
  <2>1. PICK p \in Path : SetterAt(t, p)
    BY <1>0 DEF Kept, SetterKept
  <2>2. HandedOut(setter.meta)'
    BY <1>0, <1>1 DEF Kept, SetterKept
  <2>. DEFINE m == setter.meta
  <2>3. own'[p] = setter.file /\ own'[p] = own[p] /\ ~Unlinking(p)'
    BY <2>1 DEF SetterAt
  <2>4. \A q \in Path \ {p} : Unspoiled(q)' /\ MetaAt(t, q)' # NoMeta =>
           m # MetaAt(t, q)' /\ MapOf(m)' # MapOf(MetaAt(t, q))'
    <3>. SUFFICES ASSUME NEW q \in Path \ {p}, Unspoiled(q)', MetaAt(t, q)' # NoMeta
         PROVE  m # MetaAt(t, q)' /\ MapOf(m)' # MapOf(MetaAt(t, q))'
      OBVIOUS
    <3>1. Unspoiled(q) /\ MetaAt(t, q)' = MetaAt(t, q)
      BY <1>2
    <3>2. m # MetaAt(t, q) /\ MapOf(m) # MapOf(MetaAt(t, q))
      BY <2>1, <3>1 DEF SetterAt
    <3>3. MapOf(m)' = MapOf(m) /\ MapOf(MetaAt(t, q))' = MapOf(MetaAt(t, q))
      BY <1>0, <3>1 DEF MapOf
    <3>. QED  BY <3>1, <3>2, <3>3
  <2>5. HasNew(t)' /\ m = req'[t].new /\ req'[t].path # p =>
           ~Unspoiled(p)' /\ MetadataOf(InfoOf(p))' = m
    BY <1>0, <2>1, <2>3 DEF SetterAt, Unspoiled
  <2>6. Unspoiled(p)' =>
           /\ MapOf(m)' # NoMeta => MetaAt(t, p)' # NoMeta /\ MapOf(m)' = MapOf(MetaAt(t, p))'
           /\ setter.stage \in {"mode", "owner", "size"} /\ own'[p] \notin collided' =>
                 m = MetaAt(t, p)'
    <3>. SUFFICES ASSUME Unspoiled(p)'
         PROVE  /\ MapOf(m)' # NoMeta => MetaAt(t, p)' # NoMeta /\ MapOf(m)' = MapOf(MetaAt(t, p))'
                /\ setter.stage \in {"mode", "owner", "size"} /\ own'[p] \notin collided' =>
                      m = MetaAt(t, p)'
      OBVIOUS
    <3>1. Unspoiled(p) /\ MetaAt(t, p)' = MetaAt(t, p)
      BY <1>2
    <3>2. /\ MapOf(m) # NoMeta => MetaAt(t, p) # NoMeta /\ MapOf(m) = MapOf(MetaAt(t, p))
          /\ setter.stage \in {"mode", "owner", "size"} /\ own[p] \notin collided =>
                m = MetaAt(t, p)
      BY <2>1, <3>1 DEF SetterAt
    <3>. QED  BY <1>0, <1>1, <2>3, <3>1, <3>2
  <2>7. SetterAt(t, p)'
    BY <1>0, <2>3, <2>4, <2>5, <2>6 DEF SetterAt
  <2>. QED  BY <2>2, <2>7
<1>. QED  BY <1>3, <1>4, <1>5, <1>6

\* What the request holds, and what attributes have to do with it.
ControlKept(t) == PathsKept(t) /\ HandleKept(t) /\ SizeKept(t) /\ CallKept(t) /\ RestKept(t)

FieldsKept(t) == MapsFresh /\ FilesKept(t) /\ FilesApartHere(t) /\ SetterKept(t)

-----------------------------------------------------------------------------
(* Create, Open, Write and the start of a Release.                          *)

\* Who serves a request, and what history adds.
LEMMA Serving ==
    ASSUME NEW t, Serves(t)
    PROVE  /\ t \in Threads /\ Threads = {t} /\ AttributesIInv /\ AttributesIInv' /\ Kept(t)
           /\ UNCHANGED <<setter, calls>>
           /\ collided \subseteq collided' /\ dropped \subseteq dropped'
           /\ Collisions' \subseteq collided' /\ Dropping' \subseteq dropped'
BY DEF Serves, OneAtATime

\* A file that no request holds has a node info and metadata.
LEMMA AtRestFound ==
    ASSUME NEW t, Serves(t), NEW p \in Path, Unspoiled(p), ~(HoldsFile(t) /\ req[t].path = p)
    PROVE  /\ MetaAt(t, p) = MetadataOf(InfoOf(p)) /\ MetaAt(t, p) # NoMeta
           /\ nodeInfo[p] # NoInfo /\ FileKept(t, p)
<1>1. /\ FilesKept(t) /\ FilesIInv /\ t \in Threads
  BY Serving, Typed DEF Kept
<1>2. MetaAt(t, p) # NoMeta /\ FileKept(t, p)
  BY <1>1 DEF FilesKept
<1>3. HasOld(t) => HoldsFile(t)
  BY DEF HasOld, HoldsFile, InRelease
<1>4. MetaAt(t, p) = MetadataOf(InfoOf(p))
  BY <1>3 DEF MetaAt
<1>5. nodeInfo[p] # NoInfo
  BY <1>1, <1>2, <1>4, MetadataFoundIsOld DEF InfoOf
<1>. QED  BY <1>2, <1>4, <1>5

\* The file a Release or a writer has, and what it knows of it.
LEMMA HeldFound ==
    ASSUME NEW t, Serves(t), HoldsFile(t)
    PROVE  LET p == req[t].path IN
           /\ p \in Path /\ p # Gone /\ own[p] = req[t].file /\ own[p] # NoFile
           /\ (InRelease(t) => req[t].to = p)
           /\ \A q \in Path : own[q] = own[p] => q = p
           /\ (Unspoiled(p) /\ MetaAt(t, p) = NoMeta => CreatedKept(t))
<1>. DEFINE p == req[t].path
<1>1. p \in Path /\ own[p] = req[t].file /\ (InRelease(t) => req[t].to = p)
  BY Serving DEF Kept, HandleKept
<1>2. p # Gone
  BY <1>1, Serving, Typed
<1>3. own[p] # NoFile
  <2>1. HasHandle(req[t])
    BY DEF HoldsFile, Writing, InRelease, HasHandle, Stage
  <2>2. req[t].file \in Inode
    BY <2>1, Serving DEF AttributesIInv, HandlesSound
  <2>. QED  BY <1>1, <2>2, Serving, Typed
<1>4. \A q \in Path : own[q] = own[p] => q = p
  BY <1>1, <1>3, Serving DEF Kept, PathsKept
<1>5. Unspoiled(p) /\ MetaAt(t, p) = NoMeta => CreatedKept(t)
  BY <1>1, Serving DEF Kept, FilesKept
<1>. QED  BY <1>1, <1>2, <1>3, <1>4, <1>5

\* Steps that leave the store as it is and give every path the node info it had.
LEMMA InfoStays ==
    ASSUME NEW t, Serves(t), UNCHANGED <<table, live>>, \A q \in Path : InfoOf(q)' = InfoOf(q),
           HasOld(t)' <=> HasOld(t),
           HasOld(t) => req'[t].path = req[t].path /\ req'[t].old = req[t].old
    PROVE  /\ \A info \in Info : MetadataOf(info)' = MetadataOf(info)
           /\ \A q \in Path : /\ MetadataOf(InfoOf(q))' = MetadataOf(InfoOf(q))
                              /\ MetaAt(t, q)' = MetaAt(t, q)
                              /\ Reach(t, q)' = Reach(t, q)
<1>1. SameMetadata /\ \A q \in Path : InfoOf(q) \in Info
  BY SameStore, Serving, Typed, MetadataFoundIsOld
<1>2. \A q \in Path : MetadataOf(InfoOf(q))' = MetadataOf(InfoOf(q))
  BY <1>1 DEF SameMetadata
<1>3. \A q \in Path : MetaAt(t, q)' = MetaAt(t, q)
  BY <1>2 DEF MetaAt
<1>. QED  BY <1>1, <1>2, <1>3 DEF Reach, SameMetadata

\* Steps that leave the store and the node infos as they are.
LEMMA StoreStays ==
    ASSUME NEW t, Serves(t), UNCHANGED <<table, live, nodeInfo>>,
           HasOld(t)' <=> HasOld(t),
           HasOld(t) => req'[t].path = req[t].path /\ req'[t].old = req[t].old
    PROVE  /\ \A info \in Info : MetadataOf(info)' = MetadataOf(info)
           /\ \A q \in Path : /\ InfoOf(q)' = InfoOf(q)
                              /\ MetadataOf(InfoOf(q))' = MetadataOf(InfoOf(q))
                              /\ MetaAt(t, q)' = MetaAt(t, q)
                              /\ Reach(t, q)' = Reach(t, q)
<1>1. \A q \in Path : InfoOf(q)' = InfoOf(q)
  BY DEF InfoOf
<1>. QED  BY <1>1, InfoStays

\* A file that still has its metadata had it before.
LEMMA StaysUnspoiled ==
    ASSUME NEW t, Serves(t), NEW p \in Path, own'[p] = own[p] \/ own'[p] = NoFile, Unspoiled(p)'
    PROVE  Unspoiled(p) /\ own'[p] = own[p] /\ own[p] \notin dropped'
BY Serving DEF Unspoiled

\* Open reads what the file has: the request now holds it.
LEMMA OpenAsKept ==
    ASSUME NEW t, Serves(t), NEW p \in Path, NEW u, OpenAs(t, p, u)
    PROVE  Kept(t)'
<1>1. /\ Stage(t) = "idle" /\ pc[t] = "idle" /\ names[p] # NoFile /\ own[p] # NoFile
      /\ Stage(t)' = "open" /\ req'[t].path = p /\ req'[t].inode = names[p]
      /\ req'[t].file = own[p] /\ req'[t].info = InfoOf(p)
      /\ UNCHANGED <<vars, names, tmp, data, nodeInfo, buffer, own>>
  BY Serving, Typed DEF OpenAs, Open, At, Stage, Blank, Exists
<1>2. UNCHANGED <<attrs, xattrs, index, table, live, given, spared, cut>>
  BY <1>1 DEF OpenAs, promises, vars, heap
<1>3. /\ ~HoldsFile(t) /\ HoldsFile(t)' /\ ~Writing(t) /\ Writing(t)' /\ ~InRelease(t)'
      /\ ~HasNew(t) /\ ~HasNew(t)' /\ ~HasOld(t) /\ ~HasOld(t)' /\ ~InUnlink(t) /\ ~InUnlink(t)'
  BY <1>1 DEF HoldsFile, HasNew, HasOld, InUnlink, InRelease, Writing
<1>4. \A q \in Path : Unspoiled(q)' => Unspoiled(q)
  BY <1>1, StaysUnspoiled
<1>5. ControlKept(t)'
  <2>1. PathsKept(t)'
    BY Serving, <1>1, <1>3 DEF Kept, PathsKept
  <2>2. HandleKept(t)'
    BY <1>1, <1>2, <1>3, <1>4, AtRestFound, StoreStays DEF HandleKept
  <2>3. SizeKept(t)' /\ CallKept(t)' /\ RestKept(t)'
    BY Serving, <1>1 DEF Kept, SizeKept, CallKept, RestKept, InLookup, InUnlink, Busy, vars
  <2>. QED  BY <2>1, <2>2, <2>3 DEF ControlKept
<1>6. FieldsKept(t)'
  <2>1. \A q \in Path : setter.stage # "idle" /\ own[q] = setter.file /\ ~Unlinking(q) =>
              own'[q] = own[q] /\ ~Unlinking(q)'
    BY Serving, <1>1 DEF Unlinking
  <2>2. \A q \in Path : Unspoiled(q)' => MetaAt(t, q) # NoMeta
    BY <1>3, <1>4, AtRestFound
  <2>. QED  BY <1>1, <1>2, <1>3, <2>1, <2>2, StoreStays, FrameKeeps DEF FieldsKept
<1>7. NewKept(t)'
  BY <1>1, <1>3 DEF NewKept
<1>. QED  BY <1>5, <1>6, <1>7 DEF Kept, ControlKept, FieldsKept

\* Write hashes a chunk, or makes the buffer, for the file the handle is of.
LEMMA WriteAsKept ==
    ASSUME NEW t, Serves(t), NEW c \in Chunk, WriteAs(t, c)
    PROVE  Kept(t)'
<1>. DEFINE p == req[t].path
<1>1. /\ Stage(t) = "open" /\ Stage(t)' = "pwrite" /\ req'[t].path = p
      /\ req'[t].inode = req[t].inode /\ req'[t].file = req[t].file /\ req'[t].info = req[t].info
      /\ UNCHANGED <<vars, names, tmp, data, nodeInfo, own>>
  BY Serving, Typed DEF WriteAs, HashChunk, At, Stage, Request, disk
<1>2. UNCHANGED <<attrs, xattrs, index, table, live, inodeMode, taken, given, spared, cut>>
  BY <1>1 DEF WriteAs, promises, vars, heap
<1>3. /\ HoldsFile(t) /\ HoldsFile(t)' /\ Writing(t) /\ Writing(t)' /\ ~InRelease(t) /\ ~InRelease(t)'
      /\ ~HasNew(t) /\ ~HasNew(t)' /\ ~HasOld(t) /\ ~HasOld(t)' /\ ~InUnlink(t) /\ ~InUnlink(t)'
  BY <1>1 DEF HoldsFile, HasNew, HasOld, InUnlink, InRelease, Writing
<1>4. \A q \in Path : Unspoiled(q)' => Unspoiled(q)
  BY <1>1, StaysUnspoiled
<1>5. /\ buffer'[p] # NoBuffer /\ \A q \in Path \ {p} : buffer'[q] = buffer[q]
      /\ buffer[p] # NoBuffer => writer'[p] = writer[p]
  <2>1. /\ p \in Path /\ p # Gone
        /\ buffer \in [Path -> Contents \cup {NoBuffer}] /\ NoBuffer \notin Contents
    BY Serving, <1>3, HeldFound, Typed
  <2>2. << >> \in Contents
    BY HashesAreContents
  <2>3. ASSUME NEW s \in Contents, Len(s) < MaxWrites PROVE Append(s, c) # NoBuffer
    BY <2>1, <2>3, AppendKeepsContents
  <2>4. PICK s \in Contents : Len(s) < MaxWrites /\ buffer' = [buffer EXCEPT ![p] = Append(s, c)]
    BY <2>1, <2>2 DEF WriteAs, HashChunk
  <2>5. buffer[p] # NoBuffer => writer' = writer
    BY DEF WriteAs
  <2>. QED  BY <2>1, <2>3, <2>4, <2>5
<1>6. ControlKept(t)'
  <2>1. PathsKept(t)'
    BY Serving, <1>1, <1>3, <1>5 DEF Kept, PathsKept
  <2>2. HandleKept(t)'
    BY Serving, <1>1, <1>2, <1>3, <1>4, HeldFound, StoreStays DEF Kept, HandleKept
  <2>3. SizeKept(t)' /\ CallKept(t)' /\ RestKept(t)'
    BY Serving, <1>1 DEF Kept, SizeKept, CallKept, RestKept, InLookup, InUnlink, Busy, vars
  <2>. QED  BY <2>1, <2>2, <2>3 DEF ControlKept
<1>7. FieldsKept(t)'
  <2>1. \A q \in Path : setter.stage # "idle" /\ own[q] = setter.file /\ ~Unlinking(q) =>
              own'[q] = own[q] /\ ~Unlinking(q)'
    BY Serving, <1>1 DEF Unlinking
  <2>2. ASSUME NEW q \in Path, Unspoiled(q)', MetaAt(t, q) = NoMeta
        PROVE  HoldsFile(t)' /\ req'[t].path = q /\ CreatedKept(t)'
    <3>1. p = q /\ CreatedKept(t)
      BY Serving, <1>4, <2>2 DEF Kept, FilesKept
    <3>2. CreatedKept(t)'
      BY Serving, <1>1, <1>2, <1>3, <1>5, <3>1 DEF CreatedKept
    <3>. QED  BY <1>1, <1>3, <3>1, <3>2
  <2>. QED  BY <1>1, <1>2, <1>3, <2>1, <2>2, StoreStays, FrameKeeps DEF FieldsKept
<1>8. NewKept(t)'
  BY <1>1, <1>3 DEF NewKept
<1>. QED  BY <1>6, <1>7, <1>8 DEF Kept, ControlKept, FieldsKept

\* The files whose content changes with the written file's are cut.
LEMMA PwriteAsKept ==
    ASSUME NEW t, Serves(t), NEW off \in 0..MaxWrites, PwriteAs(t, off)
    PROVE  Kept(t)'
<1>. DEFINE p == req[t].path
<1>1. /\ Stage(t) = "pwrite" /\ Stage(t)' = "open" /\ req'[t].path = p
      /\ req'[t].inode = req[t].inode /\ req'[t].file = req[t].file /\ req'[t].info = req[t].info
      /\ UNCHANGED <<vars, names, tmp, nodeInfo, buffer, own>>
  BY Serving, Typed DEF PwriteAs, PwriteChunk, At, Stage, Goto, Request
<1>2. UNCHANGED <<attrs, xattrs, index, table, live, writer, inodeMode, taken, given, spared>>
  BY <1>1 DEF PwriteAs, attributes, vars, heap
<1>3. /\ HoldsFile(t) /\ HoldsFile(t)' /\ Writing(t) /\ Writing(t)' /\ ~InRelease(t) /\ ~InRelease(t)'
      /\ ~HasNew(t) /\ ~HasNew(t)' /\ ~HasOld(t) /\ ~HasOld(t)' /\ ~InUnlink(t) /\ ~InUnlink(t)'
  BY <1>1 DEF HoldsFile, HasNew, HasOld, InUnlink, InRelease, Writing
<1>4. \A q \in Path : Unspoiled(q)' => Unspoiled(q)
  BY <1>1, StaysUnspoiled
<1>5. ControlKept(t)'
  <2>1. PathsKept(t)'
    BY Serving, <1>1, <1>3 DEF Kept, PathsKept
  <2>2. HandleKept(t)'
    BY Serving, <1>1, <1>2, <1>3, <1>4, HeldFound, StoreStays DEF Kept, HandleKept
  <2>3. SizeKept(t)' /\ CallKept(t)' /\ RestKept(t)'
    BY Serving, <1>1 DEF Kept, SizeKept, CallKept, RestKept, InLookup, InUnlink, Busy, vars
  <2>. QED  BY <2>1, <2>2, <2>3 DEF ControlKept
<1>6. FieldsKept(t)'
  <2>1. \A q \in Path : setter.stage # "idle" /\ own[q] = setter.file /\ ~Unlinking(q) =>
              own'[q] = own[q] /\ ~Unlinking(q)'
    BY Serving, <1>1 DEF Unlinking
  <2>2. ASSUME NEW q \in Path, Unspoiled(q)', MetaAt(t, q) = NoMeta
        PROVE  HoldsFile(t)' /\ req'[t].path = q /\ CreatedKept(t)'
    <3>1. p = q /\ CreatedKept(t)
      BY Serving, <1>4, <2>2 DEF Kept, FilesKept
    <3>2. CreatedKept(t)'
      BY Serving, <1>1, <1>2, <1>3, <3>1 DEF CreatedKept
    <3>. QED  BY <1>1, <1>3, <3>1, <3>2
  <2>3. ASSUME NEW q \in Path, Unspoiled(q)', own[q] \notin cut',
               ~(HoldsFile(t)' /\ req'[t].path = q)
        PROVE  /\ own[q] \notin cut /\ ~(HoldsFile(t) /\ req[t].path = q)
               /\ Len(data'[names'[q]]) = Len(data[names[q]])
    <3>1. q # p /\ own[q] # NoFile /\ own[q] # req[t].file
      BY Serving, <1>1, <1>3, <1>4, <2>3, HeldFound DEF Unspoiled
    <3>2. names[q] # req[t].inode /\ own[q] \notin cut
      BY <2>3, <3>1 DEF PwriteAs
    <3>3. data'[names[q]] = data[names[q]]
      BY <3>2 DEF PwriteAs, PwriteChunk
    <3>. QED  BY <1>1, <3>1, <3>2, <3>3
  <2>. QED  BY <1>1, <1>2, <1>3, <2>1, <2>2, <2>3, StoreStays, FrameKeeps DEF FieldsKept
<1>7. NewKept(t)'
  BY <1>1, <1>3 DEF NewKept
<1>. QED  BY <1>5, <1>6, <1>7 DEF Kept, ControlKept, FieldsKept

\* The owner that the buffer has is taken with it.
LEMMA TakeWriterKept ==
    ASSUME NEW t, Serves(t), TakeWriter(t)
    PROVE  Kept(t)'
<1>. DEFINE p == req[t].path
<1>1. /\ Stage(t) = "open" /\ Stage(t)' = "released" /\ req'[t].path = p /\ req'[t].to = p
      /\ req'[t].inode = req[t].inode /\ req'[t].file = req[t].file /\ req'[t].info = req[t].info
      /\ UNCHANGED <<vars, names, tmp, data, nodeInfo, own>>
  BY Serving, Typed DEF TakeWriter, TakeBuffer, At, Stage, Request, disk, clients
<1>2. UNCHANGED <<attrs, xattrs, index, table, live, inodeMode, given, spared>>
  BY <1>1 DEF TakeWriter, vars, heap
<1>3. /\ HoldsFile(t) /\ HoldsFile(t)' /\ Writing(t) /\ ~Writing(t)' /\ ~InRelease(t) /\ InRelease(t)'
      /\ ~HasNew(t) /\ ~HasNew(t)' /\ ~HasOld(t) /\ ~HasOld(t)' /\ ~InUnlink(t) /\ ~InUnlink(t)'
  BY <1>1 DEF HoldsFile, HasNew, HasOld, InUnlink, InRelease, Writing
<1>4. \A q \in Path : Unspoiled(q)' => Unspoiled(q)
  BY <1>1, StaysUnspoiled
<1>5. /\ buffer'[p] = NoBuffer /\ \A q \in Path \ {p} : buffer'[q] = buffer[q]
      /\ buffer[p] # NoBuffer => taken'[t].uid = writer[p]
      /\ cut' = cut \ {own[p]}
  <2>1. /\ p \in Path /\ p # Gone /\ own[p] = req[t].file
        /\ buffer \in [Path -> Contents \cup {NoBuffer}]
        /\ taken \in [Threads -> [uid : Uid, size : 0..MaxWrites]]
    BY Serving, <1>3, HeldFound, Typed DEF AttributesIInv, AttributesTypeOK, FieldsTyped
  <2>2. t \in Threads
    BY Serving
  <2>. QED  BY <2>1, <2>2 DEF TakeWriter, TakeBuffer
<1>6. ControlKept(t)'
  <2>1. PathsKept(t)'
    BY Serving, <1>1, <1>3, <1>5 DEF Kept, PathsKept
  <2>2. HandleKept(t)'
    BY Serving, <1>1, <1>2, <1>3, <1>4, HeldFound, StoreStays DEF Kept, HandleKept
  <2>3. SizeKept(t)' /\ CallKept(t)' /\ RestKept(t)'
    BY Serving, <1>1 DEF Kept, SizeKept, CallKept, RestKept, InLookup, InUnlink, Busy, vars
  <2>. QED  BY <2>1, <2>2, <2>3 DEF ControlKept
<1>7. FieldsKept(t)'
  <2>1. \A q \in Path : setter.stage # "idle" /\ own[q] = setter.file /\ ~Unlinking(q) =>
              own'[q] = own[q] /\ ~Unlinking(q)'
    BY Serving, <1>1 DEF Unlinking
  <2>2. ASSUME NEW q \in Path, Unspoiled(q)', MetaAt(t, q) = NoMeta
        PROVE  HoldsFile(t)' /\ req'[t].path = q /\ CreatedKept(t)'
    <3>1. p = q /\ CreatedKept(t)
      BY Serving, <1>4, <2>2 DEF Kept, FilesKept
    <3>2. CreatedKept(t)'
      BY Serving, <1>1, <1>2, <1>3, <1>5, <3>1 DEF CreatedKept
    <3>. QED  BY <1>1, <1>3, <3>1, <3>2
  <2>3. ASSUME NEW q \in Path, Unspoiled(q)', own[q] \notin cut', q # p
        PROVE  own[q] \notin cut
    BY <1>1, <1>3, <1>4, <1>5, <2>3, HeldFound
  <2>. QED  BY <1>1, <1>2, <1>3, <2>1, <2>2, <2>3, StoreStays, FrameKeeps DEF FieldsKept
<1>8. NewKept(t)'
  BY <1>1, <1>3 DEF NewKept
<1>. QED  BY <1>6, <1>7, <1>8 DEF Kept, ControlKept, FieldsKept

\* A new file has what its creator gave it, and no node info under its name.
LEMMA CreateAsKept ==
    ASSUME NEW t, Serves(t), NEW p \in Path, NEW u, NEW mode, CreateAs(t, p, u, mode)
    PROVE  Kept(t)'
<1>. DEFINE i == req'[t].file
<1>1. /\ Stage(t) = "idle" /\ pc[t] = "idle" /\ Stage(t)' = "create"
      /\ req'[t].path = p /\ req'[t].inode = i /\ req'[t].info = InfoOf(p)
      /\ i \in FreshInodes /\ i \in Inode /\ i # NoFile
      /\ names' = [names EXCEPT ![p] = i] /\ data' = [data EXCEPT ![i] = << >>]
      /\ own' = [own EXCEPT ![p] = i] /\ names[p] = NoFile
      /\ buffer' = [buffer EXCEPT ![p] = IF @ = NoBuffer THEN << >> ELSE @]
      /\ UNCHANGED <<vars, tmp, nodeInfo>>
  <2>1. PICK j \in FreshInodes :
           /\ names' = [names EXCEPT ![p] = j] /\ data' = [data EXCEPT ![j] = << >>]
           /\ own' = [own EXCEPT ![p] = j]
           /\ req' = [req EXCEPT ![t] =
                [Blank EXCEPT !.stage = "create", !.path = p, !.inode = j, !.file = j,
                              !.info = InfoOf(p)]]
    BY DEF CreateAs, Create
  <2>2. /\ Stage(t)' = "create" /\ req'[t].path = p /\ req'[t].inode = j /\ i = j
        /\ req'[t].info = InfoOf(p)
    BY <2>1, Serving, Typed DEF Stage, Blank
  <2>3. j \in Inode /\ j # NoFile
    BY Serving, Typed DEF FreshInodes
  <2>. QED  BY <2>1, <2>2, <2>3 DEF CreateAs, Create, At
<1>2. /\ UNCHANGED <<attrs, xattrs, index, table, live, taken, spared, cut>>
      /\ given' = [given EXCEPT ![i] = [uid |-> u, mode |-> Masked(mode), value |-> NoValue]]
      /\ inodeMode' = [inodeMode EXCEPT ![i] = Masked(mode)]
      /\ writer' = [writer EXCEPT ![p] = IF buffer[p] = NoBuffer THEN u ELSE @]
  BY <1>1 DEF CreateAs, vars, heap
<1>3. /\ ~HoldsFile(t) /\ HoldsFile(t)' /\ ~Writing(t) /\ Writing(t)' /\ ~InRelease(t)'
      /\ ~HasNew(t) /\ ~HasNew(t)' /\ ~HasOld(t) /\ ~HasOld(t)' /\ ~InUnlink(t) /\ ~InUnlink(t)'
  BY <1>1 DEF HoldsFile, HasNew, HasOld, InUnlink, InRelease, Writing
<1>4. /\ own[p] = NoFile /\ nodeInfo[p] = NoInfo /\ buffer[p] = NoBuffer /\ InfoOf(p) = NewInfo
      /\ \A q \in Path : own[q] # i /\ names[q] # i
  BY Serving, <1>1, <1>3 DEF Kept, PathsKept, InfoOf, FreshInodes
<1>5. /\ \A q \in Path : own'[q] = IF q = p THEN i ELSE own[q]
      /\ \A q \in Path : names'[q] = IF q = p THEN i ELSE names[q]
      /\ \A q \in Path \ {p} : buffer'[q] = buffer[q]
      /\ buffer'[p] = << >> /\ << >> # NoBuffer /\ writer'[p] = u
      /\ given'[i] = [uid |-> u, mode |-> Masked(mode), value |-> NoValue] /\ inodeMode'[i] = Masked(mode)
      /\ \A f \in Inode \ {i} : given'[f] = given[f] /\ data'[f] = data[f]
  <2>1. << >> # NoBuffer
    BY HashesAreContents, FilesAssumption
  <2>. QED  BY <1>1, <1>2, <1>4, <2>1, Serving, Typed DEF AttributesIInv, AttributesTypeOK,
               FieldsTyped, FilesIInv, FilesTypeOK
<1>6. ASSUME NEW q \in Path, q # p, Unspoiled(q)'
      PROVE  /\ Unspoiled(q) /\ own'[q] = own[q] /\ own[q] \in Inode \ {i}
             /\ FileKept(t, q) /\ MetaAt(t, q) # NoMeta
             /\ names'[q] = names[q] /\ data'[names[q]] = data[names[q]]
  <2>1. Unspoiled(q) /\ own'[q] = own[q]
    BY <1>5, <1>6, StaysUnspoiled
  <2>2. FileKept(t, q) /\ MetaAt(t, q) # NoMeta
    BY <1>3, <2>1, AtRestFound
  <2>3. names[q] # NoFile
    BY <2>1, Serving DEF Kept, PathsKept, Unspoiled
  <2>. QED  BY <1>4, <1>5, <1>6, <2>1, <2>2, <2>3, Serving, Typed DEF Unspoiled
<1>7. MetaAt(t, p)' = NoMeta
  BY <1>1, <1>2, <1>3, <1>4, StoreStays, Serving, Typed, MetadataFoundIsOld DEF MetaAt
<1>8. ControlKept(t)'
  <2>1. PathsKept(t)'
    BY Serving, <1>1, <1>3, <1>4, <1>5 DEF Kept, PathsKept
  <2>2. HandleKept(t)'
    BY Serving, <1>1, <1>2, <1>3, <1>4, <1>5 DEF HandleKept
  <2>3. SizeKept(t)' /\ CallKept(t)' /\ RestKept(t)'
    BY Serving, <1>1 DEF Kept, SizeKept, CallKept, RestKept, InLookup, InUnlink, Busy, vars
  <2>. QED  BY <2>1, <2>2, <2>3 DEF ControlKept
<1>9. FilesKept(t)'
  <2>1. CreatedKept(t)'
    BY <1>1, <1>3, <1>4, <1>5 DEF CreatedKept
  <2>2. ASSUME NEW q \in Path, q # p, Unspoiled(q)'
        PROVE  MetaAt(t, q)' # NoMeta /\ FileKept(t, q)'
    <3>1. MetaAt(t, q)' = MetaAt(t, q)
      BY <1>1, <1>2, <1>3, StoreStays
    <3>2. given'[own[q]] = given[own[q]] /\ collided \subseteq collided'
      BY <1>5, <1>6, <2>2, Serving
    <3>3. /\ HandedOut(MetaAt(t, q))' = HandedOut(MetaAt(t, q))
          /\ own'[q] = own[q] /\ Len(data'[names'[q]]) = Len(data[names[q]])
          /\ ~(HoldsFile(t) /\ req[t].path = q)
      BY <1>2, <1>3, <1>6, <2>2, <3>1 DEF HandedOut
    <3>4. FileKept(t, q)
      BY <1>6, <2>2
    <3>5. FileKept(t, q)'
      BY <1>2, <3>1, <3>2, <3>3, <3>4 DEF FileKept, GetCustomXAttr
    <3>. QED  BY <1>6, <2>2, <3>1, <3>5
  <2>. QED  BY <1>1, <1>3, <1>7, <2>1, <2>2 DEF FilesKept
<1>10. FilesApartHere(t)'
  <2>. SUFFICES ASSUME NEW r \in Path, NEW q \in Path, r # q, Unspoiled(q)', MetaAt(t, q)' # NoMeta,
                       NEW m \in Reach(t, r)'
       PROVE  (m # MetaAt(t, q) /\ MapOf(m) # MapOf(MetaAt(t, q)))'
    BY DEF FilesApartHere
  <2>1. q # p /\ Unspoiled(q) /\ MetaAt(t, q) # NoMeta
    BY <1>6, <1>7
  <2>2. MetaAt(t, q)' = MetaAt(t, q) /\ m \in Reach(t, r)
    BY <1>1, <1>2, <1>3, StoreStays
  <2>3. m # MetaAt(t, q) /\ MapOf(m) # MapOf(MetaAt(t, q))
    BY <2>1, <2>2, Serving DEF Kept, FilesApartHere
  <2>4. MapOf(m)' = MapOf(m) /\ MapOf(MetaAt(t, q))' = MapOf(MetaAt(t, q))
    BY <1>2, <2>2 DEF MapOf
  <2>. QED  BY <2>2, <2>3, <2>4
<1>11. SetterKept(t)'
  <2>. SUFFICES ASSUME setter.stage # "idle"
       PROVE  HandedOut(setter.meta)' /\ \E s \in Path : SetterAt(t, s)'
    BY Serving DEF SetterKept
  <2>. DEFINE m == setter.meta
  <2>1. PICK s \in Path : SetterAt(t, s)
    BY Serving DEF Kept, SetterKept
  <2>2. s # p /\ own'[s] = own[s] /\ (Unspoiled(s)' => Unspoiled(s))
    BY <1>4, <1>5, <1>6, <2>1, Serving, Typed DEF SetterAt, AttributesIInv, SetterSound
  <2>3. \A q \in Path : MetaAt(t, q)' = MetaAt(t, q)
    BY <1>1, <1>2, <1>3, StoreStays
  <2>4. m' = m /\ \A x : MapOf(x)' = MapOf(x) /\ HandedOut(x)' = HandedOut(x)
    BY <1>2, Serving DEF MapOf, HandedOut
  <2>5. \A q \in Path \ {s} : Unspoiled(q)' /\ MetaAt(t, q)' # NoMeta =>
           m # MetaAt(t, q)' /\ MapOf(m)' # MapOf(MetaAt(t, q))'
    <3>. SUFFICES ASSUME NEW q \in Path \ {s}, Unspoiled(q)', MetaAt(t, q)' # NoMeta
         PROVE  m # MetaAt(t, q)' /\ MapOf(m)' # MapOf(MetaAt(t, q))'
      OBVIOUS
    <3>1. Unspoiled(q)
      BY <1>6, <1>7
    <3>2. m # MetaAt(t, q) /\ MapOf(m) # MapOf(MetaAt(t, q))
      BY <2>1, <2>3, <3>1 DEF SetterAt
    <3>3. MapOf(m)' = MapOf(m) /\ MapOf(MetaAt(t, q))' = MapOf(MetaAt(t, q))
      BY <1>2, <2>3, <2>4 DEF MapOf
    <3>. QED  BY <2>3, <3>2, <3>3
  <2>6. ~Unlinking(s)' /\ own'[s] = setter.file
    BY <1>1, <2>1, <2>2, Serving DEF SetterAt, Unlinking, Stage
  <2>7. Unspoiled(s)' =>
           /\ MapOf(m)' # NoMeta => MetaAt(t, s)' # NoMeta /\ MapOf(m)' = MapOf(MetaAt(t, s))'
           /\ setter.stage \in {"mode", "owner", "size"} /\ own'[s] \notin collided' =>
                 m = MetaAt(t, s)'
    <3>. SUFFICES ASSUME Unspoiled(s)'
         PROVE  /\ MapOf(m)' # NoMeta => MetaAt(t, s)' # NoMeta /\ MapOf(m)' = MapOf(MetaAt(t, s))'
                /\ setter.stage \in {"mode", "owner", "size"} /\ own'[s] \notin collided' =>
                      m = MetaAt(t, s)'
      OBVIOUS
    <3>1. /\ MapOf(m) # NoMeta => MetaAt(t, s) # NoMeta /\ MapOf(m) = MapOf(MetaAt(t, s))
          /\ setter.stage \in {"mode", "owner", "size"} /\ own[s] \notin collided =>
                m = MetaAt(t, s)
      BY <2>1, <2>2 DEF SetterAt
    <3>2. MapOf(m)' = MapOf(m) /\ MapOf(MetaAt(t, s))' = MapOf(MetaAt(t, s))
      BY <1>2, <2>3, <2>4 DEF MapOf
    <3>. QED  BY <2>2, <2>3, <3>1, <3>2, Serving
  <2>8. SetterAt(t, s)'
    BY <1>3, <2>4, <2>5, <2>6, <2>7, Serving DEF SetterAt
  <2>. QED  BY <2>4, <2>8, Serving DEF Kept, SetterKept
<1>12. MapsFresh'
  <2>1. \A m : MapOf(m)' = MapOf(m) /\ HandedOut(m)' = HandedOut(m)
    BY <1>2 DEF MapOf, HandedOut
  <2>. QED  BY <1>2, <2>1, Serving DEF Kept, MapsFresh
<1>13. NewKept(t)'
  BY <1>1, <1>3 DEF NewKept
<1>. QED  BY <1>8, <1>9, <1>10, <1>11, <1>12, <1>13 DEF Kept, ControlKept

\* The file that is to go is not the setter's.
LEMMA UnlinkLocksKept ==
    ASSUME NEW t, Serves(t), NEW p \in Path, UnlinkLocks(t, p)
    PROVE  Kept(t)'
<1>1. /\ Stage(t) = "idle" /\ pc[t] = "idle" /\ own[p] # NoFile /\ setter.file # own[p]
      /\ Stage(t)' = "unlink" /\ req'[t].path = p /\ req'[t].info = InfoOf(p)
      /\ req'[t].exists = (nodeInfo[p] # NoInfo)
      /\ UNCHANGED <<vars, names, tmp, data, nodeInfo, buffer, own>>
  BY Serving, Typed DEF UnlinkLocks, UnlinkBegin, At, Stage, Blank, disk, clients
<1>2. UNCHANGED <<attrs, xattrs, index, table, live, given, spared, cut>>
  BY <1>1 DEF UnlinkLocks, attributes, promises, vars, heap
<1>3. /\ ~HoldsFile(t) /\ ~HoldsFile(t)' /\ ~Writing(t) /\ ~InUnlink(t)
      /\ ~HasNew(t) /\ ~HasNew(t)' /\ ~HasOld(t) /\ ~HasOld(t)'
  BY <1>1 DEF HoldsFile, HasNew, HasOld, InUnlink, InRelease, Writing
<1>4. \A q \in Path : Unspoiled(q)' => Unspoiled(q)
  BY <1>1, StaysUnspoiled
<1>5. ControlKept(t)'
  <2>1. PathsKept(t)'
    BY Serving, <1>1, <1>3 DEF Kept, PathsKept
  <2>2. HandleKept(t)' /\ SizeKept(t)' /\ CallKept(t)'
    BY Serving, <1>1, <1>3 DEF Kept, HandleKept, SizeKept, CallKept, Busy, vars
  <2>3. RestKept(t)'
    <3>1. InfoOf(p)' = InfoOf(p)
      BY <1>1 DEF InfoOf
    <3>. QED  BY Serving, <1>1, <3>1 DEF Kept, RestKept, InLookup, vars
  <2>. QED  BY <2>1, <2>2, <2>3 DEF ControlKept
<1>6. FieldsKept(t)'
  <2>1. \A q \in Path : setter.stage # "idle" /\ own[q] = setter.file /\ ~Unlinking(q) =>
              own'[q] = own[q] /\ ~Unlinking(q)'
    BY Serving, <1>1 DEF Unlinking
  <2>2. \A q \in Path : Unspoiled(q)' => MetaAt(t, q) # NoMeta
    BY <1>3, <1>4, AtRestFound
  <2>. QED  BY <1>1, <1>2, <1>3, <2>1, <2>2, StoreStays, FrameKeeps DEF FieldsKept
<1>7. NewKept(t)'
  BY <1>1, <1>3 DEF NewKept
<1>. QED  BY <1>5, <1>6, <1>7 DEF Kept, ControlKept, FieldsKept

\* Lookup takes for new only a file whose metadata has been lost; until then it
\* changes nothing.
LEMMA LookupReadsKept ==
    ASSUME NEW t, Serves(t), UNCHANGED <<attributes, promises>>,
           (\E p \in Path : LookupBegin(t, p)) \/ LookupReadsInfo(t) \/ LookupFills(t)
    PROVE  Kept(t)'
<1>. DEFINE p == req'[t].path
<1>1. /\ Stage(t) \in {"idle", "stat", "attr"} /\ Stage(t)' \in {"idle", "stat", "look", "attr"}
      /\ Stage(t)' # "idle" => p \in Path /\ own[p] # NoFile
      /\ Stage(t)' = "look" => InfoOf(p) = NewInfo
      /\ UNCHANGED <<vars, names, tmp, data, nodeInfo, buffer, own>>
  <2>1. CASE \E q \in Path : LookupBegin(t, q)
    <3>1. PICK q \in Path : LookupBegin(t, q)
      BY <2>1
    <3>2. Stage(t)' = "stat" /\ p = q
      BY <3>1, Serving, Typed DEF LookupBegin, Stage, Blank
    <3>3. own[q] # NoFile
      BY <3>1, Serving DEF LookupBegin, Exists, Kept, PathsKept
    <3>. QED  BY <3>1, <3>2, <3>3 DEF LookupBegin, At, disk, clients
  <2>2. CASE LookupReadsInfo(t)
    <3>1. /\ Stage(t) = "stat" /\ Stage(t)' = (IF InfoOf(req[t].path) = NewInfo THEN "look" ELSE "attr")
          /\ p = req[t].path
      BY <2>2, Serving, Typed DEF LookupReadsInfo, At, Stage, Request
    <3>2. p \in Path /\ own[p] # NoFile
      BY <3>1, Serving, Typed DEF Kept, RestKept, InLookup, RequestSound, Stage
    <3>. QED  BY <2>2, <3>1, <3>2 DEF LookupReadsInfo, disk, clients
  <2>3. CASE LookupFills(t)
    <3>1. Stage(t) = "attr" /\ (req' = req \/ Stage(t)' = "idle")
      BY <2>3, Serving, Typed DEF LookupFills, Return, At, Stage, Blank
    <3>2. req[t].path \in Path /\ own[req[t].path] # NoFile
      BY <3>1, Serving, Typed DEF Kept, RestKept, InLookup, RequestSound, Stage
    <3>. QED  BY <2>3, <3>1, <3>2 DEF LookupFills, Stage, disk, clients
  <2>. QED  BY <2>1, <2>2, <2>3
<1>2. UNCHANGED <<attrs, xattrs, index, table, live, given, spared, cut>>
  BY <1>1 DEF attributes, promises, vars, heap
<1>3. ~Busy(t)
  BY Serving, <1>1 DEF Kept, CallKept, LookupBegin, Busy
<1>4. /\ ~HoldsFile(t) /\ ~HoldsFile(t)' /\ ~Writing(t) /\ ~InUnlink(t) /\ ~InUnlink(t)'
      /\ ~HasNew(t) /\ ~HasNew(t)' /\ ~HasOld(t) /\ ~HasOld(t)'
  BY <1>1 DEF HoldsFile, HasNew, HasOld, InUnlink, InRelease, Writing
<1>5. \A q \in Path : Unspoiled(q)' => Unspoiled(q)
  BY <1>1, StaysUnspoiled
<1>6. ControlKept(t)'
  <2>1. PathsKept(t)'
    BY Serving, <1>1, <1>4 DEF Kept, PathsKept
  <2>2. HandleKept(t)' /\ SizeKept(t)' /\ CallKept(t)'
    BY Serving, <1>1, <1>3, <1>4 DEF Kept, HandleKept, SizeKept, CallKept, Busy, vars
  <2>3. Stage(t)' = "look" => own'[p] \in dropped'
    <3>1. p \in Path /\ InfoOf(p) = NewInfo => ~Unspoiled(p)
      BY <1>4, AtRestFound, Serving, Typed, MetadataFoundIsOld
    <3>. QED  BY <1>1, <3>1, Serving DEF Unspoiled
  <2>4. RestKept(t)'
    BY Serving, <1>1, <1>4, <2>3 DEF Kept, RestKept, InLookup, InUnlink, vars
  <2>. QED  BY <2>1, <2>2, <2>4 DEF ControlKept
<1>7. FieldsKept(t)'
  <2>1. \A q \in Path : setter.stage # "idle" /\ own[q] = setter.file /\ ~Unlinking(q) =>
              own'[q] = own[q] /\ ~Unlinking(q)'
    BY Serving, <1>1 DEF Unlinking
  <2>2. \A q \in Path : Unspoiled(q)' => MetaAt(t, q) # NoMeta
    BY <1>4, <1>5, AtRestFound
  <2>. QED  BY <1>1, <1>2, <1>4, <2>1, <2>2, StoreStays, FrameKeeps DEF FieldsKept
<1>8. NewKept(t)'
  BY <1>1, <1>4 DEF NewKept
<1>. QED  BY <1>6, <1>7, <1>8 DEF Kept, ControlKept, FieldsKept

-----------------------------------------------------------------------------
(* Lookup, Create and Unlink at the persistence hash.                       *)

\* A new node's info is what a missing one reads as.
LEMMA CreateStoresInfoKept ==
    ASSUME NEW t, Serves(t), CreateStoresInfo(t), UNCHANGED <<attributes, promises>>
    PROVE  Kept(t)'
<1>. DEFINE p == req[t].path
<1>1. /\ Stage(t) = "create" /\ Stage(t)' = "open" /\ req'[t].path = p
      /\ req'[t].inode = req[t].inode /\ req'[t].file = req[t].file /\ req'[t].info = req[t].info
      /\ UNCHANGED <<vars, names, tmp, data, buffer, own>>
  <2>1. Stage(t) = "create" /\ req[t].info = NewInfo
    BY Serving DEF CreateStoresInfo, At, Kept, HandleKept, HoldsFile, Writing
  <2>2. ~FillsFromNil(t)
    BY <2>1 DEF FillsFromNil, Stage
  <2>. QED  BY <2>1, <2>2, Serving, Typed DEF CreateStoresInfo, Stage, Goto, Request, disk, clients
<1>2. UNCHANGED <<attrs, xattrs, index, table, live, writer, inodeMode, taken, given, spared, cut>>
  BY <1>1 DEF attributes, promises, vars, heap
<1>3. /\ HoldsFile(t) /\ HoldsFile(t)' /\ Writing(t) /\ Writing(t)' /\ ~InRelease(t) /\ ~InRelease(t)'
      /\ ~HasNew(t) /\ ~HasNew(t)' /\ ~HasOld(t) /\ ~HasOld(t)' /\ ~InUnlink(t) /\ ~InUnlink(t)'
  BY <1>1 DEF HoldsFile, HasNew, HasOld, InUnlink, InRelease, Writing
<1>4. \A q \in Path : Unspoiled(q)' => Unspoiled(q)
  BY <1>1, StaysUnspoiled
<1>5. /\ p \in Path /\ own[p] # NoFile /\ nodeInfo[p] = NoInfo /\ req[t].info = NewInfo
      /\ own[p] = req[t].file /\ names[p] = req[t].inode
  BY Serving, <1>1, <1>3, HeldFound DEF Kept, HandleKept
<1>6. nodeInfo' = [nodeInfo EXCEPT ![p] = NewInfo] /\ NewInfo # NoInfo
  BY <1>5, Serving, Typed, MetadataFoundIsOld DEF CreateStoresInfo
<1>7. \A q \in Path : InfoOf(q)' = InfoOf(q)
  BY <1>5, <1>6, Serving, Typed DEF InfoOf
<1>8. ControlKept(t)'
  <2>1. PathsKept(t)'
    BY Serving, Typed, <1>1, <1>3, <1>5, <1>6 DEF Kept, PathsKept
  <2>2. HandleKept(t)'
    BY Serving, Typed, <1>1, <1>3, <1>5, <1>6, <1>7 DEF HandleKept, InfoOf
  <2>3. SizeKept(t)' /\ CallKept(t)' /\ RestKept(t)'
    BY Serving, <1>1 DEF Kept, SizeKept, CallKept, RestKept, InLookup, InUnlink, Busy, vars
  <2>. QED  BY <2>1, <2>2, <2>3 DEF ControlKept
<1>9. FieldsKept(t)'
  <2>1. \A q \in Path : setter.stage # "idle" /\ own[q] = setter.file /\ ~Unlinking(q) =>
              own'[q] = own[q] /\ ~Unlinking(q)'
    BY Serving, <1>1 DEF Unlinking
  <2>2. ASSUME NEW q \in Path, Unspoiled(q)', MetaAt(t, q) = NoMeta
        PROVE  HoldsFile(t)' /\ req'[t].path = q /\ CreatedKept(t)'
    <3>1. p = q /\ CreatedKept(t)
      BY Serving, <1>4, <2>2 DEF Kept, FilesKept
    <3>2. CreatedKept(t)'
      BY Serving, <1>1, <1>2, <1>3, <3>1 DEF CreatedKept
    <3>. QED  BY <1>1, <1>3, <3>1, <3>2
  <2>. QED  BY <1>1, <1>2, <1>3, <1>7, <2>1, <2>2, InfoStays, FrameKeeps DEF FieldsKept
<1>10. NewKept(t)'
  BY <1>1, <1>3 DEF NewKept
<1>. QED  BY <1>8, <1>9, <1>10 DEF Kept, ControlKept, FieldsKept

\* Node infos that Lookup or Unlink overwrites name nothing that is kept.
LEMMA LookupStoresInfoKept ==
    ASSUME NEW t, Serves(t), LookupStoresInfo(t), UNCHANGED <<attributes, promises>>
    PROVE  Kept(t)'
<1>. DEFINE p == req[t].path
<1>1. /\ Stage(t) = "look" /\ Stage(t)' = "idle" /\ p \in Path
      /\ nodeInfo' = [nodeInfo EXCEPT ![p] = NewInfo]
      /\ UNCHANGED <<vars, names, tmp, data, buffer, own>>
  BY Serving, Typed DEF LookupStoresInfo, At, Stage, Return, Blank, RequestSound, disk, clients
<1>2. UNCHANGED <<attrs, xattrs, index, table, live, given, spared, cut>>
  BY <1>1 DEF attributes, promises, vars, heap
<1>3. /\ ~HoldsFile(t) /\ ~HoldsFile(t)' /\ ~Writing(t) /\ ~InUnlink(t) /\ ~InUnlink(t)'
      /\ ~HasNew(t) /\ ~HasNew(t)' /\ ~HasOld(t) /\ ~HasOld(t)'
  BY <1>1 DEF HoldsFile, HasNew, HasOld, InUnlink, InRelease, Writing
<1>4. own[p] \in dropped /\ own[p] # NoFile
  BY Serving, Typed, <1>1 DEF Kept, RestKept, AttributesIInv, AttributesTypeOK
<1>5. \A q \in Path : Unspoiled(q)' => Unspoiled(q) /\ q # p
  BY <1>1, <1>4, StaysUnspoiled DEF Unspoiled
<1>6. \A q \in Path \ {p} : InfoOf(q)' = InfoOf(q)
  BY <1>1, Serving, Typed DEF InfoOf
<1>7. \A q \in {p} : InfoOf(q)' = NewInfo
  BY <1>1, Serving, Typed DEF InfoOf
<1>8. /\ \A q \in Path \ {p} : MetadataOf(InfoOf(q))' = MetadataOf(InfoOf(q))
      /\ \A q \in {p} : MetadataOf(InfoOf(q))' = NoMeta
  <2>1. \A info \in Info : MetadataOf(info)' = MetadataOf(info)
    BY <1>2, SameStore DEF SameMetadata
  <2>. QED  BY <1>6, <1>7, <2>1, Serving, Typed, MetadataFoundIsOld
<1>9. ControlKept(t)'
  <2>1. PathsKept(t)'
    BY Serving, Typed, <1>1, <1>3, <1>4 DEF Kept, PathsKept
  <2>2. HandleKept(t)' /\ SizeKept(t)' /\ CallKept(t)' /\ RestKept(t)'
    BY Serving, <1>1, <1>3 DEF Kept, HandleKept, SizeKept, CallKept, RestKept, InLookup, InUnlink, Busy, vars
  <2>. QED  BY <2>1, <2>2 DEF ControlKept
<1>10. FieldsKept(t)'
  <2>1. \A q \in Path : setter.stage # "idle" /\ own[q] = setter.file /\ ~Unlinking(q) =>
              own'[q] = own[q] /\ ~Unlinking(q)'
    BY Serving, <1>1 DEF Unlinking
  <2>2. \A q \in Path : Unspoiled(q)' => MetaAt(t, q) # NoMeta
    BY <1>3, <1>5, AtRestFound
  <2>3. \A q \in Path : Unspoiled(q)' => MetaAt(t, q)' = MetaAt(t, q)
    BY <1>3, <1>5, <1>8 DEF MetaAt
  <2>4. \A q \in Path : Reach(t, q)' \subseteq Reach(t, q)
    BY <1>3, <1>8 DEF Reach, MetaAt
  <2>. QED  BY <1>1, <1>2, <1>3, <2>1, <2>2, <2>3, <2>4, FrameKeeps DEF FieldsKept
<1>11. NewKept(t)'
  BY <1>1, <1>3 DEF NewKept
<1>. QED  BY <1>9, <1>10, <1>11 DEF Kept, ControlKept, FieldsKept

\* Unlink forgets the node info of a path that has no file any more.
LEMMA UnlinkForgetsKept ==
    ASSUME NEW t, Serves(t), UnlinkForgets(t), UNCHANGED <<attributes, promises>>
    PROVE  Kept(t)'
<1>. DEFINE p == req[t].path
<1>1. /\ Stage(t) = "forget" /\ Stage(t)' = "idle" /\ p \in Path
      /\ nodeInfo' = [nodeInfo EXCEPT ![p] = NoInfo]
      /\ UNCHANGED <<vars, names, tmp, data, buffer, own>>
  <2>1. Stage(t) = "forget" /\ Stage(t)' = "idle" /\ p \in Path
    BY Serving, Typed DEF UnlinkForgets, At, Stage, Moved, Blank, RequestSound
  <2>2. req[t].exists \/ nodeInfo[p] = NoInfo
    BY <2>1, Serving DEF Kept, RestKept, InUnlink
  <2>. QED  BY <2>1, <2>2, Serving, Typed DEF UnlinkForgets, disk, clients
<1>2. UNCHANGED <<attrs, xattrs, index, table, live, given, spared, cut>>
  BY <1>1 DEF attributes, promises, vars, heap
<1>3. /\ ~HoldsFile(t) /\ ~HoldsFile(t)' /\ ~Writing(t) /\ InUnlink(t) /\ ~InUnlink(t)'
      /\ ~HasNew(t) /\ ~HasNew(t)' /\ ~HasOld(t) /\ ~HasOld(t)'
  BY <1>1 DEF HoldsFile, HasNew, HasOld, InUnlink, InRelease, Writing
<1>4. own[p] = NoFile
  BY Serving, <1>1 DEF Kept, RestKept
<1>5. \A q \in Path : Unspoiled(q)' => Unspoiled(q) /\ q # p
  BY <1>1, <1>4, StaysUnspoiled DEF Unspoiled
<1>6. \A q \in Path \ {p} : InfoOf(q)' = InfoOf(q)
  BY <1>1, Serving, Typed DEF InfoOf
<1>7. \A q \in {p} : InfoOf(q)' = NewInfo
  BY <1>1, Serving, Typed DEF InfoOf
<1>8. /\ \A q \in Path \ {p} : MetadataOf(InfoOf(q))' = MetadataOf(InfoOf(q))
      /\ \A q \in {p} : MetadataOf(InfoOf(q))' = NoMeta
  <2>1. \A info \in Info : MetadataOf(info)' = MetadataOf(info)
    BY <1>2, SameStore DEF SameMetadata
  <2>. QED  BY <1>6, <1>7, <2>1, Serving, Typed, MetadataFoundIsOld
<1>9. ControlKept(t)'
  <2>1. PathsKept(t)'
    BY Serving, Typed, <1>1, <1>3, <1>4 DEF Kept, PathsKept
  <2>2. HandleKept(t)' /\ SizeKept(t)' /\ CallKept(t)' /\ RestKept(t)'
    BY Serving, <1>1, <1>3 DEF Kept, HandleKept, SizeKept, CallKept, RestKept, InLookup, InUnlink, Busy, vars
  <2>. QED  BY <2>1, <2>2 DEF ControlKept
<1>10. FieldsKept(t)'
  <2>1. \A q \in Path : setter.stage # "idle" /\ own[q] = setter.file /\ ~Unlinking(q) =>
              own'[q] = own[q] /\ ~Unlinking(q)'
    BY Serving, <1>1 DEF Unlinking
  <2>2. \A q \in Path : Unspoiled(q)' => MetaAt(t, q) # NoMeta
    BY <1>3, <1>5, AtRestFound
  <2>3. \A q \in Path : Unspoiled(q)' => MetaAt(t, q)' = MetaAt(t, q)
    BY <1>3, <1>5, <1>8 DEF MetaAt
  <2>4. \A q \in Path : Reach(t, q)' \subseteq Reach(t, q)
    BY <1>3, <1>8 DEF Reach, MetaAt
  <2>. QED  BY <1>1, <1>2, <1>3, <2>1, <2>2, <2>3, <2>4, FrameKeeps DEF FieldsKept
<1>11. NewKept(t)'
  BY <1>1, <1>3 DEF NewKept
<1>. QED  BY <1>9, <1>10, <1>11 DEF Kept, ControlKept, FieldsKept

\* What is called to be removed is what the removed file's node info names.
LEMMA UnlinkFileKept ==
    ASSUME NEW t, Serves(t), UnlinkFile(t), UNCHANGED <<attributes, promises>>
    PROVE  Kept(t)'
<1>. DEFINE p == req[t].path
<1>1. /\ Stage(t) = "unlink" /\ Stage(t)' \in {"unlinking", "forget"} /\ req'[t].path = p
      /\ req'[t].exists = req[t].exists
      /\ p \in Path /\ InfoOf(p) = req[t].info /\ own[p] # NoFile
      /\ names' = [names EXCEPT ![p] = NoFile] /\ own' = [own EXCEPT ![p] = NoFile]
      /\ UNCHANGED <<tmp, data, nodeInfo, buffer>>
  <2>1. Stage(t) = "unlink"
    BY DEF UnlinkFile, At
  <2>2. PICK s \in {"unlinking", "forget"} : Goto(t, s)
    BY DEF UnlinkFile
  <2>3. Stage(t)' = s /\ req'[t].path = p /\ req'[t].exists = req[t].exists
    BY <2>2, Serving, Typed DEF Goto, Stage, Request
  <2>4. p \in Path /\ InfoOf(p) = req[t].info /\ own[p] # NoFile
    BY <2>1, Serving, Typed DEF Kept, RestKept, RequestSound, Stage
  <2>. QED  BY <2>1, <2>3, <2>4 DEF UnlinkFile
<1>2. /\ UNCHANGED <<table, heap>> /\ contended' = {}
      /\ pc'[t] = IF Stage(t)' = "unlinking" THEN "find" ELSE "idle"
      /\ Stage(t)' = "unlinking" => [hash |-> hashArg'[t], ref |-> refArg'[t]] = req[t].info
  <2>1. pc[t] = "idle" /\ contended = {} /\ Threads = {t} /\ req[t].info \in Info
    BY <1>1, Serving, Typed DEF Kept, CallKept, RestKept, Busy, Request
  <2>2. /\ pc \in [Threads -> {"idle"} \cup StorePcs \cup RemovePcs]
        /\ hashArg \in [Threads -> AllHash] /\ refArg \in [Threads -> 0..MaxIndex]
    BY Serving, Typed DEF FilesIInv, IInv, TypeOK
  <2>3. CASE Goto(t, "forget") /\ UNCHANGED vars
    <3>1. Stage(t)' = "forget"
      BY <2>3, Serving, Typed DEF Goto, Stage, Request
    <3>. QED  BY <2>1, <2>3, <3>1 DEF vars
  <2>4. CASE Goto(t, "unlinking") /\ BeginRemove(t, req[t].info.hash, req[t].info.ref)
    <3>1. Stage(t)' = "unlinking"
      BY <2>4, Serving, Typed DEF Goto, Stage, Request
    <3>2. contended' = contended
      BY <2>1, <2>4 DEF BeginRemove, WorkingOn, Busy
    <3>3. pc'[t] = "find" /\ hashArg'[t] = req[t].info.hash /\ refArg'[t] = req[t].info.ref
      BY <2>1, <2>2, <2>4 DEF BeginRemove, Step
    <3>4. [hash |-> hashArg'[t], ref |-> refArg'[t]] = req[t].info
      BY <2>1, <3>3 DEF Info
    <3>. QED  BY <2>1, <2>4, <3>1, <3>2, <3>3, <3>4 DEF BeginRemove
  <2>. QED  BY <2>3, <2>4 DEF UnlinkFile
<1>3. UNCHANGED <<attrs, xattrs, index, table, live, given, spared, cut>>
  BY <1>2 DEF attributes, promises, heap
<1>4. /\ ~HoldsFile(t) /\ ~HoldsFile(t)' /\ ~Writing(t) /\ InUnlink(t) /\ InUnlink(t)'
      /\ ~HasNew(t) /\ ~HasNew(t)' /\ ~HasOld(t) /\ ~HasOld(t)'
  BY <1>1 DEF HoldsFile, HasNew, HasOld, InUnlink, InRelease, Writing
<1>5. \A q \in Path : own'[q] = (IF q = p THEN NoFile ELSE own[q])
                      /\ names'[q] = (IF q = p THEN NoFile ELSE names[q])
  BY <1>1, Serving, Typed
<1>6. \A q \in Path : Unspoiled(q)' => Unspoiled(q) /\ q # p
  BY <1>1, <1>5, StaysUnspoiled DEF Unspoiled
<1>7. ControlKept(t)'
  <2>1. PathsKept(t)'
    BY Serving, Typed, <1>1, <1>4, <1>5 DEF Kept, PathsKept
  <2>2. HandleKept(t)' /\ SizeKept(t)'
    BY <1>1, <1>4 DEF HandleKept, SizeKept
  <2>3. InfoOf(p)' = InfoOf(p)
    BY <1>1 DEF InfoOf
  <2>4. CallKept(t)'
    BY <1>1, <1>2, <2>3 DEF CallKept, Busy, RemovePcs
  <2>5. RestKept(t)'
    BY Serving, <1>1, <1>2, <1>5 DEF Kept, RestKept, InLookup, InUnlink
  <2>. QED  BY <2>1, <2>2, <2>4, <2>5 DEF ControlKept
<1>8. FieldsKept(t)'
  <2>1. \A q \in Path : setter.stage # "idle" /\ own[q] = setter.file /\ ~Unlinking(q) =>
              own'[q] = own[q] /\ ~Unlinking(q)'
    BY Serving, <1>1, <1>5 DEF Unlinking, Stage
  <2>2. \A q \in Path : Unspoiled(q)' => MetaAt(t, q) # NoMeta
    BY <1>4, <1>6, AtRestFound
  <2>. QED  BY <1>1, <1>3, <1>4, <1>5, <1>6, <2>1, <2>2, StoreStays, FrameKeeps DEF FieldsKept
<1>9. NewKept(t)'
  BY <1>1, <1>4 DEF NewKept
<1>. QED  BY <1>7, <1>8, <1>9 DEF Kept, ControlKept, FieldsKept

-----------------------------------------------------------------------------
(* Removing metadata.                                                       *)

\* A step of RemoveRegularFileMetadata deletes at most what it was called for.
LEMMA RemovingStep ==
    ASSUME NEW t, Serves(t), RemoveStep(t)
    PROVE  LET info == [hash |-> hashArg[t], ref |-> refArg[t]] IN
           /\ UNCHANGED <<index, contended>>
           /\ pc'[t] \in RemovePcs \cup {"idle"}
           /\ pc'[t] \in {"find", "dec"} =>
                 pc[t] = "find" /\ UNCHANGED <<table, hashArg, refArg>>
           /\ \A i \in Info :
                 \/ MetadataOf(i)' = MetadataOf(i)
                 \/ /\ pc[t] = "dec" /\ MetadataOf(i)' = NoMeta
                    /\ MetadataOf(i) = [entry |-> table[hashArg[t]], ref |-> refArg[t]]
                    /\ MetadataOf(i) = MetadataOf(info)
<1>. DEFINE info == [hash |-> hashArg[t], ref |-> refArg[t]]
<1>1. /\ t \in Threads /\ Threads = {t} /\ FilesIInv /\ contended = {}
      /\ pc \in [Threads -> {"idle"} \cup StorePcs \cup RemovePcs]
      /\ hashArg \in [Threads -> AllHash] /\ refArg \in [Threads -> 0..MaxIndex]
  BY Serving, Typed DEF Kept, RestKept, FilesIInv, IInv, TypeOK
<1>2. CASE FindMetadata(t) \/ TestEmpty(t)
  <2>1. UNCHANGED <<table, heap, hashArg, refArg, contended>>
    BY <1>2 DEF FindMetadata, TestEmpty, locals
  <2>2. SameMetadata
    BY <2>1, SameStore DEF heap
  <2>3. pc[t] \in {"find", "test"} /\ pc'[t] \in {"dec", "idle", "delete"}
    BY <1>1, <1>2 DEF FindMetadata, TestEmpty, Step
  <2>4. pc'[t] = "dec" => pc[t] = "find"
    BY <1>1, <1>2 DEF FindMetadata, TestEmpty, Step
  <2>. QED  BY <2>1, <2>2, <2>3, <2>4 DEF heap, SameMetadata, RemovePcs
<1>3. CASE DeleteMapEntry(t)
  <2>1. UNCHANGED <<heap, contended>> /\ pc'[t] = "idle"
    BY <1>1, <1>3 DEF DeleteMapEntry, Step
  <2>2. SameMetadata
    BY <1>1, <1>3, EntryDeleted
  <2>. QED  BY <2>1, <2>2 DEF heap, SameMetadata
<1>4. CASE DeleteMetadata(t)
  <2>1. /\ UNCHANGED <<index, contended>> /\ pc[t] = "dec" /\ pc'[t] = "test"
    BY <1>1, <1>4 DEF DeleteMetadata, Step
  <2>2. /\ entryPtr[t] = table[hashArg[t]] /\ refArg[t] \in live[table[hashArg[t]]]
        /\ table[hashArg[t]] # NoEntry
    BY <1>1, <2>1, Progress
  <2>3. MetadataOf(info) = [entry |-> entryPtr[t], ref |-> refArg[t]]
    BY <2>2 DEF MetadataOf, HasMetadata
  <2>4. \A i \in Info :
              MetadataOf(i)' =
                 IF MetadataOf(i) = [entry |-> entryPtr[t], ref |-> refArg[t]] THEN NoMeta
                 ELSE MetadataOf(i)
    BY <1>1, <1>4, MetadataDeleted
  <2>. QED  BY <2>1, <2>2, <2>3, <2>4 DEF RemovePcs
<1>. QED  BY <1>2, <1>3, <1>4 DEF RemoveStep

\* Unlink's call removes the metadata of the file that is gone, and nobody else's.
LEMMA UnlinkRemovesKept ==
    ASSUME NEW t, Serves(t), UnlinkRemoves(t), UNCHANGED <<attributes, promises>>
    PROVE  Kept(t)'
<1>. DEFINE p == req[t].path
            gone == [hash |-> hashArg[t], ref |-> refArg[t]]
<1>1. /\ Stage(t) = "unlinking" /\ p \in Path /\ req'[t].path = p /\ req'[t].exists = req[t].exists
      /\ Stage(t)' = IF pc'[t] = "idle" THEN "forget" ELSE "unlinking"
      /\ UNCHANGED <<names, tmp, data, nodeInfo, buffer, own>>
  <2>1. Stage(t) = "unlinking" /\ UNCHANGED <<names, tmp, data, nodeInfo, buffer, own>>
    BY DEF UnlinkRemoves, At, disk, clients
  <2>2. PICK s \in {"forget", "unlinking"} :
           Goto(t, s) /\ s = IF pc'[t] = "idle" THEN "forget" ELSE "unlinking"
    BY DEF UnlinkRemoves
  <2>3. Stage(t)' = s /\ req'[t].path = p /\ req'[t].exists = req[t].exists
    BY <2>2, Serving, Typed DEF Goto, Stage, Request
  <2>4. p \in Path
    BY <2>1, Serving, Typed DEF RequestSound, Stage
  <2>. QED  BY <2>1, <2>2, <2>3, <2>4
<1>2. /\ UNCHANGED <<attrs, xattrs, index, given, spared, cut>> /\ contended' = contended
      /\ RemoveStep(t)
  BY RemovingStep DEF UnlinkRemoves, attributes, promises
<1>3. /\ ~HoldsFile(t) /\ ~HoldsFile(t)' /\ ~Writing(t) /\ InUnlink(t) /\ InUnlink(t)'
      /\ ~HasNew(t) /\ ~HasNew(t)' /\ ~HasOld(t) /\ ~HasOld(t)'
  BY <1>1 DEF HoldsFile, HasNew, HasOld, InUnlink, InRelease, Writing
<1>4. own[p] = NoFile
  BY Serving, <1>1 DEF Kept, RestKept
<1>5. \A q \in Path : Unspoiled(q)' => Unspoiled(q) /\ q # p
  BY <1>1, <1>4, StaysUnspoiled DEF Unspoiled
<1>6. \A q \in Path : InfoOf(q)' = InfoOf(q) /\ InfoOf(q) \in Info
  BY <1>1, Serving, Typed, MetadataFoundIsOld DEF InfoOf
<1>7. \A q \in Path : MetadataOf(InfoOf(q))' \in {MetadataOf(InfoOf(q)), NoMeta}
  BY <1>2, <1>6, RemovingStep
<1>8. ASSUME NEW q \in Path, Unspoiled(q)'
      PROVE  MetadataOf(InfoOf(q))' = MetadataOf(InfoOf(q))
  <2>1. /\ Unspoiled(q) /\ q # p /\ MetaAt(t, q) = MetadataOf(InfoOf(q)) /\ MetaAt(t, q) # NoMeta
    BY <1>3, <1>5, <1>8, AtRestFound
  <2>2. pc[t] = "dec" => gone = InfoOf(p)
    BY Serving, <1>1 DEF Kept, CallKept
  <2>3. MetadataOf(InfoOf(q)) = MetadataOf(InfoOf(p)) => FALSE
    BY Serving, <1>1, <2>1 DEF Kept, FilesApartHere, Reach
  <2>. QED  BY <1>2, <1>6, <2>2, <2>3, RemovingStep
<1>9. ControlKept(t)'
  <2>1. PathsKept(t)'
    BY Serving, <1>1, <1>3 DEF Kept, PathsKept
  <2>2. HandleKept(t)' /\ SizeKept(t)'
    BY <1>1, <1>3 DEF HandleKept, SizeKept
  <2>3. CallKept(t)'
    <3>1. pc'[t] \in RemovePcs \cup {"idle"}
      BY <1>2, RemovingStep
    <3>2. pc'[t] \in {"find", "dec"} => pc[t] = "find" /\ hashArg' = hashArg /\ refArg' = refArg
      BY <1>2, RemovingStep
    <3>3. pc[t] = "find" => InfoOf(p) = gone
      BY Serving, <1>1 DEF Kept, CallKept
    <3>. QED  BY <1>1, <1>6, <3>1, <3>2, <3>3 DEF CallKept, Busy, RemovePcs
  <2>4. RestKept(t)'
    BY Serving, <1>1, <1>2, <1>4 DEF Kept, RestKept, InLookup, InUnlink
  <2>. QED  BY <2>1, <2>2, <2>3, <2>4 DEF ControlKept
<1>10. FieldsKept(t)'
  <2>1. \A q \in Path : setter.stage # "idle" /\ own[q] = setter.file /\ ~Unlinking(q) =>
              own'[q] = own[q] /\ ~Unlinking(q)'
    BY Serving, <1>1 DEF Unlinking, Stage
  <2>2. \A q \in Path : Unspoiled(q)' => MetaAt(t, q) # NoMeta
    BY <1>3, <1>5, AtRestFound
  <2>3. \A q \in Path : Unspoiled(q)' => MetaAt(t, q)' = MetaAt(t, q)
    BY <1>3, <1>8 DEF MetaAt
  <2>4. \A q \in Path : Reach(t, q)' \subseteq Reach(t, q)
    BY <1>3, <1>7 DEF Reach, MetaAt
  <2>. QED  BY <1>1, <1>2, <1>3, <1>5, <2>1, <2>2, <2>3, <2>4, FrameKeeps DEF FieldsKept
<1>11. NewKept(t)'
  BY <1>1, <1>3 DEF NewKept
<1>. QED  BY <1>9, <1>10, <1>11 DEF Kept, ControlKept, FieldsKept

\* What a Release drops is the new metadata, which no other file has.
LEMMA DropKept ==
    ASSUME NEW t, Serves(t), Drop(t), UNCHANGED <<attributes, promises>>
    PROVE  Kept(t)'
<1>. DEFINE p == req[t].path
            gone == [hash |-> hashArg[t], ref |-> refArg[t]]
<1>1. /\ Stage(t) = "dropping"
      /\ \/ Stage(t)' = "idle" /\ pc'[t] = "idle"
         \/ req' = req /\ pc'[t] # "idle"
      /\ UNCHANGED <<names, tmp, data, nodeInfo, buffer, own>>
  <2>1. Stage(t) = "dropping" /\ UNCHANGED <<names, tmp, data, nodeInfo, buffer, own>>
    BY DEF Drop, At, disk, clients
  <2>2. Return(t) => Stage(t)' = "idle"
    BY Serving, Typed DEF Return, Stage, Blank
  <2>. QED  BY <2>1, <2>2 DEF Drop
<1>2. /\ UNCHANGED <<attrs, xattrs, index, given, spared, cut>> /\ contended' = contended
      /\ RemoveStep(t)
  BY RemovingStep DEF Drop, attributes, promises
<1>3. /\ HoldsFile(t) /\ ~Writing(t) /\ InRelease(t) /\ ~InUnlink(t) /\ ~InUnlink(t)'
      /\ ~HasNew(t) /\ ~HasNew(t)' /\ ~HasOld(t) /\ ~HasOld(t)'
      /\ Stage(t)' # "idle" => HoldsFile(t)' /\ Stage(t)' = "dropping"
  BY <1>1 DEF HoldsFile, HasNew, HasOld, InUnlink, InRelease, Writing, Stage
<1>4. ~Unspoiled(p) /\ p \in Path
  <2>1. own[p] = req[t].file /\ p \in Path
    BY <1>3, HeldFound
  <2>2. req[t].file \in Dropping
    BY Serving, <1>1 DEF Dropping
  <2>. QED  BY <2>1, <2>2, Serving DEF Kept, RestKept, Unspoiled
<1>5. \A q \in Path : Unspoiled(q)' => Unspoiled(q) /\ q # p
  BY <1>1, <1>4, StaysUnspoiled
<1>6. \A q \in Path : InfoOf(q)' = InfoOf(q) /\ InfoOf(q) \in Info
  BY <1>1, Serving, Typed, MetadataFoundIsOld DEF InfoOf
<1>7. \A q \in Path : MetadataOf(InfoOf(q))' \in {MetadataOf(InfoOf(q)), NoMeta}
  BY <1>2, <1>6, RemovingStep
<1>8. ASSUME NEW q \in Path, Unspoiled(q)'
      PROVE  /\ MetadataOf(InfoOf(q))' = MetadataOf(InfoOf(q))
             /\ MetaAt(t, q) = MetadataOf(InfoOf(q)) /\ MetaAt(t, q) # NoMeta
  <2>1. /\ Unspoiled(q) /\ q # p /\ MetaAt(t, q) = MetadataOf(InfoOf(q)) /\ MetaAt(t, q) # NoMeta
    BY <1>3, <1>5, <1>8, AtRestFound
  <2>2. pc[t] = "dec" => /\ hashArg[t] = req[t].hash /\ refArg[t] = req[t].new.ref
                         /\ table[req[t].hash] = req[t].new.entry /\ req[t].new \in Meta
    BY Serving, <1>1 DEF Kept, CallKept, NewKept
  <2>3. pc[t] = "dec" => [entry |-> table[hashArg[t]], ref |-> refArg[t]] = req[t].new
    BY <2>2 DEF Meta
  <2>4. MetadataOf(InfoOf(q)) # req[t].new
    BY Serving, <1>1, <2>1 DEF Kept, NewKept
  <2>. QED  BY <1>2, <1>6, <2>1, <2>3, <2>4, RemovingStep
<1>9. ControlKept(t)'
  <2>1. PathsKept(t)'
    BY Serving, <1>1, <1>3 DEF Kept, PathsKept
  <2>2. HandleKept(t)'
    <3>1. CASE Stage(t)' = "idle"
      BY <3>1 DEF HandleKept, HoldsFile, Writing, InRelease
    <3>2. CASE req' = req
      BY Serving, <1>1, <1>3, <1>4, <3>2, HeldFound DEF HandleKept, Stage
    <3>. QED  BY <1>1, <3>1, <3>2
  <2>3. SizeKept(t)'
    BY <1>1, <1>3 DEF SizeKept, Stage
  <2>4. CallKept(t)'
    <3>1. pc'[t] \in RemovePcs \cup {"idle"}
      BY <1>2, RemovingStep
    <3>2. pc'[t] \in {"find", "dec"} => pc[t] = "find" /\ hashArg' = hashArg /\ refArg' = refArg
      BY <1>2, RemovingStep
    <3>3. pc[t] = "find" => hashArg[t] = req[t].hash /\ refArg[t] = req[t].new.ref
      BY Serving, <1>1 DEF Kept, CallKept
    <3>. QED  BY <1>1, <1>3, <3>1, <3>2, <3>3 DEF CallKept, Busy, Stage, RemovePcs
  <2>5. RestKept(t)'
    BY Serving, <1>1, <1>2, <1>3 DEF Kept, RestKept, InLookup, InUnlink
  <2>. QED  BY <2>1, <2>2, <2>3, <2>4, <2>5 DEF ControlKept
<1>10. FieldsKept(t)'
  <2>1. \A q \in Path : setter.stage # "idle" /\ own[q] = setter.file /\ ~Unlinking(q) =>
              own'[q] = own[q] /\ ~Unlinking(q)'
    BY Serving, <1>1, <1>3 DEF Unlinking
  <2>2. \A q \in Path : Unspoiled(q)' => MetaAt(t, q)' = MetaAt(t, q)
    BY <1>3, <1>8 DEF MetaAt
  <2>3. \A q \in Path : Reach(t, q)' \subseteq Reach(t, q)
    BY <1>3, <1>7 DEF Reach, MetaAt
  <2>. QED  BY <1>1, <1>2, <1>3, <1>5, <1>8, <2>1, <2>2, <2>3, FrameKeeps DEF FieldsKept
<1>11. NewKept(t)'
  <2>1. CASE Stage(t)' = "idle"
    BY <1>3, <2>1 DEF NewKept
  <2>2. CASE req' = req
    <3>1. /\ req[t].new \in Meta /\ HandedOut(req[t].new)'
      BY Serving, <1>1, <1>2, <2>2 DEF Kept, NewKept, HandedOut
    <3>2. \A q \in Path : Unspoiled(q)' => req[t].new # MetaAt(t, q)'
      BY Serving, <1>1, <1>3, <1>5, <1>8 DEF Kept, NewKept, MetaAt
    <3>3. pc'[t] \in {"find", "dec"} => table' = table /\ pc[t] = "find"
      BY <1>2, RemovingStep
    <3>4. pc'[t] \in {"find", "dec"} => table'[req[t].hash] = req[t].new.entry
      BY Serving, <1>1, <3>3 DEF Kept, NewKept
    <3>. QED  BY <1>1, <1>3, <2>2, <3>1, <3>2, <3>4 DEF NewKept, Stage
  <2>. QED  BY <1>1, <2>1, <2>2
<1>. QED  BY <1>9, <1>10, <1>11 DEF Kept, ControlKept, FieldsKept

-----------------------------------------------------------------------------
(* A Release in the store.                                                  *)

\* The old metadata is the one that the file's attributes are in.
LEMMA LookupOldMetadataKept ==
    ASSUME NEW t, Serves(t), LookupOldMetadata(t), UNCHANGED <<attributes, promises>>
    PROVE  Kept(t)'
<1>. DEFINE p == req[t].path
<1>1. /\ Stage(t) = "released" /\ Stage(t)' = "storing" /\ req'[t].path = p /\ req'[t].to = req[t].to
      /\ req'[t].inode = req[t].inode /\ req'[t].file = req[t].file /\ req'[t].info = req[t].info
      /\ req'[t].hash = req[t].hash /\ req'[t].old = MetadataOf(req[t].info)
      /\ UNCHANGED <<names, tmp, data, nodeInfo, buffer, own>>
  BY Serving, Typed DEF LookupOldMetadata, At, Stage, Request, disk, clients
<1>2. /\ UNCHANGED <<attrs, xattrs, index, table, live, writer, inodeMode, taken, given, spared, cut>>
      /\ contended' = contended /\ pc'[t] = "unique" /\ hashArg'[t] = req[t].hash
  <2>1. contended = {} /\ Threads = {t} /\ t \in Threads
    BY Serving DEF Kept, RestKept
  <2>2. /\ pc \in [Threads -> {"idle"} \cup StorePcs \cup RemovePcs]
        /\ hashArg \in [Threads -> AllHash]
    BY Serving, Typed DEF FilesIInv, IInv, TypeOK
  <2>3. BeginStore(t, req[t].hash)
    BY DEF LookupOldMetadata
  <2>4. contended' = contended
    BY <2>1, <2>3 DEF BeginStore, Step, WorkingOn, Busy
  <2>. QED  BY <2>1, <2>2, <2>3, <2>4 DEF BeginStore, Step, attributes, promises, heap
<1>3. /\ HoldsFile(t) /\ HoldsFile(t)' /\ ~Writing(t) /\ ~Writing(t)' /\ InRelease(t) /\ InRelease(t)'
      /\ ~HasNew(t) /\ ~HasNew(t)' /\ ~HasOld(t) /\ HasOld(t)' /\ ~InUnlink(t) /\ ~InUnlink(t)'
  BY <1>1 DEF HoldsFile, HasNew, HasOld, InUnlink, InRelease, Writing
<1>4. \A q \in Path : Unspoiled(q)' => Unspoiled(q)
  BY <1>1, StaysUnspoiled
<1>5. /\ p \in Path /\ InfoOf(p) = req[t].info /\ (Unspoiled(p) => nodeInfo[p] # NoInfo)
      /\ names[p] = req[t].inode
  BY Serving, <1>1, <1>3 DEF Kept, HandleKept
<1>6. \A q \in Path : InfoOf(q)' = InfoOf(q) /\ MetadataOf(InfoOf(q))' = MetadataOf(InfoOf(q))
  <2>1. \A q \in Path : InfoOf(q)' = InfoOf(q) /\ InfoOf(q) \in Info
    BY <1>1, Serving, Typed, MetadataFoundIsOld DEF InfoOf
  <2>2. SameMetadata
    BY <1>2, SameStore
  <2>. QED  BY <2>1, <2>2 DEF SameMetadata
<1>7. \A q \in Path : MetaAt(t, q)' = MetaAt(t, q) /\ Reach(t, q)' = Reach(t, q)
  <2>1. \A q \in Path : MetaAt(t, q)' = MetaAt(t, q)
    BY <1>1, <1>3, <1>5, <1>6 DEF MetaAt
  <2>. QED  BY <1>6, <2>1 DEF Reach
<1>8. ControlKept(t)'
  <2>1. PathsKept(t)'
    BY Serving, <1>1, <1>3 DEF Kept, PathsKept
  <2>2. HandleKept(t)'
    BY Serving, <1>1, <1>3, <1>4, <1>5, <1>6, HeldFound DEF HandleKept
  <2>3. SizeKept(t)' /\ CallKept(t)'
    BY <1>1, <1>2 DEF SizeKept, CallKept, Busy, StorePcs
  <2>4. RestKept(t)'
    BY Serving, <1>1, <1>2 DEF Kept, RestKept, InLookup, InUnlink
  <2>. QED  BY <2>1, <2>2, <2>3, <2>4 DEF ControlKept
<1>9. FieldsKept(t)'
  <2>1. \A q \in Path : setter.stage # "idle" /\ own[q] = setter.file /\ ~Unlinking(q) =>
              own'[q] = own[q] /\ ~Unlinking(q)'
    BY Serving, <1>1 DEF Unlinking
  <2>2. ASSUME NEW q \in Path, Unspoiled(q)', MetaAt(t, q) = NoMeta
        PROVE  HoldsFile(t)' /\ req'[t].path = q /\ CreatedKept(t)'
    <3>1. p = q /\ CreatedKept(t)
      BY Serving, <1>4, <2>2 DEF Kept, FilesKept
    <3>2. CreatedKept(t)'
      BY Serving, <1>1, <1>2, <1>3, <3>1 DEF CreatedKept
    <3>. QED  BY <1>1, <1>3, <3>1, <3>2
  <2>. QED  BY <1>1, <1>2, <1>3, <1>7, <2>1, <2>2, FrameKeeps DEF FieldsKept
<1>10. NewKept(t)'
  BY <1>1, <1>3 DEF NewKept
<1>. QED  BY <1>8, <1>9, <1>10 DEF Kept, ControlKept, FieldsKept

\* The steps before the new metadata leave what there is.
LEMMA StoringKept ==
    ASSUME NEW t, Serves(t), UNCHANGED <<attributes, promises>>,
           ReleaseTest(t) \/ ReleaseCreateEntry(t) \/ ReleaseLookupEntry(t) \/ ReleaseRecent(t)
    PROVE  Kept(t)'
<1>. DEFINE p == req[t].path
<1>1. /\ t \in Threads /\ Threads = {t} /\ FilesIInv /\ contended = {}
      /\ pc \in [Threads -> {"idle"} \cup StorePcs \cup RemovePcs]
      /\ req[t] \in Request
  BY Serving, Typed DEF Kept, RestKept, FilesIInv, IInv, TypeOK
<1>2. /\ Stage(t) = "storing" /\ Stage(t)' = "storing" /\ req'[t].path = p /\ req'[t].to = req[t].to
      /\ req'[t].inode = req[t].inode /\ req'[t].file = req[t].file /\ req'[t].info = req[t].info
      /\ req'[t].hash = req[t].hash /\ req'[t].old = req[t].old
      /\ UNCHANGED <<names, tmp, data, nodeInfo, buffer, own>>
      /\ UNCHANGED <<index, hashArg, contended>> /\ pc'[t] \in StorePcs /\ SameMetadata
  <2>1. CASE ReleaseTest(t)
    <3>1. SameMetadata
      BY <2>1, SameStore DEF ReleaseTest, IsContentHashUnique, heap
    <3>. QED  BY <1>1, <2>1, <3>1, Typed DEF ReleaseTest, IsContentHashUnique, Step, At, Stage, Request,
                 disk, clients, heap, locals, StorePcs
  <2>2. CASE ReleaseCreateEntry(t)
    <3>1. req' = req /\ Stage(t) = "storing" /\ UNCHANGED <<names, tmp, data, nodeInfo, buffer, own>>
      BY <2>2 DEF ReleaseCreateEntry, At, disk, clients
    <3>2. UNCHANGED <<index, hashArg, contended>> /\ pc'[t] \in StorePcs
      BY <1>1, <2>2 DEF ReleaseCreateEntry, CheckMapEntry, CreateMapEntry, Step, heap, locals, StorePcs
    <3>3. CASE CheckMapEntry(t)
      <4>1. SameMetadata
        BY <3>3, SameStore DEF CheckMapEntry, heap
      <4>. QED  BY <3>1, <3>2, <4>1 DEF Stage
    <3>4. CASE CreateMapEntry(t)
      <4>1. SameMetadata
        BY <1>1, <3>4, EntryCreated
      <4>. QED  BY <3>1, <3>2, <4>1 DEF Stage
    <3>. QED  BY <2>2, <3>3, <3>4 DEF ReleaseCreateEntry
  <2>3. CASE ReleaseLookupEntry(t)
    <3>1. table[hashArg[t]] # NoEntry
      BY <1>1, <2>3, Progress DEF ReleaseLookupEntry, LookupMapEntry, Step
    <3>2. SameMetadata
      BY <2>3, SameStore DEF ReleaseLookupEntry, LookupMapEntry, heap
    <3>. QED  BY <1>1, <2>3, <3>1, <3>2 DEF ReleaseLookupEntry, LookupMapEntry, Step, At, Stage, disk,
                 clients, heap, StorePcs
  <2>4. CASE ReleaseRecent(t)
    <3>1. SameMetadata
      BY <2>4, SameStore DEF ReleaseRecent, RetrieveRecent, heap
    <3>2. PICK rec : req' = [req EXCEPT ![t].rec = rec]
      BY <2>4 DEF ReleaseRecent
    <3>3. Stage(t) = "storing" /\ UNCHANGED <<names, tmp, data, nodeInfo, buffer, own>>
      BY <2>4 DEF ReleaseRecent, At, disk, clients
    <3>4. UNCHANGED <<index, hashArg, contended>> /\ pc'[t] \in StorePcs
      BY <1>1, <2>4 DEF ReleaseRecent, RetrieveRecent, Step, heap, locals, StorePcs
    <3>. QED  BY <1>1, <3>1, <3>2, <3>3, <3>4, Serving, Typed DEF Stage, Request
  <2>. QED  BY <2>1, <2>2, <2>3, <2>4
<1>3. UNCHANGED <<attrs, xattrs, writer, inodeMode, taken, given, spared, cut>>
  BY DEF attributes, promises
<1>4. /\ HoldsFile(t) /\ HoldsFile(t)' /\ ~Writing(t) /\ ~Writing(t)' /\ InRelease(t) /\ InRelease(t)'
      /\ ~HasNew(t) /\ ~HasNew(t)' /\ HasOld(t) /\ HasOld(t)' /\ ~InUnlink(t) /\ ~InUnlink(t)'
  BY <1>2 DEF HoldsFile, HasNew, HasOld, InUnlink, InRelease, Writing
<1>5. \A q \in Path : Unspoiled(q)' => Unspoiled(q)
  BY <1>2, StaysUnspoiled
<1>6. \A q \in Path : InfoOf(q)' = InfoOf(q) /\ MetadataOf(InfoOf(q))' = MetadataOf(InfoOf(q))
  <2>1. \A q \in Path : InfoOf(q)' = InfoOf(q) /\ InfoOf(q) \in Info
    BY <1>1, <1>2, MetadataFoundIsOld DEF InfoOf
  <2>. QED  BY <1>2, <2>1 DEF SameMetadata
<1>7. \A q \in Path : MetaAt(t, q)' = MetaAt(t, q) /\ Reach(t, q)' = Reach(t, q)
  <2>1. \A q \in Path : MetaAt(t, q)' = MetaAt(t, q)
    BY <1>2, <1>4, <1>6 DEF MetaAt
  <2>. QED  BY <1>6, <2>1 DEF Reach
<1>8. ControlKept(t)'
  <2>1. PathsKept(t)'
    BY Serving, <1>2, <1>4 DEF Kept, PathsKept
  <2>2. HandleKept(t)'
    BY Serving, <1>2, <1>4, <1>5, <1>6, HeldFound DEF Kept, HandleKept
  <2>3. SizeKept(t)' /\ CallKept(t)'
    BY Serving, <1>2 DEF Kept, SizeKept, CallKept
  <2>4. RestKept(t)'
    BY Serving, <1>2 DEF Kept, RestKept, InLookup, InUnlink
  <2>. QED  BY <2>1, <2>2, <2>3, <2>4 DEF ControlKept
<1>9. FieldsKept(t)'
  <2>1. \A q \in Path : setter.stage # "idle" /\ own[q] = setter.file /\ ~Unlinking(q) =>
              own'[q] = own[q] /\ ~Unlinking(q)'
    BY Serving, <1>2 DEF Unlinking
  <2>2. ASSUME NEW q \in Path, Unspoiled(q)', MetaAt(t, q) = NoMeta
        PROVE  HoldsFile(t)' /\ req'[t].path = q /\ CreatedKept(t)'
    <3>1. p = q /\ CreatedKept(t)
      BY Serving, <1>5, <2>2 DEF Kept, FilesKept
    <3>2. CreatedKept(t)'
      BY Serving, <1>2, <1>3, <1>4, <3>1 DEF CreatedKept
    <3>. QED  BY <1>2, <1>4, <3>1, <3>2
  <2>. QED  BY <1>2, <1>3, <1>4, <1>7, <2>1, <2>2, FrameKeeps DEF FieldsKept
<1>10. NewKept(t)'
  BY <1>2, <1>4 DEF NewKept
<1>. QED  BY <1>8, <1>9, <1>10 DEF Kept, ControlKept, FieldsKept

-----------------------------------------------------------------------------
(* New metadata.                                                            *)

\* One cell of attrs changes.
LEMMA CellChanged ==
    ASSUME AttributesIInv, NEW t \in Threads, NEW c \in Meta, NEW v,
           attrs' = [attrs EXCEPT ![c.entry][c.ref] = v]
    PROVE  /\ attrs'[c.entry][c.ref] = v /\ MapOf(c)' = v.xattr
           /\ \A m \in Meta : m # c => attrs'[m.entry][m.ref] = attrs[m.entry][m.ref]
                                       /\ MapOf(m)' = MapOf(m)
<1>1. attrs \in [Entries -> [Refs -> Attr]] /\ c.entry \in Entries /\ c.ref \in Refs
  BY Typed DEF Meta
<1>2. attrs'[c.entry][c.ref] = v
  BY <1>1
<1>3. ASSUME NEW m \in Meta, m # c PROVE attrs'[m.entry][m.ref] = attrs[m.entry][m.ref]
  BY <1>1, <1>3 DEF Meta
<1>. QED  BY <1>2, <1>3 DEF MapOf

\* The new metadata was not handed out before, so it is nobody's.
LEMMA NewBlankKept ==
    ASSUME NEW t, Serves(t), NewBlank(t)
    PROVE  Kept(t)'
<1>. DEFINE p == req[t].path
<1>a. PICK new : new = [entry |-> entryPtr[t], ref |-> index[entryPtr[t]] + 1]
  OBVIOUS
<1>0. /\ t \in Threads /\ Threads = {t} /\ FilesIInv /\ contended = {} /\ AttributesIInv
      /\ NoMeta \notin Meta
  BY Serving, Typed DEF Kept, RestKept
<1>1. /\ Stage(t) = "storing" /\ Stage(t)' = "info" /\ req'[t].path = p /\ req'[t].to = req[t].to
      /\ req'[t].inode = req[t].inode /\ req'[t].file = req[t].file /\ req'[t].info = req[t].info
      /\ req'[t].hash = req[t].hash /\ req'[t].old = req[t].old /\ req'[t].new = new
      /\ UNCHANGED <<names, tmp, data, nodeInfo, buffer, own>>
      /\ CreateMetadata(t)
  BY <1>0, <1>a, Typed DEF NewBlank, ReleaseNewMetadata, At, Stage, Request, disk, clients
<1>2. /\ pc'[t] = "idle" /\ hashArg' = hashArg /\ contended' = contended
  <2>1. pc \in [Threads -> {"idle"} \cup StorePcs \cup RemovePcs]
    BY <1>0 DEF FilesIInv, IInv, TypeOK
  <2>. QED  BY <1>0, <1>1, <2>1 DEF CreateMetadata, Step, locals
<1>3. /\ new \in Meta /\ ~HandedOut(new) /\ HandedOut(new)'
      /\ new.entry = table[hashArg[t]] /\ new.ref \in live[new.entry]'
      /\ table' = table
      /\ \A m \in Meta : HandedOut(m) => HandedOut(m)'
      /\ \A e \in Entries : \A r \in Refs : r > index'[e] => r > index[e]
      /\ \A info \in Info :
            MetadataOf(info)' = MetadataOf(info) \/ MetadataOf(info)' = new
      /\ \A info \in Info : MetadataOf(info) # NoMeta => MetadataOf(info)' = MetadataOf(info)
  BY <1>0, <1>1, <1>a, MetadataCreated
<1>4. /\ UNCHANGED <<xattrs, writer, inodeMode, taken, given, spared, cut>>
      /\ attrs' = [attrs EXCEPT ![new.entry][new.ref] = BlankAttr]
  BY <1>1 DEF NewBlank, promises
<1>5. hashArg[t] = req[t].hash
  BY <1>1, Serving DEF Kept, CallKept
<1>6. /\ MapOf(new)' = NoMeta
      /\ \A m \in Meta : m # new => attrs'[m.entry][m.ref] = attrs[m.entry][m.ref]
                                    /\ MapOf(m)' = MapOf(m)
  <2>1. BlankAttr.xattr = NoMeta
    BY DEF BlankAttr
  <2>. QED  BY <1>0, <1>3, <1>4, <2>1, CellChanged
<1>7. /\ HoldsFile(t) /\ HoldsFile(t)' /\ ~Writing(t) /\ ~Writing(t)' /\ InRelease(t) /\ InRelease(t)'
      /\ ~HasNew(t) /\ HasNew(t)' /\ HasOld(t) /\ HasOld(t)' /\ ~InUnlink(t) /\ ~InUnlink(t)'
  BY <1>1 DEF HoldsFile, HasNew, HasOld, InUnlink, InRelease, Writing
<1>8. \A q \in Path : Unspoiled(q)' => Unspoiled(q)
  BY <1>1, StaysUnspoiled
<1>9. \A q \in Path : InfoOf(q)' = InfoOf(q) /\ InfoOf(q) \in Info
  BY <1>0, <1>1, MetadataFoundIsOld DEF InfoOf
<1>10. \A q \in Path : Unspoiled(q) => MetadataOf(InfoOf(q))' = MetadataOf(InfoOf(q))
  <2>. SUFFICES ASSUME NEW q \in Path, Unspoiled(q)
       PROVE  MetadataOf(InfoOf(q))' = MetadataOf(InfoOf(q))
    OBVIOUS
  <2>1. CASE MetadataOf(InfoOf(q)) # NoMeta
    BY <1>3, <1>9, <2>1
  <2>2. CASE MetadataOf(InfoOf(q)) = NoMeta
    <3>1. q = p
      BY <2>2, AtRestFound
    <3>2. InfoOf(p) = req[t].info /\ MetaAt(t, p) = NoMeta
      BY <1>1, <1>7, <2>2, <3>1, Serving DEF Kept, HandleKept, MetaAt
    <3>3. InfoOf(p) = NewInfo
      BY <1>7, <3>1, <3>2, HeldFound DEF CreatedKept
    <3>4. MetadataOf(NewInfo)' # new
      <4>1. new.ref # 0 /\ new # NoMeta
        BY <1>0, <1>3, StoreAssumption DEF Meta, Refs
      <4>. QED  BY <4>1 DEF MetadataOf, NewInfo
    <3>5. MetadataOf(NewInfo)' = MetadataOf(NewInfo)
      BY <1>0, <1>3, <3>4, MetadataFoundIsOld
    <3>. QED  BY <1>9, <3>1, <3>3, <3>5
  <2>. QED  BY <2>1, <2>2
<1>11. /\ \A q \in Path : Unspoiled(q) => MetaAt(t, q)' = MetaAt(t, q)
       /\ \A q \in Path : Reach(t, q)' \subseteq Reach(t, q) \cup {new}
  <2>1. \A q \in Path : Unspoiled(q) => MetaAt(t, q)' = MetaAt(t, q)
    BY <1>1, <1>7, <1>10 DEF MetaAt
  <2>2. \A q \in Path : MetadataOf(InfoOf(q))' \in {MetadataOf(InfoOf(q)), new}
    BY <1>3, <1>9
  <2>3. \A q \in Path : MetaAt(t, q)' \in {MetaAt(t, q), new}
    BY <1>1, <1>7, <2>2 DEF MetaAt
  <2>. QED  BY <2>1, <2>2, <2>3 DEF Reach
<1>12. \A q \in Path : Unspoiled(q) /\ MetaAt(t, q) # NoMeta =>
          MetaAt(t, q) \in Meta /\ HandedOut(MetaAt(t, q)) /\ MetaAt(t, q) # new
          /\ MapOf(MetaAt(t, q)) # NoMeta /\ FileKept(t, q)
  <2>. SUFFICES ASSUME NEW q \in Path, Unspoiled(q), MetaAt(t, q) # NoMeta
       PROVE  MetaAt(t, q) \in Meta /\ HandedOut(MetaAt(t, q)) /\ MetaAt(t, q) # new
              /\ MapOf(MetaAt(t, q)) # NoMeta /\ FileKept(t, q)
    OBVIOUS
  <2>1. MetaAt(t, q) \in Meta
    BY <1>0, ReachIsTyped
  <2>2. FileKept(t, q)
    BY Serving DEF Kept, FilesKept
  <2>. QED  BY <1>3, <2>1, <2>2 DEF FileKept, MapOf
<1>13. ControlKept(t)'
  <2>1. PathsKept(t)'
    BY Serving, <1>1, <1>7 DEF Kept, PathsKept
  <2>2. HandleKept(t)'
    BY Serving, <1>1, <1>7, <1>8, <1>9, <1>10 DEF Kept, HandleKept
  <2>3. SizeKept(t)' /\ CallKept(t)'
    BY <1>1, <1>2 DEF SizeKept, CallKept, Busy
  <2>4. RestKept(t)'
    BY Serving, <1>1, <1>2 DEF Kept, RestKept, InLookup, InUnlink
  <2>. QED  BY <2>1, <2>2, <2>3, <2>4 DEF ControlKept
<1>14. MapsFresh'
  <2>1. \A e \in Entries : \A r \in Refs : r > index'[e] => xattrs'[e][r] = NoValue
    BY <1>3, <1>4, Serving DEF Kept, MapsFresh
  <2>2. ASSUME NEW m \in Meta, MapOf(m)' # NoMeta PROVE HandedOut(MapOf(m))'
    <3>1. MapOf(m)' = MapOf(m) /\ HandedOut(MapOf(m))
      BY <1>6, <2>2, Serving DEF Kept, MapsFresh
    <3>2. MapOf(m) \in Meta
      BY <1>0, <2>2, <3>1, Typed DEF MapOf, Meta, Attr
    <3>3. \A x \in Meta : x = MapOf(m) => HandedOut(x)'
      BY <1>3, <3>1
    <3>. QED  BY <3>1, <3>2, <3>3 DEF HandedOut
  <2>. QED  BY <2>1, <2>2 DEF MapsFresh
<1>15. FilesKept(t)'
  <2>. SUFFICES ASSUME NEW q \in Path, Unspoiled(q)'
       PROVE  (IF MetaAt(t, q) = NoMeta
               THEN HoldsFile(t) /\ req[t].path = q /\ CreatedKept(t) ELSE FileKept(t, q))'
    BY DEF FilesKept
  <2>1. Unspoiled(q) /\ MetaAt(t, q)' = MetaAt(t, q)
    BY <1>8, <1>11
  <2>2. CASE MetaAt(t, q) = NoMeta
    <3>1. q = p /\ CreatedKept(t)
      BY <2>1, <2>2, Serving DEF Kept, FilesKept
    <3>2. CreatedKept(t)'
      BY Serving, <1>1, <1>4, <1>7, <3>1 DEF CreatedKept
    <3>. QED  BY <1>1, <1>7, <2>1, <2>2, <3>1, <3>2
  <2>3. CASE MetaAt(t, q) # NoMeta
    <3>1. /\ MetaAt(t, q) \in Meta /\ HandedOut(MetaAt(t, q)) /\ MetaAt(t, q) # new /\ FileKept(t, q)
      BY <1>12, <2>1, <2>3
    <3>2. /\ attrs'[MetaAt(t, q).entry][MetaAt(t, q).ref] = attrs[MetaAt(t, q).entry][MetaAt(t, q).ref]
          /\ MetaAt(t, q).ref <= index'[MetaAt(t, q).entry]
      BY <1>3, <1>6, <3>1 DEF HandedOut
    <3>3. FileKept(t, q)'
      BY Serving, <1>1, <1>4, <1>7, <2>1, <3>1, <3>2 DEF FileKept, GetCustomXAttr, HandedOut
    <3>. QED  BY <2>1, <2>3, <3>3
  <2>. QED  BY <2>2, <2>3
<1>16. FilesApartHere(t)'
  <2>. SUFFICES ASSUME NEW r \in Path, NEW q \in Path, r # q, Unspoiled(q)', MetaAt(t, q)' # NoMeta,
                       NEW m \in Reach(t, r)'
       PROVE  (m # MetaAt(t, q) /\ MapOf(m) # MapOf(MetaAt(t, q)))'
    BY DEF FilesApartHere
  <2>. DEFINE x == MetaAt(t, q)
  <2>1. /\ Unspoiled(q) /\ MetaAt(t, q)' = x /\ x \in Meta /\ x # new
        /\ MapOf(x) # NoMeta /\ MapOf(x)' = MapOf(x)
    BY <1>6, <1>8, <1>11, <1>12
  <2>2. CASE m = new
    <3>1. MapOf(m)' = NoMeta
      BY <1>6, <2>2 DEF MapOf
    <3>. QED  BY <2>1, <2>2, <3>1 DEF MapOf
  <2>3. CASE m # new
    <3>1. m \in Reach(t, r) /\ m \in Meta
      BY <1>0, <1>11, <2>3, ReachIsTyped
    <3>2. m # x /\ MapOf(m) # MapOf(x)
      BY <2>1, <3>1, Serving DEF Kept, FilesApartHere
    <3>3. MapOf(m)' = MapOf(m)
      BY <1>6, <2>3, <3>1
    <3>. QED  BY <2>1, <3>2, <3>3 DEF MapOf
  <2>. QED  BY <2>2, <2>3
<1>17. NewKept(t)'
  <2>1. \A q \in Path : Unspoiled(q)' => new # MetaAt(t, q)'
    BY <1>0, <1>3, <1>8, <1>11, <1>12
  <2>2. xattrs'[new.entry][new.ref] = NoValue
    <3>1. new.ref > index[new.entry]
      BY <1>0, <1>3 DEF HandedOut, Meta, Refs, FilesIInv, IInv, TypeOK
    <3>. QED  BY <1>3, <1>4, <3>1, Serving DEF Kept, MapsFresh, Meta
  <2>3. \A m \in Meta : MapOf(m)' # new
    BY <1>0, <1>3, <1>6, Serving DEF Kept, MapsFresh
  <2>4. HandedOut(new)' => req'[t].new.ref <= index'[req'[t].new.entry]
    BY <1>1 DEF HandedOut
  <2>5. MapOf(req[t].new)' = NoMeta
    BY <1>1, <1>6 DEF MapOf
  <2>. QED  BY <1>1, <1>3, <1>4, <1>5, <2>1, <2>2, <2>3, <2>4, <2>5 DEF NewKept, HandedOut
<1>18. SetterKept(t)'
  <2>. SUFFICES ASSUME setter.stage # "idle"
       PROVE  HandedOut(setter.meta)' /\ \E r \in Path : SetterAt(t, r)'
    BY Serving DEF SetterKept
  <2>. DEFINE m == setter.meta
  <2>1. PICK r \in Path : SetterAt(t, r)
    BY Serving DEF Kept, SetterKept
  <2>2. m \in Meta /\ HandedOut(m) /\ setter' = setter
    BY Serving DEF Kept, SetterKept, AttributesIInv, SetterSound
  <2>3. m # new /\ MapOf(m)' = MapOf(m)
    BY <1>3, <1>6, <2>2
  <2>4. HandedOut(setter.meta)'
    BY <1>3, <2>2 DEF HandedOut
  <2>5. own'[r] = setter'.file /\ ~Unlinking(r)'
    BY <1>0, <1>1, <2>1, <2>2 DEF SetterAt, Unlinking
  <2>6. \A q \in Path \ {r} : Unspoiled(q)' /\ MetaAt(t, q)' # NoMeta =>
           m # MetaAt(t, q)' /\ MapOf(m)' # MapOf(MetaAt(t, q))'
    <3>. SUFFICES ASSUME NEW q \in Path \ {r}, Unspoiled(q)', MetaAt(t, q)' # NoMeta
         PROVE  m # MetaAt(t, q)' /\ MapOf(m)' # MapOf(MetaAt(t, q))'
      OBVIOUS
    <3>1. Unspoiled(q) /\ MetaAt(t, q)' = MetaAt(t, q) /\ MapOf(MetaAt(t, q))' = MapOf(MetaAt(t, q))
      <4>1. Unspoiled(q) /\ MetaAt(t, q)' = MetaAt(t, q)
        BY <1>8, <1>11
      <4>2. \A x \in Meta : x = MetaAt(t, q) /\ x # new => attrs'[x.entry][x.ref] = attrs[x.entry][x.ref]
        BY <1>6
      <4>3. MetaAt(t, q) \in Meta /\ MetaAt(t, q) # new
        BY <1>12, <4>1
      <4>. QED  BY <4>1, <4>2, <4>3 DEF MapOf
    <3>2. m # MetaAt(t, q) /\ MapOf(m) # MapOf(MetaAt(t, q))
      BY <2>1, <3>1 DEF SetterAt
    <3>. QED  BY <2>3, <3>1, <3>2
  <2>7. Unspoiled(r)' =>
           /\ MapOf(m)' # NoMeta => MetaAt(t, r)' # NoMeta /\ MapOf(m)' = MapOf(MetaAt(t, r))'
           /\ setter.stage \in {"mode", "owner", "size"} /\ own'[r] \notin collided' =>
                 m = MetaAt(t, r)'
    <3>. SUFFICES ASSUME Unspoiled(r)'
         PROVE  /\ MapOf(m)' # NoMeta => MetaAt(t, r)' # NoMeta /\ MapOf(m)' = MapOf(MetaAt(t, r))'
                /\ setter.stage \in {"mode", "owner", "size"} /\ own'[r] \notin collided' =>
                      m = MetaAt(t, r)'
      OBVIOUS
    <3>1. Unspoiled(r) /\ MetaAt(t, r)' = MetaAt(t, r)
      BY <1>8, <1>11
    <3>2. /\ MapOf(m) # NoMeta => MetaAt(t, r) # NoMeta /\ MapOf(m) = MapOf(MetaAt(t, r))
          /\ setter.stage \in {"mode", "owner", "size"} /\ own[r] \notin collided =>
                m = MetaAt(t, r)
      BY <2>1, <3>1 DEF SetterAt
    <3>3. MetaAt(t, r) # NoMeta => MapOf(MetaAt(t, r))' = MapOf(MetaAt(t, r))
      <4>1. \A x \in Meta : x = MetaAt(t, r) /\ x # new => attrs'[x.entry][x.ref] = attrs[x.entry][x.ref]
        BY <1>6
      <4>. QED  BY <1>12, <3>1, <4>1 DEF MapOf
    <3>. QED  BY <1>1, <2>3, <3>1, <3>2, <3>3, Serving
  <2>8. SetterAt(t, r)'
    BY <1>1, <2>2, <2>3, <2>5, <2>6, <2>7 DEF SetterAt
  <2>. QED  BY <2>4, <2>8
<1>. QED  BY <1>13, <1>14, <1>15, <1>16, <1>17, <1>18 DEF Kept, ControlKept

-----------------------------------------------------------------------------
(* The rest of a Release: node info, temporary link and swap.               *)

\* What a Release knows of its new metadata, and of the store.
LEMMA NewFound ==
    ASSUME NEW t, Serves(t), HasNew(t)
    PROVE  /\ t \in Threads /\ Threads = {t} /\ contended = {} /\ AttributesIInv /\ ~Busy(t)
           /\ req[t] \in Request /\ req[t].path \in Path /\ req[t].path # Gone
           /\ req[t].to = req[t].path /\ own[req[t].path] = req[t].file
           /\ own[req[t].path] # NoFile
           /\ req[t].new \in Meta /\ HandedOut(req[t].new)
           /\ table[req[t].hash] = req[t].new.entry
           /\ HoldsFile(t) /\ InRelease(t) /\ HasOld(t) /\ ~Writing(t) /\ ~InUnlink(t)
<1>1. HoldsFile(t) /\ InRelease(t) /\ HasOld(t) /\ ~Writing(t) /\ ~InUnlink(t)
  BY DEF HasNew, HoldsFile, HasOld, InUnlink, InRelease, Writing
<1>2. t \in Threads /\ Threads = {t} /\ contended = {} /\ AttributesIInv /\ ~Busy(t)
  BY Serving DEF Kept, RestKept, CallKept, HasNew
<1>3. /\ req[t].new \in Meta /\ HandedOut(req[t].new)
      /\ table[req[t].hash] = req[t].new.entry
  BY Serving DEF Kept, NewKept, HasNew
<1>4. req[t] \in Request
  BY <1>2, Typed
<1>. QED  BY <1>1, <1>2, <1>3, <1>4, HeldFound

\* The removal of the new metadata begins: its file has lost its attributes.
LEMMA DropBegins ==
    ASSUME NEW t, Serves(t), HasNew(t), DropNew(t), UNCHANGED own
    PROVE  /\ Stage(t)' = "dropping" /\ req'[t] = [req[t] EXCEPT !.stage = "dropping"]
           /\ pc'[t] = "find" /\ hashArg'[t] = req[t].hash /\ refArg'[t] = req[t].new.ref
           /\ UNCHANGED <<table, heap, contended>>
           /\ \A q \in {req[t].path} : ~Unspoiled(q)'
<1>1. /\ pc \in [Threads -> {"idle"} \cup StorePcs \cup RemovePcs]
      /\ hashArg \in [Threads -> AllHash] /\ refArg \in [Threads -> 0..MaxIndex]
      /\ req \in [Threads -> Request]
  BY NewFound, Typed DEF FilesIInv, IInv, TypeOK
<1>2. Stage(t)' = "dropping" /\ req'[t] = [req[t] EXCEPT !.stage = "dropping"]
  BY <1>1, NewFound DEF DropNew, Goto, Stage
<1>3. pc'[t] = "find" /\ hashArg'[t] = req[t].hash /\ refArg'[t] = req[t].new.ref
  BY <1>1, NewFound DEF DropNew, BeginRemove, Step
<1>4. UNCHANGED <<table, heap>>
  BY DEF DropNew, BeginRemove
<1>5. contended' = contended
  BY NewFound DEF DropNew, BeginRemove, Step, WorkingOn, Busy
<1>6. own[req[t].path] \in dropped'
  <2>1. req'[t].file = req[t].file
    BY <1>1, <1>2, NewFound DEF Request
  <2>2. req[t].file \in Dropping'
    BY <1>2, <2>1, NewFound, Serving DEF Dropping
  <2>. QED  BY <2>2, NewFound, Serving
<1>. QED  BY <1>2, <1>3, <1>4, <1>5, <1>6 DEF Unspoiled

\* The node info names the new metadata; the attributes are still in the old.
LEMMA UpdateInfoKept ==
    ASSUME NEW t, Serves(t), UpdateInfo(t), UNCHANGED <<attributes, promises>>
    PROVE  Kept(t)'
<1>. DEFINE p == req[t].path  new == req[t].new
<1>a. PICK info : info = [hash |-> req[t].hash, ref |-> req[t].new.ref]
  OBVIOUS
<1>1. Stage(t) = "info" /\ HasNew(t)
  BY DEF UpdateInfo, At, HasNew
<1>2. UNCHANGED <<names, tmp, data, buffer, own>>
  BY DEF UpdateInfo, disk, clients
<1>3. /\ UNCHANGED <<table, live, index, contended>>
      /\ \/ /\ Stage(t)' = "dropping" /\ req'[t] = [req[t] EXCEPT !.stage = "dropping"]
            /\ pc'[t] = "find" /\ hashArg'[t] = req[t].hash /\ refArg'[t] = req[t].new.ref
            /\ \A q \in {req[t].path} : ~Unspoiled(q)'
         \/ /\ Stage(t)' = IF req[t].dup THEN "link" ELSE "fill"
            /\ req'[t] = [req[t] EXCEPT !.stage = IF req[t].dup THEN "link" ELSE "fill"]
            /\ pc' = pc
  <2>1. CASE req[t].dup /\ req[t].rec = NoMeta
    <3>1. DropNew(t)
      BY <2>1 DEF UpdateInfo
    <3>2. UNCHANGED <<table, live, index, contended>>
      BY <1>1, <1>2, <3>1, DropBegins DEF heap
    <3>. QED  BY <1>1, <1>2, <3>1, <3>2, DropBegins
  <2>2. CASE ~(req[t].dup /\ req[t].rec = NoMeta)
    <3>1. Goto(t, IF req[t].dup THEN "link" ELSE "fill") /\ UNCHANGED vars
      BY <2>2 DEF UpdateInfo
    <3>2. UNCHANGED <<table, live, index, contended, pc>>
      BY <3>1 DEF vars, heap, locals
    <3>. QED  BY <1>1, <3>1, <3>2, NewFound, Typed DEF Goto, Stage
  <2>. QED  BY <2>1, <2>2
<1>4. /\ req'[t].path = p /\ req'[t].to = req[t].to /\ req'[t].inode = req[t].inode
      /\ req'[t].file = req[t].file /\ req'[t].info = req[t].info /\ req'[t].hash = req[t].hash
      /\ req'[t].old = req[t].old /\ req'[t].new = new /\ req'[t].dup = req[t].dup
  BY <1>1, <1>3, NewFound DEF Request
<1>5. UNCHANGED <<attrs, xattrs, writer, inodeMode, taken, given, spared, cut>>
  BY DEF attributes, promises
<1>6. /\ HoldsFile(t)' /\ InRelease(t)' /\ ~Writing(t)' /\ ~InUnlink(t)'
      /\ (Stage(t)' # "dropping" => HasNew(t)' /\ HasOld(t)')
      /\ (Stage(t)' = "dropping" => ~HasNew(t)' /\ ~HasOld(t)')
  BY <1>3 DEF HoldsFile, HasNew, HasOld, InUnlink, InRelease, Writing
<1>7. \A q \in Path : Unspoiled(q)' => Unspoiled(q)
  BY <1>2, StaysUnspoiled
<1>8. info \in Info /\ MetadataOf(info) = new /\ info # NoInfo
  <2>1. new.ref \in live[new.entry] /\ new = [entry |-> new.entry, ref |-> new.ref]
    BY <1>1, NewFound, Serving DEF Kept, NewKept, Meta
  <2>2. info \in Info
    BY <1>a, <1>1, NewFound, StoreAssumption DEF Info, Request, Meta, Refs
  <2>3. new.entry # NoEntry
    BY <1>1, NewFound, StoreAssumption DEF Meta
  <2>. QED  BY <1>a, <1>1, <2>1, <2>2, <2>3, NewFound, Typed DEF MetadataOf, HasMetadata
<1>9. /\ nodeInfo' = (IF nodeInfo[p] # NoInfo THEN [nodeInfo EXCEPT ![p] = info] ELSE nodeInfo)
      /\ nodeInfo \in [Path -> Info \cup {NoInfo}]
  BY <1>a, <1>1, NewFound, Typed DEF UpdateInfo
<1>10. /\ \A q \in Path \ {p} : nodeInfo'[q] = nodeInfo[q]
       /\ nodeInfo[p] # NoInfo => nodeInfo'[p] = info
  BY <1>1, <1>9, NewFound
<1>11. /\ \A q \in Path \ {p} : InfoOf(q)' = InfoOf(q) /\ MetadataOf(InfoOf(q))' = MetadataOf(InfoOf(q))
       /\ \A q \in {p} : MetadataOf(InfoOf(q))' = IF nodeInfo[q] # NoInfo THEN new ELSE MetadataOf(InfoOf(q))
  <2>1. \A i \in Info : MetadataOf(i)' = MetadataOf(i)
    BY <1>3, SameStore DEF SameMetadata
  <2>2. \A q \in Path : InfoOf(q) \in Info
    BY <1>1, NewFound, Typed, MetadataFoundIsOld
  <2>3. \A q \in Path \ {p} : InfoOf(q)' = InfoOf(q)
    BY <1>10 DEF InfoOf
  <2>4. \A q \in {p} : InfoOf(q)' = IF nodeInfo[q] # NoInfo THEN info ELSE InfoOf(q)
    BY <1>1, <1>8, <1>9, <1>10, NewFound DEF InfoOf
  <2>. QED  BY <1>1, <1>8, <2>1, <2>2, <2>3, <2>4, NewFound
<1>12. \A q \in Path : Unspoiled(q)' => MetaAt(t, q)' = MetaAt(t, q)
  BY <1>1, <1>3, <1>4, <1>6, <1>11, NewFound DEF MetaAt
<1>13. \A q \in Path : \A m \in Reach(t, q)' : m \in Reach(t, q) \/ m = new
  <2>1. \A q \in Path : MetadataOf(InfoOf(q))' \in {MetadataOf(InfoOf(q)), new}
    BY <1>11
  <2>2. \A q \in Path : MetaAt(t, q)' \in {MetaAt(t, q), MetadataOf(InfoOf(q)), new}
    BY <1>1, <1>3, <1>4, <1>6, <2>1, NewFound DEF MetaAt
  <2>. QED  BY <2>1, <2>2 DEF Reach
<1>14. ControlKept(t)'
  <2>1. PathsKept(t)'
    BY Serving, <1>1, <1>2, <1>4, <1>6, <1>10, NewFound DEF Kept, PathsKept
  <2>2. HandleKept(t)'
    <3>1. /\ names[p] = req[t].inode /\ (Unspoiled(p) => nodeInfo[p] # NoInfo)
      BY <1>1, NewFound, Serving DEF Kept, HandleKept
    <3>2. \A q \in {p} : Unspoiled(q)' => MetadataOf(InfoOf(q))' = new
      BY <1>1, <1>7, <1>11, <3>1, NewFound
    <3>. QED  BY <1>1, <1>2, <1>3, <1>4, <3>1, <3>2, NewFound DEF HandleKept
  <2>3. SizeKept(t)'
    BY <1>1, <1>2, <1>3, <1>4, NewFound, Serving DEF Kept, HandleKept, SizeKept
  <2>4. CallKept(t)'
    BY <1>1, <1>3, <1>4, NewFound DEF CallKept, Busy, RemovePcs
  <2>5. RestKept(t)'
    BY Serving, <1>1, <1>3 DEF Kept, RestKept, InLookup, InUnlink
  <2>. QED  BY <2>1, <2>2, <2>3, <2>4, <2>5 DEF ControlKept
<1>15. FieldsKept(t)'
  <2>1. \A q \in Path : setter.stage # "idle" /\ own[q] = setter.file /\ ~Unlinking(q) =>
              own'[q] = own[q] /\ ~Unlinking(q)'
    BY Serving, <1>1, <1>2, <1>3, NewFound DEF Unlinking
  <2>2. ASSUME NEW q \in Path, Unspoiled(q)', MetaAt(t, q) = NoMeta
        PROVE  HoldsFile(t)' /\ req'[t].path = q /\ CreatedKept(t)'
    <3>1. p = q /\ CreatedKept(t)
      BY Serving, <1>7, <2>2 DEF Kept, FilesKept
    <3>2. CreatedKept(t)'
      BY Serving, <1>1, <1>2, <1>4, <1>5, <1>6, <3>1, NewFound DEF CreatedKept
    <3>. QED  BY <1>4, <1>6, <3>1, <3>2
  <2>3. HasNew(t)' =>
           /\ HasNew(t) /\ req'[t].new = req[t].new /\ req'[t].path = req[t].path
           /\ \A q \in Path : q # req[t].path =>
                 MetadataOf(InfoOf(q))' = MetadataOf(InfoOf(q))
    BY <1>1, <1>4, <1>11
  <2>. QED  BY <1>1, <1>2, <1>3, <1>4, <1>5, <1>6, <1>7, <1>12, <1>13, <2>1, <2>2, <2>3, NewFound,
              FrameKeeps DEF FieldsKept
<1>16. NewKept(t)'
  <2>1. \A q \in Path : Unspoiled(q)' => new # MetaAt(t, q)'
    BY <1>1, <1>7, <1>12, Serving DEF Kept, NewKept
  <2>2. /\ MapOf(new) = NoMeta /\ xattrs[new.entry][new.ref] = NoValue
        /\ \A m \in Meta : MapOf(m) # new
    BY <1>1, Serving DEF Kept, NewKept
  <2>3. /\ MapOf(req[t].new)' = NoMeta /\ \A m \in Meta : MapOf(m)' # new
    BY <1>4, <1>5, <2>2 DEF MapOf
  <2>4. HandedOut(req[t].new)'
    BY <1>1, <1>3, <1>4, NewFound DEF HandedOut
  <2>. QED  BY <1>1, <1>3, <1>4, <1>5, <2>1, <2>2, <2>3, <2>4, NewFound DEF NewKept
<1>. QED  BY <1>14, <1>15, <1>16 DEF Kept, ControlKept, FieldsKept

\* New metadata that stays in the request's hands, while nothing else changes.
LEMMA NewStays ==
    ASSUME NEW t, Serves(t), HasNew(t), Stage(t)' \in {"link", "swap", "fill", "dropping"},
           req'[t].new = req[t].new, req'[t].hash = req[t].hash,
           UNCHANGED <<attrs, xattrs, index, table>>,
           \A q \in Path : Unspoiled(q)' => Unspoiled(q) /\ MetaAt(t, q)' = MetaAt(t, q)
    PROVE  NewKept(t)'
<1>1. /\ req[t].new \in Meta /\ HandedOut(req[t].new) /\ table[req[t].hash] = req[t].new.entry
      /\ \A q \in Path : Unspoiled(q) => req[t].new # MetaAt(t, q)
      /\ MapOf(req[t].new) = NoMeta
      /\ xattrs[req[t].new.entry][req[t].new.ref] = NoValue
      /\ \A m \in Meta : MapOf(m) # req[t].new
  BY Serving, NewFound DEF Kept, NewKept
<1>2. /\ HandedOut(req[t].new)' /\ MapOf(req[t].new)' = NoMeta
      /\ \A m \in Meta : MapOf(m)' # req[t].new
  BY <1>1 DEF HandedOut, MapOf
<1>. QED  BY <1>1, <1>2 DEF NewKept

\* The temporary link is to a file that is there, and its size is taken.
LEMMA LinkAsKept ==
    ASSUME NEW t, Serves(t), LinkAs(t)
    PROVE  Kept(t)'
<1>. DEFINE p == req[t].path
<1>1. /\ Stage(t) = "link" /\ HasNew(t) /\ Stage(t)' = "swap"
      /\ req'[t].path = p /\ req'[t].to = req[t].to /\ req'[t].inode = req[t].inode
      /\ req'[t].file = req[t].file /\ req'[t].info = req[t].info /\ req'[t].hash = req[t].hash
      /\ req'[t].old = req[t].old /\ req'[t].new = req[t].new /\ req'[t].dup = req[t].dup
      /\ UNCHANGED <<vars, names, data, nodeInfo, buffer, own>>
  BY Serving, Typed DEF LinkAs, LinkOriginal, At, HasNew, Stage, Goto, Request, clients
<1>2. UNCHANGED <<attrs, xattrs, index, table, live, writer, inodeMode, given, spared, cut>>
  BY <1>1 DEF LinkAs, promises, vars, heap
<1>3. /\ tmp'[p] # NoFile /\ taken'[t].size = Len(data[tmp'[p]]) /\ taken'[t].uid = taken[t].uid
  <2>1. /\ tmp \in [Path -> Inode \cup {NoFile}]
        /\ taken \in [Threads -> [uid : Uid, size : 0..MaxWrites]]
    BY Serving, Typed DEF AttributesIInv, AttributesTypeOK, FieldsTyped
  <2>2. names[PathOf(req[t].rec)] # NoFile
    BY DEF LinkAs, LinkOriginal, CanLink, Exists
  <2>3. tmp' = [tmp EXCEPT ![p] = names[PathOf(req[t].rec)]]
    BY <1>1, NewFound DEF LinkAs, LinkOriginal
  <2>4. taken' = [taken EXCEPT ![t].size = Len(data[names[PathOf(req[t].rec)]])]
    BY DEF LinkAs
  <2>. QED  BY <1>1, <2>1, <2>2, <2>3, <2>4, NewFound
<1>4. /\ HoldsFile(t)' /\ InRelease(t)' /\ ~Writing(t)' /\ ~InUnlink(t)' /\ HasNew(t)' /\ HasOld(t)'
  BY <1>1 DEF HoldsFile, HasNew, HasOld, InUnlink, InRelease, Writing
<1>5. \A q \in Path : Unspoiled(q)' => Unspoiled(q)
  BY <1>1, StaysUnspoiled
<1>6. \A q \in Path : /\ MetadataOf(InfoOf(q))' = MetadataOf(InfoOf(q))
                      /\ MetaAt(t, q)' = MetaAt(t, q) /\ Reach(t, q)' = Reach(t, q)
  BY <1>1, <1>2, <1>4, NewFound, StoreStays
<1>7. ControlKept(t)'
  <2>1. PathsKept(t)'
    BY Serving, <1>1, <1>4, NewFound DEF Kept, PathsKept
  <2>2. HandleKept(t)'
    BY Serving, <1>1, <1>4, <1>5, <1>6, NewFound DEF Kept, HandleKept
  <2>3. SizeKept(t)'
    BY <1>1, <1>3, Serving DEF Kept, SizeKept
  <2>4. CallKept(t)' /\ RestKept(t)'
    BY Serving, <1>1, NewFound DEF Kept, CallKept, RestKept, InLookup, InUnlink, Busy, vars
  <2>. QED  BY <2>1, <2>2, <2>3, <2>4 DEF ControlKept
<1>8. FieldsKept(t)'
  <2>1. \A q \in Path : setter.stage # "idle" /\ own[q] = setter.file /\ ~Unlinking(q) =>
              own'[q] = own[q] /\ ~Unlinking(q)'
    BY Serving, <1>1 DEF Unlinking
  <2>2. ASSUME NEW q \in Path, Unspoiled(q)', MetaAt(t, q) = NoMeta
        PROVE  HoldsFile(t)' /\ req'[t].path = q /\ CreatedKept(t)'
    <3>1. p = q /\ CreatedKept(t)
      BY Serving, <1>5, <2>2 DEF Kept, FilesKept
    <3>2. CreatedKept(t)'
      BY Serving, <1>1, <1>2, <1>3, <1>4, <3>1, NewFound DEF CreatedKept
    <3>. QED  BY <1>1, <1>4, <3>1, <3>2
  <2>. QED  BY <1>1, <1>2, <1>4, <1>6, <2>1, <2>2, NewFound, FrameKeeps DEF FieldsKept
<1>9. NewKept(t)'
  BY <1>1, <1>2, <1>5, <1>6, NewStays
<1>. QED  BY <1>7, <1>8, <1>9 DEF Kept, ControlKept, FieldsKept

\* A Release that cannot link gives up, and its file has lost its attributes.
LEMMA LinkFailsKept ==
    ASSUME NEW t, Serves(t), LinkFails(t), UNCHANGED <<attributes, promises>>
    PROVE  Kept(t)'
<1>. DEFINE p == req[t].path
<1>1. /\ Stage(t) = "link" /\ HasNew(t) /\ DropNew(t)
      /\ UNCHANGED <<names, tmp, data, nodeInfo, buffer, own>>
  BY DEF LinkFails, At, HasNew, disk, clients
<1>2. /\ Stage(t)' = "dropping" /\ req'[t] = [req[t] EXCEPT !.stage = "dropping"]
      /\ pc'[t] = "find" /\ hashArg'[t] = req[t].hash /\ refArg'[t] = req[t].new.ref
      /\ UNCHANGED <<table, live, index, contended>>
      /\ \A q \in {p} : ~Unspoiled(q)'
  BY <1>1, DropBegins DEF heap
<1>3. /\ req'[t].path = p /\ req'[t].to = req[t].to /\ req'[t].inode = req[t].inode
      /\ req'[t].file = req[t].file /\ req'[t].info = req[t].info /\ req'[t].hash = req[t].hash
      /\ req'[t].new = req[t].new
  BY <1>1, <1>2, NewFound DEF Request
<1>4. UNCHANGED <<attrs, xattrs, given, spared, cut>>
  BY DEF attributes, promises
<1>5. /\ HoldsFile(t)' /\ InRelease(t)' /\ ~Writing(t)' /\ ~InUnlink(t)' /\ ~HasNew(t)' /\ ~HasOld(t)'
  BY <1>2 DEF HoldsFile, HasNew, HasOld, InUnlink, InRelease, Writing
<1>6. \A q \in Path : Unspoiled(q)' => Unspoiled(q) /\ q # p
  BY <1>1, <1>2, StaysUnspoiled
<1>7. \A q \in Path : InfoOf(q)' = InfoOf(q) /\ MetadataOf(InfoOf(q))' = MetadataOf(InfoOf(q))
  <2>1. \A i \in Info : MetadataOf(i)' = MetadataOf(i)
    BY <1>2, SameStore DEF SameMetadata
  <2>2. \A q \in Path : InfoOf(q) \in Info
    BY <1>1, NewFound, Typed, MetadataFoundIsOld
  <2>. QED  BY <1>1, <2>1, <2>2 DEF InfoOf
<1>8. /\ \A q \in Path : Unspoiled(q)' => MetaAt(t, q)' = MetaAt(t, q)
      /\ \A q \in Path : Reach(t, q)' \subseteq Reach(t, q)
  BY <1>5, <1>6, <1>7 DEF MetaAt, Reach
<1>9. ControlKept(t)'
  <2>1. PathsKept(t)'
    BY Serving, <1>1, <1>3, <1>5, NewFound DEF Kept, PathsKept
  <2>2. HandleKept(t)'
    BY <1>1, <1>2, <1>3, NewFound DEF HandleKept
  <2>3. SizeKept(t)' /\ CallKept(t)'
    BY <1>2, <1>3 DEF SizeKept, CallKept, RemovePcs
  <2>4. RestKept(t)'
    BY Serving, <1>2 DEF Kept, RestKept, InLookup, InUnlink
  <2>. QED  BY <2>1, <2>2, <2>3, <2>4 DEF ControlKept
<1>10. FieldsKept(t)'
  <2>1. \A q \in Path : setter.stage # "idle" /\ own[q] = setter.file /\ ~Unlinking(q) =>
              own'[q] = own[q] /\ ~Unlinking(q)'
    BY Serving, <1>1, <1>2 DEF Unlinking
  <2>2. \A q \in Path : Unspoiled(q)' => MetaAt(t, q) # NoMeta
    BY <1>6, AtRestFound
  <2>. QED  BY <1>1, <1>2, <1>3, <1>4, <1>5, <1>6, <1>8, <2>1, <2>2, NewFound, FrameKeeps
            DEF FieldsKept
<1>11. NewKept(t)'
  BY <1>1, <1>2, <1>3, <1>4, <1>6, <1>8, NewStays
<1>. QED  BY <1>9, <1>10, <1>11 DEF Kept, ControlKept, FieldsKept

\* The file becomes a link to the inode whose size was taken.
LEMMA SwapInDuplicateKept ==
    ASSUME NEW t, Serves(t), SwapInDuplicate(t), UNCHANGED <<attributes, promises>>
    PROVE  Kept(t)'
<1>. DEFINE p == req[t].path
<1>1. /\ Stage(t) = "swap" /\ HasNew(t) /\ Stage(t)' = "fill"
      /\ req'[t].path = p /\ req'[t].to = req[t].to /\ req'[t].inode = req[t].inode
      /\ req'[t].file = req[t].file /\ req'[t].info = req[t].info /\ req'[t].hash = req[t].hash
      /\ req'[t].old = req[t].old /\ req'[t].new = req[t].new /\ req'[t].dup = req[t].dup
      /\ UNCHANGED <<vars, data, nodeInfo, buffer, own>>
  <2>1. data' = data
    BY DEF SwapInDuplicate, disk
  <2>. QED  BY <2>1, Serving, Typed
            DEF SwapInDuplicate, At, HasNew, Stage, Goto, Request, clients
<1>2. UNCHANGED <<attrs, xattrs, index, table, live, writer, inodeMode, taken, given, spared, cut>>
  BY <1>1 DEF attributes, promises, vars, heap
<1>3. tmp[p] # NoFile /\ taken[t].size = Len(data[tmp[p]]) /\ req[t].dup
  BY <1>1, Serving DEF Kept, SizeKept
<1>4. names'[p] = tmp[p] /\ \A q \in Path \ {p} : names'[q] = names[q]
  <2>1. names \in [Path -> Inode \cup {NoFile}] /\ p \in Path /\ req[t].to = p
    BY <1>1, NewFound, Typed
  <2>. QED  BY <2>1 DEF SwapInDuplicate, disk
<1>5. /\ HoldsFile(t)' /\ InRelease(t)' /\ ~Writing(t)' /\ ~InUnlink(t)' /\ HasNew(t)' /\ HasOld(t)'
  BY <1>1 DEF HoldsFile, HasNew, HasOld, InUnlink, InRelease, Writing
<1>6. \A q \in Path : Unspoiled(q)' => Unspoiled(q)
  BY <1>1, StaysUnspoiled
<1>7. \A q \in Path : /\ MetadataOf(InfoOf(q))' = MetadataOf(InfoOf(q))
                      /\ MetaAt(t, q)' = MetaAt(t, q) /\ Reach(t, q)' = Reach(t, q)
  BY <1>1, <1>2, <1>5, NewFound, StoreStays
<1>8. ControlKept(t)'
  <2>1. PathsKept(t)'
    BY Serving, <1>1, <1>3, <1>4, <1>5, NewFound DEF Kept, PathsKept
  <2>2. HandleKept(t)'
    BY Serving, <1>1, <1>5, <1>6, <1>7, NewFound DEF Kept, HandleKept
  <2>3. SizeKept(t)'
    BY <1>1, <1>2, <1>3, <1>4 DEF SizeKept
  <2>4. CallKept(t)' /\ RestKept(t)'
    BY Serving, <1>1, NewFound DEF Kept, CallKept, RestKept, InLookup, InUnlink, Busy, vars
  <2>. QED  BY <2>1, <2>2, <2>3, <2>4 DEF ControlKept
<1>9. FieldsKept(t)'
  <2>1. \A q \in Path : setter.stage # "idle" /\ own[q] = setter.file /\ ~Unlinking(q) =>
              own'[q] = own[q] /\ ~Unlinking(q)'
    BY Serving, <1>1 DEF Unlinking
  <2>2. ASSUME NEW q \in Path, Unspoiled(q)', MetaAt(t, q) = NoMeta
        PROVE  HoldsFile(t)' /\ req'[t].path = q /\ CreatedKept(t)'
    <3>1. p = q /\ CreatedKept(t)
      BY Serving, <1>6, <2>2 DEF Kept, FilesKept
    <3>2. CreatedKept(t)'
      BY Serving, <1>1, <1>2, <1>5, <3>1, NewFound DEF CreatedKept
    <3>. QED  BY <1>1, <1>5, <3>1, <3>2
  <2>3. ASSUME NEW q \in Path, ~(HoldsFile(t)' /\ req'[t].path = q)
        PROVE  ~(HoldsFile(t) /\ req[t].path = q) /\ Len(data'[names'[q]]) = Len(data[names[q]])
    BY <1>1, <1>4, <1>5, <2>3
  <2>. QED  BY <1>1, <1>2, <1>5, <1>7, <2>1, <2>2, <2>3, NewFound, FrameKeeps DEF FieldsKept
<1>10. NewKept(t)'
  BY <1>1, <1>2, <1>6, <1>7, NewStays
<1>. QED  BY <1>8, <1>9, <1>10 DEF Kept, ControlKept, FieldsKept

-----------------------------------------------------------------------------
(* The end of a Release: the new metadata is filled in.                      *)

\* What the new metadata gets: the old one's attributes and map, or the
\* creator's and a new map; and the size of the content in either case.
LEMMA FilledWith ==
    ASSUME NEW t, Serves(t), FillAttributes(t)
    PROVE  LET p == req[t].path  new == req[t].new  old == req[t].old  f == own[p] IN
           \E v : /\ attrs' = [attrs EXCEPT ![new.entry][new.ref] = v]
                  /\ v.size = Len(data[names[p]])
                  /\ old # NoMeta =>
                        /\ v.uid = attrs[old.entry][old.ref].uid
                        /\ v.mode = attrs[old.entry][old.ref].mode
                        /\ v.xattr = MapOf(old) /\ spared' = spared
                  /\ old = NoMeta =>
                        /\ v.uid = taken[t].uid /\ v.xattr = new
                        /\ req[t].dup => spared' = spared \cup {f}
                        /\ ~req[t].dup => v.mode = inodeMode[req[t].inode] /\ spared' = spared
<1>. DEFINE p == req[t].path  new == req[t].new  old == req[t].old
            size == IF req[t].dup THEN taken[t].size ELSE Len(data[req[t].inode])
<1>1. Stage(t) = "fill" /\ HasNew(t)
  BY DEF FillAttributes, FillMetadata, At, HasNew
<1>2. size = Len(data[names[p]])
  BY <1>1, Serving DEF Kept, SizeKept
<1>3. old \in Meta \cup {NoMeta} /\ own[p] = req[t].file
  BY <1>1, NewFound DEF Request
<1>4. CASE old # NoMeta
  <2>1. attrs' = [attrs EXCEPT ![new.entry][new.ref] = Migrated(old, size)]
    BY <1>4 DEF FillAttributes, Filled
  <2>2. attrs[old.entry][old.ref] \in Attr
    BY <1>1, <1>3, <1>4, NewFound, Typed DEF Meta
  <2>3. PICK a \in Attr : a = attrs[old.entry][old.ref]
    BY <2>2
  <2>4. /\ Migrated(old, size).size = size /\ Migrated(old, size).uid = a.uid
        /\ Migrated(old, size).mode = a.mode /\ Migrated(old, size).xattr = a.xattr
    BY <2>3 DEF Migrated, Attr
  <2>5. spared' = spared
    BY <1>4 DEF FillAttributes
  <2>. QED  BY <1>2, <1>4, <2>1, <2>3, <2>4, <2>5 DEF MapOf
<1>5. CASE old = NoMeta /\ req[t].dup
  <2>1. attrs' = [attrs EXCEPT ![new.entry][new.ref] = Fresh(t, ServerMode, size)]
    BY <1>5 DEF FillAttributes, Filled, InitialiseNewDuplicateFileMetadata
  <2>2. spared' = spared \cup {own[p]}
    BY <1>3, <1>5 DEF FillAttributes
  <2>3. PICK v : v = Fresh(t, ServerMode, size)
    OBVIOUS
  <2>4. v.size = size /\ v.uid = taken[t].uid /\ v.xattr = new
    BY <2>3 DEF Fresh, FreshMap
  <2>. QED  BY <1>2, <1>5, <2>1, <2>2, <2>3, <2>4
<1>6. CASE old = NoMeta /\ ~req[t].dup
  <2>1. attrs' = [attrs EXCEPT ![new.entry][new.ref] = Fresh(t, inodeMode[req[t].inode], size)]
    BY <1>6 DEF FillAttributes, Filled, updateAllFromStat
  <2>2. spared' = spared
    BY <1>6 DEF FillAttributes
  <2>3. PICK v : v = Fresh(t, inodeMode[req[t].inode], size)
    OBVIOUS
  <2>4. /\ v.size = size /\ v.uid = taken[t].uid /\ v.xattr = new
        /\ v.mode = inodeMode[req[t].inode]
    BY <2>3 DEF Fresh, FreshMap
  <2>. QED  BY <1>2, <1>6, <2>1, <2>2, <2>3, <2>4
<1>. QED  BY <1>4, <1>5, <1>6

\* The attributes move from the old metadata to the new, which is nobody else's.
LEMMA FillAttributesKept ==
    ASSUME NEW t, Serves(t), FillAttributes(t)
    PROVE  Kept(t)'
<1>. DEFINE p == req[t].path  f == own[p]
<1>a. PICK new, old : new = req[t].new /\ old = req[t].old
  OBVIOUS
<1>b. PICK v : /\ attrs' = [attrs EXCEPT ![new.entry][new.ref] = v]
               /\ v.size = Len(data[names[p]])
               /\ old # NoMeta =>
                     /\ v.uid = attrs[old.entry][old.ref].uid
                     /\ v.mode = attrs[old.entry][old.ref].mode
                     /\ v.xattr = MapOf(old) /\ spared' = spared
               /\ old = NoMeta =>
                     /\ v.uid = taken[t].uid /\ v.xattr = new
                     /\ req[t].dup => spared' = spared \cup {f}
                     /\ ~req[t].dup => v.mode = inodeMode[req[t].inode] /\ spared' = spared
  BY <1>a, FilledWith
<1>1. /\ Stage(t) = "fill" /\ HasNew(t)
      /\ UNCHANGED <<names, tmp, data, nodeInfo, buffer, own, xattrs, given, cut, taken, inodeMode>>
  BY DEF FillAttributes, FillMetadata, At, HasNew, disk, clients
<1>2. /\ t \in Threads /\ Threads = {t} /\ AttributesIInv /\ FilesIInv /\ NoMeta \notin Meta
      /\ p \in Path /\ p # Gone /\ f = req[t].file /\ f # NoFile
      /\ new \in Meta /\ HandedOut(new) /\ table[req[t].hash] = new.entry
      /\ HoldsFile(t) /\ InRelease(t) /\ HasOld(t) /\ ~Writing(t) /\ ~InUnlink(t)
      /\ old \in Meta \cup {NoMeta}
  BY <1>1, <1>a, NewFound, Typed DEF Request
<1>3. /\ UNCHANGED <<table, live, index, contended>>
      /\ \/ /\ Stage(t)' = "dropping" /\ req'[t] = [req[t] EXCEPT !.stage = "dropping"]
            /\ pc'[t] = "find" /\ hashArg'[t] = req[t].hash /\ refArg'[t] = new.ref
            /\ \A q \in {p} : ~Unspoiled(q)'
         \/ Stage(t)' = "idle" /\ UNCHANGED vars
  <2>1. CASE req[t].dup /\ req[t].old # NoMeta
    <3>1. DropNew(t)
      BY <2>1 DEF FillAttributes, FillMetadata
    <3>2. UNCHANGED <<table, live, index, contended>>
      BY <1>1, <3>1, DropBegins DEF heap
    <3>. QED  BY <1>1, <1>a, <3>1, <3>2, DropBegins
  <2>2. CASE ~(req[t].dup /\ req[t].old # NoMeta)
    <3>1. Return(t) /\ UNCHANGED vars
      BY <2>2 DEF FillAttributes, FillMetadata
    <3>2. UNCHANGED <<table, live, index, contended>>
      BY <3>1 DEF vars, heap
    <3>. QED  BY <1>2, <3>1, <3>2, Typed DEF Return, Stage, Blank
  <2>. QED  BY <2>1, <2>2
<1>4. Stage(t)' = "dropping" =>
         /\ req'[t].path = p /\ req'[t].to = req[t].to /\ req'[t].inode = req[t].inode
         /\ req'[t].file = req[t].file /\ req'[t].hash = req[t].hash /\ req'[t].new = new
  BY <1>1, <1>3, <1>a, NewFound DEF Request
<1>5. /\ Stage(t)' \in {"idle", "dropping"} /\ ~Writing(t)' /\ ~InUnlink(t)' /\ ~HasNew(t)' /\ ~HasOld(t)'
  BY <1>3 DEF HasNew, HasOld, InUnlink, Writing
<1>6. /\ \A q \in Path : Unspoiled(q)' => Unspoiled(q)
      /\ \A q \in {p} : Unspoiled(q)' => Stage(t)' = "idle"
  BY <1>1, <1>3, StaysUnspoiled
<1>7. \A q \in Path : /\ InfoOf(q)' = InfoOf(q) /\ InfoOf(q) \in Info
                      /\ MetadataOf(InfoOf(q))' = MetadataOf(InfoOf(q))
  <2>1. \A i \in Info : MetadataOf(i)' = MetadataOf(i)
    BY <1>3, SameStore DEF SameMetadata
  <2>2. \A q \in Path : InfoOf(q) \in Info
    BY <1>2, MetadataFoundIsOld
  <2>. QED  BY <1>1, <2>1, <2>2 DEF InfoOf
\* The cells.
<1>8. /\ attrs'[new.entry][new.ref] = v /\ MapOf(new)' = v.xattr
      /\ \A m \in Meta : m # new => attrs'[m.entry][m.ref] = attrs[m.entry][m.ref]
                                    /\ MapOf(m)' = MapOf(m)
  BY <1>2, <1>b, CellChanged
<1>9. /\ \A q \in Path : Unspoiled(q) => new # MetaAt(t, q)
      /\ xattrs[new.entry][new.ref] = NoValue /\ \A m \in Meta : MapOf(m) # new
  BY <1>1, <1>a, Serving DEF Kept, NewKept
<1>10. MetaAt(t, p) = old /\ (Unspoiled(p) => MetadataOf(InfoOf(p)) = new)
  BY <1>1, <1>2, <1>a, Serving DEF MetaAt, Kept, HandleKept
<1>11. \A q \in Path : MetaAt(t, q)' = MetadataOf(InfoOf(q)) /\ Reach(t, q)' \subseteq Reach(t, q)
  BY <1>5, <1>7 DEF MetaAt, Reach
<1>12. \A q \in Path \ {p} : Unspoiled(q) =>
          /\ MetaAt(t, q) = MetadataOf(InfoOf(q)) /\ MetaAt(t, q) \in Meta
          /\ MetaAt(t, q) # new /\ MetaAt(t, q) # NoMeta /\ FileKept(t, q)
          /\ attrs'[MetaAt(t, q).entry][MetaAt(t, q).ref] = attrs[MetaAt(t, q).entry][MetaAt(t, q).ref]
  <2>. SUFFICES ASSUME NEW q \in Path \ {p}, Unspoiled(q)
       PROVE  /\ MetaAt(t, q) = MetadataOf(InfoOf(q)) /\ MetaAt(t, q) \in Meta
              /\ MetaAt(t, q) # new /\ MetaAt(t, q) # NoMeta /\ FileKept(t, q)
              /\ attrs'[MetaAt(t, q).entry][MetaAt(t, q).ref] = attrs[MetaAt(t, q).entry][MetaAt(t, q).ref]
    OBVIOUS
  <2>1. MetaAt(t, q) = MetadataOf(InfoOf(q)) /\ MetaAt(t, q) # NoMeta /\ FileKept(t, q)
    BY AtRestFound
  <2>2. MetaAt(t, q) \in Meta /\ MetaAt(t, q) # new
    BY <1>2, <1>9, <2>1, ReachIsTyped
  <2>. QED  BY <1>8, <2>1, <2>2
\* The new map is the old one or is new, so that it is no other file's.
<1>13. \A x \in Meta : (\E q \in Path \ {p} : Unspoiled(q) /\ MetaAt(t, q) = x) =>
          v.xattr # MapOf(x)
  <2>. SUFFICES ASSUME NEW q \in Path \ {p}, Unspoiled(q) PROVE v.xattr # MapOf(MetaAt(t, q))
    OBVIOUS
  <2>1. CASE old # NoMeta
    <3>1. old \in Reach(t, p)
      BY <1>10, <2>1 DEF Reach
    <3>. QED  BY <1>2, <1>12, <1>b, <2>1, <3>1, Serving DEF Kept, FilesApartHere
  <2>2. CASE old = NoMeta
    BY <1>9, <1>12, <1>b, <2>2
  <2>. QED  BY <2>1, <2>2
\* No other node info names the new metadata, unless history knows.
<1>14. \A q \in {p} : Unspoiled(q)' =>
          \A r \in Path \ {p} : own[r] # NoFile \/ MetadataOf(InfoOf(r)) # NoMeta =>
             MetadataOf(InfoOf(r)) # new
  <2>. SUFFICES ASSUME own'[p] \notin dropped', NEW r \in Path \ {p}, MetadataOf(InfoOf(r)) = new
       PROVE  FALSE
    BY <1>1 DEF Unspoiled
  <2>1. own[p] # NoFile /\ own[p] \notin dropped /\ Unspoiled(p)
    BY <1>1, <1>2, Serving DEF Unspoiled
  <2>2. CASE Unspoiled(r)
    BY <1>12, <2>2
  <2>3. CASE own[r] = NoFile
    <3>1. nodeInfo[r] = NoInfo
      BY <1>2, <2>3, Serving DEF Kept, PathsKept
    <3>. QED  BY <1>2, <3>1, MetadataFoundIsOld DEF InfoOf
  <2>4. CASE own[r] \in dropped
    <3>1. MetadataOf(InfoOf(p)) = MetadataOf(InfoOf(r)) /\ MetadataOf(InfoOf(p)) # NoMeta
      BY <1>2, <1>10, <2>1
    <3>2. own[p] \in Misled
      BY <1>2, <2>1, <2>4, <3>1 DEF Misled
    <3>3. own[p] \in dropped'
      BY <3>2 DEF Serves
    <3>. QED  BY <1>1, <3>3
  <2>. QED  BY <2>2, <2>3, <2>4 DEF Unspoiled
<1>15. ControlKept(t)'
  <2>1. PathsKept(t)'
    BY Serving, <1>1, <1>2, <1>5 DEF Kept, PathsKept
  <2>2. HandleKept(t)'
    BY <1>1, <1>2, <1>3, <1>4, <1>5, NewFound DEF HandleKept, HoldsFile, InRelease
  <2>3. SizeKept(t)'
    BY <1>5 DEF SizeKept
  <2>4. CallKept(t)'
    <3>1. ~Busy(t)
      BY <1>1, NewFound
    <3>. QED  BY <1>3, <1>4, <3>1 DEF CallKept, RemovePcs, Busy, vars
  <2>5. RestKept(t)'
    BY Serving, <1>3 DEF Kept, RestKept, InLookup, InUnlink
  <2>. QED  BY <2>1, <2>2, <2>3, <2>4, <2>5 DEF ControlKept
<1>16. MapsFresh'
  <2>1. \A e \in Entries : \A r \in Refs : r > index'[e] => xattrs'[e][r] = NoValue
    BY <1>1, <1>3, Serving DEF Kept, MapsFresh
  <2>2. ASSUME NEW m \in Meta, MapOf(m)' # NoMeta PROVE HandedOut(MapOf(m))'
    <3>1. CASE m # new
      BY <1>3, <1>8, <2>2, <3>1, Serving DEF Kept, MapsFresh, HandedOut
    <3>2. CASE m = new
      <4>1. MapOf(m)' = v.xattr
        BY <1>8, <3>2 DEF MapOf
      <4>2. v.xattr.ref <= index[v.xattr.entry]
        BY <1>2, <1>b, <2>2, <4>1, Serving DEF Kept, MapsFresh, HandedOut
      <4>. QED  BY <1>3, <4>1, <4>2 DEF HandedOut
    <3>. QED  BY <3>1, <3>2
  <2>. QED  BY <2>1, <2>2 DEF MapsFresh
<1>17. FilesKept(t)'
  <2>. SUFFICES ASSUME NEW q \in Path, Unspoiled(q)' PROVE MetaAt(t, q)' # NoMeta /\ FileKept(t, q)'
    BY DEF FilesKept
  <2>0. Unspoiled(q)
    BY <1>6
  <2>1. CASE q # p
    <3>1. spared \subseteq spared'
      BY <1>b
    <3>. DEFINE x == MetaAt(t, q)
    <3>2. /\ MetaAt(t, q)' = x /\ x # NoMeta /\ FileKept(t, q)
          /\ attrs'[x.entry][x.ref] = attrs[x.entry][x.ref]
      BY <1>11, <1>12, <2>0, <2>1
    <3>. HIDE DEF x
    <3>3. FileKept(t, q) <=>
             /\ x.ref <= index[x.entry]
             /\ attrs[x.entry][x.ref].xattr # NoMeta
             /\ GetCustomXAttr(attrs[x.entry][x.ref]) = given[own[q]].value
             /\ own[q] \notin collided => attrs[x.entry][x.ref].uid = given[own[q]].uid
             /\ own[q] \notin collided \cup spared => attrs[x.entry][x.ref].mode = given[own[q]].mode
             /\ own[q] \notin collided \cup cut /\ ~(HoldsFile(t) /\ req[t].path = q) =>
                   attrs[x.entry][x.ref].size = Len(data[names[q]])
      BY DEF FileKept, HandedOut, x
    <3>. DEFINE a == attrs[x.entry][x.ref]
    <3>. HIDE DEF a
    <3>4. /\ x.ref <= index[x.entry]
          /\ a.xattr # NoMeta /\ GetCustomXAttr(a) = given[own[q]].value
          /\ own[q] \notin collided => a.uid = given[own[q]].uid
          /\ own[q] \notin collided \cup spared => a.mode = given[own[q]].mode
          /\ own[q] \notin collided \cup cut => a.size = Len(data[names[q]])
      BY <2>1, <3>2, <3>3 DEF a
    <3>5. /\ x.ref <= index'[x.entry]
          /\ own'[q] \notin collided' => a.uid = given'[own'[q]].uid
          /\ own'[q] \notin collided' \cup spared' => a.mode = given'[own'[q]].mode
          /\ own'[q] \notin collided' \cup cut' => a.size = Len(data'[names'[q]])
      <4>1. /\ index' = index /\ own' = own /\ given' = given /\ cut' = cut
            /\ data' = data /\ names' = names /\ collided \subseteq collided'
        BY <1>1, <1>3, Serving
      <4>. QED  BY <3>1, <3>4, <4>1
    <3>6. a.xattr # NoMeta /\ xattrs'[a.xattr.entry][a.xattr.ref] = given'[own'[q]].value
      BY <1>1, <3>4 DEF GetCustomXAttr
    <3>7. a = attrs'[x.entry][x.ref] /\ MetaAt(t, q)' = x /\ x # NoMeta
      BY <3>2 DEF a
    <3>. QED  BY <3>5, <3>6, <3>7 DEF FileKept, HandedOut, GetCustomXAttr
  <2>2. CASE q = p
    <3>1. MetaAt(t, q)' = new /\ Unspoiled(p) /\ Stage(t)' = "idle"
      BY <1>6, <1>10, <1>11, <2>0, <2>2
    <3>2. /\ v.xattr # NoMeta
          /\ xattrs[v.xattr.entry][v.xattr.ref] = given[f].value
          /\ f \notin collided => v.uid = given[f].uid
          /\ f \notin collided \cup spared' => v.mode = given[f].mode
      <4>1. CASE old # NoMeta
        <5>1. FileKept(t, p)
          BY <1>2, <1>10, <3>1, <4>1, Serving DEF Kept, FilesKept
        <5>. QED  BY <1>10, <1>b, <4>1, <5>1 DEF FileKept, MapOf, GetCustomXAttr
      <4>2. CASE old = NoMeta
        <5>1. CreatedKept(t)
          BY <1>2, <1>10, <3>1, <4>2, HeldFound
        <5>. QED  BY <1>2, <1>9, <1>b, <4>2, <5>1 DEF CreatedKept
      <4>. QED  BY <4>1, <4>2
    <3>. QED  BY <1>1, <1>2, <1>3, <1>8, <1>b, <2>2, <3>1, <3>2, Serving
              DEF FileKept, HandedOut, GetCustomXAttr
  <2>. QED  BY <2>1, <2>2
<1>18. FilesApartHere(t)'
  <2>. SUFFICES ASSUME NEW r \in Path, NEW q \in Path, r # q, Unspoiled(q)', MetaAt(t, q)' # NoMeta,
                       NEW m \in Reach(t, r)'
       PROVE  (m # MetaAt(t, q) /\ MapOf(m) # MapOf(MetaAt(t, q)))'
    BY DEF FilesApartHere
  <2>1. /\ m \in Reach(t, r) /\ m \in Meta /\ m = MetadataOf(InfoOf(r)) /\ Unspoiled(q)
    <3>1. m \in Reach(t, r) /\ Unspoiled(q)
      BY <1>6, <1>11
    <3>2. m = MetadataOf(InfoOf(r))
      BY <1>7, <1>11 DEF Reach
    <3>. QED  BY <1>2, <3>1, <3>2, ReachIsTyped
  <2>2. CASE q # p
    <3>1. PICK x \in Meta : x = MetaAt(t, q) /\ MetaAt(t, q)' = x /\ x # new /\ MapOf(x)' = MapOf(x)
                            /\ v.xattr # MapOf(x)
      BY <1>8, <1>11, <1>12, <1>13, <2>1, <2>2
    <3>2. m # x /\ MapOf(m) # MapOf(x)
      BY <1>12, <2>1, <2>2, <3>1, Serving DEF Kept, FilesApartHere
    <3>3. MapOf(m)' = MapOf(m) \/ MapOf(m)' = v.xattr
      BY <1>8, <2>1 DEF MapOf
    <3>. QED  BY <3>1, <3>2, <3>3 DEF MapOf
  <2>3. CASE q = p
    <3>1. MetaAt(t, q)' = new /\ Unspoiled(p)
      BY <1>10, <1>11, <2>1, <2>3
    <3>2. m # new /\ m # NoMeta
      BY <1>2, <1>14, <2>1, <2>3
    <3>3. MapOf(m)' = MapOf(m)
      BY <1>8, <2>1, <3>2
    <3>4. MapOf(m) # v.xattr
      <4>1. CASE old # NoMeta
        BY <1>2, <1>10, <1>b, <2>1, <2>3, <3>1, <4>1, Serving DEF Kept, FilesApartHere
      <4>2. CASE old = NoMeta
        BY <1>9, <1>b, <2>1, <4>2
      <4>. QED  BY <4>1, <4>2
    <3>5. MapOf(new)' = v.xattr
      BY <1>8
    <3>. QED  BY <3>1, <3>2, <3>3, <3>4, <3>5 DEF MapOf
  <2>. QED  BY <2>2, <2>3
<1>19. NewKept(t)'
  <2>1. \A q \in Path : Unspoiled(q)' /\ Stage(t)' = "dropping" => new # MetaAt(t, q)'
    BY <1>6, <1>11, <1>12
  <2>. QED  BY <1>2, <1>3, <1>4, <1>5, <2>1 DEF NewKept, HandedOut
<1>20. SetterKept(t)'
  <2>. SUFFICES ASSUME setter.stage # "idle"
       PROVE  HandedOut(setter.meta)' /\ \E r \in Path : SetterAt(t, r)'
    BY Serving DEF SetterKept
  <2>0. PICK m : m = setter.meta
    OBVIOUS
  <2>1. PICK r \in Path : SetterAt(t, r)
    BY Serving DEF Kept, SetterKept
  <2>2. m \in Meta /\ HandedOut(m) /\ setter' = setter /\ setter.file # NoFile
    BY <1>2, <2>0, Serving, Typed DEF Kept, SetterKept, AttributesIInv, SetterSound
  <2>3. HandedOut(setter.meta)'
    BY <1>3, <2>0, <2>2 DEF HandedOut
  <2>4. own[r] = setter.file /\ own'[r] = setter'.file /\ ~Unlinking(r)'
    BY <1>1, <1>2, <1>5, <2>1, <2>2 DEF SetterAt, Unlinking
  <2>5. MapOf(m)' = (IF m = new THEN v.xattr ELSE MapOf(m))
    BY <1>8, <2>2 DEF MapOf
  <2>6. m = new /\ p # r => ~Unspoiled(r) /\ MetadataOf(InfoOf(r)) = new /\ own[r] \in dropped
    BY <1>1, <1>a, <2>0, <2>1, <2>2, <2>4 DEF SetterAt, Unspoiled
  <2>7. \A q \in Path \ {r} : Unspoiled(q)' /\ MetaAt(t, q)' # NoMeta =>
           m # MetaAt(t, q)' /\ MapOf(m)' # MapOf(MetaAt(t, q))'
    <3>. SUFFICES ASSUME NEW q \in Path \ {r}, Unspoiled(q)', MetaAt(t, q)' # NoMeta
         PROVE  m # MetaAt(t, q)' /\ MapOf(m)' # MapOf(MetaAt(t, q))'
      OBVIOUS
    <3>1. Unspoiled(q)
      BY <1>6
    <3>2. CASE q # p
      <4>1. PICK x \in Meta : x = MetaAt(t, q) /\ MetaAt(t, q)' = x /\ x # new /\ MapOf(x)' = MapOf(x)
                              /\ v.xattr # MapOf(x)
        BY <1>8, <1>11, <1>12, <1>13, <3>1, <3>2
      <4>2. m # x /\ MapOf(m) # MapOf(x)
        BY <1>12, <2>0, <2>1, <3>1, <3>2, <4>1 DEF SetterAt
      <4>3. MapOf(MetaAt(t, q))' = MapOf(x)'
        BY <4>1 DEF MapOf
      <4>. QED  BY <2>5, <4>1, <4>2, <4>3
    <3>3. CASE q = p
      <4>1. MetaAt(t, q)' = new /\ Unspoiled(p)
        BY <1>10, <1>11, <3>1, <3>3
      <4>2. m # new
        BY <1>14, <2>4, <2>6, <2>2, <3>3
      <4>3. MapOf(m) # v.xattr
        <5>1. CASE old # NoMeta
          BY <1>10, <1>b, <2>0, <2>1, <3>1, <3>3, <5>1 DEF SetterAt
        <5>2. CASE old = NoMeta
          BY <1>9, <1>b, <2>2, <5>2
        <5>. QED  BY <5>1, <5>2
      <4>4. MapOf(MetaAt(t, q))' = v.xattr
        BY <1>8, <4>1 DEF MapOf
      <4>. QED  BY <2>5, <4>1, <4>2, <4>3, <4>4
    <3>. QED  BY <3>2, <3>3
  <2>8. Unspoiled(r)' =>
           /\ MapOf(m)' # NoMeta => MetaAt(t, r)' # NoMeta /\ MapOf(m)' = MapOf(MetaAt(t, r))'
           /\ setter.stage \in {"mode", "owner", "size"} /\ own[r] \notin collided' =>
                 m = MetaAt(t, r)'
    <3>. SUFFICES ASSUME Unspoiled(r)'
         PROVE  /\ MapOf(m)' # NoMeta => MetaAt(t, r)' # NoMeta /\ MapOf(m)' = MapOf(MetaAt(t, r))'
                /\ setter.stage \in {"mode", "owner", "size"} /\ own[r] \notin collided' =>
                      m = MetaAt(t, r)'
      OBVIOUS
    <3>1. /\ Unspoiled(r)
          /\ MapOf(m) # NoMeta => MetaAt(t, r) # NoMeta /\ MapOf(m) = MapOf(MetaAt(t, r))
          /\ setter.stage \in {"mode", "owner", "size"} /\ own[r] \notin collided =>
                m = MetaAt(t, r)
      BY <1>6, <2>0, <2>1 DEF SetterAt
    <3>2. CASE r # p
      <4>1. PICK x \in Meta : x = MetaAt(t, r) /\ MetaAt(t, r)' = x /\ x # new /\ MapOf(x)' = MapOf(x)
        BY <1>8, <1>11, <1>12, <3>1, <3>2
      <4>2. m # new
        BY <2>6, <3>1, <3>2
      <4>3. MapOf(MetaAt(t, r))' = MapOf(x)' /\ x # NoMeta
        BY <1>2, <4>1 DEF MapOf
      <4>. QED  BY <2>5, <3>1, <4>1, <4>2, <4>3, Serving
    <3>3. CASE r = p
      <4>1. MetaAt(t, r)' = new /\ MetaAt(t, r) = old
        BY <1>10, <1>11, <3>1, <3>3
      <4>2. MapOf(MetaAt(t, r))' = v.xattr
        BY <1>8, <4>1 DEF MapOf
      <4>3. setter.stage \in {"mode", "owner", "size"} => own[r] \in collided'
        <5>1. ASSUME setter.stage \in {"mode", "owner", "size"} PROVE own[r] \in Collisions
          <6>1. Closing(t) /\ req[t].file = own[r] /\ setter.file = own[r]
            BY <1>1, <1>2, <2>4, <3>3 DEF Closing
          <6>2. setter.file \in Inode
            BY Serving DEF AttributesIInv, SetterSound
          <6>. QED  BY <1>2, <5>1, <6>1, <6>2 DEF Collisions
        <5>. QED  BY <5>1, Serving DEF Kept, RestKept
      <4>. QED  BY <1>2, <1>b, <2>5, <3>1, <4>1, <4>2, <4>3
    <3>. QED  BY <3>2, <3>3
  <2>9. SetterAt(t, r)'
    BY <1>1, <1>5, <2>0, <2>2, <2>4, <2>7, <2>8 DEF SetterAt
  <2>. QED  BY <2>3, <2>9
<1>. QED  BY <1>15, <1>16, <1>17, <1>18, <1>19, <1>20 DEF Kept, ControlKept

-----------------------------------------------------------------------------
(* The setter.                                                              *)

\* A step of the setter, and what the history makes of it.
SetterServes(t) ==
    /\ OneAtATime(t) /\ AttributesIInv /\ AttributesIInv' /\ Kept(t)
    /\ UNCHANGED filesVars /\ UNCHANGED <<writer, inodeMode, taken>>
    /\ collided \cup Collisions' \subseteq collided'
    /\ dropped \cup Dropping' \subseteq dropped'

\* The request and the store stay where they are.
LEMMA RequestStays ==
    ASSUME NEW t, SetterServes(t)
    PROVE  /\ t \in Threads /\ Threads = {t} /\ AttributesIInv /\ FilesIInv /\ Kept(t)
           /\ UNCHANGED <<names, tmp, data, nodeInfo, buffer, req, own>>
           /\ UNCHANGED <<table, live, index, pc, hashArg, refArg, contended>>
           /\ UNCHANGED <<writer, inodeMode, taken>>
           /\ collided \subseteq collided' /\ Collisions' \subseteq collided' /\ Dropping' \subseteq dropped'
           /\ dropped \subseteq dropped'
           /\ (HoldsFile(t)' <=> HoldsFile(t)) /\ (HasNew(t)' <=> HasNew(t))
           /\ (Writing(t)' <=> Writing(t))
           /\ \A m : HandedOut(m)' <=> HandedOut(m)
           /\ \A q \in Path : /\ Unspoiled(q)' => Unspoiled(q)
                              /\ InfoOf(q)' = InfoOf(q)
                              /\ MetadataOf(InfoOf(q))' = MetadataOf(InfoOf(q))
                              /\ MetaAt(t, q)' = MetaAt(t, q)
                              /\ Reach(t, q)' = Reach(t, q)
                              /\ (Unlinking(q)' <=> Unlinking(q))
<1>1. /\ t \in Threads /\ Threads = {t} /\ AttributesIInv /\ FilesIInv /\ Kept(t)
      /\ UNCHANGED <<names, tmp, data, nodeInfo, buffer, req, own>>
      /\ UNCHANGED <<table, live, index, pc, hashArg, refArg, contended>>
      /\ UNCHANGED <<writer, inodeMode, taken>>
      /\ collided \subseteq collided' /\ Collisions' \subseteq collided' /\ Dropping' \subseteq dropped'
      /\ dropped \subseteq dropped'
  BY DEF SetterServes, OneAtATime, AttributesIInv, filesVars, disk, clients, vars, heap, locals
<1>2. /\ (HoldsFile(t)' <=> HoldsFile(t)) /\ (HasNew(t)' <=> HasNew(t))
      /\ (Writing(t)' <=> Writing(t)) /\ (HasOld(t)' <=> HasOld(t))
  BY <1>1 DEF HoldsFile, HasNew, HasOld, InRelease, Writing, Stage
<1>3. \A m : HandedOut(m)' <=> HandedOut(m)
  BY <1>1 DEF HandedOut
<1>4. ASSUME NEW q \in Path
      PROVE  /\ Unspoiled(q)' => Unspoiled(q)
             /\ InfoOf(q)' = InfoOf(q) /\ (Unlinking(q)' <=> Unlinking(q))
             /\ MetadataOf(InfoOf(q))' = MetadataOf(InfoOf(q))
  <2>1. InfoOf(q)' = InfoOf(q) /\ InfoOf(q) \in Info
    BY <1>1, MetadataFoundIsOld DEF InfoOf
  <2>2. \A i \in Info : MetadataOf(i)' = MetadataOf(i)
    BY <1>1, SameStore DEF SameMetadata
  <2>3. Unlinking(q)' <=> Unlinking(q)
    BY <1>1 DEF Unlinking, Stage
  <2>. QED  BY <1>1, <2>1, <2>2, <2>3 DEF Unspoiled
<1>5. \A q \in Path : MetaAt(t, q)' = MetaAt(t, q)
  BY <1>1, <1>2, <1>4 DEF MetaAt
<1>. QED  BY <1>1, <1>2, <1>3, <1>4, <1>5 DEF Reach

\* So does what the request holds.
LEMMA ControlStays ==
    ASSUME NEW t, SetterServes(t)
    PROVE  ControlKept(t)'
<1>1. PathsKept(t)'
  BY RequestStays DEF Kept, PathsKept, Writing, InUnlink, Stage
<1>2. HandleKept(t)'
  <2>1. HandleKept(t)
    BY RequestStays DEF Kept
  <2>2. Stage(t)' = Stage(t) /\ (InRelease(t)' <=> InRelease(t))
    BY RequestStays DEF Stage, InRelease
  <2>. QED  BY <2>1, <2>2, RequestStays DEF HandleKept
<1>3. SizeKept(t)'
  BY RequestStays DEF Kept, SizeKept, Stage
<1>4. CallKept(t)'
  BY RequestStays DEF Kept, CallKept, Busy, Stage, InfoOf
<1>5. RestKept(t)'
  BY RequestStays DEF Kept, RestKept, InLookup, InUnlink, Stage, InfoOf
<1>. QED  BY <1>1, <1>2, <1>3, <1>4, <1>5 DEF ControlKept

\* Files stay apart, where no metadata gets another map.
LEMMA ApartStays ==
    ASSUME NEW t, SetterServes(t), \A m \in Meta : MapOf(m)' = MapOf(m)
    PROVE  FilesApartHere(t)'
<1>. SUFFICES ASSUME NEW p \in Path, NEW q \in Path, p # q, Unspoiled(q)', MetaAt(t, q)' # NoMeta,
                     NEW m \in Reach(t, p)'
     PROVE  (m # MetaAt(t, q) /\ MapOf(m) # MapOf(MetaAt(t, q)))'
  BY DEF FilesApartHere
<1>1. /\ Unspoiled(q) /\ MetaAt(t, q)' = MetaAt(t, q) /\ m \in Reach(t, p)
      /\ m \in Meta /\ MetaAt(t, q) \in Meta
  BY RequestStays, ReachIsTyped
<1>2. m # MetaAt(t, q) /\ MapOf(m) # MapOf(MetaAt(t, q))
  BY <1>1, RequestStays DEF Kept, FilesApartHere
<1>3. \A x \in Meta : x = MetaAt(t, q) => MapOf(x)' = MapOf(x)
  OBVIOUS
<1>. QED  BY <1>1, <1>2, <1>3 DEF MapOf

\* New metadata stays new, where no metadata gets another map and its own stays.
LEMMA NewStaysNew ==
    ASSUME NEW t, SetterServes(t), \A m \in Meta : MapOf(m)' = MapOf(m),
           \A m \in Meta : (\A x \in Meta : MapOf(x) # m) => xattrs'[m.entry][m.ref] = xattrs[m.entry][m.ref]
    PROVE  NewKept(t)'
<1>1. NewKept(t)
  BY RequestStays DEF Kept
<1>2. HasNew(t) => MapOf(req[t].new)' = MapOf(req[t].new)
  BY <1>1, RequestStays DEF NewKept, MapOf
<1>3. HandedOut(req[t].new)' <=> HandedOut(req[t].new)
  BY RequestStays DEF HandedOut
<1>. QED  BY <1>1, <1>2, <1>3, RequestStays DEF NewKept, Stage

\* A setter that goes on goes on with the file it has.
LEMMA SetterStays ==
    ASSUME NEW t, SetterServes(t), \A m \in Meta : MapOf(m)' = MapOf(m),
           \/ setter'.stage = "idle"
           \/ /\ setter.stage # "idle"
              /\ setter'.stage \in {"mode", "owner", "size"} => setter.stage \in {"mode", "owner", "size"}
              /\ setter'.file = setter.file /\ setter'.meta = setter.meta
    PROVE  SetterKept(t)'
<1>. SUFFICES ASSUME setter'.stage # "idle"
     PROVE  HandedOut(setter.meta)' /\ \E r \in Path : SetterAt(t, r)'
  BY DEF SetterKept
<1>0. PICK m : m = setter.meta /\ m = setter'.meta
  OBVIOUS
<1>1. PICK r \in Path : SetterAt(t, r)
  BY RequestStays DEF Kept, SetterKept
<1>2. m \in Meta /\ HandedOut(m) /\ MapOf(m)' = MapOf(m)
  BY <1>0, RequestStays DEF Kept, SetterKept, AttributesIInv, SetterSound
<1>3. HandedOut(setter.meta)'
  BY <1>0, <1>2, RequestStays DEF HandedOut
<1>4. own'[r] = setter'.file /\ ~Unlinking(r)'
  BY <1>1, RequestStays DEF SetterAt
<1>5. \A q \in Path : MetaAt(t, q) # NoMeta => MapOf(MetaAt(t, q))' = MapOf(MetaAt(t, q))
  <2>. SUFFICES ASSUME NEW q \in Path, MetaAt(t, q) # NoMeta
       PROVE  MapOf(MetaAt(t, q))' = MapOf(MetaAt(t, q))
    OBVIOUS
  <2>1. MetaAt(t, q) \in Meta /\ MetaAt(t, q)' = MetaAt(t, q)
    BY RequestStays, ReachIsTyped
  <2>2. \A x \in Meta : x = MetaAt(t, q) => MapOf(x)' = MapOf(x)
    OBVIOUS
  <2>. QED  BY <2>1, <2>2 DEF MapOf
<1>6. \A q \in Path \ {r} : Unspoiled(q)' /\ MetaAt(t, q)' # NoMeta =>
         m # MetaAt(t, q)' /\ MapOf(m)' # MapOf(MetaAt(t, q))'
  BY <1>0, <1>1, <1>2, <1>5, RequestStays DEF SetterAt
<1>7. HasNew(t)' /\ m = req'[t].new /\ req'[t].path # r => ~Unspoiled(r)' /\ MetadataOf(InfoOf(r))' = m
  BY <1>0, <1>1, RequestStays DEF SetterAt
<1>8. Unspoiled(r)' =>
         /\ MapOf(m)' # NoMeta => MetaAt(t, r)' # NoMeta /\ MapOf(m)' = MapOf(MetaAt(t, r))'
         /\ setter'.stage \in {"mode", "owner", "size"} /\ own'[r] \notin collided' => m = MetaAt(t, r)'
  BY <1>0, <1>1, <1>2, <1>5, RequestStays DEF SetterAt
<1>9. MapOf(m)' = MapOf(setter.meta)'
  BY <1>0 DEF MapOf
<1>10. SetterAt(t, r)'
  BY <1>0, <1>4, <1>6, <1>7, <1>8, <1>9 DEF SetterAt
<1>. QED  BY <1>3, <1>10

\* Attributes that nobody changes are kept.
LEMMA FilesStay ==
    ASSUME NEW t, SetterServes(t), UNCHANGED <<attrs, xattrs, given, spared, cut>>
    PROVE  MapsFresh' /\ FilesKept(t)' /\ FilesApartHere(t)' /\ NewKept(t)'
           /\ \A m \in Meta : MapOf(m)' = MapOf(m)
<1>1. \A m \in Meta : MapOf(m)' = MapOf(m)
  BY DEF MapOf
<1>2. MapsFresh'
  BY <1>1, RequestStays DEF Kept, MapsFresh, HandedOut
<1>3. FilesKept(t)'
  <2>. SUFFICES ASSUME NEW p \in Path, Unspoiled(p)'
       PROVE  (IF MetaAt(t, p) = NoMeta
               THEN HoldsFile(t) /\ req[t].path = p /\ CreatedKept(t) ELSE FileKept(t, p))'
    BY DEF FilesKept
  <2>1. Unspoiled(p) /\ MetaAt(t, p)' = MetaAt(t, p)
    BY RequestStays
  <2>2. CASE MetaAt(t, p) = NoMeta
    <3>1. HoldsFile(t) /\ req[t].path = p /\ CreatedKept(t)
      BY <2>1, <2>2, RequestStays DEF Kept, FilesKept
    <3>. QED  BY <2>1, <2>2, <3>1, RequestStays DEF CreatedKept
  <2>3. CASE MetaAt(t, p) # NoMeta
    <3>1. FileKept(t, p)
      BY <2>1, <2>3, RequestStays DEF Kept, FilesKept
    <3>. QED  BY <2>1, <2>3, <3>1, RequestStays DEF FileKept, HandedOut, GetCustomXAttr
  <2>. QED  BY <2>2, <2>3
<1>4. NewKept(t)'
  BY <1>1, NewStaysNew
<1>. QED  BY <1>1, <1>2, <1>3, <1>4, ApartStays

\* The setter finds metadata that is the file's, or is about to be.
LEMMA SetterBeginsKept ==
    ASSUME NEW t, SetterServes(t), UNCHANGED <<attrs, xattrs, given, spared, cut>>,
           NEW p \in Path, own[p] # NoFile, ~Unlinking(p), MetadataOf(InfoOf(p)) # NoMeta,
           setter'.file = own[p], setter'.meta = MetadataOf(InfoOf(p)), setter'.stage # "idle"
    PROVE  Kept(t)'
<1>0. PICK m : m = setter'.meta
  OBVIOUS
<1>1. /\ m = MetadataOf(InfoOf(p)) /\ m \in Meta /\ HandedOut(m) /\ m \in Reach(t, p)
      /\ MapOf(m)' = MapOf(m)
  BY <1>0, RequestStays, MetadataFoundIsOld DEF Reach, MapOf
<1>2. own'[p] = setter'.file /\ ~Unlinking(p)' /\ HandedOut(setter.meta)'
  BY <1>0, <1>1, RequestStays DEF HandedOut
<1>3. \A q \in Path \ {p} : Unspoiled(q)' /\ MetaAt(t, q)' # NoMeta =>
         m # MetaAt(t, q)' /\ MapOf(m)' # MapOf(MetaAt(t, q))'
  <2>. SUFFICES ASSUME NEW q \in Path \ {p}, Unspoiled(q)', MetaAt(t, q)' # NoMeta
       PROVE  m # MetaAt(t, q)' /\ MapOf(m)' # MapOf(MetaAt(t, q))'
    OBVIOUS
  <2>1. Unspoiled(q) /\ MetaAt(t, q)' = MetaAt(t, q)
    BY RequestStays
  <2>2. m # MetaAt(t, q) /\ MapOf(m) # MapOf(MetaAt(t, q))
    BY <1>1, <2>1, RequestStays DEF Kept, FilesApartHere
  <2>. QED  BY <1>1, <2>1, <2>2 DEF MapOf
<1>4. HasNew(t) /\ m = req[t].new /\ req[t].path # p => ~Unspoiled(p)
  BY <1>1, RequestStays DEF Kept, NewKept, MetaAt
<1>5. Unspoiled(p)' =>
         /\ MapOf(m)' # NoMeta => MetaAt(t, p)' # NoMeta /\ MapOf(m)' = MapOf(MetaAt(t, p))'
         /\ setter'.stage \in {"mode", "owner", "size"} /\ own'[p] \notin collided' => m = MetaAt(t, p)'
  <2>. SUFFICES ASSUME Unspoiled(p)'
       PROVE  /\ MapOf(m)' # NoMeta => MetaAt(t, p)' # NoMeta /\ MapOf(m)' = MapOf(MetaAt(t, p))'
              /\ setter'.stage \in {"mode", "owner", "size"} /\ own'[p] \notin collided' => m = MetaAt(t, p)'
    OBVIOUS
  <2>1. Unspoiled(p) /\ MetaAt(t, p)' = MetaAt(t, p) /\ m # NoMeta
    BY <1>1, RequestStays
  <2>2. CASE m = MetaAt(t, p)
    BY <1>1, <2>1, <2>2 DEF MapOf
  <2>3. CASE m # MetaAt(t, p)
    <3>1. HasOld(t) /\ req[t].path = p
      BY <1>1, <2>3 DEF MetaAt
    <3>2. HoldsFile(t) /\ MetaAt(t, p) = req[t].old
      BY <3>1 DEF MetaAt, HasOld, HoldsFile, InRelease
    <3>3. Stage(t) \in {"link", "swap", "fill"} /\ m = req[t].new
      BY <1>1, <2>1, <2>3, <3>1, <3>2, RequestStays DEF Kept, HandleKept, HasOld
    <3>4. MapOf(m) = NoMeta
      BY <3>3, RequestStays DEF Kept, NewKept, HasNew
    <3>5. setter'.stage \in {"mode", "owner", "size"} => own'[p] \in collided'
      <4>1. ASSUME setter'.stage \in {"mode", "owner", "size"} PROVE own[p] \in Collisions'
        <5>1. Closing(t)' /\ req'[t].file = own[p]
          BY <3>1, <3>2, <3>3, RequestStays DEF Closing, Stage, Kept, HandleKept
        <5>2. own[p] \in Inode
          BY RequestStays, Typed
        <5>. QED  BY <4>1, <5>1, <5>2, RequestStays DEF Collisions
      <4>. QED  BY <4>1, RequestStays
    <3>. QED  BY <1>1, <3>4, <3>5
  <2>. QED  BY <2>2, <2>3
<1>6. MapOf(m)' = MapOf(setter.meta)'
  BY <1>0 DEF MapOf
<1>7. SetterAt(t, p)'
  BY <1>0, <1>1, <1>2, <1>3, <1>4, <1>5, <1>6, RequestStays DEF SetterAt
<1>8. SetterKept(t)'
  BY <1>2, <1>7 DEF SetterKept
<1>. QED  BY <1>8, ControlStays, FilesStay DEF Kept, ControlKept

\* What the setter is working on.
LEMMA SetterFound ==
    ASSUME NEW t, SetterServes(t), setter.stage # "idle"
    PROVE  /\ setter.meta \in Meta /\ HandedOut(setter.meta) /\ setter.file \in Inode
           /\ \E p \in Path :
                 /\ SetterAt(t, p) /\ own[p] = setter.file
                 /\ \A q \in Path : own[q] = setter.file => q = p
<1>1. setter.meta \in Meta /\ HandedOut(setter.meta) /\ setter.file \in Inode
  BY RequestStays DEF Kept, SetterKept, AttributesIInv, SetterSound
<1>2. PICK p \in Path : SetterAt(t, p)
  BY RequestStays DEF Kept, SetterKept
<1>3. own[p] = setter.file /\ own[p] # NoFile
  BY <1>1, <1>2, RequestStays, Typed DEF SetterAt
<1>4. \A q \in Path : own[q] = setter.file => q = p
  BY <1>3, RequestStays DEF Kept, PathsKept
<1>. QED  BY <1>1, <1>2, <1>3, <1>4

\* Setattr changes the owner, mode or size of its file, and of no other file.
LEMMA SetterWritesKept ==
    ASSUME NEW t, SetterServes(t), UNCHANGED xattrs,
           setter.stage \in {"mode", "owner", "size"},
           \/ setter'.stage = "idle"
           \/ /\ setter'.stage \in {"mode", "owner", "size"}
              /\ setter'.file = setter.file /\ setter'.meta = setter.meta,
           NEW v, attrs' = [attrs EXCEPT ![setter.meta.entry][setter.meta.ref] = v],
           v.xattr = MapOf(setter.meta),
           \A f \in Inode : f # setter.file =>
              given'[f] = given[f] /\ (f \in spared' <=> f \in spared) /\ (f \in cut' <=> f \in cut),
           given'[setter.file].value = given[setter.file].value,
           LET a == attrs[setter.meta.entry][setter.meta.ref]  f == setter.file IN
              /\ a.uid = given[f].uid => v.uid = given'[f].uid
              /\ f \notin spared' /\ (f \notin spared => a.mode = given[f].mode) => v.mode = given'[f].mode
              /\ f \notin cut' => f \notin cut /\ v.size = a.size
    PROVE  Kept(t)'
<1>1. PICK p \in Path : /\ SetterAt(t, p) /\ own[p] = setter.file
                        /\ \A q \in Path : own[q] = setter.file => q = p
  BY SetterFound
<1>2. PICK m \in Meta : m = setter.meta
  BY SetterFound
<1>3. /\ attrs'[m.entry][m.ref] = v
      /\ \A x \in Meta : x # m => attrs'[x.entry][x.ref] = attrs[x.entry][x.ref]
      /\ \A x \in Meta : MapOf(x)' = MapOf(x)
  <2>1. attrs' = [attrs EXCEPT ![m.entry][m.ref] = v] /\ v.xattr = MapOf(m)
    BY <1>2
  <2>2. /\ attrs'[m.entry][m.ref] = v /\ MapOf(m)' = v.xattr
        /\ \A x \in Meta : x # m => attrs'[x.entry][x.ref] = attrs[x.entry][x.ref]
                                     /\ MapOf(x)' = MapOf(x)
    BY <2>1, RequestStays, CellChanged
  <2>3. ASSUME NEW x \in Meta PROVE MapOf(x)' = MapOf(x)
    <3>1. CASE x = m
      BY <2>1, <2>2, <3>1 DEF MapOf
    <3>. QED  BY <2>2, <3>1
  <2>. QED  BY <2>2, <2>3
<1>4. MapsFresh'
  BY <1>3, RequestStays DEF Kept, MapsFresh, HandedOut
<1>5. FilesKept(t)'
  <2>. SUFFICES ASSUME NEW q \in Path, Unspoiled(q)'
       PROVE  (IF MetaAt(t, q) = NoMeta
               THEN HoldsFile(t) /\ req[t].path = q /\ CreatedKept(t) ELSE FileKept(t, q))'
    BY DEF FilesKept
  <2>. DEFINE f == own[q]
  <2>1. Unspoiled(q) /\ MetaAt(t, q)' = MetaAt(t, q) /\ f \in Inode
    BY RequestStays, Typed DEF Unspoiled
  <2>2. given'[f].value = given[f].value
    <3>. QED  BY <2>1
  <2>3. q = p /\ f \notin collided => m = MetaAt(t, p)
    BY <1>1, <1>2, <2>1 DEF SetterAt
  <2>4. q # p => f # setter.file
    BY <1>1
  <2>5. CASE MetaAt(t, q) = NoMeta
    <3>1. HoldsFile(t) /\ req[t].path = q /\ CreatedKept(t)
      BY <2>1, <2>5, RequestStays DEF Kept, FilesKept
    <3>2. f \notin collided' => given'[f] = given[f]
      <4>1. NoMeta \notin Meta
        BY RequestStays, Typed
      <4>. QED  BY <1>2, <2>1, <2>3, <2>4, <2>5, <4>1, RequestStays
    <3>3. CreatedKept(t)'
      BY <2>2, <3>1, <3>2, RequestStays DEF CreatedKept
    <3>. QED  BY <2>1, <2>5, <3>1, <3>3, RequestStays
  <2>6. CASE MetaAt(t, q) # NoMeta
    <3>1. PICK x \in Meta : x = MetaAt(t, q)
      BY <2>6, RequestStays, ReachIsTyped
    <3>2. FileKept(t, q)
      BY <2>1, <2>6, RequestStays DEF Kept, FilesKept
    <3>3. PICK a, b : a = attrs[x.entry][x.ref] /\ b = attrs'[x.entry][x.ref]
      OBVIOUS
    <3>4. /\ HandedOut(x) /\ a.xattr # NoMeta /\ GetCustomXAttr(a) = given[f].value
          /\ f \notin collided => a.uid = given[f].uid
          /\ f \notin collided \cup spared => a.mode = given[f].mode
          /\ f \notin collided \cup cut /\ ~(HoldsFile(t) /\ req[t].path = q) =>
                a.size = Len(data[names[q]])
      BY <3>1, <3>2, <3>3 DEF FileKept
    <3>5. b.xattr = a.xattr
      BY <1>3, <3>1, <3>3 DEF MapOf
    <3>6. q # p => x # m
      BY <1>1, <1>2, <2>1, <2>6, <3>1 DEF SetterAt
    <3>7. CASE q # p
      <4>1. b = a /\ given'[f] = given[f] /\ (f \in spared' <=> f \in spared) /\ (f \in cut' <=> f \in cut)
        BY <1>3, <2>1, <2>4, <3>1, <3>3, <3>6, <3>7
      <4>2. /\ HandedOut(x)' /\ b.xattr # NoMeta /\ GetCustomXAttr(b)' = given'[f].value
            /\ f \notin collided' => b.uid = given'[f].uid
            /\ f \notin collided' \cup spared' => b.mode = given'[f].mode
            /\ f \notin collided' \cup cut' /\ ~(HoldsFile(t)' /\ req'[t].path = q) =>
                  b.size = Len(data'[names'[q]])
        BY <3>4, <4>1, RequestStays DEF GetCustomXAttr
      <4>3. FileKept(t, q)'
        BY <2>1, <3>1, <3>3, <4>2, RequestStays DEF FileKept, HandedOut, GetCustomXAttr
      <4>. QED  BY <2>1, <2>6, <4>3
    <3>8. CASE q = p
      <4>1. f \notin collided' => x = m /\ b = v /\ f = setter.file /\ f \notin collided
        BY <1>1, <1>3, <2>3, <3>1, <3>3, <3>8, RequestStays
      <4>2. /\ f \notin collided' => b.uid = given'[f].uid
            /\ f \notin collided' \cup spared' => b.mode = given'[f].mode
            /\ f \notin collided' \cup cut' /\ ~(HoldsFile(t)' /\ req'[t].path = q) =>
                  b.size = Len(data'[names'[q]])
        BY <1>2, <3>3, <3>4, <4>1, RequestStays
      <4>3. HandedOut(x)' /\ b.xattr # NoMeta /\ GetCustomXAttr(b)' = given'[f].value
        BY <2>2, <3>4, <3>5, RequestStays DEF GetCustomXAttr
      <4>4. FileKept(t, q)'
        BY <2>1, <3>1, <3>3, <4>2, <4>3, RequestStays DEF FileKept, HandedOut, GetCustomXAttr
      <4>. QED  BY <2>1, <2>6, <4>4
    <3>. QED  BY <3>7, <3>8
  <2>. QED  BY <2>5, <2>6
<1>6. SetterKept(t)'
  BY <1>3, SetterStays
<1>7. NewKept(t)'
  BY <1>3, NewStaysNew
<1>. QED  BY <1>3, <1>4, <1>5, <1>6, <1>7, ApartStays, ControlStays DEF Kept, ControlKept

\* Setxattr and Removexattr change the map of their file, which is no other file's.
LEMMA StoredKept ==
    ASSUME NEW t, SetterServes(t), UNCHANGED <<attrs, spared, cut>>,
           setter.stage # "idle", setter'.stage = "idle", NEW allowed, NEW value, Stored(allowed, value)
    PROVE  Kept(t)'
<1>1. PICK p \in Path : /\ SetterAt(t, p) /\ own[p] = setter.file
                        /\ \A q \in Path : own[q] = setter.file => q = p
  BY SetterFound
<1>2. PICK m \in Meta : m = setter.meta
  BY SetterFound
<1>3. \A x \in Meta : MapOf(x)' = MapOf(x)
  BY DEF MapOf
<1>4. SetterKept(t)'
  BY <1>3, SetterStays
<1>5. CASE UNCHANGED <<xattrs, given>>
  BY <1>4, <1>5, ControlStays, FilesStay DEF Kept, ControlKept
<1>6. CASE ~UNCHANGED <<xattrs, given>>
  <2>1. PICK c : c = MapOf(m) /\ c # NoMeta
    BY <1>2, <1>6 DEF Stored, Current, MapOf
  <2>2. c \in Meta /\ HandedOut(c)
    <3>1. c \in Meta
      BY <2>1, RequestStays, Typed DEF MapOf, Meta, Attr
    <3>. QED  BY <2>1, <3>1, RequestStays DEF Kept, MapsFresh
  <2>3. /\ xattrs' = [xattrs EXCEPT ![c.entry][c.ref] = value]
        /\ given' = [given EXCEPT ![setter.file].value = value]
    BY <1>2, <1>6, <2>1 DEF Stored, Current, MapOf
  <2>4. /\ xattrs'[c.entry][c.ref] = value
        /\ \A x \in Meta : x # c => xattrs'[x.entry][x.ref] = xattrs[x.entry][x.ref]
    <3>1. xattrs \in [Entries -> [Refs -> AllValues]] /\ c.entry \in Entries /\ c.ref \in Refs
      BY <2>2, RequestStays, Typed DEF Meta
    <3>2. xattrs'[c.entry][c.ref] = value
      BY <2>3, <3>1
    <3>3. ASSUME NEW x \in Meta, x # c PROVE xattrs'[x.entry][x.ref] = xattrs[x.entry][x.ref]
      BY <2>2, <2>3, <3>1, <3>3 DEF Meta
    <3>. QED  BY <3>2, <3>3
  <2>5. /\ given'[setter.file].value = value
        /\ \A f \in Inode : f # setter.file => given'[f] = given[f]
        /\ \A f \in Inode : given'[f].uid = given[f].uid /\ given'[f].mode = given[f].mode
    <3>1. given \in [Inode -> [uid : Uid, mode : AllModes, value : AllValues]] /\ setter.file \in Inode
      BY RequestStays, SetterFound DEF AttributesIInv, AttributesTypeOK, FieldsTyped
    <3>. QED  BY <2>3, <3>1
  <2>6. MapsFresh'
    <3>1. ASSUME NEW e \in Entries, NEW r \in Refs, r > index'[e] PROVE xattrs'[e][r] = NoValue
      <4>1. PICK x \in Meta : x.entry = e /\ x.ref = r
        <5>1. [entry |-> e, ref |-> r] \in Meta
          BY <3>1 DEF Meta
        <5>. QED  BY <5>1
      <4>2. xattrs[e][r] = NoValue /\ x # c
        BY <2>2, <3>1, <4>1, RequestStays DEF Kept, MapsFresh, HandedOut, FilesIInv, IInv, TypeOK, Refs
      <4>. QED  BY <2>4, <4>1, <4>2
    <3>. QED  BY <1>3, <3>1, RequestStays DEF Kept, MapsFresh, HandedOut
  <2>7. FilesKept(t)'
    <3>. SUFFICES ASSUME NEW q \in Path, Unspoiled(q)'
         PROVE  (IF MetaAt(t, q) = NoMeta
                 THEN HoldsFile(t) /\ req[t].path = q /\ CreatedKept(t) ELSE FileKept(t, q))'
      BY DEF FilesKept
    <3>. DEFINE f == own[q]
    <3>1. Unspoiled(q) /\ MetaAt(t, q)' = MetaAt(t, q) /\ f \in Inode
      BY RequestStays, Typed DEF Unspoiled
    <3>2. q = p => MetaAt(t, q) # NoMeta /\ c = MapOf(MetaAt(t, q))
      BY <1>1, <1>2, <2>1, <3>1 DEF SetterAt
    <3>3. q # p => given'[f] = given[f]
      BY <1>1, <2>5, <3>1
    <3>4. CASE MetaAt(t, q) = NoMeta
      <4>1. HoldsFile(t) /\ req[t].path = q /\ CreatedKept(t) /\ given'[f] = given[f]
        BY <3>1, <3>2, <3>3, <3>4, RequestStays DEF Kept, FilesKept
      <4>2. CreatedKept(t)'
        BY <4>1, RequestStays DEF CreatedKept
      <4>. QED  BY <3>1, <3>4, <4>1, <4>2, RequestStays
    <3>5. CASE MetaAt(t, q) # NoMeta
      <4>1. PICK x \in Meta : x = MetaAt(t, q)
        BY <3>5, RequestStays, ReachIsTyped
      <4>2. FileKept(t, q)
        BY <3>1, <3>5, RequestStays DEF Kept, FilesKept
      <4>3. PICK a : a = attrs[x.entry][x.ref] /\ a.xattr = MapOf(x)
        BY DEF MapOf
      <4>4. /\ a.xattr # NoMeta /\ xattrs[a.xattr.entry][a.xattr.ref] = given[f].value
        BY <4>1, <4>2, <4>3 DEF FileKept, GetCustomXAttr
      <4>5. xattrs'[a.xattr.entry][a.xattr.ref] = given'[f].value
        <5>1. CASE q = p
          BY <1>1, <2>4, <2>5, <3>2, <4>1, <4>3, <5>1
        <5>2. CASE q # p
          <6>1. a.xattr # c /\ a.xattr \in Meta
            <7>1. a.xattr # c
              BY <1>1, <1>2, <2>1, <3>1, <3>5, <4>1, <4>3, <5>2 DEF SetterAt
            <7>2. a \in Attr
              BY <4>3, RequestStays, Typed DEF Meta
            <7>. QED  BY <4>4, <7>1, <7>2 DEF Attr
          <6>. QED  BY <2>4, <3>3, <4>4, <5>2, <6>1
        <5>. QED  BY <5>1, <5>2
      <4>6. FileKept(t, q)'
        BY <2>5, <3>1, <4>1, <4>2, <4>3, <4>4, <4>5, RequestStays DEF FileKept, HandedOut, GetCustomXAttr
      <4>. QED  BY <3>1, <3>5, <4>6
    <3>. QED  BY <3>4, <3>5
  <2>8. NewKept(t)'
    <3>1. \A x \in Meta : (\A y \in Meta : MapOf(y) # x) => xattrs'[x.entry][x.ref] = xattrs[x.entry][x.ref]
      BY <2>1, <2>4
    <3>. QED  BY <1>3, <3>1, NewStaysNew
  <2>. QED  BY <1>3, <1>4, <2>6, <2>7, <2>8, ApartStays, ControlStays DEF Kept, ControlKept
<1>. QED  BY <1>5, <1>6

\* Setattr's stores are writes to the one cell of its file.
LEMMA SetattrKept ==
    ASSUME NEW t, SetterServes(t),
           \/ \E mode \in Mode : SetMode(mode)
           \/ \E uid \in User \cup Account : SetOwner(uid)
           \/ \E size \in 0..MaxWrites : SetSize(size)
    PROVE  Kept(t)'
<1>1. /\ setter.stage \in {"mode", "owner", "size"} /\ setter.stage # "idle"
      /\ setter \in Setter
      /\ given \in [Inode -> [uid : Uid, mode : AllModes, value : AllValues]]
  BY RequestStays DEF SetMode, SetOwner, SetSize, AttributesIInv, AttributesTypeOK, FieldsTyped
<1>2. setter.meta \in Meta /\ setter.file \in Inode
  BY <1>1, SetterFound
<1>3. PICK a, f, m : a = attrs[setter.meta.entry][setter.meta.ref] /\ f = setter.file /\ m = setter.meta
  OBVIOUS
<1>4. /\ a \in Attr /\ a.xattr = MapOf(setter.meta)
      /\ given[f] \in [uid : Uid, mode : AllModes, value : AllValues]
  BY <1>1, <1>2, <1>3, RequestStays, Typed DEF Meta, MapOf
<1>5. CASE \E mode \in Mode : SetMode(mode)
  <2>1. PICK mode \in Mode : SetMode(mode)
    BY <1>5
  <2>2. PICK v : v = [a EXCEPT !.mode = mode]
    OBVIOUS
  <2>3. attrs' = [attrs EXCEPT ![setter.meta.entry][setter.meta.ref] = v]
    BY <1>3, <2>1, <2>2 DEF SetMode, UpdateMode
  <2>4. v.xattr = MapOf(setter.meta) /\ v.uid = a.uid /\ v.mode = mode /\ v.size = a.size
    BY <1>4, <2>2 DEF Attr
  <2>5. /\ setter'.stage = "owner" /\ setter'.file = setter.file /\ setter'.meta = setter.meta
    BY <1>1, <2>1 DEF SetMode, SetterGoto, Setter
  <2>6. /\ given'[f].mode = mode /\ given'[f].uid = given[f].uid /\ given'[f].value = given[f].value
        /\ \A g \in Inode : g # f => given'[g] = given[g]
    BY <1>1, <1>2, <1>3, <1>4, <2>1 DEF SetMode
  <2>7. spared' = spared \ {f} /\ cut' = cut /\ xattrs' = xattrs
    BY <1>3, <2>1 DEF SetMode
  <2>8. LET b == attrs[setter.meta.entry][setter.meta.ref]  g == setter.file IN
           /\ b.uid = given[g].uid => v.uid = given'[g].uid
           /\ g \notin spared' /\ (g \notin spared => b.mode = given[g].mode) => v.mode = given'[g].mode
           /\ g \notin cut' => g \notin cut /\ v.size = b.size
    BY <1>3, <2>4, <2>6, <2>7
  <2>. QED  BY <1>1, <1>3, <2>3, <2>4, <2>5, <2>6, <2>7, <2>8, SetterWritesKept
<1>6. CASE \E uid \in User \cup Account : SetOwner(uid)
  <2>1. PICK uid \in User \cup Account : SetOwner(uid)
    BY <1>6
  <2>2. PICK v : v = [a EXCEPT !.uid = uid]
    OBVIOUS
  <2>3. attrs' = [attrs EXCEPT ![setter.meta.entry][setter.meta.ref] = v]
    BY <1>3, <2>1, <2>2 DEF SetOwner, UpdateOwner
  <2>4. v.xattr = MapOf(setter.meta) /\ v.uid = uid /\ v.mode = a.mode /\ v.size = a.size
    BY <1>4, <2>2 DEF Attr
  <2>5. /\ setter'.stage = "size" /\ setter'.file = setter.file /\ setter'.meta = setter.meta
    BY <1>1, <2>1 DEF SetOwner, SetterGoto, Setter
  <2>6. /\ given'[f].mode = given[f].mode /\ given'[f].uid = uid /\ given'[f].value = given[f].value
        /\ \A g \in Inode : g # f => given'[g] = given[g]
    BY <1>1, <1>2, <1>3, <1>4, <2>1 DEF SetOwner
  <2>7. spared' = spared /\ cut' = cut /\ xattrs' = xattrs
    BY <1>3, <2>1 DEF SetOwner
  <2>8. LET b == attrs[setter.meta.entry][setter.meta.ref]  g == setter.file IN
           /\ b.uid = given[g].uid => v.uid = given'[g].uid
           /\ g \notin spared' /\ (g \notin spared => b.mode = given[g].mode) => v.mode = given'[g].mode
           /\ g \notin cut' => g \notin cut /\ v.size = b.size
    BY <1>3, <2>4, <2>6, <2>7
  <2>. QED  BY <1>1, <1>3, <2>3, <2>4, <2>5, <2>6, <2>7, <2>8, SetterWritesKept
<1>7. CASE \E size \in 0..MaxWrites : SetSize(size)
  <2>1. PICK size \in 0..MaxWrites : SetSize(size)
    BY <1>7
  <2>2. PICK v : v = [a EXCEPT !.size = size]
    OBVIOUS
  <2>3. attrs' = [attrs EXCEPT ![setter.meta.entry][setter.meta.ref] = v]
    BY <1>3, <2>1, <2>2 DEF SetSize, UpdateSize
  <2>4. v.xattr = MapOf(setter.meta) /\ v.uid = a.uid /\ v.mode = a.mode
    BY <1>4, <2>2 DEF Attr
  <2>5. setter'.stage = "idle"
    BY <2>1 DEF SetSize, SetterReturns, IdleSetter
  <2>6. /\ given' = given /\ spared' = spared /\ xattrs' = xattrs /\ cut' = cut \cup {f}
    BY <1>3, <2>1 DEF SetSize
  <2>8. LET b == attrs[setter.meta.entry][setter.meta.ref]  g == setter.file IN
           /\ b.uid = given[g].uid => v.uid = given'[g].uid
           /\ g \notin spared' /\ (g \notin spared => b.mode = given[g].mode) => v.mode = given'[g].mode
           /\ g \notin cut' => g \notin cut /\ v.size = b.size
    BY <1>3, <2>4, <2>6
  <2>. QED  BY <1>1, <1>3, <2>3, <2>4, <2>5, <2>6, <2>8, SetterWritesKept
<1>. QED  BY <1>5, <1>6, <1>7

\* Every step of the setter, whatever the request is at.
LEMMA SetterStepKept ==
    ASSUME NEW t, SetterServes(t), SetterStep
    PROVE  Kept(t)'
<1>1. CASE \E u \in User, p \in Path :
              SetattrBegin(u, p) \/ \E stage \in {"set", "remove"} : XattrBegin(u, p, stage)
  <2>1. PICK u \in User, p \in Path :
              SetattrBegin(u, p) \/ \E stage \in {"set", "remove"} : XattrBegin(u, p, stage)
    BY <1>1
  <2>2. /\ own[p] # NoFile /\ ~Unlinking(p) /\ MetadataOf(InfoOf(p)) # NoMeta
        /\ UNCHANGED <<attrs, xattrs, given, spared, cut>>
    BY <2>1 DEF SetattrBegin, XattrBegin, attributes, promises
  <2>3. setter'.file = own[p] /\ setter'.meta = MetadataOf(InfoOf(p)) /\ setter'.stage # "idle"
    <3>1. CASE SetattrBegin(u, p)
      BY <3>1 DEF SetattrBegin
    <3>2. CASE \E stage \in {"set", "remove"} : XattrBegin(u, p, stage)
      BY <3>2 DEF XattrBegin, IdleSetter
    <3>. QED  BY <2>1, <3>1, <3>2
  <2>. QED  BY <2>2, <2>3, SetterBeginsKept
<1>2. CASE \/ \E mode \in Mode : SetMode(mode)
           \/ \E uid \in User \cup Account : SetOwner(uid)
           \/ \E size \in 0..MaxWrites : SetSize(size)
  BY <1>2, SetattrKept
<1>3. CASE SkipField \/ EndSetattr
  <2>1. setter \in Setter /\ UNCHANGED <<attrs, xattrs, given, spared, cut>>
    BY <1>3, RequestStays DEF AttributesIInv, AttributesTypeOK, FieldsTyped, SkipField, EndSetattr,
       attributes, promises
  <2>2. /\ setter.stage \in {"mode", "owner", "size"}
        /\ \/ setter'.stage = "idle"
           \/ /\ setter'.stage \in {"owner", "size"}
              /\ setter'.file = setter.file /\ setter'.meta = setter.meta
    BY <1>3, <2>1 DEF SkipField, EndSetattr, SetterGoto, SetterReturns, IdleSetter, Setter
  <2>3. SetterKept(t)'
    BY <2>1, <2>2, FilesStay, SetterStays
  <2>. QED  BY <2>1, <2>3, FilesStay, ControlStays DEF Kept, ControlKept
<1>4. CASE \E value \in Value, flag \in {"create", "replace", "none"} : SetCustomXAttr(value, flag)
  <2>1. PICK value \in Value, flag \in {"create", "replace", "none"} : SetCustomXAttr(value, flag)
    BY <1>4
  <2>2. /\ UNCHANGED <<attrs, spared, cut>> /\ setter.stage # "idle" /\ setter'.stage = "idle"
        /\ \E allowed : Stored(allowed, value)
    BY <2>1 DEF SetCustomXAttr, SetterReturns, IdleSetter
  <2>. QED  BY <2>2, StoredKept
<1>5. CASE RemoveCustomXAttr
  <2>1. /\ UNCHANGED <<attrs, spared, cut>> /\ setter.stage # "idle" /\ setter'.stage = "idle"
        /\ Stored(GetCustomXAttr(Current) # NoValue, NoValue)
    BY <1>5 DEF RemoveCustomXAttr, SetterReturns, IdleSetter
  <2>. QED  BY <2>1, StoredKept
<1>. QED  BY <1>1, <1>2, <1>3, <1>4, <1>5 DEF SetterStep

\* Every step of the request, whatever the setter is at.
LEMMA FileRequestKept ==
    ASSUME NEW t, Serves(t), FileRequest(t)
    PROVE  Kept(t)'
<1>1. CASE \E p \in Path, u \in User :
              OpenAs(t, p, u) \/ \E mode \in Mode : CreateAs(t, p, u, mode)
  BY <1>1, OpenAsKept, CreateAsKept
<1>2. CASE \/ \E p \in Path : UnlinkLocks(t, p)
           \/ \E c \in Chunk : WriteAs(t, c)
           \/ \E off \in 0..MaxWrites : PwriteAs(t, off)
  BY <1>2, UnlinkLocksKept, WriteAsKept, PwriteAsKept
<1>3. CASE TakeWriter(t) \/ NewBlank(t) \/ LinkAs(t) \/ FillAttributes(t)
  BY <1>3, TakeWriterKept, NewBlankKept, LinkAsKept, FillAttributesKept
<1>4. CASE KeepsAttributes(t)
  <2>1. UNCHANGED <<attributes, promises>>
    BY <1>4 DEF KeepsAttributes
  <2>2. CASE \/ LookupOldMetadata(t) \/ ReleaseTest(t) \/ ReleaseCreateEntry(t)
             \/ ReleaseLookupEntry(t) \/ ReleaseRecent(t) \/ UpdateInfo(t)
    BY <2>1, <2>2, LookupOldMetadataKept, StoringKept, UpdateInfoKept
  <2>3. CASE LinkFails(t) \/ SwapInDuplicate(t) \/ Drop(t)
    BY <2>1, <2>3, LinkFailsKept, SwapInDuplicateKept, DropKept
  <2>4. CASE NamespaceStep(t)
    <3>1. Stage(t) \notin {"linked", "rename", "renamed", "moved"}
      BY Serving DEF Kept, RestKept
    <3>2. ~LinkStoresInfo(t) /\ ~RenameFile(t) /\ ~RenameRemovesInfo(t) /\ ~RenameStoresInfo(t)
      BY <3>1 DEF LinkStoresInfo, RenameFile, RenameRemovesInfo, RenameStoresInfo, At
    <3>. QED  BY <2>1, <2>4, <3>2, CreateStoresInfoKept, LookupReadsKept, LookupStoresInfoKept,
                 UnlinkForgetsKept, UnlinkFileKept, UnlinkRemovesKept DEF NamespaceStep
  <2>5. CASE \E p \in Path : LookupBegin(t, p)
    BY <2>1, <2>5, LookupReadsKept
  <2>6. ASSUME NEW p \in Path, NEW q \in Path
        PROVE  ~LinkBegin(t, p, q) /\ ~RenameBegin(t, p, q)
    BY DEF LinkBegin, RenameBegin, Serves, OneAtATime
  <2>. QED  BY <1>4, <2>2, <2>3, <2>4, <2>5, <2>6 DEF KeepsAttributes
<1>. QED  BY <1>1, <1>2, <1>3, <1>4 DEF FileRequest

\* At the start there are no files, and no metadata to find.
LEMMA KeptAtStart ==
    ASSUME NEW t, OneAtATime(t), AttributesInit
    PROVE  Kept(t)
<1>1. /\ req[t] = Blank /\ Stage(t) = "idle" /\ pc[t] = "idle" /\ t \in Threads /\ Threads = {t}
      /\ \A p \in Path : /\ own[p] = NoFile /\ names[p] = NoFile
                         /\ nodeInfo[p] = NoInfo /\ buffer[p] = NoBuffer
      /\ contended = {} /\ setter.stage = "idle" /\ collided = {} /\ dropped = {}
  BY DEF AttributesInit, FilesInit, Init, OneAtATime, Stage, Blank, IdleSetter
<1>2. \A p \in Path : ~Unspoiled(p)
  BY <1>1 DEF Unspoiled
<1>3. PathsKept(t) /\ HandleKept(t) /\ SizeKept(t) /\ CallKept(t)
  BY <1>1, <1>2 DEF PathsKept, HandleKept, SizeKept, CallKept, HoldsFile, Writing, InRelease,
     InUnlink, Busy
<1>4. RestKept(t)
  <2>1. Collisions = {} /\ Dropping = {}
    BY <1>1 DEF Collisions, Dropping, Stage
  <2>. QED  BY <1>1, <2>1 DEF RestKept, InLookup, InUnlink
<1>5. MapsFresh
  <2>1. \A m \in Meta : MapOf(m) = NoMeta
    BY DEF AttributesInit, MapOf, Meta, BlankAttr
  <2>. QED  BY <2>1 DEF MapsFresh, AttributesInit
<1>6. NewKept(t)
  BY <1>1 DEF NewKept, HasNew
<1>. QED  BY <1>1, <1>2, <1>3, <1>4, <1>5, <1>6 DEF Kept, FilesKept, FilesApartHere, SetterKept

\* Every step of the setter or of the request, and none.
LEMMA KeptIsInductive ==
    ASSUME NEW t, OneAtATime(t)
    PROVE  AttributesIInv /\ Kept(t) /\ [AttributesNext]_attributesVars => Kept(t)'
<1>. SUFFICES ASSUME AttributesIInv, Kept(t), [AttributesNext]_attributesVars PROVE Kept(t)'
  OBVIOUS
<1>1. AttributesIInv' /\ Threads = {t}
  BY AttributesNextKeeps DEF OneAtATime
<1>2. CASE AttributesNext /\ SetterStep
  <2>1. UNCHANGED filesVars
    BY <1>2, SetterStepKeepsFiles
  <2>2. UNCHANGED <<writer, inodeMode, taken>>
    BY <1>2 DEF SetterStep, SetattrBegin, XattrBegin, SetMode, SetOwner, SetSize, SkipField, EndSetattr,
       SetCustomXAttr, RemoveCustomXAttr, attributes
  <2>3. SetterServes(t)
    BY <1>1, <1>2, <2>1, <2>2 DEF SetterServes, AttributesNext
  <2>. QED  BY <1>2, <2>3, SetterStepKept
<1>3. CASE AttributesNext /\ ~SetterStep
  <2>1. Serves(t) /\ FileRequest(t)
    BY <1>1, <1>3 DEF AttributesNext, Serves
  <2>. QED  BY <2>1, FileRequestKept
<1>4. CASE UNCHANGED attributesVars
  <2>1. /\ UNCHANGED filesVars /\ UNCHANGED <<writer, inodeMode, taken, attrs, xattrs, setter>>
        /\ UNCHANGED <<given, spared, cut, collided, dropped>>
    BY <1>4 DEF attributesVars, attributes, promises
  <2>2. Collisions' = Collisions /\ Dropping' = Dropping
    BY <2>1 DEF Collisions, Dropping, Closing, Stage, filesVars
  <2>3. SetterServes(t)
    BY <1>1, <2>1, <2>2 DEF SetterServes, Kept, RestKept
  <2>4. SetterKept(t)'
    <3>1. CASE setter.stage = "idle"
      BY <2>1, <3>1 DEF SetterKept
    <3>2. CASE setter.stage # "idle"
      BY <2>1, <2>3, <3>2, FilesStay, SetterStays
    <3>. QED  BY <3>1, <3>2
  <2>. QED  BY <2>1, <2>3, <2>4, FilesStay, ControlStays DEF Kept, ControlKept
<1>. QED  BY <1>2, <1>3, <1>4

\* What the invariant says of a file that nobody is working on.
LEMMA KeptAtRest ==
    ASSUME NEW t, OneAtATime(t), AttributesIInv, Kept(t), NEW p \in Path, AtRest(p)
    PROVE  LET a == attrs[MetadataOf(InfoOf(p)).entry][MetadataOf(InfoOf(p)).ref]  f == own[p] IN
           /\ Getattr(p) = a
           /\ GetCustomXAttr(a) = given[f].value
           /\ f \notin collided => a.uid = given[f].uid
           /\ f \notin collided \cup spared => a.mode = given[f].mode
           /\ f \notin collided \cup cut => a.size = Len(data[names[p]])
<1>1. Unspoiled(p) /\ t \in Threads
  BY DEF AtRest, Unspoiled, OneAtATime
<1>2. ~(HoldsFile(t) /\ req[t].path = p)
  BY <1>1 DEF AtRest, Settled, HoldsFile, Writing, InRelease
<1>3. HasOld(t) => HoldsFile(t)
  BY DEF HasOld, HoldsFile, InRelease
<1>4. MetaAt(t, p) = MetadataOf(InfoOf(p)) /\ MetaAt(t, p) # NoMeta
  BY <1>1, <1>2, <1>3 DEF Kept, FilesKept, MetaAt
<1>5. FileKept(t, p)
  BY <1>1, <1>4 DEF Kept, FilesKept
<1>6. Getattr(p) = attrs[MetadataOf(InfoOf(p)).entry][MetadataOf(InfoOf(p)).ref]
  <2>1. HasMetadata(InfoOf(p)) /\ MetadataOf(InfoOf(p)).ref = InfoOf(p).ref
    BY <1>4 DEF MetadataOf
  <2>. QED  BY <2>1 DEF Getattr
<1>. QED  BY <1>2, <1>4, <1>5, <1>6 DEF FileKept

\* Where file requests come one at a time and nothing is linked or renamed, a
\* request and the setter keep what each file's attributes need, whatever their
\* order: the node infos that lead to metadata, apart from every other file's, and
\* the maps they share while a Release copies the one to the other.
THEOREM KeptInvariant ==
    ASSUME NEW t, OneAtATime(t)
    PROVE  AttributesSpec => []Kept(t)
<1>1. AttributesInit => Kept(t)
  BY KeptAtStart
<1>2. AttributesIInv /\ Kept(t) /\ [AttributesNext]_attributesVars => Kept(t)'
  BY KeptIsInductive
<1>. QED  BY <1>1, <1>2, AttributesInvariant, PTL DEF AttributesSpec

\* A file keeps the owner and the mode that its clients gave it through every
\* rewriting and deduplication, also with a Setattr beside them, unless the
\* Setattr changes what the Release has already copied, or the Release loses its
\* metadata: for any number of paths, contents and requests.
THEOREM OneRequestKeepsAttributes ==
    ASSUME NEW t, OneAtATime(t)
    PROVE  AttributesSpec => []AttributesKept
<1>1. AttributesIInv /\ Kept(t) => AttributesKept
  BY KeptAtRest DEF AttributesKept
<1>. QED  BY <1>1, AttributesInvariant, KeptInvariant, PTL

\* A file keeps its extended attributes, also those set while a Release replaces
\* the metadata they hang on.
THEOREM OneRequestKeepsXAttrs ==
    ASSUME NEW t, OneAtATime(t)
    PROVE  AttributesSpec => []XAttrsKept
<1>1. AttributesIInv /\ Kept(t) => XAttrsKept
  BY KeptAtRest DEF XAttrsKept
<1>. QED  BY <1>1, AttributesInvariant, KeptInvariant, PTL

\* The size that Getattr answers is that of the content that reads see.
THEOREM OneRequestSizeRight ==
    ASSUME NEW t, OneAtATime(t)
    PROVE  AttributesSpec => []SizeRight
<1>1. AttributesIInv /\ Kept(t) => SizeRight
  BY KeptAtRest DEF SizeRight
<1>. QED  BY <1>1, AttributesInvariant, KeptInvariant, PTL
=============================================================================
