------------------------- MODULE RegularFilesProofs -------------------------
(***************************************************************************)
(* Proofs about RegularFiles, for any sets of paths, inodes, chunks and     *)
(* requests and any workload: every step of the file system is a step of    *)
(* the metadata store or leaves it alone, so what MetadataStoreProofs shows *)
(* of the store holds inside the file system, and every variable keeps its *)
(* type.                                                                    *)
(***************************************************************************)
EXTENDS RegularFiles, MetadataStoreProofs, SequenceTheorems

-----------------------------------------------------------------------------
(* Contents and hashes.                                                     *)

\* A content is a sequence of at most MaxWrites chunks.
LEMMA ContentsAreSequences ==
    ASSUME NEW s \in Contents
    PROVE  /\ s \in Seq(Chunk)
           /\ Len(s) \in 0..MaxWrites
           /\ s \in [1..Len(s) -> Chunk]
<1>1. PICK n \in 0..MaxWrites : s \in [1..n -> Chunk]
  BY DEF Contents
<1>2. n \in Nat
  BY <1>1, FilesAssumption
<1>3. s \in Seq(Chunk) /\ Len(s) = n
  BY <1>1, <1>2
<1>. QED  BY <1>1, <1>3

\* The converse, as every content is built from its length and its chunks.
LEMMA SequencesAreContents ==
    ASSUME NEW n \in 0..MaxWrites, NEW s \in [1..n -> Chunk]
    PROVE  s \in Contents
BY DEF Contents

\* The hashes are the contents, the zero hash being the empty one.
LEMMA HashesAreContents == AllHash = Contents /\ << >> \in Contents
<1>1. << >> \in [1..0 -> Chunk] /\ 0 \in 0..MaxWrites
  BY FilesAssumption
<1>2. << >> \in Contents
  BY <1>1, SequencesAreContents
<1>. QED  BY <1>2, FilesAssumption DEF AllHash

\* A buffer or a file with room for a chunk takes it.
LEMMA AppendKeepsContents ==
    ASSUME NEW s \in Contents, NEW c \in Chunk, Len(s) < MaxWrites
    PROVE  Append(s, c) \in Contents
<1>1. s \in Seq(Chunk) /\ Len(s) \in 0..MaxWrites
  BY ContentsAreSequences
<1>2. MaxWrites \in Nat
  BY FilesAssumption
<1>3. PICK n \in 0..MaxWrites : n = Len(s) + 1
  BY <1>1, <1>2
<1>4. Append(s, c) \in Seq(Chunk) /\ Len(Append(s, c)) = n
  BY <1>1, <1>3, AppendProperties
<1>5. Append(s, c) \in [1..n -> Chunk]
  BY <1>4, LenProperties
<1>. QED  BY <1>3, <1>5, SequencesAreContents

\* Pwrite inside a file or at its end leaves a content.
LEMMA PatchedKeepsContents ==
    ASSUME NEW s \in Contents, NEW off \in 0..MaxWrites, NEW c \in Chunk,
           off < MaxWrites
    PROVE  Patched(s, off, c) \in Contents
<1>1. MaxWrites \in Nat
  BY FilesAssumption
<1>2. PICK len \in 0..MaxWrites : len = Len(s) /\ s \in [1..len -> Chunk]
  BY ContentsAreSequences
<1>3. PICK n \in 0..MaxWrites : n = IF off = len THEN off + 1 ELSE len
  <2>1. off + 1 \in 0..MaxWrites
    BY <1>1
  <2>. QED  BY <1>2, <2>1
<1>4. ASSUME NEW k \in 1..n, k # off + 1 PROVE k \in 1..len
  BY <1>1, <1>3, <1>4
<1>5. Patched(s, off, c) = [k \in 1..n |-> IF k = off + 1 THEN c ELSE s[k]]
  BY <1>2, <1>3 DEF Patched
<1>6. Patched(s, off, c) \in [1..n -> Chunk]
  BY <1>2, <1>4, <1>5
<1>. QED  BY <1>3, <1>6, SequencesAreContents

-----------------------------------------------------------------------------
(* Requests.                                                                *)

\* A request that is not running holds nothing.
LEMMA BlankIsSound == Blank \in Request /\ RequestSound(Blank)
<1>1. NewInfo \in Info
  BY StoreAssumption DEF NewInfo, Info, AllHash
<1>. QED  BY <1>1 DEF Blank, Request, RequestSound, Stages, AllHash

\* Changing what one request holds keeps the others.
LEMMA RequestUpdate ==
    ASSUME FilesTypeOK, StageSound, NEW t \in Threads, NEW r \in Request,
           RequestSound(r), req' = [req EXCEPT ![t] = r]
    PROVE  req' \in [Threads -> Request] /\ StageSound'
<1>1. req' \in [Threads -> Request]
  BY DEF FilesTypeOK
<1>2. ASSUME NEW u \in Threads PROVE RequestSound(req'[u])
  BY DEF FilesTypeOK, StageSound
<1>3. StageSound'
  BY <1>2 DEF StageSound, RequestSound
<1>. QED  BY <1>1, <1>3

\* RetrieveNodeInfo yields an info for every path.
LEMMA InfoIsTyped ==
    ASSUME FilesTypeOK, NEW p
    PROVE  InfoOf(p) \in Info
<1>1. NewInfo \in Info
  BY StoreAssumption DEF NewInfo, Info, AllHash
<1>. QED  BY <1>1 DEF FilesTypeOK, InfoOf

\* LookupRegularFileMetadata yields metadata at an address, or nil.
LEMMA MetadataIsTyped ==
    ASSUME IInv, NEW info \in Info
    PROVE  MetadataOf(info) \in Meta \cup {NoMeta}
BY DEF IInv, TypeOK, MetadataOf, HasMetadata, Meta, Info

\* The overlaps recorded are on hashes and paths.
LEMMA OverlapIsTyped ==
    ASSUME FilesTypeOK, NEW h \in AllHash, NEW p
    PROVE  Overlapping(h, p) \in SUBSET (AllHash \cup Path)
<1>1. \A t \in Engaged : req[t].hash \in AllHash
  BY DEF FilesTypeOK, Engaged, Request
<1>2. ASSUME NEW x \in Overlapping(h, p)
      PROVE  x \in overlap \/ x = h \/ (x = p /\ p \in Path) \/ \E t \in Engaged : x = req[t].hash
  BY <1>2 DEF Overlapping, On
<1>. QED  BY <1>1, <1>2 DEF FilesTypeOK

LEMMA LookupOverlapIsTyped ==
    ASSUME FilesTypeOK, NEW p \in Path
    PROVE  LookupOverlapping(p) \in SUBSET (AllHash \cup Path)
<1>1. \A t \in Engaged : req[t].hash \in AllHash
  BY DEF FilesTypeOK, Engaged, Request
<1>. QED  BY <1>1 DEF LookupOverlapping, FilesTypeOK

-----------------------------------------------------------------------------
(* What clients do.                                                         *)

\* Create opens a fresh inode at a name that did not exist.
LEMMA CreateKeeps ==
    ASSUME FilesIInv, NEW t \in Threads, NEW p \in Path, Create(t, p)
    PROVE  FilesTypeOK' /\ StageSound'
<1>. USE DEF FilesIInv
<1>1. PICK i \in FreshInodes :
          /\ names' = [names EXCEPT ![p] = i]
          /\ data' = [data EXCEPT ![i] = << >>]
          /\ own' = [own EXCEPT ![p] = i]
          /\ req' = [req EXCEPT ![t] =
                [Blank EXCEPT !.stage = "create", !.path = p, !.inode = i, !.file = i,
                              !.info = InfoOf(p)]]
  BY DEF Create
<1>. DEFINE r == [Blank EXCEPT !.stage = "create", !.path = p, !.inode = i, !.file = i,
                               !.info = InfoOf(p)]
<1>2. i \in Inode
  BY DEF FreshInodes
<1>3. r \in Request /\ RequestSound(r)
  BY <1>2, BlankIsSound, InfoIsTyped DEF Blank, Request, RequestSound, Stages
<1>4. req' \in [Threads -> Request] /\ StageSound'
  BY <1>1, <1>3, RequestUpdate
<1>5. /\ names' \in [Path -> Inode \cup {NoFile}]
      /\ data' \in [Inode -> Contents]
      /\ own' \in [Path -> Inode \cup {NoFile}]
      /\ buffer' \in [Path -> Contents \cup {NoBuffer}]
  BY <1>1, <1>2, HashesAreContents DEF Create, FilesTypeOK
<1>. QED  BY <1>4, <1>5 DEF Create, FilesTypeOK

\* Open takes what the path leads to.
LEMMA OpenKeeps ==
    ASSUME FilesIInv, NEW t \in Threads, NEW p \in Path, NEW trunc \in BOOLEAN,
           Open(t, p, trunc)
    PROVE  FilesTypeOK' /\ StageSound'
<1>. USE DEF FilesIInv
<1>. DEFINE r == [Blank EXCEPT !.stage = "open", !.path = p, !.inode = names[p],
                               !.file = own[p], !.info = InfoOf(p)]
<1>1. names[p] \in Inode /\ own[p] \in Inode
  BY DEF Open, Exists, FilesTypeOK
<1>2. r \in Request /\ RequestSound(r)
  BY <1>1, BlankIsSound, InfoIsTyped
     DEF Blank, Request, RequestSound, Stages
<1>3. req' \in [Threads -> Request] /\ StageSound'
  BY <1>2, RequestUpdate DEF Open
<1>4. data' \in [Inode -> Contents] /\ want' \in [Inode -> Contents]
  BY <1>1, HashesAreContents DEF Open, FilesTypeOK
<1>. QED  BY <1>3, <1>4 DEF Open, FilesTypeOK

\* What Write appends to a buffer keeps within the bound.
LEMMA HashChunkKeeps ==
    ASSUME FilesIInv, NEW t \in Threads, NEW c \in Chunk, HashChunk(t, c)
    PROVE  FilesTypeOK' /\ StageSound'
<1>. USE DEF FilesIInv
<1>. DEFINE p == req[t].path
            kept == IF p = Gone \/ buffer[p] = NoBuffer THEN << >> ELSE buffer[p]
            r == [req[t] EXCEPT !.stage = "pwrite", !.chunk = c]
<1>1. req[t] \in Request /\ RequestSound(req[t]) /\ req[t].stage = "open"
  BY DEF FilesTypeOK, StageSound, HashChunk, At, Stage
<1>2. p \in Path \cup {Gone}
  BY <1>1 DEF Request, RequestSound
<1>3. kept \in Contents
  BY <1>2, HashesAreContents DEF FilesTypeOK
<1>4. Append(kept, c) \in Contents
  BY <1>3, AppendKeepsContents DEF HashChunk
<1>5. r \in Request /\ RequestSound(r)
  BY <1>1 DEF Request, RequestSound, Stages
<1>6. req' = [req EXCEPT ![t] = r]
  BY <1>1 DEF HashChunk, FilesTypeOK
<1>7. req' \in [Threads -> Request] /\ StageSound'
  BY <1>5, <1>6, RequestUpdate
<1>8. buffer' \in [Path -> Contents \cup {NoBuffer}]
  BY <1>2, <1>4 DEF HashChunk, FilesTypeOK
<1>. QED  BY <1>7, <1>8 DEF HashChunk, FilesTypeOK, disk

\* Write patches the inode of the descriptor and the client's file.
LEMMA PwriteChunkKeeps ==
    ASSUME FilesIInv, NEW t \in Threads, NEW off \in 0..MaxWrites, PwriteChunk(t, off)
    PROVE  FilesTypeOK' /\ StageSound'
<1>. USE DEF FilesIInv
<1>. DEFINE r == [req[t] EXCEPT !.stage = "open"]
<1>1. req[t] \in Request /\ RequestSound(req[t]) /\ req[t].stage = "pwrite"
  BY DEF FilesTypeOK, StageSound, PwriteChunk, At, Stage
<1>2. req[t].inode \in Inode /\ req[t].file \in Inode /\ req[t].chunk \in Chunk
  BY <1>1 DEF RequestSound
<1>3. r \in Request /\ RequestSound(r)
  BY <1>1 DEF Request, RequestSound, Stages
<1>4. req' \in [Threads -> Request] /\ StageSound'
  BY <1>3, RequestUpdate DEF PwriteChunk, Goto
<1>5. /\ Patched(data[req[t].inode], off, req[t].chunk) \in Contents
      /\ Patched(want[req[t].file], off, req[t].chunk) \in Contents
  BY <1>2, PatchedKeepsContents DEF PwriteChunk, FilesTypeOK
<1>6. data' \in [Inode -> Contents] /\ want' \in [Inode -> Contents]
  BY <1>5 DEF PwriteChunk, FilesTypeOK
<1>. QED  BY <1>4, <1>6 DEF PwriteChunk, FilesTypeOK

\* Lookup, Link, Rename and Unlink begin with a path and what it leads to.
LEMMA LookupBeginKeeps ==
    ASSUME FilesIInv, NEW t \in Threads, NEW p \in Path, LookupBegin(t, p)
    PROVE  FilesTypeOK' /\ StageSound'
<1>. USE DEF FilesIInv
<1>. DEFINE r == [Blank EXCEPT !.stage = "stat", !.path = p]
<1>1. r \in Request /\ RequestSound(r)
  BY BlankIsSound DEF Blank, Request, RequestSound, Stages
<1>2. req' \in [Threads -> Request] /\ StageSound'
  BY <1>1, RequestUpdate DEF LookupBegin
<1>3. overlap' \in SUBSET (AllHash \cup Path)
  BY LookupOverlapIsTyped DEF LookupBegin
<1>. QED  BY <1>2, <1>3 DEF LookupBegin, FilesTypeOK, disk, clients

LEMMA UnlinkBeginKeeps ==
    ASSUME FilesIInv, NEW t \in Threads, NEW p \in Path, UnlinkBegin(t, p)
    PROVE  FilesTypeOK' /\ StageSound'
<1>. USE DEF FilesIInv
<1>. DEFINE r == [Blank EXCEPT !.stage = "unlink", !.path = p, !.info = InfoOf(p),
                               !.exists = (nodeInfo[p] # NoInfo), !.hash = InfoOf(p).hash]
<1>1. InfoOf(p).hash \in AllHash
  BY InfoIsTyped DEF Info
<1>2. r \in Request /\ RequestSound(r)
  BY <1>1, BlankIsSound, InfoIsTyped DEF Blank, Request, RequestSound, Stages
<1>3. req' \in [Threads -> Request] /\ StageSound'
  BY <1>2, RequestUpdate DEF UnlinkBegin
<1>4. overlap' \in SUBSET (AllHash \cup Path)
  BY <1>1, OverlapIsTyped DEF UnlinkBegin
<1>. QED  BY <1>3, <1>4 DEF UnlinkBegin, FilesTypeOK, disk, clients

LEMMA LinkBeginKeeps ==
    ASSUME FilesIInv, NEW t \in Threads, NEW p \in Path, NEW q \in Path,
           LinkBegin(t, p, q)
    PROVE  FilesTypeOK' /\ StageSound'
<1>. USE DEF FilesIInv
<1>. DEFINE r == [Blank EXCEPT !.stage = "linked", !.path = p, !.to = q]
<1>1. r \in Request /\ RequestSound(r)
  BY BlankIsSound DEF Blank, Request, RequestSound, Stages
<1>2. req' \in [Threads -> Request] /\ StageSound'
  BY <1>1, RequestUpdate DEF LinkBegin
<1>3. names' \in [Path -> Inode \cup {NoFile}] /\ own' \in [Path -> Inode \cup {NoFile}]
  BY DEF LinkBegin, FilesTypeOK
<1>. QED  BY <1>2, <1>3 DEF LinkBegin, FilesTypeOK

LEMMA RenameBeginKeeps ==
    ASSUME FilesIInv, NEW t \in Threads, NEW p \in Path, NEW q \in Path,
           RenameBegin(t, p, q)
    PROVE  FilesTypeOK' /\ StageSound'
<1>. USE DEF FilesIInv
<1>. DEFINE r == [Blank EXCEPT !.stage = "rename", !.path = p, !.to = q, !.info = InfoOf(p)]
<1>1. r \in Request /\ RequestSound(r)
  BY BlankIsSound, InfoIsTyped DEF Blank, Request, RequestSound, Stages
<1>2. req' \in [Threads -> Request] /\ StageSound'
  BY <1>1, RequestUpdate DEF RenameBegin
<1>. QED  BY <1>2 DEF RenameBegin, FilesTypeOK, disk, clients

-----------------------------------------------------------------------------
(* Release.                                                                 *)

\* The request that runs a step, as the step finds it.
LEMMA RequestAt ==
    ASSUME FilesIInv, NEW t \in Threads, NEW stage, At(t, stage)
    PROVE  req[t] \in Request /\ RequestSound(req[t]) /\ req[t].stage = stage
BY DEF FilesIInv, FilesTypeOK, StageSound, At, Stage

\* A request moves to a stage it holds enough for.
LEMMA GotoKeeps ==
    ASSUME FilesIInv, NEW t \in Threads, NEW stage \in Stages, Goto(t, stage),
           RequestSound([req[t] EXCEPT !.stage = stage])
    PROVE  req' \in [Threads -> Request] /\ StageSound'
<1>. DEFINE r == [req[t] EXCEPT !.stage = stage]
<1>1. req[t] \in Request
  BY DEF FilesIInv, FilesTypeOK
<1>2. r \in Request
  BY <1>1 DEF Request
<1>. QED  BY <1>2, RequestUpdate DEF FilesIInv, Goto

LEMMA ReturnKeeps ==
    ASSUME FilesIInv, NEW t \in Threads, Return(t)
    PROVE  req' \in [Threads -> Request] /\ StageSound'
BY BlankIsSound, RequestUpdate DEF FilesIInv, Return

\* The hash of a Release is the content of the buffer it takes.
LEMMA TakeBufferKeeps ==
    ASSUME FilesIInv, NEW t \in Threads, TakeBuffer(t)
    PROVE  FilesTypeOK' /\ StageSound'
<1>. USE DEF FilesIInv
<1>. DEFINE p == req[t].path
            kept == IF p = Gone \/ buffer[p] = NoBuffer THEN << >> ELSE buffer[p]
            r == [req[t] EXCEPT !.stage = "released", !.to = p, !.hash = kept]
<1>1. req[t] \in Request /\ RequestSound(req[t]) /\ req[t].stage = "open"
  BY RequestAt DEF TakeBuffer
<1>2. p \in Path \cup {Gone}
  BY <1>1 DEF RequestSound
<1>3. kept \in AllHash
  BY <1>2, HashesAreContents DEF FilesTypeOK
<1>4. r \in Request /\ RequestSound(r)
  <2>. HIDE DEF p, kept
  <2>1. r \in Request
    BY <1>1, <1>2, <1>3 DEF Request, Stages
  <2>2. RequestSound(r)
    BY <1>1, <1>2 DEF Request, RequestSound
  <2>. QED  BY <2>1, <2>2
<1>5. /\ req' = [req EXCEPT ![t] = r]
      /\ overlap' = Overlapping(kept, p) \cup (IF p \in overlap THEN {kept} ELSE {})
  BY DEF TakeBuffer, FilesTypeOK
<1>6. req' \in [Threads -> Request] /\ StageSound'
  BY <1>4, <1>5, RequestUpdate
<1>7. overlap' \in SUBSET (AllHash \cup Path)
  BY <1>3, <1>5, OverlapIsTyped
<1>8. buffer' \in [Path -> Contents \cup {NoBuffer}]
  BY <1>2 DEF TakeBuffer, FilesTypeOK
<1>. QED  BY <1>6, <1>7, <1>8 DEF TakeBuffer, FilesTypeOK, disk, clients

LEMMA LookupOldMetadataKeeps ==
    ASSUME FilesIInv, NEW t \in Threads, LookupOldMetadata(t)
    PROVE  FilesTypeOK' /\ StageSound'
<1>. USE DEF FilesIInv
<1>. DEFINE old == MetadataOf(req[t].info)
            r == [req[t] EXCEPT !.stage = "storing", !.old = old]
<1>1. req[t] \in Request /\ RequestSound(req[t]) /\ req[t].stage = "released"
  BY RequestAt DEF LookupOldMetadata
<1>2. old \in Meta \cup {NoMeta}
  BY <1>1, MetadataIsTyped DEF Request
<1>3. r \in Request /\ RequestSound(r)
  <2>. HIDE DEF old
  <2>1. r \in Request
    BY <1>1, <1>2 DEF Request, Stages
  <2>2. RequestSound(r)
    BY <1>1 DEF Request, RequestSound
  <2>. QED  BY <2>1, <2>2
<1>4. req' = [req EXCEPT ![t] = r]
  BY DEF LookupOldMetadata, FilesTypeOK
<1>5. req' \in [Threads -> Request] /\ StageSound'
  BY <1>3, <1>4, RequestUpdate
<1>. QED  BY <1>5 DEF LookupOldMetadata, FilesTypeOK, disk, clients

LEMMA ReleaseTestKeeps ==
    ASSUME FilesIInv, NEW t \in Threads, ReleaseTest(t)
    PROVE  FilesTypeOK' /\ StageSound'
<1>. USE DEF FilesIInv
<1>. DEFINE dup == ~Unique(hashArg[t])
            r == [req[t] EXCEPT !.dup = dup]
<1>1. req[t] \in Request /\ RequestSound(req[t]) /\ req[t].stage = "storing"
  BY RequestAt DEF ReleaseTest
<1>2. dup \in BOOLEAN
  BY DEF Unique
<1>3. r \in Request /\ RequestSound(r)
  <2>. HIDE DEF dup
  <2>. QED  BY <1>1, <1>2 DEF Request, RequestSound
<1>4. req' \in [Threads -> Request] /\ StageSound'
  BY <1>3, RequestUpdate DEF ReleaseTest
<1>. QED  BY <1>4 DEF ReleaseTest, FilesTypeOK, disk, clients

LEMMA ReleaseCreateEntryKeeps ==
    ASSUME FilesIInv, NEW t \in Threads, ReleaseCreateEntry(t)
    PROVE  FilesTypeOK' /\ StageSound'
BY DEF FilesIInv, ReleaseCreateEntry, FilesTypeOK, StageSound, disk, clients

LEMMA ReleaseLookupEntryKeeps ==
    ASSUME FilesIInv, NEW t \in Threads, ReleaseLookupEntry(t)
    PROVE  FilesTypeOK' /\ StageSound'
<1>1. req' \in [Threads -> Request] /\ StageSound'
  BY ReturnKeeps DEF FilesIInv, ReleaseLookupEntry, FilesTypeOK, StageSound
<1>. QED  BY <1>1 DEF FilesIInv, ReleaseLookupEntry, FilesTypeOK, disk, clients

\* RetrieveRecent's metadata is in the entry the request holds.
LEMMA ReleaseRecentKeeps ==
    ASSUME FilesIInv, NEW t \in Threads, ReleaseRecent(t)
    PROVE  FilesTypeOK' /\ StageSound'
<1>. USE DEF FilesIInv
<1>1. PICK rec \in {NoMeta} \cup [entry : {entryPtr[t]}, ref : Newest(entryPtr[t])] :
          req' = [req EXCEPT ![t].rec = rec]
  BY DEF ReleaseRecent
<1>. DEFINE r == [req[t] EXCEPT !.rec = rec]
<1>2. req[t] \in Request /\ RequestSound(req[t]) /\ req[t].stage = "storing"
  BY RequestAt DEF ReleaseRecent
<1>3. entryPtr[t] \in Entries
  BY DEF ReleaseRecent, RetrieveRecent, Step, IInv, PointersSound, TypeOK
<1>4. Newest(entryPtr[t]) \subseteq Refs
  BY <1>3 DEF Newest, IInv, TypeOK
<1>5. rec \in Meta \cup {NoMeta}
  BY <1>3, <1>4 DEF Meta
<1>6. r \in Request /\ RequestSound(r)
  BY <1>2, <1>5 DEF Request, RequestSound
<1>7. req' \in [Threads -> Request] /\ StageSound'
  BY <1>1, <1>6, RequestUpdate
<1>. QED  BY <1>7 DEF ReleaseRecent, FilesTypeOK, disk, clients

\* CreateRegularFileMetadata's reference is within the bound.
LEMMA ReleaseNewMetadataKeeps ==
    ASSUME FilesIInv, NEW t \in Threads, ReleaseNewMetadata(t)
    PROVE  FilesTypeOK' /\ StageSound'
<1>. USE DEF FilesIInv
<1>. DEFINE e == entryPtr[t]
            new == [entry |-> e, ref |-> index[e] + 1]
            r == [req[t] EXCEPT !.stage = "info", !.new = new]
<1>1. req[t] \in Request /\ RequestSound(req[t]) /\ req[t].stage = "storing"
  BY RequestAt DEF ReleaseNewMetadata
<1>2. e \in Entries
  BY DEF ReleaseNewMetadata, CreateMetadata, Step, IInv, PointersSound, TypeOK
<1>3. index[e] \in 0..MaxIndex /\ index[e] < MaxIndex
  BY <1>2 DEF ReleaseNewMetadata, CreateMetadata, IInv, TypeOK
<1>4. index[e] + 1 \in Refs
  BY <1>3, StoreAssumption DEF Refs
<1>5. new \in Meta
  BY <1>2, <1>4 DEF Meta
<1>6. r \in Request /\ RequestSound(r)
  <2>. HIDE DEF new
  <2>1. r \in Request
    BY <1>1, <1>5 DEF Request, Stages
  <2>2. RequestSound(r)
    BY <1>1, <1>5 DEF Request, RequestSound
  <2>. QED  BY <2>1, <2>2
<1>7. req' = [req EXCEPT ![t] = r]
  BY DEF ReleaseNewMetadata, FilesTypeOK
<1>8. req' \in [Threads -> Request] /\ StageSound'
  BY <1>6, <1>7, RequestUpdate
<1>. QED  BY <1>8 DEF ReleaseNewMetadata, FilesTypeOK, disk, clients

\* UpdateNodeInfo records a typed info; then the request goes on or gives up.
LEMMA UpdateInfoKeeps ==
    ASSUME FilesIInv, NEW t \in Threads, UpdateInfo(t)
    PROVE  FilesTypeOK' /\ StageSound'
<1>. USE DEF FilesIInv
<1>. DEFINE info == [hash |-> req[t].hash, ref |-> req[t].new.ref]
<1>1. req[t] \in Request /\ RequestSound(req[t]) /\ req[t].stage = "info"
  BY RequestAt DEF UpdateInfo
<1>2. info \in Info /\ req[t].to \in Path \cup {Gone}
  BY <1>1 DEF Request, RequestSound, Meta, Info, Refs
<1>3. nodeInfo' \in [Path -> Info \cup {NoInfo}]
  BY <1>2 DEF UpdateInfo, FilesTypeOK
<1>4. PICK stage \in {"dropping", "link", "fill"} : Goto(t, stage)
  BY DEF UpdateInfo, DropNew
<1>5. RequestSound([req[t] EXCEPT !.stage = stage])
  BY <1>1 DEF Request, RequestSound
<1>6. req' \in [Threads -> Request] /\ StageSound'
  BY <1>4, <1>5, GotoKeeps DEF Stages
<1>. QED  BY <1>3, <1>6 DEF UpdateInfo, FilesTypeOK, disk, clients

\* rec.Path exists when it is linked.
LEMMA LinkOriginalKeeps ==
    ASSUME FilesIInv, NEW t \in Threads, LinkOriginal(t)
    PROVE  FilesTypeOK' /\ StageSound'
<1>. USE DEF FilesIInv
<1>1. req[t] \in Request /\ RequestSound(req[t]) /\ req[t].stage = "link"
  BY RequestAt DEF LinkOriginal
<1>2. req[t].to \in Path /\ PathOf(req[t].rec) \in Path
  BY <1>1 DEF RequestSound, LinkOriginal, CanLink, Exists
<1>3. tmp' \in [Path -> Inode \cup {NoFile}]
  BY <1>2 DEF LinkOriginal, FilesTypeOK
<1>4. RequestSound([req[t] EXCEPT !.stage = "swap"])
  BY <1>1, <1>2 DEF Request, RequestSound
<1>5. req' \in [Threads -> Request] /\ StageSound'
  BY <1>4, GotoKeeps DEF LinkOriginal, Stages
<1>. QED  BY <1>3, <1>5 DEF LinkOriginal, FilesTypeOK, clients

LEMMA LinkFailsKeeps ==
    ASSUME FilesIInv, NEW t \in Threads, LinkFails(t)
    PROVE  FilesTypeOK' /\ StageSound'
<1>. USE DEF FilesIInv
<1>1. req[t] \in Request /\ RequestSound(req[t]) /\ req[t].stage = "link"
  BY RequestAt DEF LinkFails
<1>2. RequestSound([req[t] EXCEPT !.stage = "dropping"])
  BY <1>1 DEF Request, RequestSound
<1>3. req' \in [Threads -> Request] /\ StageSound'
  BY <1>2, GotoKeeps DEF LinkFails, DropNew, Stages
<1>. QED  BY <1>3 DEF LinkFails, FilesTypeOK, disk, clients

LEMMA SwapInDuplicateKeeps ==
    ASSUME FilesIInv, NEW t \in Threads, SwapInDuplicate(t)
    PROVE  FilesTypeOK' /\ StageSound'
<1>. USE DEF FilesIInv
<1>1. req[t] \in Request /\ RequestSound(req[t]) /\ req[t].stage = "swap"
  BY RequestAt DEF SwapInDuplicate
<1>2. req[t].to \in Path
  BY <1>1 DEF RequestSound
<1>3. /\ names' \in [Path -> Inode \cup {NoFile}]
      /\ tmp' \in [Path -> Inode \cup {NoFile}]
      /\ data' = data
  BY <1>2 DEF SwapInDuplicate, FilesTypeOK, disk
<1>4. RequestSound([req[t] EXCEPT !.stage = "fill"])
  BY <1>1 DEF Request, RequestSound
<1>5. req' \in [Threads -> Request] /\ StageSound'
  BY <1>4, GotoKeeps DEF SwapInDuplicate, Stages
<1>6. overlap' \in SUBSET (AllHash \cup Path)
  BY <1>2 DEF SwapInDuplicate, FilesTypeOK
<1>. QED  BY <1>3, <1>5, <1>6 DEF SwapInDuplicate, FilesTypeOK, clients

\* The Path written into the new metadata is the request's or the old one's.
LEMMA FillMetadataKeeps ==
    ASSUME FilesIInv, NEW t \in Threads, FillMetadata(t)
    PROVE  FilesTypeOK' /\ StageSound'
<1>. USE DEF FilesIInv
<1>. DEFINE path == IF req[t].old = NoMeta THEN req[t].to ELSE PathOf(req[t].old)
<1>1. req[t] \in Request /\ RequestSound(req[t]) /\ req[t].stage = "fill"
  BY RequestAt DEF FillMetadata
<1>2. path \in Path \cup {NoPath, Gone}
  BY <1>1 DEF Request, Meta, PathOf, FilesTypeOK
<1>3. req[t].new.entry \in Entries /\ req[t].new.ref \in Refs
  BY <1>1 DEF RequestSound, Meta
<1>4. metaPath' \in [Entries -> [Refs -> Path \cup {NoPath, Gone}]]
  <2>1. metaPath' = [metaPath EXCEPT ![req[t].new.entry][req[t].new.ref] = path]
    BY DEF FillMetadata
  <2>. HIDE DEF path
  <2>. QED  BY <1>2, <1>3, <2>1 DEF FilesTypeOK
<1>5. RequestSound([req[t] EXCEPT !.stage = "dropping"])
  BY <1>1 DEF Request, RequestSound
<1>6. req' \in [Threads -> Request] /\ StageSound'
  BY <1>5, GotoKeeps, ReturnKeeps DEF FillMetadata, DropNew, Stages
<1>. QED  BY <1>4, <1>6 DEF FillMetadata, FilesTypeOK, disk, clients

LEMMA DropKeeps ==
    ASSUME FilesIInv, NEW t \in Threads, Drop(t)
    PROVE  FilesTypeOK' /\ StageSound'
<1>1. req' \in [Threads -> Request] /\ StageSound'
  BY ReturnKeeps DEF FilesIInv, Drop, FilesTypeOK, StageSound
<1>. QED  BY <1>1 DEF FilesIInv, Drop, FilesTypeOK, disk, clients

-----------------------------------------------------------------------------
(* Create, Lookup, Link, Rename and Unlink after their first step.          *)

LEMMA CreateStoresInfoKeeps ==
    ASSUME FilesIInv, NEW t \in Threads, CreateStoresInfo(t)
    PROVE  FilesTypeOK' /\ StageSound'
<1>. USE DEF FilesIInv
<1>1. req[t] \in Request /\ RequestSound(req[t]) /\ req[t].stage = "create"
  BY RequestAt DEF CreateStoresInfo
<1>2. nodeInfo' \in [Path -> Info \cup {NoInfo}] /\ crashed' \in BOOLEAN
  BY <1>1, BlankIsSound DEF CreateStoresInfo, FilesTypeOK, Request, FillsFromNil
<1>3. RequestSound([req[t] EXCEPT !.stage = "open"])
  BY <1>1 DEF Request, RequestSound
<1>4. req' \in [Threads -> Request] /\ StageSound'
  <2>1. CASE UNCHANGED req
    BY <2>1 DEF FilesTypeOK, StageSound
  <2>2. CASE Goto(t, "open")
    BY <1>3, <2>2, GotoKeeps DEF Stages
  <2>. QED  BY <2>1, <2>2 DEF CreateStoresInfo
<1>. QED  BY <1>2, <1>4 DEF CreateStoresInfo, FilesTypeOK, disk, clients

LEMMA LookupReadsInfoKeeps ==
    ASSUME FilesIInv, NEW t \in Threads, LookupReadsInfo(t)
    PROVE  FilesTypeOK' /\ StageSound'
<1>. USE DEF FilesIInv
<1>1. req[t] \in Request /\ RequestSound(req[t]) /\ req[t].stage = "stat"
  BY RequestAt DEF LookupReadsInfo
<1>2. PICK stage \in {"look", "attr"}, info \in Info :
         req' = [req EXCEPT ![t].stage = stage, ![t].info = info]
  BY InfoIsTyped DEF LookupReadsInfo
<1>. DEFINE r == [req[t] EXCEPT !.stage = stage, !.info = info]
<1>3. r \in Request /\ RequestSound(r)
  <2>1. stage \in Stages
    BY DEF Stages
  <2>2. r \in Request
    BY <1>1, <2>1 DEF Request
  <2>3. RequestSound(r)
    BY <1>1 DEF Request, RequestSound
  <2>. QED  BY <2>2, <2>3
<1>4. req' = [req EXCEPT ![t] = r]
  BY <1>2 DEF FilesTypeOK
<1>5. req' \in [Threads -> Request] /\ StageSound'
  BY <1>3, <1>4, RequestUpdate
<1>. QED  BY <1>5 DEF LookupReadsInfo, FilesTypeOK, disk, clients

LEMMA LookupFillsKeeps ==
    ASSUME FilesIInv, NEW t \in Threads, LookupFills(t)
    PROVE  FilesTypeOK' /\ StageSound'
<1>. USE DEF FilesIInv
<1>1. req' \in [Threads -> Request] /\ StageSound'
  BY ReturnKeeps DEF LookupFills, FilesTypeOK, StageSound
<1>2. crashed' \in BOOLEAN
  BY DEF LookupFills, FillsFromNil
<1>. QED  BY <1>1, <1>2 DEF LookupFills, FilesTypeOK, disk, clients

LEMMA LookupStoresInfoKeeps ==
    ASSUME FilesIInv, NEW t \in Threads, LookupStoresInfo(t)
    PROVE  FilesTypeOK' /\ StageSound'
<1>. USE DEF FilesIInv
<1>1. NewInfo \in Info
  BY BlankIsSound DEF Blank, Request
<1>2. nodeInfo' \in [Path -> Info \cup {NoInfo}]
  BY <1>1 DEF LookupStoresInfo, FilesTypeOK
<1>3. req' \in [Threads -> Request] /\ StageSound'
  BY ReturnKeeps DEF LookupStoresInfo
<1>. QED  BY <1>2, <1>3 DEF LookupStoresInfo, FilesTypeOK, disk, clients

LEMMA LinkStoresInfoKeeps ==
    ASSUME FilesIInv, NEW t \in Threads, LinkStoresInfo(t)
    PROVE  FilesTypeOK' /\ StageSound'
<1>. USE DEF FilesIInv
<1>1. req[t].path \in Path /\ req[t].to \in Path
  BY RequestAt DEF LinkStoresInfo, RequestSound
<1>2. /\ nodeInfo' \in [Path -> Info \cup {NoInfo}]
      /\ names' \in [Path -> Inode \cup {NoFile}]
      /\ own' \in [Path -> Inode \cup {NoFile}]
  BY <1>1 DEF LinkStoresInfo, FilesTypeOK
<1>3. req' \in [Threads -> Request] /\ StageSound'
  BY ReturnKeeps DEF LinkStoresInfo
<1>. QED  BY <1>2, <1>3 DEF LinkStoresInfo, FilesTypeOK

LEMMA RenameFileKeeps ==
    ASSUME FilesIInv, NEW t \in Threads, RenameFile(t)
    PROVE  FilesTypeOK' /\ StageSound'
<1>. USE DEF FilesIInv
<1>1. req[t] \in Request /\ RequestSound(req[t]) /\ req[t].stage = "rename"
  BY RequestAt DEF RenameFile
<1>2. req[t].path \in Path /\ req[t].to \in Path
  BY <1>1 DEF RequestSound
<1>3. /\ names' \in [Path -> Inode \cup {NoFile}]
      /\ own' \in [Path -> Inode \cup {NoFile}]
  BY <1>2 DEF RenameFile, FilesTypeOK
<1>4. RequestSound([req[t] EXCEPT !.stage = "renamed"])
  BY <1>1 DEF Request, RequestSound
<1>5. req' \in [Threads -> Request] /\ StageSound'
  BY <1>4, GotoKeeps DEF RenameFile, Stages
<1>. QED  BY <1>3, <1>5 DEF RenameFile, FilesTypeOK

LEMMA RenameRemovesInfoKeeps ==
    ASSUME FilesIInv, NEW t \in Threads, RenameRemovesInfo(t)
    PROVE  FilesTypeOK' /\ StageSound'
<1>. USE DEF FilesIInv
<1>1. req[t] \in Request /\ RequestSound(req[t]) /\ req[t].stage = "renamed"
  BY RequestAt DEF RenameRemovesInfo
<1>2. nodeInfo' \in [Path -> Info \cup {NoInfo}]
  BY DEF RenameRemovesInfo, FilesTypeOK
<1>3. RequestSound([req[t] EXCEPT !.stage = "moved"])
  BY <1>1 DEF Request, RequestSound
<1>4. req' \in [Threads -> Request] /\ StageSound'
  BY <1>3, GotoKeeps DEF RenameRemovesInfo, Stages
<1>. QED  BY <1>2, <1>4 DEF RenameRemovesInfo, FilesTypeOK, disk, clients

\* The nodes go-fuse moves belong to open descriptors.
LEMMA MovedIsSound ==
    ASSUME FilesIInv, NEW t \in Threads, NEW from \in Path, NEW to \in Path \cup {Gone},
           req' = [Moved(from, to) EXCEPT ![t] = Blank]
    PROVE  req' \in [Threads -> Request] /\ StageSound'
<1>. USE DEF FilesIInv
<1>1. ASSUME NEW u \in Threads, NEW p \in Path \cup {Gone}, IsOpen(u)
      PROVE  /\ [req[u] EXCEPT !.path = p] \in Request
             /\ RequestSound([req[u] EXCEPT !.path = p])
  <2>1. req[u] \in Request /\ RequestSound(req[u]) /\ req[u].stage \in {"open", "pwrite"}
    BY <1>1 DEF FilesTypeOK, StageSound, IsOpen, Stage
  <2>2. [req[u] EXCEPT !.path = p] \in Request
    BY <2>1 DEF Request
  <2>3. RequestSound([req[u] EXCEPT !.path = p])
    BY <2>1 DEF Request, RequestSound
  <2>. QED  BY <2>2, <2>3
<1>2. ASSUME NEW u \in Threads
      PROVE  Moved(from, to)[u] \in Request /\ RequestSound(Moved(from, to)[u])
  <2>1. req[u] \in Request /\ RequestSound(req[u])
    BY DEF FilesTypeOK, StageSound
  <2>. QED  BY <1>1, <2>1 DEF Moved
<1>3. Moved(from, to) \in [Threads -> Request]
  BY <1>2 DEF Moved
<1>4. req' \in [Threads -> Request]
  BY <1>3, BlankIsSound
<1>5. ASSUME NEW u \in Threads PROVE RequestSound(req'[u])
  BY <1>2, <1>3, BlankIsSound
<1>6. StageSound'
  BY <1>5 DEF StageSound, RequestSound
<1>. QED  BY <1>4, <1>6

LEMMA RenameStoresInfoKeeps ==
    ASSUME FilesIInv, NEW t \in Threads, RenameStoresInfo(t)
    PROVE  FilesTypeOK' /\ StageSound'
<1>. USE DEF FilesIInv
<1>1. req[t] \in Request /\ RequestSound(req[t]) /\ req[t].stage = "moved"
  BY RequestAt DEF RenameStoresInfo
<1>2. req[t].path \in Path /\ req[t].to \in Path /\ req[t].info \in Info
  BY <1>1 DEF RequestSound, Request
<1>3. nodeInfo' \in [Path -> Info \cup {NoInfo}]
  BY <1>2 DEF RenameStoresInfo, FilesTypeOK
<1>4. req' \in [Threads -> Request] /\ StageSound'
  BY <1>2, MovedIsSound DEF RenameStoresInfo
<1>. QED  BY <1>3, <1>4 DEF RenameStoresInfo, FilesTypeOK, disk, clients

LEMMA UnlinkFileKeeps ==
    ASSUME FilesIInv, NEW t \in Threads, UnlinkFile(t)
    PROVE  FilesTypeOK' /\ StageSound'
<1>. USE DEF FilesIInv
<1>1. req[t] \in Request /\ RequestSound(req[t]) /\ req[t].stage = "unlink"
  BY RequestAt DEF UnlinkFile
<1>2. /\ names' \in [Path -> Inode \cup {NoFile}]
      /\ own' \in [Path -> Inode \cup {NoFile}]
  BY DEF UnlinkFile, FilesTypeOK
<1>3. PICK stage \in {"forget", "unlinking"} : Goto(t, stage)
  BY DEF UnlinkFile
<1>4. RequestSound([req[t] EXCEPT !.stage = stage])
  BY <1>1 DEF Request, RequestSound
<1>5. req' \in [Threads -> Request] /\ StageSound'
  BY <1>3, <1>4, GotoKeeps DEF Stages
<1>. QED  BY <1>2, <1>5 DEF UnlinkFile, FilesTypeOK

LEMMA UnlinkRemovesKeeps ==
    ASSUME FilesIInv, NEW t \in Threads, UnlinkRemoves(t)
    PROVE  FilesTypeOK' /\ StageSound'
<1>. USE DEF FilesIInv
<1>1. req[t] \in Request /\ RequestSound(req[t]) /\ req[t].stage = "unlinking"
  BY RequestAt DEF UnlinkRemoves
<1>2. PICK stage \in {"forget", "unlinking"} : Goto(t, stage)
  BY DEF UnlinkRemoves
<1>3. RequestSound([req[t] EXCEPT !.stage = stage])
  BY <1>1 DEF Request, RequestSound
<1>4. req' \in [Threads -> Request] /\ StageSound'
  BY <1>2, <1>3, GotoKeeps DEF Stages
<1>. QED  BY <1>4 DEF UnlinkRemoves, FilesTypeOK, disk, clients

LEMMA UnlinkForgetsKeeps ==
    ASSUME FilesIInv, NEW t \in Threads, UnlinkForgets(t)
    PROVE  FilesTypeOK' /\ StageSound'
<1>. USE DEF FilesIInv
<1>1. req[t].path \in Path
  BY RequestAt DEF UnlinkForgets, RequestSound
<1>2. nodeInfo' \in [Path -> Info \cup {NoInfo}]
  BY DEF UnlinkForgets, FilesTypeOK
<1>3. req' \in [Threads -> Request] /\ StageSound'
  BY <1>1, MovedIsSound DEF UnlinkForgets
<1>. QED  BY <1>2, <1>3 DEF UnlinkForgets, FilesTypeOK, disk, clients

-----------------------------------------------------------------------------
(* Every step is a step of the store.                                       *)

\* The new metadata of a Release is removed by its hash and reference.
LEMMA DropNewIsStoreStep ==
    ASSUME FilesIInv, NEW t \in Threads, DropNew(t),
           Stage(t) \in {"info", "link", "swap", "fill"}
    PROVE  Next
<1>1. req[t] \in Request /\ RequestSound(req[t])
  BY DEF FilesIInv, FilesTypeOK, StageSound
<1>2. req[t].hash \in AllHash /\ req[t].new.ref \in Refs
  BY <1>1 DEF Request, RequestSound, Meta, Stage
<1>. QED  BY <1>2 DEF DropNew, Next, Begin

LEMMA ClientStepIsNoStoreStep ==
    ASSUME NEW t \in Threads, ClientStep(t)
    PROVE  UNCHANGED vars
BY DEF ClientStep, Create, Open, HashChunk, PwriteChunk, LookupBegin, LinkBegin,
   RenameBegin, UnlinkBegin

LEMMA ReleaseStepIsStoreStep ==
    ASSUME FilesIInv, NEW t \in Threads, ReleaseStep(t)
    PROVE  [Next]_vars
<1>. USE DEF FilesIInv
<1>1. CASE LookupOldMetadata(t)
  <2>1. req[t].hash \in AllHash
    BY DEF FilesTypeOK, Request
  <2>. QED  BY <1>1, <2>1 DEF LookupOldMetadata, Next, Begin
<1>2. CASE ReleaseTest(t) \/ ReleaseCreateEntry(t) \/ ReleaseLookupEntry(t)
           \/ ReleaseRecent(t) \/ ReleaseNewMetadata(t)
  <2>1. StoreStep(t)
    BY <1>2 DEF ReleaseTest, ReleaseCreateEntry, ReleaseLookupEntry, ReleaseRecent,
       ReleaseNewMetadata, StoreStep
  <2>. QED  BY <2>1 DEF Next
<1>3. CASE UpdateInfo(t) \/ LinkFails(t) \/ FillMetadata(t)
  <2>1. /\ UNCHANGED vars \/ DropNew(t)
        /\ Stage(t) \in {"info", "link", "swap", "fill"}
    BY <1>3 DEF UpdateInfo, LinkFails, FillMetadata, At
  <2>. QED  BY <2>1, DropNewIsStoreStep
<1>4. CASE Drop(t)
  BY <1>4 DEF Drop, Next
<1>5. CASE TakeBuffer(t) \/ LinkOriginal(t) \/ SwapInDuplicate(t)
  BY <1>5 DEF TakeBuffer, LinkOriginal, SwapInDuplicate
<1>. QED  BY <1>1, <1>2, <1>3, <1>4, <1>5 DEF ReleaseStep

LEMMA NamespaceStepIsStoreStep ==
    ASSUME FilesIInv, NEW t \in Threads, NamespaceStep(t)
    PROVE  [Next]_vars
<1>. USE DEF FilesIInv
<1>1. CASE UnlinkFile(t)
  <2>1. /\ req[t].info \in Info
        /\ \/ UNCHANGED vars
           \/ /\ BeginRemove(t, req[t].info.hash, req[t].info.ref)
              /\ req[t].info.ref # 0
    BY <1>1 DEF UnlinkFile, FilesTypeOK, Request
  <2>2. req[t].info.hash \in AllHash /\ (req[t].info.ref # 0 => req[t].info.ref \in Refs)
    BY <2>1, StoreAssumption DEF Info, Refs
  <2>. QED  BY <2>1, <2>2 DEF Next, Begin
<1>2. CASE UnlinkRemoves(t)
  BY <1>2 DEF UnlinkRemoves, Next
<1>3. CASE \/ CreateStoresInfo(t) \/ LookupReadsInfo(t) \/ LookupStoresInfo(t)
           \/ LookupFills(t) \/ LinkStoresInfo(t)
           \/ RenameFile(t) \/ RenameRemovesInfo(t) \/ RenameStoresInfo(t)
           \/ UnlinkForgets(t)
  BY <1>3 DEF CreateStoresInfo, LookupReadsInfo, LookupStoresInfo, LookupFills, LinkStoresInfo, RenameFile,
     RenameRemovesInfo, RenameStoresInfo, UnlinkForgets
<1>. QED  BY <1>1, <1>2, <1>3 DEF NamespaceStep

-----------------------------------------------------------------------------
(* The theorems.                                                            *)

LEMMA FilesInitEstablishesIInv == FilesInit => FilesIInv
<1>. SUFFICES ASSUME FilesInit PROVE FilesIInv
  OBVIOUS
<1>1. IInv
  BY InitEstablishesIInv DEF FilesInit
<1>2. FilesTypeOK
  BY BlankIsSound, HashesAreContents DEF FilesInit, FilesTypeOK
<1>3. StageSound
  BY BlankIsSound DEF FilesInit, StageSound
<1>. QED  BY <1>1, <1>2, <1>3 DEF FilesIInv

LEMMA FilesNextIsStoreStep == FilesIInv /\ [FilesNext]_filesVars => [Next]_vars
<1>. SUFFICES ASSUME FilesIInv, [FilesNext]_filesVars PROVE [Next]_vars
  OBVIOUS
<1>1. CASE UNCHANGED filesVars
  BY <1>1 DEF filesVars
<1>2. CASE FilesNext
  BY <1>2, ClientStepIsNoStoreStep, ReleaseStepIsStoreStep, NamespaceStepIsStoreStep
     DEF FilesNext
<1>. QED  BY <1>1, <1>2

LEMMA FilesNextKeepsIInv == FilesIInv /\ [FilesNext]_filesVars => FilesIInv'
<1>. SUFFICES ASSUME FilesIInv, [FilesNext]_filesVars PROVE FilesIInv'
  OBVIOUS
<1>1. IInv'
  BY FilesNextIsStoreStep, NextKeepsIInv DEF FilesIInv
<1>2. ASSUME NEW t \in Threads, ClientStep(t) PROVE FilesTypeOK' /\ StageSound'
  BY <1>2, CreateKeeps, OpenKeeps, LookupBeginKeeps, UnlinkBeginKeeps, LinkBeginKeeps,
     RenameBeginKeeps, HashChunkKeeps, PwriteChunkKeeps DEF ClientStep
<1>3. ASSUME NEW t \in Threads, ReleaseStep(t) PROVE FilesTypeOK' /\ StageSound'
  BY <1>3, TakeBufferKeeps, LookupOldMetadataKeeps, ReleaseTestKeeps,
     ReleaseCreateEntryKeeps, ReleaseLookupEntryKeeps, ReleaseRecentKeeps,
     ReleaseNewMetadataKeeps, UpdateInfoKeeps, LinkOriginalKeeps, LinkFailsKeeps,
     SwapInDuplicateKeeps, FillMetadataKeeps, DropKeeps DEF ReleaseStep
<1>4. ASSUME NEW t \in Threads, NamespaceStep(t) PROVE FilesTypeOK' /\ StageSound'
  BY <1>4, CreateStoresInfoKeeps, LookupReadsInfoKeeps, LookupStoresInfoKeeps,
     LookupFillsKeeps, LinkStoresInfoKeeps,
     RenameFileKeeps, RenameRemovesInfoKeeps, RenameStoresInfoKeeps, UnlinkFileKeeps,
     UnlinkRemovesKeeps, UnlinkForgetsKeeps DEF NamespaceStep
<1>5. ASSUME UNCHANGED filesVars PROVE FilesTypeOK' /\ StageSound'
  BY <1>5 DEF FilesIInv, FilesTypeOK, StageSound, filesVars, disk, clients
<1>6. FilesTypeOK' /\ StageSound'
  BY <1>2, <1>3, <1>4, <1>5 DEF FilesNext
<1>. QED  BY <1>1, <1>6 DEF FilesIInv

\* The inductive invariant holds in every reachable state.
THEOREM FilesInductiveInvariant == FilesSpec => []FilesIInv
BY FilesInitEstablishesIInv, FilesNextKeepsIInv, PTL DEF FilesSpec

\* Every variable of the file system keeps its type: no buffer or file holds
\* what was not written, no node info or metadata a reference out of range.
THEOREM FilesTypeCorrectness == FilesSpec => []FilesTypeOK
<1>1. FilesIInv => FilesTypeOK
  BY DEF FilesIInv
<1>. QED  BY <1>1, FilesInductiveInvariant, PTL

\* Create, Release, Unlink and the other handlers use the store as module
\* MetadataStore says: what the file system does to it is a behaviour of it.
THEOREM FilesRefineStore == FilesSpec => Spec
<1>1. FilesInit => Init
  BY DEF FilesInit
<1>. QED  BY <1>1, FilesNextIsStoreStep, FilesInductiveInvariant, PTL DEF FilesSpec, Spec

\* So inside the file system no metadata becomes unreachable and every
\* ReferenceCount is exact, on each hash that requests take turns on.
THEOREM FilesLoseNothing == FilesSpec => [](NothingLost /\ CountExact)
BY FilesRefineStore, NothingIsLost, CountIsExact, PTL

=============================================================================
