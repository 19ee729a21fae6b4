--------------------------- MODULE CalmFilesProofs ---------------------------
(***************************************************************************)
(* Clients that write each file once, look files up and remove them: on     *)
(* every path and content that no two requests have met on, files read      *)
(* back, duplicates share one inode, and names, node infos and metadata     *)
(* lead to each other, whatever runs on the others.  The inductive          *)
(* invariant is CalmIInv; its five parts are shown in turn, each with the   *)
(* ones before it.                                                          *)
(***************************************************************************)
EXTENDS CalmFiles, RegularFilesProofs

-----------------------------------------------------------------------------
(* Each handle is apart from the others.                                    *)

OnceWorkload == Workload \subseteq WrittenOnce

\* The other requests hold what they held.
OthersKept(t) == \A u \in Threads \ {t} : req'[u] = req[u]

SameFiles == UNCHANGED <<names, tmp, data, buffer, own, want>>

\* Steps after which a request has no more files than it had.
GoesOn(t) ==
    /\ InRelease(t) /\ InRelease(t)' /\ req'[t].stage # "swap"
    /\ req'[t].path = req[t].path /\ req'[t].to = req[t].to /\ req'[t].hash = req[t].hash
    /\ req'[t].inode = req[t].inode /\ req'[t].file = req[t].file

Opens(t) == Stage(t) = "create" /\ req'[t] = [req[t] EXCEPT !.stage = "open"]

Returns(t) == ~Writing(t) /\ req'[t] = Blank

Looks(t) ==
    /\ \/ Stage(t) = "idle" /\ req'[t].to = NoPath
       \/ Stage(t) = "stat" /\ req'[t].to = req[t].to
    /\ req'[t].stage \in {"stat", "look", "attr"}

Unlinks(t) ==
    /\ Stage(t) = "idle" /\ req'[t].stage = "unlink" /\ req'[t].to = NoPath
    /\ DirectoryFree
    /\ own[req'[t].path] # NoFile
    /\ \A u \in Threads : IsOpen(u) => req[u].path # req'[t].path
    /\ req'[t].hash = req'[t].info.hash

UnlinkGoesOn(t) ==
    /\ InUnlink(t)
    /\ \E stage \in {"unlinking", "forget"} : req'[t] = [req[t] EXCEPT !.stage = stage]

QuietStep(t) ==
    GoesOn(t) \/ Opens(t) \/ Returns(t) \/ Looks(t) \/ Unlinks(t) \/ UnlinkGoesOn(t)

\* A quiet step opens no file and writes to none.
LEMMA QuietStepKeepsApart ==
    ASSUME FilesIInv, FilesApart, NEW t \in Threads, SameFiles, OthersKept(t), QuietStep(t)
    PROVE  FilesApart'
<1>. USE DEF OthersKept
<1>0. req \in [Threads -> Request] /\ Blank.stage = "idle" /\ RequestSound(req[t])
  BY DEF FilesIInv, FilesTypeOK, Blank, StageSound
<1>1. StagesOnce'
  BY <1>0 DEF FilesApart, StagesOnce, Stage, QuietStep, GoesOn, Opens, Returns, Looks, Unlinks,
     UnlinkGoesOn, InRelease, Request
<1>2. OneInDirectory'
  BY <1>0 DEF FilesApart, OneInDirectory, Stage, QuietStep, GoesOn, Opens, Returns, Looks, Unlinks,
     UnlinkGoesOn, InRelease, InUnlink, DirectoryFree, Request
<1>3. ASSUME NEW u \in Threads PROVE (Writing(u) => Writing(u)' /\ req'[u].path = req[u].path)
  BY <1>0 DEF Writing, InUnlink, InRelease, Stage, QuietStep, GoesOn, Opens, Returns, Looks, Unlinks,
     UnlinkGoesOn, Request
<1>4. OwnersApart'
  BY <1>3 DEF FilesApart, OwnersApart, SameFiles
<1>5. ASSUME NEW u \in Threads, HoldsFile(u)'
      PROVE  /\ HoldsFile(u) /\ req'[u].path = req[u].path /\ req'[u].inode = req[u].inode
             /\ req'[u].file = req[u].file
             /\ Writing(u)' => /\ Writing(u)
                               /\ req'[u].chunk = req[u].chunk
                               /\ Stage(u)' = "pwrite" <=> Stage(u) = "pwrite"
             /\ InRelease(u)' => /\ InRelease(u)
                                 /\ req'[u].hash = req[u].hash /\ req'[u].to = req[u].to
                                 /\ Stage(u)' = "swap" => Stage(u) = "swap"
  BY <1>0, <1>5 DEF HoldsFile, Writing, InUnlink, InRelease, Stage, QuietStep, GoesOn, Opens, Returns,
     Looks, Unlinks, UnlinkGoesOn, Request
<1>6. ASSUME NEW u \in Threads, InUnlink(u)'
      PROVE  /\ req'[u].hash = req'[u].info.hash
             /\ Stage(u)' = "unlink" => own[req'[u].path] # NoFile
             /\ \/ InUnlink(u) /\ req'[u].path = req[u].path
                \/ DirectoryFree /\ \A v \in Threads : IsOpen(v) => req[v].path # req'[u].path
  BY <1>0, <1>6 DEF FilesApart, UnlinkSound, HoldsFile, Writing, InUnlink, InRelease, Stage, QuietStep,
     GoesOn, Opens, Returns, Looks, Unlinks, UnlinkGoesOn, Request
<1>60. ASSUME NEW u \in Threads, InUnlink(u)' \/ InLookup(u)' PROVE req'[u].to = NoPath
  BY <1>0, <1>60 DEF FilesApart, UnlinkSound, Writing, InUnlink, InLookup, InRelease, Stage, QuietStep,
     GoesOn, Opens, Returns, Looks, Unlinks, UnlinkGoesOn, Request
<1>7. ASSUME NEW u \in Threads PROVE HandleApart(u)'
  BY <1>5 DEF FilesApart, HandleApart, SameFiles
<1>8. ASSUME NEW u \in Threads PROVE WriterSound(u)'
  <2>. SUFFICES ASSUME Writing(u)' PROVE WriterSound(u)'
    BY DEF WriterSound
  <2>1. Writing(u) /\ HoldsFile(u)'
    BY <1>5 DEF HoldsFile
  <2>2. ASSUME NEW v \in Threads, InUnlink(v)' PROVE req'[v].path # req'[u].path
    BY <1>5, <1>6, <2>1, <2>2 DEF FilesApart, WriterSound, DirectoryFree, IsOpen, Writing
  <2>. QED  BY <1>5, <2>1, <2>2 DEF FilesApart, WriterSound, SameFiles
<1>9. ASSUME NEW u \in Threads PROVE ReleaseSound(u)'
  BY <1>5 DEF FilesApart, ReleaseSound, HoldsFile, SameFiles, InRelease
<1>10. ASSUME NEW u \in Threads PROVE UnlinkSound(u)'
  BY <1>6, <1>60 DEF UnlinkSound, InUnlink, InLookup, Stage, SameFiles
<1>. QED  BY <1>1, <1>2, <1>4, <1>7, <1>8, <1>9, <1>10 DEF FilesApart

\* A stuttering step.
LEMMA UnchangedKeepsApart ==
    ASSUME FilesApart, SameFiles, req' = req
    PROVE  FilesApart'
BY DEF FilesApart, SameFiles, StagesOnce, OneInDirectory, OwnersApart, HandleApart, WriterSound,
   ReleaseSound, UnlinkSound, HoldsFile, Writing, InRelease, InUnlink, InLookup, Stage

-----------------------------------------------------------------------------
(* Every step is one request's.                                             *)

\* Nobody holds a descriptor of a node that go-fuse drops.
LEMMA UnlinkForgetsAlone ==
    ASSUME FilesIInv, FilesApart, NEW t \in Threads, UnlinkForgets(t)
    PROVE  req' = [req EXCEPT ![t] = Blank]
<1>1. ASSUME NEW u \in Threads PROVE Moved(req[t].path, Gone)[u] = req[u]
  <2>1. Stage(t) = "forget" /\ WriterSound(u)
    BY DEF UnlinkForgets, At, FilesApart
  <2>2. ~(IsOpen(u) /\ req[u].path = req[t].path)
    BY <2>1 DEF WriterSound, InUnlink, Writing, IsOpen
  <2>3. IsOpen(u) => req[u].path # Gone
    BY FilesAssumption DEF FilesApart, HandleApart, HoldsFile, Writing, IsOpen
  <2>. QED  BY <2>2, <2>3 DEF Moved
<1>2. Moved(req[t].path, Gone) = [u \in Threads |-> req[u]]
  BY <1>1 DEF Moved
<1>. QED  BY <1>2 DEF UnlinkForgets, FilesIInv, FilesTypeOK

\* Release, but for the buffer it takes and the links it makes.
LEMMA QuietReleaseKeepsApart ==
    ASSUME FilesIInv, FilesApart, NEW t \in Threads,
           \/ LookupOldMetadata(t) \/ ReleaseTest(t) \/ ReleaseCreateEntry(t)
           \/ ReleaseLookupEntry(t) \/ ReleaseRecent(t) \/ ReleaseNewMetadata(t)
           \/ UpdateInfo(t) \/ LinkFails(t) \/ FillMetadata(t) \/ Drop(t)
    PROVE  FilesApart'
<1>1. req[t] \in Request /\ req \in [Threads -> Request]
  BY DEF FilesIInv, FilesTypeOK
<1>2. SameFiles
  BY DEF LookupOldMetadata, ReleaseTest, ReleaseCreateEntry, ReleaseLookupEntry, ReleaseRecent,
     ReleaseNewMetadata, UpdateInfo, LinkFails, FillMetadata, Drop, SameFiles, disk, clients
<1>3. OthersKept(t)
  BY <1>1 DEF LookupOldMetadata, ReleaseTest, ReleaseCreateEntry, ReleaseLookupEntry, ReleaseRecent,
     ReleaseNewMetadata, UpdateInfo, LinkFails, FillMetadata, Drop, DropNew, Goto, Return, OthersKept
<1>4. GoesOn(t) \/ Returns(t)
  <2>1. CASE LookupOldMetadata(t) \/ ReleaseTest(t) \/ ReleaseCreateEntry(t) \/ ReleaseRecent(t)
             \/ ReleaseNewMetadata(t) \/ UpdateInfo(t) \/ LinkFails(t)
    BY <1>1, <2>1 DEF LookupOldMetadata, ReleaseTest, ReleaseCreateEntry, ReleaseRecent,
           ReleaseNewMetadata, UpdateInfo, LinkFails, DropNew, Goto, GoesOn, InRelease, At, Stage, Request
  <2>2. CASE ReleaseLookupEntry(t) \/ FillMetadata(t) \/ Drop(t)
    BY <1>1, <2>2 DEF ReleaseLookupEntry, FillMetadata, Drop, DropNew, Goto, Return, Returns, GoesOn,
       InRelease, Writing, At, Stage, Request
  <2>. QED  BY <2>1, <2>2
<1>. QED  BY <1>2, <1>3, <1>4, QuietStepKeepsApart DEF QuietStep

\* The steps of Create, Lookup and Unlink that touch no file.
LEMMA QuietOthersKeepApart ==
    ASSUME OnceWorkload, FilesIInv, FilesApart, NEW t \in Threads,
           \/ CreateStoresInfo(t) \/ LookupReadsInfo(t) \/ LookupStoresInfo(t) \/ LookupFills(t)
           \/ UnlinkRemoves(t) \/ UnlinkForgets(t)
           \/ \E p \in Path : LookupBegin(t, p) \/ UnlinkBegin(t, p)
    PROVE  FilesApart'
<1>1. req[t] \in Request /\ req \in [Threads -> Request] /\ Blank.stage = "idle"
  BY DEF FilesIInv, FilesTypeOK, Blank
<1>2. SameFiles
  BY DEF CreateStoresInfo, LookupReadsInfo, LookupStoresInfo, LookupFills, UnlinkRemoves, UnlinkForgets,
     LookupBegin, UnlinkBegin, SameFiles, disk, clients
<1>0. CASE req' = req
  BY <1>0, <1>2, UnchangedKeepsApart
<1>3. CASE req' # req /\ (CreateStoresInfo(t) \/ UnlinkRemoves(t))
  <2>1. OthersKept(t) /\ (Opens(t) \/ UnlinkGoesOn(t))
    BY <1>1, <1>3 DEF CreateStoresInfo, UnlinkRemoves, Goto, Opens, UnlinkGoesOn, InUnlink, At, Stage,
       OthersKept
  <2>. QED  BY <1>2, <2>1, QuietStepKeepsApart DEF QuietStep
<1>4. CASE req' # req /\ (LookupStoresInfo(t) \/ LookupFills(t) \/ UnlinkForgets(t))
  <2>1. OthersKept(t) /\ Returns(t)
    BY <1>1, <1>4, UnlinkForgetsAlone DEF LookupStoresInfo, LookupFills, UnlinkForgets, Return, Returns,
       Writing, At, Stage, OthersKept
  <2>. QED  BY <1>2, <2>1, QuietStepKeepsApart DEF QuietStep
<1>5. ASSUME NEW p \in Path, LookupBegin(t, p) PROVE FilesApart'
  <2>1. OthersKept(t) /\ Looks(t)
    BY <1>1, <1>5 DEF LookupBegin, Looks, At, Stage, OthersKept, Blank
  <2>. QED  BY <1>2, <2>1, QuietStepKeepsApart DEF QuietStep
<1>7. CASE LookupReadsInfo(t)
  <2>1. OthersKept(t) /\ Looks(t)
    BY <1>1, <1>7 DEF LookupReadsInfo, Looks, At, Stage, OthersKept, Request
  <2>. QED  BY <1>2, <2>1, QuietStepKeepsApart DEF QuietStep
<1>6. ASSUME NEW p \in Path, UnlinkBegin(t, p) PROVE FilesApart'
  <2>. DEFINE r == [Blank EXCEPT !.stage = "unlink", !.path = p, !.info = InfoOf(p),
                                 !.exists = (nodeInfo[p] # NoInfo), !.hash = InfoOf(p).hash]
  <2>1. r.stage = "unlink" /\ r.to = NoPath /\ r.path = p /\ r.info = InfoOf(p) /\ r.hash = InfoOf(p).hash
    BY DEF Blank
  <2>2. req' = [req EXCEPT ![t] = r]
    BY <1>6 DEF UnlinkBegin
  <2>. HIDE DEF r
  <2>3. "unlinkOpen" \notin Workload
    BY DEF OnceWorkload, WrittenOnce
  <2>4. OthersKept(t) /\ Unlinks(t)
    BY <1>1, <1>6, <2>1, <2>2, <2>3 DEF UnlinkBegin, Unlinks, At, Stage, OthersKept
  <2>. QED  BY <1>2, <2>4, QuietStepKeepsApart DEF QuietStep
<1>. QED  BY <1>0, <1>3, <1>4, <1>5, <1>6, <1>7

-----------------------------------------------------------------------------
(* Steps that change files.                                                 *)

\* A new file is on an inode nobody knows; no buffer is left at its path.
LEMMA CreateKeepsApart ==
    ASSUME FilesIInv, FilesApart, NEW t \in Threads, NEW p \in Path, Create(t, p)
    PROVE  FilesApart'
<1>0. PICK i \in FreshInodes :
          /\ names' = [names EXCEPT ![p] = i]
          /\ data' = [data EXCEPT ![i] = << >>]
          /\ own' = [own EXCEPT ![p] = i]
          /\ req' = [req EXCEPT ![t] =
                [Blank EXCEPT !.stage = "create", !.path = p, !.inode = i, !.file = i,
                              !.info = InfoOf(p)]]
  BY DEF Create
<1>. DEFINE r == [Blank EXCEPT !.stage = "create", !.path = p, !.inode = i, !.file = i,
                               !.info = InfoOf(p)]
<1>1. r.stage = "create" /\ r.path = p /\ r.inode = i /\ r.file = i
  BY DEF Blank
<1>2. req' = [req EXCEPT ![t] = r]
  BY <1>0
<1>. HIDE DEF r
<1>3. /\ req \in [Threads -> Request] /\ data = want /\ want' = want /\ tmp' = tmp
      /\ names \in [Path -> Inode \cup {NoFile}] /\ own \in [Path -> Inode \cup {NoFile}]
      /\ data \in [Inode -> Contents] /\ buffer \in [Path -> Contents \cup {NoBuffer}]
      /\ NoFile \notin Inode
  BY FilesAssumption DEF FilesIInv, FilesTypeOK, FilesApart, OwnersApart, Create
<1>4. /\ i \in Inode /\ want[i] = << >>
      /\ \A q \in Path : own[q] # i
      /\ \A u \in Threads : req[u].inode # i /\ req[u].file # i
  BY DEF FreshInodes
<1>5. /\ req'[t].stage = "create" /\ req'[t].path = p /\ req'[t].inode = i /\ req'[t].file = i
      /\ \A u \in Threads \ {t} : req'[u] = req[u]
      /\ Stage(t) = "idle"
  BY <1>1, <1>2, <1>3 DEF Create, At
<1>6. /\ own'[p] = i /\ names'[p] = i
      /\ \A q \in Path \ {p} : own'[q] = own[q] /\ names'[q] = names[q]
  BY <1>0, <1>3
<1>7. data' = data
  BY <1>0, <1>3, <1>4
<1>8. own[p] = NoFile /\ buffer[p] = NoBuffer
  <2>1. own[p] = NoFile
    BY DEF Create, FilesApart, OwnersApart
  <2>2. \A u \in Threads : Writing(u) => req[u].path # p
    BY <2>1, <1>3 DEF FilesApart, WriterSound, HandleApart, HoldsFile
  <2>. QED  BY <2>1, <2>2 DEF FilesApart, OwnersApart
<1>9. /\ buffer'[p] = << >>
      /\ \A q \in Path \ {p} : buffer'[q] = buffer[q]
  BY <1>3, <1>8 DEF Create
<1>. HIDE <1>0
<1>10. StagesOnce'
  BY <1>5 DEF FilesApart, StagesOnce, Stage
<1>11. OneInDirectory'
  BY <1>5 DEF FilesApart, OneInDirectory, Stage, Create, DirectoryFree
<1>12. OwnersApart'
  <2>1. data' = want'
    BY <1>3, <1>7
  <2>2. ASSUME NEW q \in Path PROVE own'[q] # NoFile => names'[q] # NoFile
    BY <1>6, <1>3, <1>4 DEF FilesApart, OwnersApart
  <2>3. ASSUME NEW q \in Path, NEW z \in Path, own'[q] = own'[z], own'[q] # NoFile PROVE q = z
    BY <1>6, <1>4, <2>3 DEF FilesApart, OwnersApart
  <2>4. ASSUME NEW q \in Path, buffer'[q] # NoBuffer
        PROVE  \E u \in Threads : Writing(u)' /\ req'[u].path = q
    <3>1. CASE q = p
      BY <1>5, <3>1 DEF Writing, Stage
    <3>2. CASE q # p
      <4>1. PICK u \in Threads : Writing(u) /\ req[u].path = q
        BY <1>9, <2>4, <3>2 DEF FilesApart, OwnersApart
      <4>2. u # t
        BY <1>5, <4>1 DEF Writing
      <4>. QED  BY <1>5, <4>1, <4>2 DEF Writing, Stage
    <3>. QED  BY <3>1, <3>2
  <2>. QED  BY <2>1, <2>2, <2>3, <2>4 DEF OwnersApart
<1>13. ASSUME NEW u \in Threads PROVE HandleApart(u)'
  <2>1. CASE u = t
    BY <1>4, <1>5, <1>6, <2>1 DEF HandleApart, HoldsFile, Writing, InRelease, Stage
  <2>2. CASE u # t
    <3>1. HandleApart(u) /\ req[u].inode # i
      BY <1>4 DEF FilesApart
    <3>. QED  BY <1>5, <1>6, <2>2, <3>1 DEF HandleApart, HoldsFile, Writing, InRelease, Stage
  <2>. QED  BY <2>1, <2>2
<1>14. ASSUME NEW u \in Threads PROVE WriterSound(u)'
  <2>1. CASE u = t
    BY <1>3, <1>4, <1>5, <1>6, <1>9, <2>1 DEF WriterSound, Writing, InUnlink, Stage, Create, DirectoryFree
  <2>2. CASE u # t
    <3>1. WriterSound(u)
      BY DEF FilesApart
    <3>2. Writing(u) => req[u].path # p
      BY <1>3, <1>8, <3>1 DEF WriterSound, FilesApart, HandleApart, HoldsFile
    <3>3. Writing(u) => req[u].path \in Path
      BY DEF FilesApart, HandleApart, HoldsFile
    <3>. QED  BY <1>3, <1>5, <1>6, <1>9, <2>2, <3>1, <3>2, <3>3 DEF WriterSound, Writing, InUnlink, Stage
  <2>. QED  BY <2>1, <2>2
<1>15. ASSUME NEW u \in Threads PROVE ReleaseSound(u)'
  BY <1>3, <1>5 DEF FilesApart, ReleaseSound, InRelease, Stage
<1>16. ASSUME NEW u \in Threads PROVE UnlinkSound(u)'
  <2>1. UnlinkSound(u) /\ ~InUnlink(u)
    BY DEF FilesApart, Create, DirectoryFree, InUnlink
  <2>. QED  BY <1>5, <2>1 DEF UnlinkSound, InUnlink, InLookup, Stage
<1>. QED  BY <1>10, <1>11, <1>12, <1>13, <1>14, <1>15, <1>16 DEF FilesApart

\* The chunk is in the buffer before it is in the file.
LEMMA HashChunkKeepsApart ==
    ASSUME FilesIInv, FilesApart, NEW t \in Threads, NEW c \in Chunk, HashChunk(t, c)
    PROVE  FilesApart'
<1>. DEFINE p == req[t].path
<1>0. /\ req \in [Threads -> Request] /\ buffer \in [Path -> Contents \cup {NoBuffer}]
      /\ Gone \notin Path /\ NoBuffer \notin Contents /\ want \in [Inode -> Contents]
  BY FilesAssumption DEF FilesIInv, FilesTypeOK
<1>1. Stage(t) = "open" /\ HandleApart(t) /\ WriterSound(t)
  BY DEF HashChunk, At, FilesApart
<1>2. /\ p \in Path /\ req[t].inode \in Inode
      /\ buffer[p] = want[req[t].inode]
  BY <1>1 DEF HandleApart, WriterSound, Writing, HoldsFile, Stage
<1>3. buffer' = [buffer EXCEPT ![p] = Append(want[req[t].inode], c)]
  <2>1. p # Gone /\ buffer[p] # NoBuffer
    BY <1>0, <1>2
  <2>. QED  BY <1>2, <2>1 DEF HashChunk
<1>4. /\ req'[t].stage = "pwrite" /\ req'[t].path = p /\ req'[t].inode = req[t].inode
      /\ req'[t].file = req[t].file /\ req'[t].chunk = c
      /\ \A u \in Threads \ {t} : req'[u] = req[u]
  BY <1>0 DEF HashChunk, Request
<1>5. UNCHANGED <<names, tmp, data, own, want>>
  BY DEF HashChunk, disk
<1>6. \A q \in Path \ {p} : buffer'[q] = buffer[q]
  BY <1>0, <1>3
<1>7. buffer'[p] = Append(want[req[t].inode], c)
  BY <1>0, <1>2, <1>3
<1>8. StagesOnce' /\ OneInDirectory'
  BY <1>1, <1>4 DEF FilesApart, StagesOnce, OneInDirectory, Stage
<1>9. OwnersApart'
  <2>1. ASSUME NEW q \in Path, buffer'[q] # NoBuffer
        PROVE  \E u \in Threads : Writing(u)' /\ req'[u].path = q
    <3>1. CASE q = p
      BY <1>4, <3>1 DEF Writing, Stage
    <3>2. CASE q # p
      <4>1. PICK u \in Threads : Writing(u) /\ req[u].path = q
        BY <1>6, <2>1, <3>2 DEF FilesApart, OwnersApart
      <4>. QED  BY <1>4, <3>2, <4>1 DEF Writing, Stage
    <3>. QED  BY <3>1, <3>2
  <2>. QED  BY <1>5, <2>1 DEF FilesApart, OwnersApart
<1>10. ASSUME NEW u \in Threads PROVE HandleApart(u)'
  BY <1>1, <1>4, <1>5 DEF FilesApart, HandleApart, HoldsFile, Writing, InRelease, Stage
<1>11. ASSUME NEW u \in Threads PROVE WriterSound(u)'
  <2>1. CASE u = t
    BY <1>1, <1>4, <1>5, <1>7, <2>1 DEF WriterSound, Writing, InUnlink, Stage
  <2>2. CASE u # t
    <3>1. WriterSound(u)
      BY DEF FilesApart
    <3>2. Writing(u) => req[u].path # p /\ req[u].path \in Path
      BY <1>1, <2>2, <3>1 DEF WriterSound, FilesApart, HandleApart, HoldsFile, Writing
    <3>. QED  BY <1>1, <1>4, <1>5, <1>6, <2>2, <3>1, <3>2 DEF WriterSound, Writing, InUnlink, Stage
  <2>. QED  BY <2>1, <2>2
<1>12. ASSUME NEW u \in Threads PROVE ReleaseSound(u)' /\ UnlinkSound(u)'
  BY <1>1, <1>4, <1>5 DEF FilesApart, ReleaseSound, UnlinkSound, InRelease, InUnlink, InLookup, Stage
<1>. QED  BY <1>8, <1>9, <1>10, <1>11, <1>12 DEF FilesApart

\* Pwrite at the end of a file appends to it.
LEMMA PatchedAppends ==
    ASSUME NEW s \in Contents, NEW c \in Chunk
    PROVE  Patched(s, Len(s), c) = Append(s, c)
<1>1. PICK n \in 0..MaxWrites : n = Len(s) /\ s \in [1..n -> Chunk] /\ s \in Seq(Chunk)
  BY ContentsAreSequences
<1>2. n \in Nat
  BY <1>1, FilesAssumption
<1>3. Patched(s, n, c) = [k \in 1..(n + 1) |-> IF k = n + 1 THEN c ELSE s[k]]
  BY <1>1, <1>2 DEF Patched
<1>4. Patched(s, n, c) \in Seq(Chunk) /\ Len(Patched(s, n, c)) = n + 1
  BY <1>1, <1>2, <1>3
<1>5. Append(s, c) \in Seq(Chunk) /\ Len(Append(s, c)) = n + 1
  BY <1>1, AppendProperties
<1>6. ASSUME NEW k \in 1..(n + 1) PROVE Append(s, c)[k] = Patched(s, n, c)[k]
  <2>1. CASE k = n + 1
    BY <1>1, <1>3, <2>1, AppendProperties
  <2>2. CASE k # n + 1
    <3>1. k \in 1..Len(s)
      BY <1>1, <1>2, <2>2
    <3>. QED  BY <1>1, <1>3, <2>2, <3>1, AppendProperties
  <2>. QED  BY <2>1, <2>2
<1>. QED  BY <1>1, <1>4, <1>5, <1>6, SeqEqual

\* The chunk goes where the client means it to, at the end of its own file.
LEMMA PwriteChunkKeepsApart ==
    ASSUME OnceWorkload, FilesIInv, FilesApart, NEW t \in Threads, NEW off \in 0..MaxWrites,
           PwriteChunk(t, off)
    PROVE  FilesApart'
<1>. DEFINE p == req[t].path  i == req[t].inode
<1>0. /\ req \in [Threads -> Request] /\ want \in [Inode -> Contents] /\ data = want
  BY DEF FilesIInv, FilesTypeOK, FilesApart, OwnersApart
<1>1. Stage(t) = "pwrite" /\ HandleApart(t) /\ WriterSound(t) /\ RequestSound(req[t])
  BY DEF PwriteChunk, At, FilesApart, FilesIInv, StageSound
<1>2. /\ p \in Path /\ i \in Inode /\ req[t].file = i /\ req[t].chunk \in Chunk /\ own[p] = i
      /\ buffer[p] = Append(want[i], req[t].chunk)
      /\ \A q \in Path : own[q] = i => q = p
  BY <1>1 DEF HandleApart, WriterSound, Writing, HoldsFile, Stage, RequestSound
<1>3. want' = [want EXCEPT ![i] = Append(want[i], req[t].chunk)] /\ data' = want'
  <2>1. off = Len(want[i])
    BY <1>0 DEF PwriteChunk, OnceWorkload, WrittenOnce
  <2>. QED  BY <1>0, <1>2, <2>1, PatchedAppends DEF PwriteChunk
<1>4. /\ req'[t].stage = "open" /\ req'[t].path = p /\ req'[t].inode = i
      /\ req'[t].file = req[t].file
      /\ \A u \in Threads \ {t} : req'[u] = req[u]
  BY <1>0 DEF PwriteChunk, Goto, Request
<1>5. UNCHANGED <<names, tmp, buffer, own>>
  BY DEF PwriteChunk
<1>6. \A j \in Inode \ {i} : want'[j] = want[j]
  BY <1>0, <1>3
<1>7. want'[i] = buffer[p]
  BY <1>0, <1>2, <1>3
<1>8. StagesOnce' /\ OneInDirectory'
  BY <1>1, <1>4 DEF FilesApart, StagesOnce, OneInDirectory, Stage
<1>9. OwnersApart'
  <2>1. ASSUME NEW u \in Threads, Writing(u) PROVE Writing(u)' /\ req'[u].path = req[u].path
    BY <1>4, <2>1 DEF Writing, Stage
  <2>. QED  BY <1>3, <1>5, <2>1 DEF FilesApart, OwnersApart
<1>10. ASSUME NEW u \in Threads PROVE HandleApart(u)'
  BY <1>1, <1>4, <1>5 DEF FilesApart, HandleApart, HoldsFile, Writing, InRelease, Stage
<1>11. ASSUME NEW u \in Threads, u # t, HoldsFile(u) PROVE req[u].inode \in Inode \ {i}
  BY <1>1, <1>11 DEF FilesApart, HandleApart, HoldsFile, Writing
<1>12. ASSUME NEW u \in Threads PROVE WriterSound(u)'
  <2>1. CASE u = t
    BY <1>1, <1>2, <1>4, <1>5, <1>7, <2>1 DEF WriterSound, Writing, InUnlink, Stage
  <2>2. CASE u # t
    <3>1. WriterSound(u)
      BY DEF FilesApart
    <3>. QED  BY <1>1, <1>4, <1>5, <1>6, <1>11, <2>2, <3>1 DEF WriterSound, Writing, HoldsFile, InUnlink, Stage
  <2>. QED  BY <2>1, <2>2
<1>13. ASSUME NEW u \in Threads PROVE ReleaseSound(u)'
  BY <1>1, <1>4, <1>5, <1>6, <1>11 DEF FilesApart, ReleaseSound, HoldsFile, InRelease, Stage
<1>14. ASSUME NEW u \in Threads PROVE UnlinkSound(u)'
  BY <1>1, <1>4, <1>5 DEF FilesApart, UnlinkSound, InUnlink, InLookup, Stage
<1>. QED  BY <1>8, <1>9, <1>10, <1>12, <1>13, <1>14 DEF FilesApart

\* The buffer that Release takes holds the whole file.
LEMMA TakeBufferKeepsApart ==
    ASSUME FilesIInv, FilesApart, NEW t \in Threads, TakeBuffer(t)
    PROVE  FilesApart'
<1>. DEFINE p == req[t].path  i == req[t].inode
<1>0. /\ req \in [Threads -> Request] /\ buffer \in [Path -> Contents \cup {NoBuffer}]
      /\ Gone \notin Path /\ NoBuffer \notin Contents /\ want \in [Inode -> Contents]
  BY FilesAssumption DEF FilesIInv, FilesTypeOK
<1>1. Stage(t) = "open" /\ HandleApart(t) /\ WriterSound(t)
  BY DEF TakeBuffer, At, FilesApart
<1>2. p \in Path /\ i \in Inode /\ buffer[p] = want[i]
  BY <1>1 DEF HandleApart, WriterSound, Writing, HoldsFile, Stage
<1>3. buffer' = [buffer EXCEPT ![p] = NoBuffer]
  BY <1>0, <1>2 DEF TakeBuffer
<1>4. /\ req'[t].stage = "released" /\ req'[t].path = p /\ req'[t].inode = i
      /\ req'[t].file = req[t].file /\ req'[t].hash = want[i] /\ req'[t].to = p
      /\ \A u \in Threads \ {t} : req'[u] = req[u]
  BY <1>0, <1>2 DEF TakeBuffer, Request
<1>5. UNCHANGED <<names, tmp, data, own, want>>
  BY DEF TakeBuffer, disk, clients
<1>6. /\ \A q \in Path \ {p} : buffer'[q] = buffer[q]
      /\ buffer'[p] = NoBuffer
  BY <1>0, <1>2, <1>3
<1>7. StagesOnce' /\ OneInDirectory'
  BY <1>1, <1>4 DEF FilesApart, StagesOnce, OneInDirectory, Stage
<1>8. OwnersApart'
  <2>1. ASSUME NEW q \in Path, buffer'[q] # NoBuffer
        PROVE  \E u \in Threads : Writing(u)' /\ req'[u].path = q
    <3>1. PICK u \in Threads : Writing(u) /\ req[u].path = q
      BY <1>6, <2>1 DEF FilesApart, OwnersApart
    <3>2. u # t
      BY <1>6, <2>1, <3>1
    <3>. QED  BY <1>4, <3>1, <3>2 DEF Writing, Stage
  <2>. QED  BY <1>5, <2>1 DEF FilesApart, OwnersApart
<1>9. ASSUME NEW u \in Threads PROVE HandleApart(u)'
  BY <1>1, <1>4, <1>5 DEF FilesApart, HandleApart, HoldsFile, Writing, InRelease, Stage
<1>10. ASSUME NEW u \in Threads PROVE WriterSound(u)'
  <2>1. CASE u = t
    BY <1>4, <2>1 DEF WriterSound, Writing, Stage
  <2>2. CASE u # t
    <3>1. WriterSound(u)
      BY DEF FilesApart
    <3>2. Writing(u) => req[u].path # p /\ req[u].path \in Path
      BY <1>1, <2>2, <3>1 DEF WriterSound, FilesApart, HandleApart, HoldsFile, Writing
    <3>. QED  BY <1>1, <1>4, <1>5, <1>6, <2>2, <3>1, <3>2 DEF WriterSound, Writing, InUnlink, Stage
  <2>. QED  BY <2>1, <2>2
<1>11. ASSUME NEW u \in Threads PROVE ReleaseSound(u)' /\ UnlinkSound(u)'
  BY <1>1, <1>4, <1>5 DEF FilesApart, ReleaseSound, UnlinkSound, InRelease, InUnlink, InLookup, Stage
<1>. QED  BY <1>7, <1>8, <1>9, <1>10, <1>11 DEF FilesApart

\* One temporary name is there for one Release at a time.
LEMMA LinkOriginalKeepsApart ==
    ASSUME FilesIInv, FilesApart, NEW t \in Threads, LinkOriginal(t)
    PROVE  FilesApart'
<1>. DEFINE p == req[t].path
<1>0. req \in [Threads -> Request] /\ tmp \in [Path -> Inode \cup {NoFile}]
  BY DEF FilesIInv, FilesTypeOK
<1>1. Stage(t) = "link" /\ HandleApart(t) /\ ReleaseSound(t)
  BY DEF LinkOriginal, At, FilesApart
<1>2. p \in Path /\ req[t].to = p
  BY <1>1 DEF HandleApart, ReleaseSound, InRelease, HoldsFile, Stage
<1>3. PICK i : i # NoFile /\ tmp' = [tmp EXCEPT ![p] = i] /\ tmp[p] = NoFile
  BY <1>2 DEF LinkOriginal, CanLink, Exists
<1>4. /\ req'[t].stage = "swap" /\ req'[t].path = p /\ req'[t].inode = req[t].inode
      /\ req'[t].file = req[t].file /\ req'[t].hash = req[t].hash /\ req'[t].to = req[t].to
      /\ \A u \in Threads \ {t} : req'[u] = req[u]
  BY <1>0, <1>2 DEF LinkOriginal, Goto, Request
<1>5. UNCHANGED <<names, buffer, data, own, want>>
  BY DEF LinkOriginal, clients
<1>6. /\ \A q \in Path \ {p} : tmp'[q] = tmp[q]
      /\ tmp'[p] # NoFile
  BY <1>0, <1>2, <1>3
<1>7. StagesOnce' /\ OneInDirectory'
  BY <1>1, <1>4 DEF FilesApart, StagesOnce, OneInDirectory, Stage
<1>8. OwnersApart'
  <2>1. ASSUME NEW u \in Threads, Writing(u) PROVE Writing(u)' /\ req'[u].path = req[u].path
    BY <1>1, <1>4, <2>1 DEF Writing, Stage
  <2>. QED  BY <1>5, <2>1 DEF FilesApart, OwnersApart
<1>9. ASSUME NEW u \in Threads PROVE HandleApart(u)'
  BY <1>1, <1>4, <1>5 DEF FilesApart, HandleApart, HoldsFile, Writing, InRelease, Stage
<1>10. ASSUME NEW u \in Threads PROVE WriterSound(u)' /\ UnlinkSound(u)'
  BY <1>1, <1>4, <1>5 DEF FilesApart, WriterSound, UnlinkSound, Writing, InUnlink, InLookup, Stage
<1>11. ASSUME NEW u \in Threads PROVE ReleaseSound(u)'
  <2>1. ASSUME NEW v \in Threads, Stage(v) = "swap" PROVE req[v].path \in Path \ {p}
    BY <1>3, <2>1 DEF FilesApart, HandleApart, HoldsFile, ReleaseSound, InRelease, Stage
  <2>2. CASE u = t
    BY <1>1, <1>4, <1>5, <1>6, <2>1, <2>2 DEF ReleaseSound, InRelease, Stage
  <2>3. CASE u # t
    <3>1. ReleaseSound(u)
      BY DEF FilesApart
    <3>. QED  BY <1>4, <1>5, <1>6, <2>1, <2>3, <3>1 DEF ReleaseSound, InRelease, Stage
  <2>. QED  BY <2>2, <2>3
<1>. QED  BY <1>7, <1>8, <1>9, <1>10, <1>11 DEF FilesApart

\* The link a Release moves into place is not a file of a client's.
LEMMA SwapKeepsApart ==
    ASSUME FilesIInv, FilesApart, NEW t \in Threads, SwapInDuplicate(t)
    PROVE  FilesApart'
<1>. DEFINE p == req[t].path
<1>0. /\ req \in [Threads -> Request] /\ tmp \in [Path -> Inode \cup {NoFile}]
      /\ names \in [Path -> Inode \cup {NoFile}]
  BY DEF FilesIInv, FilesTypeOK
<1>1. Stage(t) = "swap" /\ HandleApart(t) /\ ReleaseSound(t)
  BY DEF SwapInDuplicate, At, FilesApart
<1>2. p \in Path /\ req[t].to = p /\ tmp[p] # NoFile
  BY <1>1 DEF HandleApart, ReleaseSound, InRelease, HoldsFile, Stage
<1>3. /\ names'[p] = tmp[p]
      /\ \A q \in Path \ {p} : names'[q] = names[q] /\ tmp'[q] = tmp[q]
      /\ UNCHANGED <<data, buffer, own, want>>
  BY <1>0, <1>2 DEF SwapInDuplicate, disk, clients
<1>4. /\ req'[t].stage = "fill" /\ req'[t].path = p /\ req'[t].inode = req[t].inode
      /\ req'[t].file = req[t].file /\ req'[t].hash = req[t].hash /\ req'[t].to = req[t].to
      /\ \A u \in Threads \ {t} : req'[u] = req[u]
  BY <1>0, <1>2 DEF SwapInDuplicate, Goto, Request
<1>5. StagesOnce' /\ OneInDirectory'
  BY <1>1, <1>4 DEF FilesApart, StagesOnce, OneInDirectory, Stage
<1>6. OwnersApart'
  <2>1. ASSUME NEW u \in Threads, Writing(u) PROVE Writing(u)' /\ req'[u].path = req[u].path
    BY <1>1, <1>4, <2>1 DEF Writing, Stage
  <2>2. ASSUME NEW q \in Path, own[q] # NoFile PROVE names'[q] # NoFile
    BY <1>2, <1>3, <2>2 DEF FilesApart, OwnersApart
  <2>. QED  BY <1>3, <2>1, <2>2 DEF FilesApart, OwnersApart
<1>7. ASSUME NEW u \in Threads PROVE HandleApart(u)'
  BY <1>1, <1>3, <1>4 DEF FilesApart, HandleApart, HoldsFile, Writing, InRelease, Stage
<1>8. ASSUME NEW u \in Threads PROVE WriterSound(u)' /\ UnlinkSound(u)'
  BY <1>1, <1>3, <1>4 DEF FilesApart, WriterSound, UnlinkSound, Writing, InUnlink, InLookup, Stage
<1>9. ASSUME NEW u \in Threads PROVE ReleaseSound(u)'
  <2>1. ReleaseSound(u) /\ (Stage(u) = "swap" => req[u].path \in Path)
    BY DEF FilesApart, HandleApart, HoldsFile, InRelease
  <2>2. Stage(u) = "swap" /\ u # t => req[u].path # p
    BY <1>1, <2>1 DEF ReleaseSound, InRelease
  <2>. QED  BY <1>1, <1>3, <1>4, <2>1, <2>2 DEF ReleaseSound, InRelease, Stage
<1>. QED  BY <1>5, <1>6, <1>7, <1>8, <1>9 DEF FilesApart

\* No handle is open on the file that goes.
LEMMA UnlinkFileKeepsApart ==
    ASSUME FilesIInv, FilesApart, NEW t \in Threads, UnlinkFile(t)
    PROVE  FilesApart'
<1>. DEFINE p == req[t].path
<1>0. /\ req \in [Threads -> Request] /\ own \in [Path -> Inode \cup {NoFile}]
      /\ names \in [Path -> Inode \cup {NoFile}] /\ NoFile \notin Inode
  BY FilesAssumption DEF FilesIInv, FilesTypeOK
<1>1. Stage(t) = "unlink" /\ p \in Path
  BY RequestAt DEF UnlinkFile, At, RequestSound
<1>2. /\ names'[p] = NoFile /\ own'[p] = NoFile
      /\ \A q \in Path \ {p} : names'[q] = names[q] /\ own'[q] = own[q]
      /\ UNCHANGED <<tmp, data, buffer, want>>
  BY <1>0, <1>1 DEF UnlinkFile
<1>3. PICK stage \in {"forget", "unlinking"} : Goto(t, stage)
  BY DEF UnlinkFile
<1>4. /\ req'[t].stage = stage /\ req'[t].path = p
      /\ req'[t].hash = req[t].hash /\ req'[t].info = req[t].info /\ req'[t].to = req[t].to
      /\ \A u \in Threads \ {t} : req'[u] = req[u]
  BY <1>0, <1>3 DEF Goto, Request
<1>5. StagesOnce' /\ OneInDirectory'
  BY <1>1, <1>4 DEF FilesApart, StagesOnce, OneInDirectory, Stage
<1>6. OwnersApart'
  <2>1. ASSUME NEW u \in Threads, Writing(u) PROVE Writing(u)' /\ req'[u].path = req[u].path
    BY <1>1, <1>4, <2>1 DEF Writing, Stage
  <2>2. ASSUME NEW q \in Path, own'[q] # NoFile PROVE q # p /\ names'[q] # NoFile
    BY <1>2, <2>2 DEF FilesApart, OwnersApart
  <2>. QED  BY <1>2, <2>1, <2>2 DEF FilesApart, OwnersApart
<1>7. ASSUME NEW u \in Threads PROVE HandleApart(u)'
  <2>1. HandleApart(u)
    BY DEF FilesApart
  <2>2. HoldsFile(u)' => HoldsFile(u) /\ u # t
    BY <1>4 DEF HoldsFile, Writing, InRelease, Stage
  <2>. QED  BY <1>0, <1>1, <1>2, <1>4, <2>1, <2>2 DEF HandleApart, HoldsFile, Writing, InRelease, Stage
<1>8. ASSUME NEW u \in Threads PROVE WriterSound(u)'
  <2>1. WriterSound(u) /\ HandleApart(u)
    BY DEF FilesApart
  <2>2. Writing(u) => req[u].path \in Path \ {p}
    BY <1>1, <2>1 DEF WriterSound, HandleApart, HoldsFile, InUnlink
  <2>. QED  BY <1>1, <1>2, <1>4, <2>1, <2>2 DEF WriterSound, Writing, InUnlink, Stage
<1>9. ASSUME NEW u \in Threads PROVE ReleaseSound(u)'
  BY <1>1, <1>2, <1>4 DEF FilesApart, ReleaseSound, InRelease, Stage
<1>10. ASSUME NEW u \in Threads PROVE UnlinkSound(u)'
  <2>1. UnlinkSound(u) /\ (Stage(u) = "unlink" => u = t)
    BY <1>1 DEF FilesApart, OneInDirectory
  <2>. QED  BY <1>1, <1>4, <2>1 DEF UnlinkSound, InUnlink, InLookup, Stage
<1>. QED  BY <1>5, <1>6, <1>7, <1>8, <1>9, <1>10 DEF FilesApart

-----------------------------------------------------------------------------
(* The first part, for all steps.                                           *)

\* The steps of clients that write each file once.
OnceStep(t) ==
    \/ \E p \in Path : Create(t, p) \/ LookupBegin(t, p) \/ UnlinkBegin(t, p)
    \/ \E c \in Chunk : HashChunk(t, c)
    \/ \E off \in 0..MaxWrites : PwriteChunk(t, off)
    \/ ReleaseStep(t)
    \/ CreateStoresInfo(t)
    \/ LookupReadsInfo(t)
    \/ LookupStoresInfo(t)
    \/ LookupFills(t)
    \/ UnlinkFile(t)
    \/ UnlinkRemoves(t)
    \/ UnlinkForgets(t)

\* These clients take no step of Open, Link or Rename.
LEMMA StepsAreOnceSteps ==
    ASSUME OnceWorkload, FilesApart, FilesNext
    PROVE  \E t \in Threads : OnceStep(t)
<1>1. PICK t \in Threads : ClientStep(t) \/ ReleaseStep(t) \/ NamespaceStep(t)
  BY DEF FilesNext
<1>2. ASSUME ClientStep(t) PROVE OnceStep(t)
  BY <1>2 DEF ClientStep, OnceStep, OnceWorkload, WrittenOnce, Open, LinkBegin, RenameBegin
<1>3. ASSUME NamespaceStep(t) PROVE OnceStep(t)
  BY <1>3 DEF NamespaceStep, OnceStep, FilesApart, StagesOnce, At, LinkStoresInfo, RenameFile,
     RenameRemovesInfo, RenameStoresInfo
<1>. QED  BY <1>1, <1>2, <1>3 DEF OnceStep

\* Initially no request has a file.
LEMMA InitIsApart == FilesInit => FilesApart
<1>. SUFFICES ASSUME FilesInit PROVE FilesApart
  OBVIOUS
<1>1. \A t \in Threads : req[t].stage = "idle"
  BY DEF FilesInit, Blank
<1>. QED  BY <1>1 DEF FilesInit, FilesApart, StagesOnce, OneInDirectory, OwnersApart, HandleApart,
     WriterSound, ReleaseSound, UnlinkSound, HoldsFile, Writing, InRelease, InUnlink, InLookup, Stage

\* Every step keeps every handle the only one on its inode and its file.
LEMMA FilesNextKeepsApart ==
    ASSUME OnceWorkload, FilesIInv, FilesApart, [FilesNext]_filesVars
    PROVE  FilesApart'
<1>1. CASE UNCHANGED filesVars
  BY <1>1, UnchangedKeepsApart DEF filesVars, disk, clients, SameFiles
<1>2. CASE FilesNext
  <2>1. PICK t \in Threads : OnceStep(t)
    BY <1>2, StepsAreOnceSteps
  <2>2. ASSUME ReleaseStep(t) PROVE FilesApart'
    BY <2>2, QuietReleaseKeepsApart, TakeBufferKeepsApart, LinkOriginalKeepsApart, SwapKeepsApart
       DEF ReleaseStep
  <2>. QED  BY <2>1, <2>2, CreateKeepsApart, HashChunkKeepsApart, PwriteChunkKeepsApart,
            UnlinkFileKeepsApart, QuietOthersKeepApart DEF OnceStep
<1>. QED  BY <1>1, <1>2

-----------------------------------------------------------------------------
(* Meetings.                                                                *)

\* The other requests are where they were in the store.
OthersWait(t) ==
    \A u \in Threads \ {t} :
        pc'[u] = pc[u] /\ hashArg'[u] = hashArg[u] /\ refArg'[u] = refArg[u]

\* A request engages on nothing new.
StaysEngaged(t) ==
    /\ t \in Engaged' =>
          t \in Engaged /\ req'[t].hash = req[t].hash /\ req'[t].path = req[t].path
    /\ InRelease(t)' => InRelease(t)
    /\ InLookup(t)' => InLookup(t) /\ req'[t].path = req[t].path

\* An engaged request calls the store on its own hash: whoever is there already
\* has met it.
LEMMA MetInStore ==
    ASSUME FilesIInv, Meetings, NEW t \in Engaged, ~Busy(t), NEW h, h = req[t].hash,
           contended' = IF WorkingOn(h) = {} THEN contended ELSE contended \cup {h}
    PROVE  contended' \subseteq overlap
<1>1. CASE WorkingOn(h) = {}
  BY <1>1 DEF Meetings
<1>2. CASE WorkingOn(h) # {}
  <2>1. PICK u \in Threads : Busy(u) /\ hashArg[u] = h
    BY <1>2 DEF WorkingOn
  <2>2. u # t /\ u \in Engaged /\ req[u].hash = h
    BY <2>1 DEF Meetings, StoreCallSound, Engaged
  <2>3. h \in overlap
    BY <2>2 DEF Meetings, EngagedApart
  <2>. QED  BY <1>2, <2>3 DEF Meetings
<1>. QED  BY <1>1, <1>2

\* A request that engages on nothing new meets nobody new.
LEMMA MeetingsKept ==
    ASSUME Meetings, NEW t \in Threads, OthersKept(t), OthersWait(t), StaysEngaged(t),
           overlap' = overlap, contended' \subseteq overlap, StoreCallSound(t)'
    PROVE  Meetings'
<1>1. ASSUME NEW u \in Engaged'
      PROVE  u \in Engaged /\ req'[u].hash = req[u].hash /\ req'[u].path = req[u].path
  BY <1>1 DEF OthersKept, StaysEngaged, Engaged, Stage
<1>2. EngagedApart'
  BY <1>1 DEF Meetings, EngagedApart
<1>6. LookupsApart'
  <2>1. ASSUME NEW u \in Threads, InLookup(u)' PROVE InLookup(u) /\ req'[u].path = req[u].path
    BY <2>1 DEF OthersKept, StaysEngaged, InLookup, Stage
  <2>. QED  BY <1>1, <2>1 DEF Meetings, LookupsApart
<1>3. ASSUME NEW u \in Threads, InRelease(u)'
      PROVE  InRelease(u) /\ req'[u].hash = req[u].hash /\ req'[u].path = req[u].path
  <2>1. u \in Engaged' /\ InRelease(u)
    BY <1>3 DEF OthersKept, StaysEngaged, Engaged, InRelease, InLookup, Stage
  <2>. QED  BY <1>1, <2>1
<1>4. CalmHashCalmPath'
  BY <1>3 DEF Meetings, CalmHashCalmPath, Calm
<1>5. ASSUME NEW u \in Threads PROVE StoreCallSound(u)'
  BY DEF Meetings, OthersKept, OthersWait, StoreCallSound, Stage, Busy
<1>. QED  BY <1>2, <1>4, <1>5, <1>6 DEF Meetings

\* A request engages on a hash and a path: overlap learns what it meets there.
LEMMA MeetingsBegin ==
    ASSUME FilesIInv, FilesApart, Meetings, NEW t \in Threads, OthersKept(t),
           t \notin Engaged, ~InLookup(t)', NEW h \in AllHash, NEW p \in Path,
           req'[t].hash = h, req'[t].path = p,
           Overlapping(h, p) \subseteq overlap',
           overlap' \subseteq Overlapping(h, p) \cup {h},
           InRelease(t)' /\ p \in overlap => h \in overlap',
           UNCHANGED vars, ~Busy(t), Stage(t)' \notin {"storing", "dropping", "unlinking"}
    PROVE  Meetings'
<1>1. \A u \in Engaged : u # t /\ u \in Threads /\ req[u].path \in Path /\ req[u].hash \in AllHash
  BY DEF Engaged, FilesIInv, FilesTypeOK, StageSound, RequestSound, Request, FilesApart, HandleApart,
     HoldsFile, InRelease, Stage
<1>2. ASSUME NEW u \in Threads, u # t, u \in Engaged' PROVE u \in Engaged /\ req'[u] = req[u]
  BY <1>2 DEF OthersKept, Engaged, Stage
<1>3. overlap \subseteq overlap'
  BY DEF Overlapping
<1>4. ASSUME NEW u \in Engaged, req[u].hash = h PROVE h \in overlap'
  BY <1>1, <1>4 DEF Overlapping
<1>5. ASSUME NEW u \in Engaged, req[u].path = p PROVE {h, p, req[u].hash} \subseteq overlap'
  BY <1>1, <1>5 DEF Overlapping, On
<1>0. ASSUME NEW u \in Threads, InLookup(u), req[u].path = p PROVE {h, p} \subseteq overlap'
  BY <1>0 DEF Overlapping, On
<1>11. LookupsApart'
  <2>. SUFFICES ASSUME NEW u \in Engaged', NEW v \in Threads, InLookup(v)', req'[u].path = req'[v].path
                PROVE  {req'[u].path, req'[u].hash} \subseteq overlap'
    BY DEF LookupsApart
  <2>1. u \in Threads /\ v # t /\ InLookup(v) /\ req'[v] = req[v]
    BY DEF Engaged, OthersKept, InLookup, Stage
  <2>2. CASE u = t
    BY <1>0, <2>1, <2>2
  <2>3. CASE u # t
    BY <1>2, <1>3, <2>1, <2>3 DEF Meetings, LookupsApart
  <2>. QED  BY <2>2, <2>3
<1>6. EngagedApart'
  <2>. SUFFICES ASSUME NEW u \in Engaged', NEW v \in Engaged', u # v
                PROVE  /\ req'[u].hash = req'[v].hash => req'[u].hash \in overlap'
                       /\ req'[u].path = req'[v].path =>
                             {req'[u].path, req'[u].hash} \subseteq overlap'
    BY DEF EngagedApart
  <2>0. u \in Threads /\ v \in Threads
    BY DEF Engaged
  <2>1. CASE u = t
    BY <1>2, <1>4, <1>5, <2>0, <2>1
  <2>2. CASE v = t
    BY <1>2, <1>4, <1>5, <2>0, <2>2
  <2>3. CASE u # t /\ v # t
    BY <1>2, <1>3, <2>0, <2>3 DEF Meetings, EngagedApart
  <2>. QED  BY <2>1, <2>2, <2>3
<1>7. Path \cap AllHash = {}
  BY HashesAreContents, FilesAssumption
<1>8. CalmHashCalmPath'
  <2>. SUFFICES ASSUME NEW u \in Threads, InRelease(u)', req'[u].path \in overlap'
                PROVE  req'[u].hash \in overlap'
    <3>1. ASSUME NEW u \in Threads, InRelease(u)' PROVE req'[u].path \in Path
      <4>1. CASE u = t
        BY <4>1
      <4>2. CASE u # t
        BY <1>1, <1>2, <3>1, <4>2 DEF InRelease, Engaged
      <4>. QED  BY <4>1, <4>2
    <3>. QED  BY <3>1 DEF CalmHashCalmPath, Calm
  <2>1. CASE u = t
    <3>1. \/ p \in overlap \/ \E v \in Engaged : req[v].path = p
          \/ \E v \in Threads : InLookup(v) /\ req[v].path = p
      <4>1. p \notin AllHash
        BY <1>7
      <4>2. p \in Overlapping(h, p)
        BY <2>1, <4>1
      <4>3. \/ p \in overlap \/ \E v \in Engaged : p \in {req[v].path, req[v].to}
            \/ \E v \in Threads : InLookup(v) /\ p \in {req[v].path, req[v].to}
        BY <1>1, <4>1, <4>2 DEF Overlapping, On
      <4>4. ASSUME NEW v \in Engaged, p = req[v].to PROVE req[v].path = p
        BY <4>4, FilesAssumption DEF Engaged, FilesApart, ReleaseSound, InRelease, UnlinkSound, InUnlink
      <4>5. ASSUME NEW v \in Threads, InLookup(v) PROVE req[v].to # p
        BY <4>5, FilesAssumption DEF FilesApart, UnlinkSound
      <4>. QED  BY <4>3, <4>4, <4>5
    <3>. QED  BY <1>0, <1>5, <2>1, <3>1
  <2>2. CASE u # t
    <3>0. u \in Engaged /\ req'[u] = req[u] /\ InRelease(u)
      BY <1>2, <2>2 DEF InRelease, Engaged, OthersKept, Stage
    <3>1. CASE req[u].path \in overlap
      BY <1>3, <3>0, <3>1, <1>1 DEF Meetings, CalmHashCalmPath, Calm
    <3>2. CASE req[u].path \notin overlap
      <4>1. req[u].path = p
        BY <1>1, <1>7, <3>0, <3>2 DEF Overlapping
      <4>. QED  BY <1>5, <3>0, <4>1
    <3>. QED  BY <3>1, <3>2
  <2>. QED  BY <2>1, <2>2
<1>9. ASSUME NEW u \in Threads PROVE StoreCallSound(u)'
  <2>1. CASE u = t
    BY <2>1 DEF StoreCallSound, Busy, vars, Stage
  <2>2. CASE u # t
    BY <2>2 DEF Meetings, OthersKept, StoreCallSound, Stage, Busy, vars, locals
  <2>. QED  BY <2>1, <2>2
<1>10. contended' \subseteq overlap'
  BY <1>3 DEF Meetings, vars
<1>. QED  BY <1>6, <1>8, <1>9, <1>10, <1>11 DEF Meetings

\* Steps outside the store.
LEMMA OutsideStoreKeepsMeetings ==
    ASSUME Meetings, NEW t \in Threads, OthersKept(t), StaysEngaged(t),
           UNCHANGED <<vars, overlap>>,
           Stage(t) \notin {"storing", "dropping", "unlinking"},
           Stage(t)' \notin {"storing", "dropping", "unlinking"}
    PROVE  Meetings'
<1>1. ~Busy(t)
  BY DEF Meetings, StoreCallSound
<1>2. StoreCallSound(t)' /\ OthersWait(t) /\ contended' \subseteq overlap
  BY <1>1 DEF StoreCallSound, Busy, vars, locals, OthersWait, Meetings, Stage
<1>. QED  BY <1>2, MeetingsKept

\* What Create, HashChunk, ... do to the request that runs them.
LEMMA HandlesKeepMeetings ==
    ASSUME FilesIInv, FilesApart, Meetings, NEW t \in Threads,
           \/ CreateStoresInfo(t) \/ LookupReadsInfo(t) \/ LookupStoresInfo(t) \/ LookupFills(t)
           \/ UnlinkForgets(t) \/ LinkOriginal(t)
           \/ \E p \in Path : Create(t, p)
           \/ \E c \in Chunk : HashChunk(t, c)
           \/ \E off \in 0..MaxWrites : PwriteChunk(t, off)
    PROVE  Meetings'
<1>0. req \in [Threads -> Request] /\ Blank.stage = "idle"
  BY DEF FilesIInv, FilesTypeOK, Blank
<1>1. UNCHANGED <<vars, overlap>>
  BY DEF CreateStoresInfo, LookupReadsInfo, LookupStoresInfo, LookupFills, UnlinkForgets, LinkOriginal,
     Create, HashChunk, PwriteChunk
<1>. USE DEF InLookup
<1>7. CASE FillsFromNil(t) /\ (CreateStoresInfo(t) \/ LookupFills(t))
  <2>1. Stage(t) \in {"create", "attr"} /\ req' = req
    BY <1>7 DEF CreateStoresInfo, LookupFills, At
  <2>. QED  BY <1>1, <2>1, OutsideStoreKeepsMeetings DEF OthersKept, StaysEngaged, Engaged, InRelease, InLookup, Stage
<1>8. CASE LookupReadsInfo(t)
  <2>1. Stage(t) = "stat" /\ OthersKept(t) /\ Stage(t)' \in {"look", "attr"} /\ req'[t].path = req[t].path
    BY <1>0, <1>8 DEF LookupReadsInfo, At, OthersKept, Stage, Request
  <2>. QED  BY <1>1, <2>1, OutsideStoreKeepsMeetings DEF StaysEngaged, Engaged, InRelease, InLookup
<1>2. CASE (~FillsFromNil(t) /\ CreateStoresInfo(t)) \/ \E off \in 0..MaxWrites : PwriteChunk(t, off)
  <2>1. Stage(t) \in {"create", "pwrite"} /\ Goto(t, "open")
    BY <1>2 DEF CreateStoresInfo, PwriteChunk, At
  <2>2. OthersKept(t) /\ Stage(t)' = "open"
    BY <1>0, <2>1 DEF OthersKept, Goto, Stage, Request
  <2>. QED  BY <1>1, <2>1, <2>2, OutsideStoreKeepsMeetings DEF StaysEngaged, Engaged, InRelease, InLookup
<1>3. CASE \E c \in Chunk : HashChunk(t, c)
  <2>0. PICK c \in Chunk : HashChunk(t, c)
    BY <1>3
  <2>1. Stage(t) = "open" /\ OthersKept(t) /\ Stage(t)' = "pwrite"
    BY <1>0, <2>0 DEF HashChunk, At, OthersKept, Stage, Request
  <2>. QED  BY <1>1, <2>1, OutsideStoreKeepsMeetings DEF StaysEngaged, Engaged, InRelease, InLookup
<1>4. CASE LookupStoresInfo(t) \/ UnlinkForgets(t) \/ (~FillsFromNil(t) /\ LookupFills(t))
  <2>1. Stage(t) \in {"look", "attr", "forget"} /\ OthersKept(t) /\ Stage(t)' = "idle"
    BY <1>0, <1>4, UnlinkForgetsAlone DEF LookupStoresInfo, LookupFills, UnlinkForgets, Return, At,
       OthersKept, Stage
  <2>. QED  BY <1>1, <2>1, OutsideStoreKeepsMeetings DEF StaysEngaged, Engaged, InRelease, InLookup
<1>5. CASE LinkOriginal(t)
  <2>1. /\ Stage(t) = "link" /\ OthersKept(t) /\ Stage(t)' = "swap"
        /\ req'[t].hash = req[t].hash /\ req'[t].path = req[t].path
    BY <1>0, <1>5 DEF LinkOriginal, Goto, At, OthersKept, Stage, Request
  <2>. QED  BY <1>1, <2>1, OutsideStoreKeepsMeetings DEF StaysEngaged, Engaged, InRelease, InLookup
<1>6. CASE \E p \in Path : Create(t, p)
  <2>1. PICK p \in Path, i \in Inode :
            /\ Stage(t) = "idle"
            /\ req' = [req EXCEPT ![t] =
                  [Blank EXCEPT !.stage = "create", !.path = p, !.inode = i, !.file = i,
                                !.info = InfoOf(p)]]
    BY <1>6 DEF Create, At, FreshInodes
  <2>2. OthersKept(t) /\ Stage(t)' = "create"
    BY <1>0, <2>1 DEF OthersKept, Stage, Blank
  <2>3. StaysEngaged(t)
    BY <2>2 DEF StaysEngaged, Engaged, InRelease, Stage
  <2>. QED  BY <1>1, <2>1, <2>2, <2>3, OutsideStoreKeepsMeetings
<1>. QED  BY <1>2, <1>3, <1>4, <1>5, <1>6, <1>7, <1>8

\* TakeBuffer, Lookup and Unlink engage.
LEMMA TakeBufferKeepsMeetings ==
    ASSUME FilesIInv, FilesApart, Meetings, NEW t \in Threads, TakeBuffer(t)
    PROVE  Meetings'
<1>. DEFINE p == req[t].path
            kept == IF p = Gone \/ buffer[p] = NoBuffer THEN << >> ELSE buffer[p]
<1>0. req \in [Threads -> Request] /\ Stage(t) = "open" /\ HandleApart(t) /\ UNCHANGED vars
  BY DEF FilesIInv, FilesTypeOK, FilesApart, TakeBuffer, At
<1>1. p \in Path
  BY <1>0 DEF HandleApart, HoldsFile, Writing
<1>2. kept \in AllHash
  BY <1>1, HashesAreContents DEF FilesIInv, FilesTypeOK
<1>3. /\ overlap' = Overlapping(kept, p) \cup (IF p \in overlap THEN {kept} ELSE {})
      /\ req' = [req EXCEPT ![t].stage = "released", ![t].to = p, ![t].hash = kept]
  BY DEF TakeBuffer
<1>. HIDE DEF kept
<1>4. /\ OthersKept(t) /\ Stage(t)' = "released"
      /\ req'[t].hash = kept /\ req'[t].path = p
  BY <1>0, <1>3 DEF OthersKept, Stage, Request
<1>5. t \notin Engaged /\ ~Busy(t) /\ ~InLookup(t)'
  BY <1>0, <1>4 DEF Engaged, Meetings, StoreCallSound, InLookup
<1>. QED  BY <1>0, <1>1, <1>2, <1>3, <1>4, <1>5, MeetingsBegin

\* Lookup engages on a path: what runs there has met it.
LEMMA LookupBeginKeepsMeetings ==
    ASSUME FilesIInv, FilesApart, Meetings, NEW t \in Threads, NEW p \in Path, LookupBegin(t, p)
    PROVE  Meetings'
<1>0. req \in [Threads -> Request] /\ Stage(t) = "idle" /\ UNCHANGED vars
  BY DEF FilesIInv, FilesTypeOK, LookupBegin, At
<1>. DEFINE r == [Blank EXCEPT !.stage = "stat", !.path = p]
<1>1. r.stage = "stat" /\ r.path = p
  BY DEF Blank
<1>2. req' = [req EXCEPT ![t] = r] /\ overlap' = LookupOverlapping(p)
  BY DEF LookupBegin
<1>. HIDE DEF r
<1>3. OthersKept(t) /\ Stage(t)' = "stat" /\ req'[t].path = p
  BY <1>0, <1>1, <1>2 DEF OthersKept, Stage
<1>4. ASSUME NEW u \in Threads
      PROVE  /\ u \in Engaged' => u # t /\ u \in Engaged
             /\ InRelease(u)' => u # t /\ InRelease(u) /\ u \in Engaged
             /\ u # t => req'[u] = req[u]
  BY <1>3 DEF OthersKept, Engaged, InRelease, Stage
<1>5. overlap \subseteq overlap'
  BY <1>2 DEF LookupOverlapping
<1>6. ASSUME NEW u \in Engaged, req[u].path = p PROVE {p, req[u].hash} \subseteq overlap'
  BY <1>2, <1>6 DEF LookupOverlapping, On, Engaged
<1>7. EngagedApart'
  BY <1>4, <1>5 DEF Meetings, EngagedApart, Engaged
<1>8. LookupsApart'
  <2>. SUFFICES ASSUME NEW u \in Engaged', NEW v \in Threads, InLookup(v)', req'[u].path = req'[v].path
                PROVE  {req'[u].path, req'[u].hash} \subseteq overlap'
    BY DEF LookupsApart
  <2>1. u \in Threads /\ u # t /\ u \in Engaged /\ req'[u] = req[u]
    BY <1>4 DEF Engaged
  <2>2. CASE v = t
    BY <1>3, <1>6, <2>1, <2>2
  <2>3. CASE v # t
    BY <1>4, <1>5, <2>1, <2>3 DEF Meetings, LookupsApart, InLookup, Stage
  <2>. QED  BY <2>2, <2>3
<1>9. CalmHashCalmPath'
  <2>1. ASSUME NEW u \in Engaged PROVE req[u].path \in Path /\ req[u].hash \in AllHash /\ u \in Threads
    BY <2>1 DEF Engaged, FilesIInv, FilesTypeOK, StageSound, RequestSound, Request, FilesApart,
       HandleApart, HoldsFile, InRelease, Stage
  <2>. SUFFICES ASSUME NEW u \in Engaged, InRelease(u), req[u].path \in overlap'
                PROVE  req[u].hash \in overlap'
    BY <1>4, <2>1 DEF CalmHashCalmPath, Calm
  <2>2. Path \cap AllHash = {}
    BY HashesAreContents, FilesAssumption
  <2>3. CASE req[u].path \in overlap
    BY <1>5, <2>1, <2>3 DEF Meetings, CalmHashCalmPath, Calm
  <2>4. CASE req[u].path \notin overlap
    <3>1. req[u].path = p
      BY <1>2, <2>1, <2>2, <2>4 DEF LookupOverlapping
    <3>. QED  BY <1>6, <3>1
  <2>. QED  BY <2>3, <2>4
<1>10. ASSUME NEW u \in Threads PROVE StoreCallSound(u)'
  <2>1. ~Busy(t)
    BY <1>0 DEF LookupBegin, Busy
  <2>. QED  BY <1>0, <1>3, <2>1 DEF Meetings, OthersKept, StoreCallSound, Stage, Busy, vars, locals
<1>11. contended' \subseteq overlap'
  BY <1>0, <1>5 DEF Meetings, vars
<1>. QED  BY <1>7, <1>8, <1>9, <1>10, <1>11 DEF Meetings

\* Unlink engages on a path and on the hash of its node info.
LEMMA UnlinkBeginKeepsMeetings ==
    ASSUME FilesIInv, FilesApart, Meetings, NEW t \in Threads, NEW p \in Path, UnlinkBegin(t, p)
    PROVE  Meetings'
<1>0. req \in [Threads -> Request] /\ Stage(t) = "idle" /\ UNCHANGED vars
  BY DEF FilesIInv, FilesTypeOK, UnlinkBegin, At
<1>1. t \notin Engaged /\ ~Busy(t)
  BY <1>0 DEF Engaged, UnlinkBegin, Busy
<1>. DEFINE h == InfoOf(p).hash
            r == [Blank EXCEPT !.stage = "unlink", !.path = p, !.info = InfoOf(p),
                               !.exists = (nodeInfo[p] # NoInfo), !.hash = h]
<1>2. h \in AllHash
  BY InfoIsTyped DEF FilesIInv, Info
<1>3. r.stage = "unlink" /\ r.hash = h /\ r.path = p
  BY DEF Blank
<1>4. req' = [req EXCEPT ![t] = r] /\ overlap' = Overlapping(h, p)
  BY DEF UnlinkBegin
<1>. HIDE DEF r, h
<1>5. OthersKept(t) /\ Stage(t)' = "unlink" /\ req'[t].hash = h /\ req'[t].path = p
  BY <1>0, <1>3, <1>4 DEF OthersKept, Stage
<1>6. ~InRelease(t)' /\ ~InLookup(t)'
  BY <1>5 DEF InRelease, InLookup
<1>. QED  BY <1>0, <1>1, <1>2, <1>4, <1>5, <1>6, MeetingsBegin

\* The steps of Release in the store.
LEMMA LookupOldMetadataKeepsMeetings ==
    ASSUME FilesIInv, FilesApart, Meetings, NEW t \in Threads, LookupOldMetadata(t)
    PROVE  Meetings'
<1>0. req \in [Threads -> Request] /\ Stage(t) = "released" /\ req[t] \in Request
  BY DEF FilesIInv, FilesTypeOK, LookupOldMetadata, At
<1>1. /\ OthersKept(t) /\ Stage(t)' = "storing" /\ overlap' = overlap
      /\ req'[t].hash = req[t].hash /\ req'[t].path = req[t].path
  BY <1>0 DEF LookupOldMetadata, OthersKept, Stage, Request
<1>2. BeginStore(t, req[t].hash) /\ IInv
  BY DEF LookupOldMetadata, FilesIInv
<1>3. OthersWait(t) /\ pc'[t] = "unique" /\ hashArg'[t] = req[t].hash
  BY <1>2 DEF BeginStore, Step, IInv, TypeOK, OthersWait
<1>4. StoreCallSound(t)' /\ StaysEngaged(t)
  BY <1>0, <1>1, <1>3 DEF StoreCallSound, StorePcs, StaysEngaged, Engaged, InRelease, InLookup, Stage
<1>5. contended' \subseteq overlap
  <2>1. t \in Engaged /\ ~Busy(t)
    BY <1>0, <1>2 DEF Engaged, BeginStore, Step, Busy
  <2>. QED  BY <1>2, <2>1, MetInStore DEF BeginStore
<1>. QED  BY <1>1, <1>3, <1>4, <1>5, MeetingsKept

\* The store's steps in a Release, up to the new metadata.
LEMMA StoringKeepsMeetings ==
    ASSUME FilesIInv, FilesApart, Meetings, NEW t \in Threads,
           \/ ReleaseTest(t) \/ ReleaseCreateEntry(t) \/ ReleaseLookupEntry(t)
           \/ ReleaseRecent(t) \/ ReleaseNewMetadata(t)
    PROVE  Meetings'
<1>0. /\ req \in [Threads -> Request] /\ Stage(t) = "storing" /\ req[t] \in Request
      /\ Blank.stage = "idle" /\ pc \in [Threads -> {"idle"} \cup StorePcs \cup RemovePcs]
  BY DEF FilesIInv, FilesTypeOK, ReleaseTest, ReleaseCreateEntry, ReleaseLookupEntry,
     ReleaseRecent, ReleaseNewMetadata, At, Blank, IInv, TypeOK
<1>1. /\ overlap' = overlap /\ contended' = contended /\ hashArg' = hashArg /\ refArg' = refArg
      /\ \A u \in Threads \ {t} : pc'[u] = pc[u]
  BY <1>0 DEF ReleaseTest, ReleaseCreateEntry, ReleaseLookupEntry, ReleaseRecent, ReleaseNewMetadata,
     IsContentHashUnique, CheckMapEntry, CreateMapEntry, LookupMapEntry, RetrieveRecent,
     CreateMetadata, Step, locals
<1>2. OthersKept(t)
  BY <1>0 DEF ReleaseTest, ReleaseCreateEntry, ReleaseLookupEntry, ReleaseRecent,
     ReleaseNewMetadata, Return, OthersKept
<1>3. \/ /\ Stage(t)' = "storing" /\ pc'[t] \in StorePcs
         /\ req'[t].hash = req[t].hash /\ req'[t].path = req[t].path
      \/ /\ Stage(t)' = "info" /\ pc'[t] = "idle"
         /\ req'[t].hash = req[t].hash /\ req'[t].path = req[t].path
      \/ Stage(t)' = "idle" /\ pc'[t] = "idle"
  <2>1. CASE ReleaseTest(t)
    BY <1>0, <2>1 DEF ReleaseTest, IsContentHashUnique, Step, StorePcs, Stage, Request
  <2>2. CASE ReleaseCreateEntry(t)
    BY <1>0, <2>2 DEF ReleaseCreateEntry, CheckMapEntry, CreateMapEntry, Step, StorePcs, Stage, Request
  <2>3. CASE ReleaseLookupEntry(t)
    BY <1>0, <2>3 DEF ReleaseLookupEntry, LookupMapEntry, Step, StorePcs, Return, Stage, Request
  <2>4. CASE ReleaseRecent(t)
    BY <1>0, <2>4 DEF ReleaseRecent, RetrieveRecent, Step, StorePcs, Stage, Request
  <2>5. CASE ReleaseNewMetadata(t)
    BY <1>0, <2>5 DEF ReleaseNewMetadata, CreateMetadata, Step, Stage, Request
  <2>. QED  BY <2>1, <2>2, <2>3, <2>4, <2>5
<1>4. StoreCallSound(t)' /\ StaysEngaged(t) /\ OthersWait(t)
  <2>1. Busy(t) => hashArg[t] = req[t].hash
    BY DEF Meetings, StoreCallSound
  <2>2. pc[t] # "idle"
    BY <1>0 DEF Meetings, StoreCallSound, StorePcs
  <2>. QED  BY <1>0, <1>1, <1>3, <2>1, <2>2 DEF StoreCallSound, StaysEngaged, Engaged, InRelease, InLookup,
            OthersWait, Busy, Stage, StorePcs
<1>. QED  BY <1>1, <1>2, <1>4, MeetingsKept DEF Meetings

\* The steps of Release that may begin to remove the new metadata.
LEMMA DropNewKeepsMeetings ==
    ASSUME FilesIInv, FilesApart, Meetings, NEW t \in Threads, DropNew(t), overlap' = overlap,
           Stage(t) \in {"info", "link", "fill"}
    PROVE  Meetings'
<1>0. req \in [Threads -> Request] /\ req[t] \in Request
  BY DEF FilesIInv, FilesTypeOK
<1>1. /\ OthersKept(t) /\ Stage(t)' = "dropping"
      /\ req'[t].hash = req[t].hash /\ req'[t].path = req[t].path
  BY <1>0 DEF DropNew, Goto, OthersKept, Stage, Request
<1>2. BeginRemove(t, req[t].hash, req[t].new.ref) /\ IInv
  BY DEF DropNew, FilesIInv
<1>3. OthersWait(t) /\ pc'[t] = "find" /\ hashArg'[t] = req[t].hash
  BY <1>2 DEF BeginRemove, Step, IInv, TypeOK, OthersWait
<1>4. StoreCallSound(t)' /\ StaysEngaged(t)
  BY <1>1, <1>3 DEF StoreCallSound, RemovePcs, StaysEngaged, Engaged, InRelease, InLookup, Stage
<1>5. contended' \subseteq overlap
  <2>1. t \in Engaged /\ ~Busy(t)
    BY <1>2 DEF Engaged, BeginRemove, Step, Busy
  <2>. QED  BY <1>2, <2>1, MetInStore DEF BeginRemove
<1>. QED  BY <1>1, <1>3, <1>4, <1>5, MeetingsKept

\* The steps of a Release that has its new metadata.
LEMMA FinishingKeepsMeetings ==
    ASSUME FilesIInv, FilesApart, Meetings, NEW t \in Threads,
           UpdateInfo(t) \/ LinkFails(t) \/ FillMetadata(t)
    PROVE  Meetings'
<1>0. /\ req \in [Threads -> Request] /\ Stage(t) \in {"info", "link", "fill"} /\ req[t] \in Request
      /\ Blank.stage = "idle" /\ overlap' = overlap
  BY DEF FilesIInv, FilesTypeOK, UpdateInfo, LinkFails, FillMetadata, At, Blank
<1>1. CASE DropNew(t)
  BY <1>0, <1>1, DropNewKeepsMeetings
<1>2. CASE ~DropNew(t)
  <2>1. /\ UNCHANGED vars
        /\ Return(t) \/ \E stage \in {"link", "fill"} : Goto(t, stage)
    BY <1>2 DEF UpdateInfo, LinkFails, FillMetadata
  <2>2. /\ OthersKept(t)
        /\ \/ Stage(t)' = "idle"
           \/ /\ Stage(t)' \in {"link", "fill"}
              /\ req'[t].hash = req[t].hash /\ req'[t].path = req[t].path
    BY <1>0, <2>1 DEF OthersKept, Return, Goto, Stage, Request
  <2>. QED  BY <1>0, <2>1, <2>2, OutsideStoreKeepsMeetings DEF StaysEngaged, Engaged, InRelease, InLookup
<1>. QED  BY <1>1, <1>2

\* The store's steps of a removal.
LEMMA RemovingKeepsMeetings ==
    ASSUME FilesIInv, FilesApart, Meetings, NEW t \in Threads, Drop(t) \/ UnlinkRemoves(t)
    PROVE  Meetings'
<1>0. /\ req \in [Threads -> Request] /\ Stage(t) \in {"dropping", "unlinking"} /\ req[t] \in Request
      /\ Blank.stage = "idle" /\ overlap' = overlap
      /\ pc \in [Threads -> {"idle"} \cup StorePcs \cup RemovePcs]
  BY DEF FilesIInv, FilesTypeOK, Drop, UnlinkRemoves, At, Blank, IInv, TypeOK
<1>1. /\ contended' = contended /\ hashArg' = hashArg /\ refArg' = refArg
      /\ pc'[t] \in {"idle"} \cup RemovePcs
      /\ \A u \in Threads \ {t} : pc'[u] = pc[u]
  BY <1>0 DEF Drop, UnlinkRemoves, RemoveStep, FindMetadata, DeleteMetadata, TestEmpty,
     DeleteMapEntry, Step, locals, RemovePcs
<1>2. OthersKept(t)
  BY <1>0 DEF Drop, UnlinkRemoves, Return, Goto, OthersKept
<1>3. \/ pc'[t] = "idle" /\ Stage(t)' = "idle"
      \/ /\ pc'[t] = "idle" /\ Stage(t) = "unlinking" /\ Stage(t)' = "forget"
         /\ req'[t].hash = req[t].hash /\ req'[t].path = req[t].path
      \/ pc'[t] # "idle" /\ req'[t] = req[t]
  <2>1. CASE Drop(t)
    BY <1>0, <2>1 DEF Drop, Return, Stage
  <2>2. CASE UnlinkRemoves(t)
    <3>1. Stage(t) = "unlinking"
      BY <2>2 DEF UnlinkRemoves, At
    <3>2. CASE pc'[t] = "idle"
      BY <1>0, <2>2, <3>1, <3>2 DEF UnlinkRemoves, Goto, Stage, Request
    <3>3. CASE pc'[t] # "idle"
      BY <1>0, <2>2, <3>1, <3>3 DEF UnlinkRemoves, Goto, Stage, Request
    <3>. QED  BY <3>2, <3>3
  <2>. QED  BY <2>1, <2>2
<1>4. StoreCallSound(t)' /\ StaysEngaged(t) /\ OthersWait(t)
  <2>1. StoreCallSound(t)
    BY DEF Meetings
  <2>2. Busy(t)
    BY <1>0, <2>1 DEF StoreCallSound, RemovePcs, Busy
  <2>. QED  BY <1>0, <1>1, <1>3, <2>1, <2>2 DEF StoreCallSound, StaysEngaged, Engaged, InRelease, InLookup,
            OthersWait, Busy, Stage
<1>. QED  BY <1>0, <1>1, <1>2, <1>4, MeetingsKept DEF Meetings

\* Unlink calls the store with the hash it is engaged on.
LEMMA UnlinkFileKeepsMeetings ==
    ASSUME FilesIInv, FilesApart, Meetings, NEW t \in Threads, UnlinkFile(t)
    PROVE  Meetings'
<1>. DEFINE info == req[t].info
<1>0. /\ req \in [Threads -> Request] /\ Stage(t) = "unlink" /\ req[t] \in Request
      /\ overlap' = overlap /\ req[t].hash = info.hash
  BY DEF FilesIInv, FilesTypeOK, UnlinkFile, At, FilesApart, UnlinkSound, InUnlink
<1>1. CASE info.ref = 0 \/ info.hash = NoHash
  <2>1. /\ UNCHANGED vars /\ OthersKept(t) /\ Stage(t)' = "forget"
        /\ req'[t].hash = req[t].hash /\ req'[t].path = req[t].path
    BY <1>0, <1>1 DEF UnlinkFile, Goto, OthersKept, Stage, Request
  <2>. QED  BY <1>0, <2>1, OutsideStoreKeepsMeetings DEF StaysEngaged, Engaged, InRelease, InLookup
<1>2. CASE ~(info.ref = 0 \/ info.hash = NoHash)
  <2>1. /\ OthersKept(t) /\ Stage(t)' = "unlinking"
        /\ req'[t].hash = req[t].hash /\ req'[t].path = req[t].path /\ req'[t].info = info
    BY <1>0, <1>2 DEF UnlinkFile, Goto, OthersKept, Stage, Request
  <2>2. BeginRemove(t, info.hash, info.ref) /\ IInv
    BY <1>2 DEF UnlinkFile, FilesIInv
  <2>3. OthersWait(t) /\ pc'[t] = "find" /\ hashArg'[t] = req[t].hash /\ refArg'[t] = info.ref
    BY <1>0, <2>2 DEF BeginRemove, Step, IInv, TypeOK, OthersWait
  <2>4. req[t].hash \in Hash
    BY <1>0, <1>2 DEF Request, AllHash
  <2>5. StoreCallSound(t)' /\ StaysEngaged(t)
    BY <1>0, <2>1, <2>3, <2>4 DEF StoreCallSound, RemovePcs, StaysEngaged, Engaged, InRelease, InLookup, Stage
  <2>6. contended' \subseteq overlap
    <3>1. t \in Engaged /\ ~Busy(t)
      BY <1>0, <2>2 DEF Engaged, BeginRemove, Step, Busy
    <3>. QED  BY <1>0, <2>2, <3>1, MetInStore DEF BeginRemove
  <2>. QED  BY <1>0, <2>1, <2>3, <2>5, <2>6, MeetingsKept
<1>. QED  BY <1>1, <1>2

\* A temporary name that is left behind spoils the path, where the hash already is.
LEMMA SwapKeepsMeetings ==
    ASSUME FilesIInv, FilesApart, Meetings, NEW t \in Threads, SwapInDuplicate(t)
    PROVE  Meetings'
<1>0. /\ req \in [Threads -> Request] /\ Stage(t) = "swap" /\ req[t] \in Request
      /\ UNCHANGED vars /\ req[t].to = req[t].path /\ req[t].path \in Path
  BY DEF FilesIInv, FilesTypeOK, SwapInDuplicate, At, FilesApart, ReleaseSound, InRelease,
     HandleApart, HoldsFile
<1>1. /\ OthersKept(t) /\ Stage(t)' = "fill"
      /\ req'[t].hash = req[t].hash /\ req'[t].path = req[t].path
  BY <1>0 DEF SwapInDuplicate, Goto, OthersKept, Stage, Request
<1>2. \/ overlap' = overlap
      \/ overlap' = overlap \cup {req[t].path} /\ req[t].hash \in overlap
  BY <1>0 DEF SwapInDuplicate
<1>3. ASSUME NEW u \in Threads
      PROVE  /\ u \in Engaged' => u \in Engaged
             /\ InRelease(u)' => InRelease(u)
             /\ InLookup(u)' => InLookup(u)
             /\ u \in Engaged \/ InLookup(u) =>
                   req'[u].hash = req[u].hash /\ req'[u].path = req[u].path
  BY <1>0, <1>1 DEF OthersKept, Engaged, InRelease, InLookup, Stage
<1>4. EngagedApart'
  BY <1>2, <1>3 DEF Meetings, EngagedApart, Engaged
<1>8. LookupsApart'
  BY <1>2, <1>3 DEF Meetings, LookupsApart, Engaged
<1>5. CalmHashCalmPath'
  <2>. SUFFICES ASSUME NEW u \in Threads, InRelease(u), req[u].path \in overlap',
                       req[u].hash \in AllHash \cup Path
                PROVE  req[u].hash \in overlap
    <3>1. ASSUME NEW u \in Threads, InRelease(u)
          PROVE  req[u].path \in Path /\ req[u].hash \in AllHash /\ u \in Engaged
      BY <3>1 DEF FilesIInv, FilesTypeOK, Request, FilesApart, HandleApart, HoldsFile, InRelease, Engaged
    <3>. QED  BY <1>2, <1>3, <3>1 DEF CalmHashCalmPath, Calm
  <2>1. CASE req[u].path \in overlap
    <3>1. req[u].hash \in AllHash
      BY DEF FilesIInv, FilesTypeOK, Request
    <3>. QED  BY <2>1, <3>1 DEF Meetings, CalmHashCalmPath, Calm
  <2>2. CASE req[u].path = req[t].path /\ req[t].hash \in overlap
    <3>1. u \in Engaged /\ t \in Engaged
      BY <1>0 DEF InRelease, Engaged
    <3>. QED  BY <2>2, <3>1 DEF Meetings, EngagedApart
  <2>. QED  BY <1>2, <2>1, <2>2
<1>6. ASSUME NEW u \in Threads PROVE StoreCallSound(u)'
  <2>1. StoreCallSound(u) /\ (u = t => ~Busy(t))
    BY <1>0 DEF Meetings, StoreCallSound
  <2>. QED  BY <1>0, <1>1, <2>1 DEF StoreCallSound, OthersKept, Stage, Busy, vars, locals
<1>7. contended' \subseteq overlap'
  BY <1>0, <1>2 DEF Meetings, vars
<1>. QED  BY <1>4, <1>5, <1>6, <1>7, <1>8 DEF Meetings

\* Initially nobody has met.
LEMMA InitMeetings == FilesInit => Meetings
<1>. SUFFICES ASSUME FilesInit PROVE Meetings
  OBVIOUS
<1>1. \A t \in Threads : Stage(t) = "idle" /\ ~Busy(t)
  BY DEF FilesInit, Init, Blank, Stage, Busy
<1>. QED  BY <1>1 DEF FilesInit, Init, Meetings, EngagedApart, LookupsApart, Engaged, InLookup,
          CalmHashCalmPath, InRelease, StoreCallSound

\* Every two requests engaged on one thing are in overlap after every step.
LEMMA FilesNextKeepsMeetings ==
    ASSUME OnceWorkload, FilesIInv, FilesApart, Meetings, [FilesNext]_filesVars
    PROVE  Meetings'
<1>1. CASE UNCHANGED filesVars
  BY <1>1 DEF filesVars, vars, locals, Meetings, EngagedApart, LookupsApart, Engaged, InLookup,
     CalmHashCalmPath, InRelease, StoreCallSound, Stage, Busy, Calm
<1>2. CASE FilesNext
  <2>1. PICK t \in Threads : OnceStep(t)
    BY <1>2, StepsAreOnceSteps
  <2>2. ASSUME ReleaseStep(t) PROVE Meetings'
    BY <2>2, TakeBufferKeepsMeetings, LookupOldMetadataKeepsMeetings, StoringKeepsMeetings,
       FinishingKeepsMeetings, HandlesKeepMeetings, SwapKeepsMeetings, RemovingKeepsMeetings
       DEF ReleaseStep
  <2>. QED  BY <2>1, <2>2, HandlesKeepMeetings, LookupBeginKeepsMeetings, UnlinkBeginKeepsMeetings,
            UnlinkFileKeepsMeetings, RemovingKeepsMeetings DEF OnceStep
<1>. QED  BY <1>1, <1>2

-----------------------------------------------------------------------------
(* What a step of one request does to the cells of another hash.            *)

CellKept(h) == table'[h] = table[h] /\ LiveOf(h)' = LiveOf(h)

\* Addresses keep their hash, and references are only added to what was handed out.
HeapGrows ==
    /\ allocated \subseteq allocated'
    /\ \A e \in allocated : home'[e] = home[e]
    /\ \A e \in Entries : index'[e] \in 0..MaxIndex /\ index[e] <= index'[e]

\* A step of the store changes the cells of one hash only.
LEMMA StoreStepElsewhere ==
    ASSUME IInv, NEW t \in Threads, StoreStep(t) \/ RemoveStep(t)
    PROVE  HeapGrows /\ \A h \in AllHash \ {hashArg[t]} : CellKept(h)
<1>. USE DEF IInv, TypeOK
<1>1. CASE UNCHANGED <<table, heap>>
  BY <1>1, StoreAssumption DEF heap, HeapGrows, CellKept, LiveOf
<1>2. CASE CreateMapEntry(t)
  <2>1. PICK e \in Entries \ allocated :
            /\ allocated' = allocated \cup {e}
            /\ table' = [table EXCEPT ![hashArg[t]] = e]
            /\ home' = [home EXCEPT ![e] = hashArg[t]]
    BY <1>2 DEF CreateMapEntry
  <2>2. UNCHANGED <<live, index>>
    BY <1>2 DEF CreateMapEntry
  <2>3. HeapGrows
    BY <2>1, <2>2, StoreAssumption DEF HeapGrows
  <2>. QED  BY <2>1, <2>2, <2>3 DEF CellKept, LiveOf
<1>3. CASE CreateMetadata(t)
  <2>1. entryPtr[t] \in Entries /\ home[entryPtr[t]] = hashArg[t]
    BY <1>3 DEF CreateMetadata, Step, PointersSound
  <2>2. /\ UNCHANGED <<table, allocated, home>>
        /\ index[entryPtr[t]] < MaxIndex
        /\ index' = [index EXCEPT ![entryPtr[t]] = @ + 1]
        /\ \A e \in Entries \ {entryPtr[t]} : live'[e] = live[e]
    BY <1>3, <2>1 DEF CreateMetadata
  <2>3. HeapGrows
    BY <2>1, <2>2, StoreAssumption DEF HeapGrows
  <2>. QED  BY <2>1, <2>2, <2>3 DEF CellKept, LiveOf, TableSound
<1>4. CASE DeleteMetadata(t)
  <2>1. entryPtr[t] \in Entries /\ home[entryPtr[t]] = hashArg[t]
    BY <1>4 DEF DeleteMetadata, Step, PointersSound
  <2>2. /\ UNCHANGED <<table, allocated, home, index>>
        /\ \A e \in Entries \ {entryPtr[t]} : live'[e] = live[e]
    BY <1>4, <2>1 DEF DeleteMetadata
  <2>3. HeapGrows
    BY <2>1, <2>2, StoreAssumption DEF HeapGrows
  <2>. QED  BY <2>1, <2>2, <2>3 DEF CellKept, LiveOf, TableSound
<1>5. CASE DeleteMapEntry(t)
  <2>1. UNCHANGED heap /\ table' = [table EXCEPT ![hashArg[t]] = NoEntry]
    BY <1>5 DEF DeleteMapEntry
  <2>2. HeapGrows
    BY <2>1, StoreAssumption DEF HeapGrows, heap
  <2>. QED  BY <2>1, <2>2 DEF CellKept, LiveOf, heap
<1>. QED  BY <1>1, <1>2, <1>3, <1>4, <1>5 DEF StoreStep, RemoveStep, IsContentHashUnique, CheckMapEntry,
          LookupMapEntry, RetrieveRecent, FindMetadata, TestEmpty

\* The cells of calm hashes that t does not work on stay, and so do their paths.
CellsKept(t) ==
    /\ HeapGrows
    /\ \A h \in Calm \cap AllHash :
          \/ CellKept(h)
          \/ t \in Engaged /\ req[t].hash = h
    /\ \A e \in allocated :
          \/ metaPath'[e] = metaPath[e]
          \/ t \in Engaged /\ req[t].hash = home[e]
    /\ overlap \subseteq overlap'

\* A step that leaves the heap alone keeps every cell.
LEMMA SameHeapKeepsCells ==
    ASSUME FilesIInv, NEW t \in Threads, UNCHANGED <<table, heap, metaPath>>, overlap \subseteq overlap'
    PROVE  CellsKept(t)
BY StoreAssumption DEF FilesIInv, IInv, TypeOK, CellsKept, HeapGrows, heap, CellKept, LiveOf

\* The store's steps keep the cells of every calm hash another request is on.
LEMMA StoreStepKeepsCells ==
    ASSUME FilesIInv, Meetings, NEW t \in Threads, StoreStep(t) \/ RemoveStep(t),
           UNCHANGED <<metaPath, overlap>>
    PROVE  CellsKept(t)
<1>1. Busy(t)
  BY DEF StoreStep, RemoveStep, IsContentHashUnique, CheckMapEntry, CreateMapEntry, LookupMapEntry,
     RetrieveRecent, CreateMetadata, FindMetadata, DeleteMetadata, TestEmpty, DeleteMapEntry, Step, Busy
<1>2. t \in Engaged /\ hashArg[t] = req[t].hash
  BY <1>1 DEF Meetings, StoreCallSound, Engaged
<1>3. HeapGrows /\ \A h \in AllHash \ {hashArg[t]} : CellKept(h)
  BY StoreStepElsewhere DEF FilesIInv
<1>. QED  BY <1>2, <1>3 DEF CellsKept

\* So what the other requests know of the store stays true.
LEMMA OthersStillFind ==
    ASSUME FilesIInv, FilesApart, Meetings, StoreFound, NEW t \in Threads,
           OthersKept(t), OthersWait(t), CellsKept(t), NEW u \in Threads \ {t}
    PROVE  NewSound(u)' /\ StoringSound(u)' /\ StoredSound(u)'
<1>1. /\ req'[u] = req[u] /\ pc'[u] = pc[u]
      /\ NewSound(u) /\ StoringSound(u) /\ StoredSound(u)
      /\ req[u].hash \in AllHash
  BY DEF OthersKept, OthersWait, StoreFound, FilesIInv, FilesTypeOK, Request
<1>2. NewSound(u)'
  <2>. SUFFICES ASSUME HasNew(u) PROVE NewSound(u)'
    BY <1>1 DEF NewSound, HasNew, Stage
  <2>1. req[u].new.entry \in Entries /\ req[u].new.ref \in Nat
    <3>1. req[u].new \in Meta
      BY DEF FilesIInv, StageSound, RequestSound, HasNew, Stage
    <3>. QED  BY <3>1, StoreAssumption DEF Meta, Refs
  <2>2. index[req[u].new.entry] \in Nat /\ index'[req[u].new.entry] \in Nat
    BY <2>1, StoreAssumption DEF CellsKept, HeapGrows, FilesIInv, IInv, TypeOK
  <2>. QED  BY <1>1, <2>1, <2>2 DEF NewSound, HasNew, Stage, CellsKept, HeapGrows
<1>3. ASSUME u \in Engaged, req[u].hash \in Calm'
      PROVE  req[u].hash \in Calm /\ CellKept(req[u].hash) /\ ~(t \in Engaged /\ req[t].hash = req[u].hash)
  <2>1. req[u].hash \in Calm
    BY <1>1, <1>3 DEF CellsKept, Calm
  <2>2. ~(t \in Engaged /\ req[t].hash = req[u].hash)
    BY <1>3, <2>1 DEF Meetings, EngagedApart, Calm
  <2>. QED  BY <1>1, <2>1, <2>2 DEF CellsKept
<1>4. StoringSound(u)'
  <2>. SUFFICES ASSUME Stage(u) = "storing", req[u].hash \in Calm' PROVE StoringSound(u)'
    BY <1>1 DEF StoringSound, Stage
  <2>. QED  BY <1>1, <1>3 DEF StoringSound, CellKept, Engaged, Stage
<1>5. StoredSound(u)'
  <2>. SUFFICES ASSUME HasNew(u), req[u].hash \in Calm' PROVE StoredSound(u)'
    BY <1>1 DEF StoredSound, HasNew, Stage
  <2>1. /\ req[u].hash \in Calm /\ CellKept(req[u].hash)
        /\ ~(t \in Engaged /\ req[t].hash = req[u].hash)
    BY <1>3 DEF HasNew, Engaged
  <2>2. metaPath'[req[u].new.entry] = metaPath[req[u].new.entry]
    BY <1>1, <2>1 DEF NewSound, CellsKept
  <2>. QED  BY <1>1, <2>1, <2>2 DEF StoredSound, HasNew, Stage, CellKept, PathOf
<1>. QED  BY <1>2, <1>4, <1>5

\* So only what the moving request itself knows of the store is to be shown.
LEMMA StoreFoundStep ==
    ASSUME FilesIInv, FilesApart, Meetings, StoreFound, NEW t \in Threads,
           OthersKept(t), OthersWait(t), CellsKept(t), UnfilledPaths',
           NewSound(t)' /\ StoringSound(t)' /\ StoredSound(t)'
    PROVE  StoreFound'
BY OthersStillFind DEF StoreFound

\* A reference not yet handed out gets no Path.
LEMMA UnfilledStay ==
    ASSUME FilesIInv, StoreFound, HeapGrows, metaPath' = metaPath
    PROVE  UnfilledPaths'
<1>. SUFFICES ASSUME NEW e \in Entries, NEW r \in Refs, r > index'[e] PROVE metaPath[e][r] = NoPath
  BY DEF UnfilledPaths
<1>1. r \in Nat /\ index[e] \in Nat /\ index'[e] \in Nat /\ index[e] <= index'[e]
  BY StoreAssumption DEF HeapGrows, FilesIInv, IInv, TypeOK, Refs
<1>. QED  BY <1>1 DEF StoreFound, UnfilledPaths

\* A request outside Release's calls of the store has nothing to remember.
LEMMA OutsideReleaseFinds ==
    ASSUME FilesIInv, FilesApart, Meetings, StoreFound, NEW t \in Threads,
           OthersKept(t), OthersWait(t), CellsKept(t), metaPath' = metaPath,
           Stage(t)' \notin {"storing", "info", "link", "swap", "fill"}
    PROVE  StoreFound'
<1>1. NewSound(t)' /\ StoringSound(t)' /\ StoredSound(t)'
  BY DEF NewSound, StoringSound, StoredSound, HasNew, Stage
<1>2. UnfilledPaths'
  BY UnfilledStay DEF CellsKept
<1>. QED  BY <1>1, <1>2, StoreFoundStep

\* The steps of requests that are not in Release's calls of the store.
LEMMA HandlesKeepStoreFound ==
    ASSUME FilesIInv, FilesApart, Meetings, StoreFound, NEW t \in Threads,
           \/ CreateStoresInfo(t) \/ LookupReadsInfo(t) \/ LookupStoresInfo(t) \/ LookupFills(t)
           \/ UnlinkForgets(t) \/ TakeBuffer(t)
           \/ \E p \in Path : Create(t, p) \/ LookupBegin(t, p) \/ UnlinkBegin(t, p)
           \/ \E c \in Chunk : HashChunk(t, c)
           \/ \E off \in 0..MaxWrites : PwriteChunk(t, off)
    PROVE  StoreFound'
<1>0. req \in [Threads -> Request] /\ req[t] \in Request /\ Blank.stage = "idle"
  BY DEF FilesIInv, FilesTypeOK, Blank
<1>1. UNCHANGED <<vars, metaPath>>
  BY DEF CreateStoresInfo, LookupReadsInfo, LookupStoresInfo, LookupFills, UnlinkForgets, TakeBuffer,
     Create, LookupBegin, UnlinkBegin, HashChunk, PwriteChunk
<1>2. overlap \subseteq overlap'
  BY DEF CreateStoresInfo, LookupReadsInfo, LookupStoresInfo, LookupFills, UnlinkForgets, TakeBuffer,
     Create, LookupBegin, UnlinkBegin, HashChunk, PwriteChunk, Overlapping, LookupOverlapping
<1>3. OthersWait(t) /\ UNCHANGED <<table, heap>>
  BY <1>1 DEF OthersWait, vars, locals
<1>4. CellsKept(t)
  BY <1>1, <1>2, <1>3, SameHeapKeepsCells
<1>5. OthersKept(t) /\ Stage(t)' \notin {"storing", "info", "link", "swap", "fill"}
  <2>1. CASE CreateStoresInfo(t)
    BY <1>0, <2>1 DEF CreateStoresInfo, Goto, OthersKept, At, Stage, Request
  <2>2. CASE LookupStoresInfo(t) \/ LookupFills(t) \/ UnlinkForgets(t)
    BY <1>0, <2>2, UnlinkForgetsAlone DEF LookupStoresInfo, LookupFills, Return, OthersKept, At, Stage
  <2>7. CASE LookupReadsInfo(t)
    BY <1>0, <2>7 DEF LookupReadsInfo, OthersKept, Stage, Request
  <2>3. CASE TakeBuffer(t)
    BY <1>0, <2>3 DEF TakeBuffer, OthersKept, Stage, Request
  <2>4. CASE \E p \in Path : Create(t, p) \/ LookupBegin(t, p) \/ UnlinkBegin(t, p)
    <3>1. PICK p \in Path : Create(t, p) \/ LookupBegin(t, p) \/ UnlinkBegin(t, p)
      BY <2>4
    <3>2. \E f : req' = [req EXCEPT ![t] = f] /\ f.stage \in {"create", "stat", "unlink"}
      <4>1. CASE Create(t, p)
        <5>1. PICK i : req' = [req EXCEPT ![t] =
                  [Blank EXCEPT !.stage = "create", !.path = p, !.inode = i, !.file = i,
                                !.info = InfoOf(p)]]
          BY <4>1 DEF Create
        <5>. DEFINE r == [Blank EXCEPT !.stage = "create", !.path = p, !.inode = i, !.file = i,
                                       !.info = InfoOf(p)]
        <5>2. r.stage = "create" /\ req' = [req EXCEPT ![t] = r]
          BY <5>1 DEF Blank
        <5>. HIDE DEF r
        <5>. QED  BY <5>2
      <4>2. CASE LookupBegin(t, p)
        <5>. DEFINE r == [Blank EXCEPT !.stage = "stat", !.path = p]
        <5>1. r.stage = "stat" /\ req' = [req EXCEPT ![t] = r]
          BY <4>2 DEF LookupBegin, Blank
        <5>. HIDE DEF r
        <5>. QED  BY <5>1
      <4>3. CASE UnlinkBegin(t, p)
        <5>. DEFINE r == [Blank EXCEPT !.stage = "unlink", !.path = p, !.info = InfoOf(p),
                                       !.exists = (nodeInfo[p] # NoInfo), !.hash = InfoOf(p).hash]
        <5>1. r.stage = "unlink" /\ req' = [req EXCEPT ![t] = r]
          BY <4>3 DEF UnlinkBegin, Blank
        <5>. HIDE DEF r
        <5>. QED  BY <5>1
      <4>. QED  BY <3>1, <4>1, <4>2, <4>3
    <3>. QED  BY <1>0, <3>2 DEF OthersKept, Stage
  <2>5. CASE \E c \in Chunk : HashChunk(t, c)
    <3>1. PICK c \in Chunk : req' = [req EXCEPT ![t].stage = "pwrite", ![t].chunk = c]
      BY <2>5 DEF HashChunk
    <3>. QED  BY <1>0, <3>1 DEF OthersKept, Stage, Request
  <2>6. CASE \E off \in 0..MaxWrites : PwriteChunk(t, off)
    BY <1>0, <2>6 DEF PwriteChunk, Goto, OthersKept, Stage, Request
  <2>. QED  BY <2>1, <2>2, <2>3, <2>4, <2>5, <2>6, <2>7
<1>. QED  BY <1>1, <1>3, <1>4, <1>5, OutsideReleaseFinds

\* A removal of metadata leaves the cells of other hashes alone.
LEMMA BeginRemoveKeepsStoreFound ==
    ASSUME FilesIInv, FilesApart, Meetings, StoreFound, NEW t \in Threads, NEW h, NEW r,
           BeginRemove(t, h, r), OthersKept(t), UNCHANGED <<metaPath, overlap>>,
           Stage(t)' \notin {"storing", "info", "link", "swap", "fill"}
    PROVE  StoreFound'
<1>1. UNCHANGED <<table, heap>> /\ OthersWait(t)
  BY DEF BeginRemove, Step, FilesIInv, IInv, TypeOK, OthersWait
<1>2. CellsKept(t)
  BY <1>1, SameHeapKeepsCells
<1>. QED  BY <1>1, <1>2, OutsideReleaseFinds

\* A removal knows nothing of the store that StoreFound speaks of.
LEMMA RemovingKeepsStoreFound ==
    ASSUME FilesIInv, FilesApart, Meetings, StoreFound, NEW t \in Threads,
           Drop(t) \/ UnlinkRemoves(t)
    PROVE  StoreFound'
<1>0. /\ req \in [Threads -> Request] /\ req[t] \in Request /\ Blank.stage = "idle"
      /\ pc \in [Threads -> {"idle"} \cup StorePcs \cup RemovePcs]
      /\ Stage(t) \in {"dropping", "unlinking"}
  BY DEF FilesIInv, FilesTypeOK, Blank, IInv, TypeOK, Drop, UnlinkRemoves, At
<1>1. RemoveStep(t) /\ UNCHANGED <<metaPath, overlap>>
  BY DEF Drop, UnlinkRemoves
<1>2. OthersWait(t)
  BY <1>0, <1>1 DEF RemoveStep, FindMetadata, DeleteMetadata, TestEmpty, DeleteMapEntry, Step, locals,
     OthersWait
<1>3. OthersKept(t) /\ Stage(t)' \notin {"storing", "info", "link", "swap", "fill"}
  BY <1>0 DEF Drop, UnlinkRemoves, Return, Goto, OthersKept, Stage, Request
<1>. QED  BY <1>1, <1>2, <1>3, StoreStepKeepsCells, OutsideReleaseFinds

\* Unlink enters the store.
LEMMA UnlinkFileKeepsStoreFound ==
    ASSUME FilesIInv, FilesApart, Meetings, StoreFound, NEW t \in Threads, UnlinkFile(t)
    PROVE  StoreFound'
<1>0. req \in [Threads -> Request] /\ req[t] \in Request /\ UNCHANGED <<metaPath, overlap>>
  BY DEF FilesIInv, FilesTypeOK, UnlinkFile
<1>1. OthersKept(t) /\ Stage(t)' \notin {"storing", "info", "link", "swap", "fill"}
  BY <1>0 DEF UnlinkFile, Goto, OthersKept, Stage, Request
<1>2. CASE UNCHANGED vars
  <2>1. UNCHANGED <<table, heap>> /\ OthersWait(t)
    BY <1>2 DEF vars, locals, OthersWait
  <2>2. CellsKept(t)
    BY <1>0, <2>1, SameHeapKeepsCells
  <2>. QED  BY <1>0, <1>1, <2>1, <2>2, OutsideReleaseFinds
<1>3. CASE BeginRemove(t, req[t].info.hash, req[t].info.ref)
  BY <1>0, <1>1, <1>3, BeginRemoveKeepsStoreFound
<1>. QED  BY <1>2, <1>3 DEF UnlinkFile

-----------------------------------------------------------------------------
(* Release's steps in the store.                                            *)

\* Release enters the store.
LEMMA LookupOldMetadataKeepsStoreFound ==
    ASSUME FilesIInv, FilesApart, Meetings, StoreFound, NEW t \in Threads, LookupOldMetadata(t)
    PROVE  StoreFound'
<1>0. /\ req \in [Threads -> Request] /\ req[t] \in Request
      /\ UNCHANGED <<metaPath, overlap>> /\ BeginStore(t, req[t].hash)
  BY DEF FilesIInv, FilesTypeOK, LookupOldMetadata
<1>1. OthersKept(t) /\ Stage(t)' = "storing"
  BY <1>0 DEF LookupOldMetadata, OthersKept, Stage, Request
<1>2. UNCHANGED <<table, heap>> /\ OthersWait(t) /\ pc'[t] = "unique"
  BY <1>0 DEF BeginStore, Step, FilesIInv, IInv, TypeOK, OthersWait
<1>3. CellsKept(t)
  BY <1>0, <1>2, SameHeapKeepsCells
<1>4. NewSound(t)' /\ StoringSound(t)' /\ StoredSound(t)'
  BY <1>1, <1>2 DEF NewSound, StoringSound, StoredSound, HasNew, Stage
<1>5. UnfilledPaths'
  BY <1>0, <1>3, UnfilledStay DEF CellsKept
<1>. QED  BY <1>1, <1>2, <1>3, <1>4, <1>5, StoreFoundStep

\* The request that stores a calm hash is alone there.
LEMMA StoringAlone ==
    ASSUME FilesIInv, Meetings, NEW t \in Threads, Stage(t) = "storing", req[t].hash \in Calm
    PROVE  /\ hashArg[t] = req[t].hash /\ req[t].hash \in AllHash /\ Busy(t)
           /\ req[t].hash \in Quiet
           /\ \A u \in WorkingOn(req[t].hash) : u = t
<1>1. hashArg[t] = req[t].hash /\ req[t].hash \in AllHash /\ Busy(t)
  BY DEF Meetings, StoreCallSound, StorePcs, Busy, FilesIInv, FilesTypeOK, Request
<1>2. req[t].hash \in Quiet
  BY <1>1 DEF Meetings, Calm, Quiet
<1>3. Alone
  BY DEF FilesIInv, IInv
<1>. QED  BY <1>1, <1>2, <1>3 DEF WorkingOn, Alone

\* IsContentHashUnique tells whether the calm hash has metadata.
LEMMA ReleaseTestKeepsStoreFound ==
    ASSUME FilesIInv, FilesApart, Meetings, StoreFound, NEW t \in Threads, ReleaseTest(t)
    PROVE  StoreFound'
<1>. DEFINE h == req[t].hash
<1>0. /\ req \in [Threads -> Request] /\ req[t] \in Request /\ Stage(t) = "storing"
      /\ UNCHANGED <<metaPath, overlap>> /\ IsContentHashUnique(t)
      /\ req' = [req EXCEPT ![t].dup = ~Unique(hashArg[t])]
  BY DEF FilesIInv, FilesTypeOK, ReleaseTest, At
<1>1. /\ OthersKept(t) /\ Stage(t)' = "storing" /\ req'[t].hash = h
      /\ req'[t].dup = ~Unique(hashArg[t])
  BY <1>0 DEF OthersKept, Stage, Request
<1>2. /\ UNCHANGED <<table, heap>> /\ OthersWait(t) /\ pc[t] = "unique"
      /\ pc'[t] = IF Unique(hashArg[t]) THEN "check" ELSE "lookup"
  BY <1>0 DEF IsContentHashUnique, Step, FilesIInv, IInv, TypeOK, OthersWait, locals
<1>3. CellsKept(t)
  BY <1>0, <1>2, SameHeapKeepsCells
<1>4. StoringSound(t)'
  <2>. SUFFICES ASSUME h \in Calm PROVE StoringSound(t)'
    BY <1>0, <1>1 DEF StoringSound, Calm
  <2>1. /\ hashArg[t] = h /\ h \in AllHash /\ h \in Quiet
        /\ \A u \in WorkingOn(h) : u = t
    BY <1>0, StoringAlone
  <2>2. table[h] # NoEntry => live[table[h]] # {}
    <3>. SUFFICES ASSUME table[h] # NoEntry, live[table[h]] = {} PROVE FALSE
      OBVIOUS
    <3>1. EmptyEntryInHand
      BY DEF FilesIInv, IInv
    <3>2. PICK u \in WorkingOn(h) : pc[u] \in {"lookup", "recent", "alloc", "test", "delete"}
      BY <2>1, <3>1 DEF EmptyEntryInHand
    <3>. QED  BY <1>2, <2>1, <3>2
  <2>3. LiveOf(h)' = LiveOf(h) /\ LiveOf(h) = IF table[h] = NoEntry THEN {} ELSE live[table[h]]
    BY <1>1, <1>2 DEF LiveOf, heap
  <2>4. h \in Hash <=> h # NoHash
    BY <2>1, StoreAssumption DEF AllHash
  <2>. QED  BY <1>1, <1>2, <2>1, <2>2, <2>3, <2>4 DEF StoringSound, Unique
<1>5. NewSound(t)' /\ StoredSound(t)'
  BY <1>1 DEF NewSound, StoredSound, HasNew, Stage
<1>6. UnfilledPaths'
  BY <1>0, <1>3, UnfilledStay DEF CellsKept
<1>. QED  BY <1>1, <1>2, <1>3, <1>4, <1>5, <1>6, StoreFoundStep

\* A unique hash gets an entry without metadata.
LEMMA ReleaseCreateEntryKeepsStoreFound ==
    ASSUME FilesIInv, FilesApart, Meetings, StoreFound, NEW t \in Threads, ReleaseCreateEntry(t)
    PROVE  StoreFound'
<1>. DEFINE h == req[t].hash
<1>0. /\ Stage(t) = "storing" /\ UNCHANGED <<metaPath, overlap, req>>
      /\ CheckMapEntry(t) \/ CreateMapEntry(t)
  BY DEF ReleaseCreateEntry, At
<1>1. OthersKept(t) /\ Stage(t)' = "storing"
  BY <1>0 DEF OthersKept, Stage
<1>2. OthersWait(t) /\ pc[t] \in {"check", "create"} /\ pc'[t] \in {"create", "lookup"}
  BY <1>0 DEF CheckMapEntry, CreateMapEntry, Step, FilesIInv, IInv, TypeOK, OthersWait, locals
<1>3. CellsKept(t)
  BY <1>0, StoreStepKeepsCells DEF StoreStep
<1>4. StoringSound(t)'
  <2>. SUFFICES ASSUME h \in Calm PROVE StoringSound(t)'
    BY <1>0, <1>1 DEF StoringSound, Calm
  <2>1. hashArg[t] = h /\ h \in AllHash
    BY <1>0, StoringAlone
  <2>2. ~req[t].dup /\ (h \in Hash => LiveOf(h) = {})
    BY <1>0, <1>2 DEF StoreFound, StoringSound
  <2>3. h \in Hash => LiveOf(h)' = {}
    <3>1. CASE CheckMapEntry(t)
      BY <1>0, <2>2, <3>1 DEF CheckMapEntry, LiveOf, heap
    <3>2. CASE CreateMapEntry(t)
      <4>1. PICK e \in Entries \ allocated : table' = [table EXCEPT ![h] = e]
        BY <2>1, <3>2 DEF CreateMapEntry
      <4>2. live[e] = {} /\ live' = live /\ table'[h] = e
        BY <2>1, <3>2, <4>1 DEF CreateMapEntry, FilesIInv, IInv, FreshCells, TypeOK
      <4>. QED  BY <1>0, <4>2 DEF LiveOf
    <3>. QED  BY <1>0, <3>1, <3>2
  <2>. QED  BY <1>0, <1>2, <2>2, <2>3 DEF StoringSound
<1>5. NewSound(t)' /\ StoredSound(t)'
  BY <1>1 DEF NewSound, StoredSound, HasNew, Stage
<1>6. UnfilledPaths'
  BY <1>0, <1>3, UnfilledStay DEF CellsKept
<1>. QED  BY <1>1, <1>2, <1>3, <1>4, <1>5, <1>6, StoreFoundStep

\* A duplicate finds its entry.
LEMMA ReleaseLookupEntryKeepsStoreFound ==
    ASSUME FilesIInv, FilesApart, Meetings, StoreFound, NEW t \in Threads, ReleaseLookupEntry(t)
    PROVE  StoreFound'
<1>0. /\ req \in [Threads -> Request] /\ Stage(t) = "storing" /\ Blank.stage = "idle"
      /\ UNCHANGED <<metaPath, overlap>> /\ LookupMapEntry(t)
      /\ IF table[hashArg[t]] = NoEntry THEN Return(t) ELSE UNCHANGED req
  BY DEF FilesIInv, FilesTypeOK, ReleaseLookupEntry, At, Blank
<1>1. OthersKept(t) /\ (Stage(t)' = "idle" \/ req' = req)
  BY <1>0 DEF OthersKept, Stage, Return
<1>2. /\ UNCHANGED <<table, heap>> /\ OthersWait(t) /\ pc[t] = "lookup"
      /\ table[hashArg[t]] # NoEntry => pc'[t] = "recent"
  BY <1>0 DEF LookupMapEntry, Step, FilesIInv, IInv, TypeOK, OthersWait
<1>3. CellsKept(t)
  BY <1>0, <1>2, SameHeapKeepsCells
<1>4. CASE Stage(t)' = "idle"
  BY <1>0, <1>1, <1>2, <1>3, <1>4, OutsideReleaseFinds
<1>5. CASE Stage(t)' # "idle"
  <2>1. req' = req /\ pc'[t] = "recent"
    BY <1>0, <1>1, <1>2, <1>5 DEF Return, Stage
  <2>2. StoringSound(t)'
    BY <1>0, <1>2, <2>1 DEF StoreFound, StoringSound, Calm, LiveOf, heap, Stage
  <2>3. NewSound(t)' /\ StoredSound(t)'
    BY <1>0, <2>1 DEF NewSound, StoredSound, HasNew, Stage
  <2>4. UnfilledPaths'
    BY <1>0, <1>3, UnfilledStay DEF CellsKept
  <2>. QED  BY <1>1, <1>2, <1>3, <2>2, <2>3, <2>4, StoreFoundStep
<1>. QED  BY <1>4, <1>5

\* The newest metadata of a calm hash is there if the content is a duplicate.
LEMMA ReleaseRecentKeepsStoreFound ==
    ASSUME FilesIInv, FilesApart, Meetings, StoreFound, NEW t \in Threads, ReleaseRecent(t)
    PROVE  StoreFound'
<1>. DEFINE h == req[t].hash  e == entryPtr[t]
<1>0. /\ req \in [Threads -> Request] /\ Stage(t) = "storing" /\ req[t] \in Request
      /\ UNCHANGED <<metaPath, overlap>> /\ RetrieveRecent(t)
  BY DEF FilesIInv, FilesTypeOK, ReleaseRecent, At
<1>1. PICK rec \in {NoMeta} \cup [entry : {e}, ref : Newest(e)] :
          /\ (rec = NoMeta) = (live[e] = {})
          /\ req' = [req EXCEPT ![t].rec = rec]
  BY DEF ReleaseRecent
<1>2. /\ OthersKept(t) /\ Stage(t)' = "storing" /\ req'[t].hash = h
      /\ req'[t].dup = req[t].dup /\ req'[t].rec = rec
  BY <1>0, <1>1 DEF OthersKept, Stage, Request
<1>3. /\ UNCHANGED <<table, heap>> /\ OthersWait(t) /\ pc[t] = "recent"
      /\ pc'[t] \in {"alloc", "spin"}
  BY <1>0 DEF RetrieveRecent, Step, FilesIInv, IInv, TypeOK, OthersWait, locals
<1>4. CellsKept(t)
  BY <1>0, <1>3, SameHeapKeepsCells
<1>5. StoringSound(t)'
  <2>. SUFFICES ASSUME h \in Calm PROVE StoringSound(t)'
    BY <1>0, <1>2 DEF StoringSound, Calm
  <2>1. hashArg[t] = h /\ h \in AllHash /\ h \in Quiet /\ Busy(t)
    BY <1>0, StoringAlone
  <2>2. entryPtr[t] = table[h] /\ table[h] # NoEntry
    BY <1>3, <2>1 DEF FilesIInv, IInv, ProgressSound
  <2>3. StoringSound(t) /\ LiveOf(h) = live[e] /\ LiveOf(h)' = LiveOf(h)
    BY <1>2, <1>3, <2>2 DEF StoreFound, LiveOf, heap
  <2>4. rec # NoMeta => rec.entry = table[h] /\ rec.ref \in LiveOf(h)
    BY <1>1, <2>2, <2>3 DEF Newest
  <2>. QED  BY <1>0, <1>1, <1>2, <1>3, <2>2, <2>3, <2>4 DEF StoringSound
<1>6. NewSound(t)' /\ StoredSound(t)'
  BY <1>2 DEF NewSound, StoredSound, HasNew, Stage
<1>7. UnfilledPaths'
  BY <1>0, <1>4, UnfilledStay DEF CellsKept
<1>. QED  BY <1>2, <1>3, <1>4, <1>5, <1>6, <1>7, StoreFoundStep

\* The new metadata is under a reference never handed out before.
LEMMA ReleaseNewMetadataKeepsStoreFound ==
    ASSUME FilesIInv, FilesApart, Meetings, StoreFound, NEW t \in Threads, ReleaseNewMetadata(t)
    PROVE  StoreFound'
<1>. DEFINE h == req[t].hash  e == entryPtr[t]  new == [entry |-> e, ref |-> index[e] + 1]
<1>0. /\ req \in [Threads -> Request] /\ Stage(t) = "storing" /\ req[t] \in Request
      /\ UNCHANGED <<metaPath, overlap>> /\ CreateMetadata(t)
      /\ req' = [req EXCEPT ![t].stage = "info", ![t].new = new]
  BY DEF FilesIInv, FilesTypeOK, ReleaseNewMetadata, At
<1>1. /\ OthersKept(t) /\ Stage(t)' = "info" /\ req'[t].hash = h /\ req'[t].new = new
      /\ req'[t].dup = req[t].dup /\ req'[t].rec = req[t].rec
  BY <1>0 DEF OthersKept, Stage, Request
<1>2. OthersWait(t) /\ pc[t] = "alloc"
  BY <1>0 DEF CreateMetadata, Step, FilesIInv, IInv, TypeOK, OthersWait, locals
<1>3. CellsKept(t)
  BY <1>0, StoreStepKeepsCells DEF StoreStep
<1>4. /\ hashArg[t] = h /\ e \in allocated /\ home[e] = h /\ e \in Entries
  BY <1>0, <1>2 DEF Meetings, StoreCallSound, StorePcs, Busy, FilesIInv, IInv, TypeOK, PointersSound
<1>5. /\ index[e] \in Nat /\ index[e] + 1 \in Refs
      /\ index'[e] = index[e] + 1 /\ live'[e] = live[e] \cup {index[e] + 1}
      /\ UNCHANGED <<table, allocated, home>>
  BY <1>0, <1>4, StoreAssumption DEF CreateMetadata, FilesIInv, IInv, TypeOK, Refs
<1>6. NewSound(t)'
  BY <1>1, <1>4, <1>5 DEF NewSound, HasNew, Stage
<1>7. StoringSound(t)'
  BY <1>1 DEF StoringSound
<1>8. StoredSound(t)'
  <2>. SUFFICES ASSUME h \in Calm PROVE StoredSound(t)'
    BY <1>0, <1>1 DEF StoredSound, Calm
  <2>1. h \in AllHash /\ h \in Quiet /\ Busy(t)
    BY <1>0, StoringAlone
  <2>2. e = table[h] /\ table[h] # NoEntry
    BY <1>2, <1>4, <2>1 DEF FilesIInv, IInv, ProgressSound
  <2>3. LiveOf(h) = live[e] /\ LiveOf(h)' = live[e] \cup {index[e] + 1}
    BY <1>1, <1>5, <2>2 DEF LiveOf
  <2>4. index[e] + 1 \notin live[e]
    BY <1>4, <1>5 DEF FilesIInv, IInv, KeysHandedOut
  <2>5. metaPath'[e][index[e] + 1] = NoPath
    BY <1>0, <1>4, <1>5 DEF StoreFound, UnfilledPaths, Refs
  <2>6. /\ req[t].dup => h \in Hash /\ req[t].rec # NoMeta /\ req[t].rec.entry = e
                         /\ req[t].rec.ref \in live[e]
        /\ ~req[t].dup /\ h \in Hash => live[e] = {}
    BY <1>0, <1>2, <2>2, <2>3 DEF StoreFound, StoringSound
  <2>. QED  BY <1>1, <1>5, <2>2, <2>3, <2>4, <2>5, <2>6 DEF StoredSound, PathOf
<1>9. UnfilledPaths'
  BY <1>0, <1>3, UnfilledStay DEF CellsKept
<1>. QED  BY <1>1, <1>2, <1>3, <1>6, <1>7, <1>8, <1>9, StoreFoundStep

-----------------------------------------------------------------------------
(* Release after its calls of the store.                                    *)

\* Metadata in the hands of a Release stays as the store returned it.
LEMMA HasNewStays ==
    ASSUME FilesIInv, FilesApart, Meetings, StoreFound, NEW t \in Threads,
           UNCHANGED <<vars, metaPath>>, overlap \subseteq overlap', OthersKept(t),
           HasNew(t), HasNew(t)',
           req'[t].hash = req[t].hash, req'[t].new = req[t].new, req'[t].dup = req[t].dup,
           req'[t].rec = req[t].rec,
           Stage(t)' \in {"link", "swap"} => req[t].dup /\ req[t].rec # NoMeta
    PROVE  StoreFound'
<1>1. OthersWait(t) /\ UNCHANGED <<table, heap>>
  BY DEF OthersWait, vars, locals
<1>2. CellsKept(t)
  BY <1>1, SameHeapKeepsCells
<1>3. NewSound(t)'
  BY <1>1 DEF StoreFound, NewSound, heap
<1>4. StoringSound(t)'
  BY DEF StoringSound, HasNew
<1>5. StoredSound(t)'
  <2>. SUFFICES ASSUME req[t].hash \in Calm PROVE StoredSound(t)'
    BY DEF StoredSound, Calm
  <2>. QED  BY <1>1 DEF StoreFound, StoredSound, LiveOf, heap, PathOf
<1>6. UnfilledPaths'
  BY <1>2, UnfilledStay DEF CellsKept
<1>. QED  BY <1>1, <1>2, <1>3, <1>4, <1>5, <1>6, StoreFoundStep

\* A Release that fails removes its own metadata.
LEMMA DropNewKeepsStoreFound ==
    ASSUME FilesIInv, FilesApart, Meetings, StoreFound, NEW t \in Threads, DropNew(t),
           UNCHANGED <<metaPath, overlap>>
    PROVE  StoreFound'
<1>1. req \in [Threads -> Request] /\ req[t] \in Request
  BY DEF FilesIInv, FilesTypeOK
<1>2. OthersKept(t) /\ Stage(t)' = "dropping"
  BY <1>1 DEF DropNew, Goto, OthersKept, Stage, Request
<1>. QED  BY <1>2, BeginRemoveKeepsStoreFound DEF DropNew

\* From the new metadata to the link in place, no cell changes.
LEMMA LinkingKeepsStoreFound ==
    ASSUME FilesIInv, FilesApart, Meetings, StoreFound, NEW t \in Threads,
           UpdateInfo(t) \/ LinkOriginal(t) \/ LinkFails(t) \/ SwapInDuplicate(t)
    PROVE  StoreFound'
<1>0. req \in [Threads -> Request] /\ req[t] \in Request /\ metaPath' = metaPath
  BY DEF FilesIInv, FilesTypeOK, UpdateInfo, LinkOriginal, LinkFails, SwapInDuplicate
<1>1. CASE DropNew(t)
  <2>1. overlap' = overlap
    BY <1>0, <1>1 DEF UpdateInfo, LinkOriginal, LinkFails, SwapInDuplicate, DropNew, Goto, Request
  <2>. QED  BY <1>0, <1>1, <2>1, DropNewKeepsStoreFound
<1>2. CASE ~DropNew(t)
  <2>1. UNCHANGED vars /\ overlap \subseteq overlap' /\ HasNew(t)
    BY <1>2 DEF UpdateInfo, LinkOriginal, LinkFails, SwapInDuplicate, At, HasNew
  <2>2. PICK stage \in {"link", "swap", "fill"} :
            /\ Goto(t, stage)
            /\ stage \in {"link", "swap"} => req[t].dup /\ req[t].rec # NoMeta
    <3>1. Stage(t) = "link" => req[t].dup /\ req[t].rec # NoMeta
      BY DEF StoreFound, NewSound
    <3>. QED  BY <1>2, <3>1 DEF UpdateInfo, LinkOriginal, LinkFails, SwapInDuplicate, At
  <2>3. /\ OthersKept(t) /\ Stage(t)' = stage
        /\ req'[t].hash = req[t].hash /\ req'[t].new = req[t].new
        /\ req'[t].dup = req[t].dup /\ req'[t].rec = req[t].rec
    BY <1>0, <2>2 DEF OthersKept, Goto, Stage, Request
  <2>4. HasNew(t)'
    BY <2>3 DEF HasNew
  <2>. QED  BY <1>0, <2>1, <2>2, <2>3, <2>4, HasNewStays
<1>. QED  BY <1>1, <1>2

\* The metadata that gets its Path is among those handed out.
LEMMA FillMetadataKeepsCells ==
    ASSUME FilesIInv, StoreFound, NEW t \in Threads, FillMetadata(t)
    PROVE  LET new == req[t].new IN
           /\ OthersKept(t) /\ OthersWait(t) /\ UNCHANGED <<table, heap>> /\ CellsKept(t)
           /\ Stage(t)' \in {"idle", "dropping"}
           /\ new \in Meta /\ new.entry \in allocated /\ home[new.entry] = req[t].hash
           /\ new.ref <= index[new.entry]
           /\ \A e \in Entries, r \in Refs :
                 <<e, r>> # <<new.entry, new.ref>> => metaPath'[e][r] = metaPath[e][r]
           /\ \A e \in Entries \ {new.entry} : metaPath'[e] = metaPath[e]
<1>. DEFINE new == req[t].new
<1>0. /\ req \in [Threads -> Request] /\ req[t] \in Request /\ overlap' = overlap
      /\ Stage(t) = "fill" /\ Blank.stage = "idle"
      /\ metaPath \in [Entries -> [Refs -> Path \cup {NoPath, Gone}]]
  BY DEF FilesIInv, FilesTypeOK, FillMetadata, At, Blank
<1>1. PICK path : metaPath' = [metaPath EXCEPT ![new.entry][new.ref] = path]
  BY DEF FillMetadata
<1>2. /\ OthersKept(t)
      /\ Stage(t)' \in {"idle", "dropping"}
      /\ UNCHANGED <<table, heap>> /\ OthersWait(t)
  <2>1. CASE DropNew(t)
    <3>1. OthersKept(t) /\ Stage(t)' = "dropping"
      BY <1>0, <2>1 DEF DropNew, Goto, OthersKept, Stage, Request
    <3>2. UNCHANGED <<table, heap>> /\ OthersWait(t)
      BY <2>1 DEF DropNew, BeginRemove, Step, FilesIInv, IInv, TypeOK, OthersWait
    <3>. QED  BY <3>1, <3>2
  <2>2. CASE Return(t) /\ UNCHANGED vars
    BY <1>0, <2>2 DEF Return, OthersKept, Stage, vars, locals, OthersWait
  <2>. QED  BY <2>1, <2>2 DEF FillMetadata
<1>3. /\ new \in Meta /\ new.entry \in allocated /\ home[new.entry] = req[t].hash
      /\ new.ref <= index[new.entry] /\ t \in Engaged
  BY <1>0 DEF FilesIInv, StageSound, RequestSound, StoreFound, NewSound, HasNew, Engaged, Stage
<1>4. /\ \A e \in Entries \ {new.entry} : metaPath'[e] = metaPath[e]
      /\ \A e \in Entries, r \in Refs :
            <<e, r>> # <<new.entry, new.ref>> => metaPath'[e][r] = metaPath[e][r]
  BY <1>0, <1>1
<1>5. HeapGrows
  BY <1>2, StoreAssumption DEF HeapGrows, heap, FilesIInv, IInv, TypeOK
<1>6. CellsKept(t)
  <2>1. \A e \in allocated : metaPath'[e] = metaPath[e] \/ req[t].hash = home[e]
    BY <1>3, <1>4 DEF FilesIInv, IInv, TypeOK
  <2>. QED  BY <1>0, <1>2, <1>3, <1>5, <2>1 DEF CellsKept, CellKept, LiveOf, heap
<1>. QED  BY <1>2, <1>3, <1>4, <1>6

\* The Path goes into the Release's own cell.
LEMMA FillMetadataKeepsStoreFound ==
    ASSUME FilesIInv, FilesApart, Meetings, StoreFound, NEW t \in Threads, FillMetadata(t)
    PROVE  StoreFound'
<1>. DEFINE new == req[t].new
<1>1. /\ OthersKept(t) /\ OthersWait(t) /\ UNCHANGED <<table, heap>> /\ CellsKept(t)
      /\ Stage(t)' \in {"idle", "dropping"}
      /\ new \in Meta /\ new.entry \in allocated /\ home[new.entry] = req[t].hash
      /\ new.ref <= index[new.entry]
      /\ \A e \in Entries, r \in Refs :
            <<e, r>> # <<new.entry, new.ref>> => metaPath'[e][r] = metaPath[e][r]
  BY FillMetadataKeepsCells
<1>2. UnfilledPaths'
  <2>. SUFFICES ASSUME NEW e \in Entries, NEW r \in Refs, r > index'[e] PROVE metaPath'[e][r] = NoPath
    BY DEF UnfilledPaths
  <2>1. index' = index /\ index[e] \in Nat /\ r \in Nat /\ new.ref \in Nat
    BY <1>1, StoreAssumption DEF heap, FilesIInv, IInv, TypeOK, Refs, Meta
  <2>2. metaPath[e][r] = NoPath
    BY <2>1 DEF StoreFound, UnfilledPaths
  <2>3. e = new.entry => r # new.ref
    BY <1>1, <2>1
  <2>. QED  BY <1>1, <2>2, <2>3
<1>3. NewSound(t)' /\ StoringSound(t)' /\ StoredSound(t)'
  BY <1>1 DEF NewSound, StoringSound, StoredSound, HasNew, Stage
<1>. QED  BY <1>1, <1>2, <1>3, StoreFoundStep

\* Initially there is no metadata.
LEMMA InitStoreFound == FilesInit => StoreFound
<1>. SUFFICES ASSUME FilesInit PROVE StoreFound
  OBVIOUS
<1>1. \A t \in Threads : Stage(t) = "idle"
  BY DEF FilesInit, Blank, Stage
<1>. QED  BY <1>1 DEF FilesInit, StoreFound, UnfilledPaths, NewSound, StoringSound, StoredSound, HasNew

\* What every Release knows of the store stays true after every step.
LEMMA FilesNextKeepsStoreFound ==
    ASSUME OnceWorkload, FilesIInv, FilesApart, Meetings, StoreFound, [FilesNext]_filesVars
    PROVE  StoreFound'
<1>1. CASE UNCHANGED filesVars
  <2>1. UNCHANGED <<table, heap, pc, req, metaPath, overlap>>
    BY <1>1 DEF filesVars, vars
  <2>. QED  BY <2>1 DEF StoreFound, UnfilledPaths, NewSound, StoringSound, StoredSound, HasNew, heap,
            LiveOf, PathOf, Stage, Calm
<1>2. CASE FilesNext
  <2>1. PICK t \in Threads : OnceStep(t)
    BY <1>2, StepsAreOnceSteps
  <2>2. ASSUME ReleaseStep(t) PROVE StoreFound'
    BY <2>2, HandlesKeepStoreFound, LookupOldMetadataKeepsStoreFound, ReleaseTestKeepsStoreFound,
       ReleaseCreateEntryKeepsStoreFound, ReleaseLookupEntryKeepsStoreFound,
       ReleaseRecentKeepsStoreFound, ReleaseNewMetadataKeepsStoreFound, LinkingKeepsStoreFound,
       FillMetadataKeepsStoreFound, RemovingKeepsStoreFound DEF ReleaseStep
  <2>. QED  BY <2>1, <2>2, HandlesKeepStoreFound, UnlinkFileKeepsStoreFound,
            RemovingKeepsStoreFound DEF OnceStep
<1>. QED  BY <1>1, <1>2

-----------------------------------------------------------------------------
(* What the invariant says of two requests, and of a node info.             *)


\* The types, in one place.
LEMMA CalmTypes ==
    ASSUME FilesIInv
    PROVE  /\ req \in [Threads -> Request]
           /\ names \in [Path -> Inode \cup {NoFile}] /\ own \in [Path -> Inode \cup {NoFile}]
           /\ tmp \in [Path -> Inode \cup {NoFile}]
           /\ nodeInfo \in [Path -> Info \cup {NoInfo}]
           /\ want \in [Inode -> Contents]
           /\ NoFile \notin Inode /\ Gone \notin Path /\ NoPath \notin Path
           /\ Path \cap AllHash = {} /\ NoHash \notin Hash /\ Hash \subseteq AllHash
           /\ 0 \notin Refs
           /\ \A h \in AllHash : LiveOf(h) \subseteq Refs
           /\ \A p \in Path : nodeInfo[p] # NoInfo => nodeInfo[p].hash \in AllHash
BY FilesAssumption, StoreAssumption, HashesAreContents
   DEF FilesIInv, FilesTypeOK, IInv, TypeOK, AllHash, Refs, LiveOf, TableSound, Info

\* A request that holds a file on a calm path or is engaged there is alone.
LEMMA HandlesAlone ==
    ASSUME CalmIInv, NEW u \in Threads, NEW v \in Threads, HoldsFile(u), HoldsFile(v),
           req[u].path = req[v].path, req[u].path \in Calm
    PROVE  u = v
<1>1. own[req[u].path] = req[u].inode /\ own[req[v].path] = req[v].inode
  BY DEF CalmIInv, NodesFound, HandleFound
<1>. QED  BY <1>1 DEF CalmIInv, FilesApart, HandleApart

\* No two requests are engaged on one calm path,
LEMMA PathAlone ==
    ASSUME CalmIInv, NEW u \in Engaged, NEW v \in Engaged, req[u].path = req[v].path,
           req[u].path \in Calm
    PROVE  u = v
BY DEF CalmIInv, Meetings, EngagedApart, Calm

\* nor on one calm hash.
LEMMA HashAlone ==
    ASSUME CalmIInv, NEW u \in Engaged, NEW v \in Engaged, req[u].hash = req[v].hash,
           req[u].hash \in Calm
    PROVE  u = v
BY DEF CalmIInv, Meetings, EngagedApart, Calm

\* No Lookup is on a calm path that a request is engaged on.
LEMMA LookupAlone ==
    ASSUME CalmIInv, NEW u \in Engaged, NEW v \in Threads, InLookup(v), req[u].path = req[v].path,
           req[u].path \in Calm
    PROVE  FALSE
BY DEF CalmIInv, Meetings, LookupsApart, Calm

\* Who is engaged.
LEMMA ReleaseEngaged ==
    ASSUME NEW u \in Threads
    PROVE  /\ InRelease(u) => u \in Engaged /\ HoldsFile(u)
           /\ InUnlink(u) => u \in Engaged
           /\ HasNew(u) => InRelease(u)
           /\ Stage(u) \in {"link", "swap", "fill"} => HasNew(u)
BY DEF InRelease, InUnlink, Engaged, HoldsFile, HasNew

\* What holds a file, or is engaged, is on a path; what is released there as well.
LEMMA CalmPlaces ==
    ASSUME CalmIInv, NEW u \in Threads
    PROVE  /\ HoldsFile(u) => /\ req[u].path \in Path /\ req[u].inode \in Inode
                              /\ req[u].inode # NoFile /\ req[u].path # Gone
           /\ InUnlink(u) \/ InLookup(u) => req[u].path \in Path
           /\ InRelease(u) => /\ req[u].to = req[u].path /\ req[u].hash = want[req[u].inode]
                              /\ (req[u].hash \in Calm => req[u].path \in Calm)
           /\ req[u].hash \in AllHash
           /\ InUnlink(u) => req[u].hash = req[u].info.hash
<1>1. req[u] \in Request /\ RequestSound(req[u])
  BY DEF CalmIInv, FilesIInv, FilesTypeOK, StageSound
<1>. QED  BY <1>1, FilesAssumption DEF CalmIInv, FilesApart, HandleApart, ReleaseSound, UnlinkSound,
          Meetings, CalmHashCalmPath, InUnlink, InLookup, RequestSound, Stage, Request

\* A node info with a calm hash is about a calm path.
LEMMA CalmInfo ==
    ASSUME CalmIInv, NEW p \in Path, nodeInfo[p] # NoInfo, nodeInfo[p].hash \in Calm \cap Hash
    PROVE  nodeInfo[p].ref # 0 /\ p \in Calm
BY CalmTypes DEF CalmIInv, NodesFound, InfoFound

\* The request at work on a node whose info has a calm hash works on that hash.
LEMMA EngagedOnInfo ==
    ASSUME CalmIInv, NEW u \in Engaged, req[u].path \in Path \cap Calm,
           nodeInfo[req[u].path] # NoInfo, nodeInfo[req[u].path].ref # 0
    PROVE  /\ nodeInfo[req[u].path].hash = req[u].hash
           /\ InUnlink(u) \/ Stage(u) \in {"link", "swap", "fill", "dropping"}
<1>1. CASE HoldsFile(u)
  <2>1. HandleFound(u)
    BY DEF CalmIInv, NodesFound, Engaged
  <2>. QED  BY <1>1, <2>1 DEF HandleFound, Engaged, NewInfo, HoldsFile, Writing, InRelease
<1>3. CASE InUnlink(u)
  <2>1. UnlinkFound(u) /\ req[u].hash = req[u].info.hash
    BY <1>3 DEF CalmIInv, NodesFound, Engaged, FilesApart, UnlinkSound
  <2>. QED  BY <1>3, <2>1 DEF UnlinkFound
<1>. QED  BY <1>1, <1>3 DEF Engaged, HoldsFile, InRelease, InUnlink

\* The original that a Release of a calm hash links to: a file with the same
\* content, that nobody writes to or removes.
LEMMA OriginalFound ==
    ASSUME CalmIInv, NEW t \in Threads, Stage(t) = "link", req[t].hash \in Calm
    PROVE  LET h == req[t].hash  z == PathOf(req[t].rec) IN
           /\ h \in Hash /\ z \in Path /\ names[z] # NoFile
           /\ want[names[z]] = h /\ Keeps(z, h)
           /\ \A u \in Threads : HoldsFile(u) => req[u].inode # names[z]
<1>. DEFINE h == req[t].hash  rec == req[t].rec  z == PathOf(rec)
            info == [hash |-> h, ref |-> rec.ref]
<1>0. t \in Engaged /\ HasNew(t) /\ InRelease(t) /\ HoldsFile(t)
  BY DEF Engaged, HasNew, InRelease, HoldsFile
<1>1. /\ h \in Hash /\ rec # NoMeta /\ rec.entry = table[h] /\ rec.ref \in LiveOf(h)
      /\ rec.ref # req[t].new.ref /\ h \in AllHash
  BY <1>0, CalmTypes DEF CalmIInv, StoreFound, NewSound, StoredSound
<1>2. rec.ref \in Refs /\ rec.ref # 0 /\ HasMetadata(info)
  <2>1. rec.ref \in Refs
    BY <1>1, CalmTypes DEF CalmIInv
  <2>. QED  BY <1>1, <2>1, CalmTypes DEF CalmIInv, HasMetadata, LiveOf
<1>3. PathOf(MetadataOf(info)) = z
  BY <1>1, <1>2 DEF MetadataOf, PathOf
<1>4. z \in Path /\ nodeInfo[z] = info
  <2>1. \/ z \in Path /\ nodeInfo[z] = info
        \/ \E u \in Threads : HasNew(u) /\ req[u].hash = h /\ req[u].new.ref = rec.ref
    BY <1>1, <1>3 DEF CalmIInv, NodesFound, MetadataFound
  <2>2. ASSUME NEW u \in Threads, HasNew(u), req[u].hash = h, req[u].new.ref = rec.ref
        PROVE  FALSE
    <3>1. u \in Engaged /\ u # t
      BY <1>1, <2>2 DEF HasNew, Engaged
    <3>. QED  BY <1>0, <2>2, <3>1, HashAlone
  <2>. QED  BY <2>1, <2>2
<1>5. nodeInfo[z] # NoInfo /\ nodeInfo[z].hash = h /\ nodeInfo[z].ref = rec.ref /\ z \in Calm
  <2>1. info \in Info
    BY <1>1, <1>2, StoreAssumption DEF Info, Refs
  <2>2. nodeInfo[z] # NoInfo
    BY <1>4, <2>1, FilesAssumption
  <2>. QED  BY <1>1, <1>4, <2>2, CalmInfo
\* Nobody is at work on that file.
<1>6. ASSUME NEW u \in Engaged, req[u].path = z PROVE u = t /\ FALSE
  <2>1. req[u].hash = h
    BY <1>2, <1>4, <1>5, <1>6, EngagedOnInfo
  <2>2. u = t
    BY <1>0, <2>1, HashAlone
  <2>3. nodeInfo[z].ref = req[t].new.ref
    <3>1. HandleFound(t) /\ req[t].path = z
      BY <1>6, <2>2 DEF CalmIInv, NodesFound
    <3>. HIDE DEF z
    <3>. QED  BY <1>0, <1>5, <3>1 DEF HandleFound
  <2>. QED  BY <1>1, <1>5, <2>3
<1>7. own[z] # NoFile
  <2>1. own[z] = NoFile => \E u \in Threads : InUnlink(u) /\ req[u].path = z
    BY <1>4, <1>5 DEF CalmIInv, NodesFound, PathFound
  <2>. QED  BY <1>6, <2>1, ReleaseEngaged
<1>8. names[z] # NoFile /\ want[own[z]] = h
  <2>1. InfoFound(z) /\ OwnersApart
    BY <1>4 DEF CalmIInv, NodesFound, FilesApart
  <2>. QED  BY <1>1, <1>2, <1>4, <1>5, <1>7, <2>1 DEF InfoFound, OwnersApart
<1>9. Keeps(z, h)
  <2>1. ASSUME NEW u \in Threads, Stage(u) \in {"link", "swap"} PROVE req[u].path # z
    BY <1>6, <2>1 DEF Engaged
  <2>. QED  BY <1>5, <1>7, <2>1 DEF Keeps
<1>10. want[names[z]] = h /\ \A u \in Threads : HoldsFile(u) => req[u].inode # names[z]
  <2>1. ContentFound(z) /\ data = want
    BY <1>4 DEF CalmIInv, NodesFound, FilesApart, OwnersApart
  <2>2. data[names[z]] = h /\ \A u \in Threads : HoldsFile(u) /\ req[u].inode = names[z] => req[u].path = z
    BY <1>5, <1>7, <1>8, <2>1 DEF ContentFound
  <2>3. ASSUME NEW u \in Threads, HoldsFile(u), req[u].path = z PROVE FALSE
    <3>1. u \notin Engaged
      BY <1>6, <2>3
    <3>2. HandleFound(u) /\ Writing(u)
      BY <2>3, <3>1, ReleaseEngaged DEF CalmIInv, NodesFound, HoldsFile
    <3>. QED  BY <1>2, <1>4, <1>5, <2>3, <3>2 DEF HandleFound, Writing, NewInfo
  <2>. QED  BY <2>1, <2>2, <2>3
<1>. QED  BY <1>1, <1>4, <1>8, <1>9, <1>10

\* So on a calm hash the link succeeds.
LEMMA LinkSucceeds ==
    ASSUME CalmIInv, NEW t \in Threads, Stage(t) = "link", req[t].hash \in Calm
    PROVE  CanLink(t)
<1>. DEFINE p == req[t].path
<1>1. InRelease(t) /\ t \in Engaged
  BY DEF InRelease, Engaged
<1>2. p \in Path \cap Calm /\ req[t].to = p /\ p # Gone
  BY <1>1, CalmPlaces, ReleaseEngaged
<1>3. tmp[p] = NoFile
  <2>1. tmp[p] # NoFile => \E u \in Threads : Stage(u) = "swap" /\ req[u].path = p
    BY <1>2 DEF CalmIInv, NodesFound, PathFound
  <2>2. ASSUME NEW u \in Threads, Stage(u) = "swap", req[u].path = p PROVE FALSE
    <3>1. u \in Engaged
      BY <2>2 DEF Engaged
    <3>. QED  BY <1>1, <1>2, <2>2, <3>1, PathAlone
  <2>. QED  BY <2>1, <2>2
<1>. QED  BY <1>2, <1>3, OriginalFound DEF CanLink, Exists

-----------------------------------------------------------------------------
(* How overlap grows.                                                       *)

\* A path is spoiled together with the hashes of the requests that are there, and
\* with what its node info leads to.
Spoils ==
    /\ overlap \subseteq overlap'
    /\ \A p \in Path \cap Calm : p \in overlap' =>
          /\ \A u \in Engaged : req[u].path = p => req[u].hash \in overlap'
          /\ nodeInfo[p] # NoInfo /\ nodeInfo[p].ref # 0 => nodeInfo[p].hash \in overlap'

\* Engaging on a path and the hash of its node info.
LEMMA EngagingSpoils ==
    ASSUME CalmIInv, NEW h \in AllHash, NEW p \in Path,
           p \in Calm /\ nodeInfo[p] # NoInfo /\ nodeInfo[p].ref # 0 => nodeInfo[p].hash = h,
           Overlapping(h, p) \subseteq overlap', overlap' \subseteq Overlapping(h, p) \cup {h}
    PROVE  Spoils
<1>1. ASSUME NEW q \in Path \cap Calm, q \in overlap'
      PROVE  q = p /\ h \in overlap'
  <2>1. \A u \in Engaged : req[u].hash \in AllHash
    BY CalmPlaces DEF Engaged
  <2>2. q \notin AllHash /\ q \notin overlap
    BY CalmTypes DEF CalmIInv, Calm
  <2>. QED  BY <1>1, <2>1, <2>2 DEF Overlapping
<1>2. ASSUME NEW u \in Engaged, req[u].path = p PROVE req[u].hash \in overlap'
  BY <1>2 DEF Overlapping, On
<1>3. overlap \subseteq overlap'
  BY DEF Overlapping
<1>. QED  BY <1>1, <1>2, <1>3 DEF Spoils

\* A Lookup that begins where a request is engaged.
LEMMA LookupSpoils ==
    ASSUME CalmIInv, NEW p \in Path, overlap' = LookupOverlapping(p)
    PROVE  Spoils
<1>1. ASSUME NEW u \in Engaged, On(u, p) PROVE req[u].path = p /\ u \in Threads
  BY <1>1, CalmTypes DEF CalmIInv, Engaged, FilesApart, ReleaseSound, InRelease, UnlinkSound, InUnlink, On
<1>2. ASSUME NEW q \in Path \cap Calm, q \in overlap'
      PROVE  q = p /\ \E u \in Engaged : req[u].path = p
  <2>1. \A u \in Engaged : req[u].hash \in AllHash
    BY CalmPlaces DEF Engaged
  <2>2. q \notin AllHash /\ q \notin overlap
    BY CalmTypes DEF CalmIInv, Calm
  <2>. QED  BY <1>1, <1>2, <2>1, <2>2 DEF LookupOverlapping
<1>3. ASSUME NEW u \in Engaged, req[u].path = p PROVE req[u].hash \in overlap'
  BY <1>3 DEF LookupOverlapping, On
<1>4. ASSUME p \in Calm, nodeInfo[p] # NoInfo, nodeInfo[p].ref # 0, NEW u \in Engaged, req[u].path = p
      PROVE  nodeInfo[p].hash = req[u].hash
  BY <1>4, EngagedOnInfo
<1>5. overlap \subseteq overlap'
  BY DEF LookupOverlapping
<1>. QED  BY <1>2, <1>3, <1>4, <1>5 DEF Spoils

\* A step that spoils nothing.
LEMMA SameOverlapSpoils == overlap' = overlap => Spoils
BY DEF Spoils, Calm

\* A node info with a hash that stays calm is about a path that stays calm.
LEMMA InfoPathsStay ==
    ASSUME CalmIInv, Spoils, NEW p \in Path \cap Calm, nodeInfo[p] # NoInfo,
           nodeInfo[p].ref # 0, nodeInfo[p].hash \in Calm'
    PROVE  p \in Calm'
BY DEF Spoils, Calm

-----------------------------------------------------------------------------
(* Steps that leave names, files and node infos alone.                      *)

NodeStep(t) ==
    /\ UNCHANGED <<disk, own, want, nodeInfo>>
    /\ OthersKept(t) /\ OthersWait(t) /\ Spoils /\ CellsKept(t)
    /\ HoldsFile(t)' => /\ HoldsFile(t)
                        /\ req'[t].path = req[t].path /\ req'[t].inode = req[t].inode
    /\ HoldsFile(t) => \/ HoldsFile(t)'
                       \/ InRelease(t) /\ (req[t].hash \notin Calm \/ Stage(t) = "fill")
    /\ InUnlink(t) => InUnlink(t)' /\ req'[t].path = req[t].path
    /\ Stage(t) \notin {"create", "swap"} /\ Stage(t)' \notin {"create", "link", "swap"}
    /\ Stage(t) = "link" => req[t].hash \notin Calm

\* A node step keeps what is said of a path,
LEMMA NodeStepKeepsPath ==
    ASSUME CalmIInv, NEW t \in Threads, NodeStep(t), NEW p \in Path
    PROVE  PathFound(p)'
<1>. SUFFICES ASSUME p \in Calm PROVE PathFound(p)'
  BY DEF NodeStep, Spoils, PathFound, Calm
<1>1. PathFound(p)
  BY DEF CalmIInv, NodesFound
<1>2. UNCHANGED <<names, tmp, own, nodeInfo>>
  BY DEF NodeStep, disk
<1>3. ASSUME NEW u \in Threads
      PROVE  /\ InUnlink(u) => InUnlink(u)' /\ req'[u].path = req[u].path
             /\ Stage(u) \in {"create", "swap"} => Stage(u)' = Stage(u) /\ req'[u].path = req[u].path
  BY DEF NodeStep, OthersKept, InUnlink, Stage
<1>. QED  BY <1>1, <1>2, <1>3 DEF PathFound

\* of its content,
LEMMA NodeStepKeepsContent ==
    ASSUME CalmIInv, NEW t \in Threads, NodeStep(t), NEW p \in Path
    PROVE  ContentFound(p)'
<1>1. UNCHANGED <<names, data, own, want, nodeInfo>>
  BY DEF NodeStep, disk
<1>. SUFFICES ASSUME own[p] # NoFile, {p, want[own[p]]} \subseteq Calm PROVE ContentFound(p)'
  BY <1>1 DEF NodeStep, Spoils, ContentFound, Calm
<1>2. /\ data[names[p]] = want[own[p]]
      /\ \A u \in Threads : HoldsFile(u) /\ req[u].inode = names[p] => req[u].path = p
      /\ \/ nodeInfo[p] # NoInfo /\ nodeInfo[p].hash = want[own[p]] /\ nodeInfo[p].ref # 0
         \/ \E u \in Threads : HoldsFile(u) /\ req[u].path = p
  BY DEF CalmIInv, NodesFound, ContentFound
<1>3. ASSUME NEW u \in Threads, HoldsFile(u)'
      PROVE  HoldsFile(u) /\ req'[u].path = req[u].path /\ req'[u].inode = req[u].inode
  BY <1>3 DEF NodeStep, OthersKept, HoldsFile, Writing, InRelease, Stage
<1>4. ASSUME NEW u \in Threads, HoldsFile(u), req[u].path = p
      PROVE  \/ HoldsFile(u)' /\ req'[u].path = p
             \/ nodeInfo[p] # NoInfo /\ nodeInfo[p].hash = want[own[p]] /\ nodeInfo[p].ref # 0
  <2>1. CASE u # t
    BY <1>4, <2>1 DEF NodeStep, OthersKept, HoldsFile, Writing, InRelease, Stage
  <2>2. CASE u = t /\ HoldsFile(t)'
    BY <1>3, <1>4, <2>2
  <2>3. CASE u = t /\ ~HoldsFile(t)'
    <3>1. InRelease(t) /\ (req[t].hash \notin Calm \/ Stage(t) = "fill")
      BY <1>4, <2>3 DEF NodeStep
    <3>2. HandleFound(t) /\ req[t].hash = want[req[t].inode] /\ req[t].hash \in AllHash
      BY <3>1, CalmPlaces DEF CalmIInv, NodesFound
    <3>3. own[p] = req[t].inode
      BY <1>4, <2>3, <3>2 DEF HandleFound
    <3>4. Stage(t) = "fill"
      BY <3>1, <3>2, <3>3
    <3>5. req[t].new.ref \in Refs /\ req[t].new.ref \in 0..MaxIndex
      BY <3>4, StoreAssumption DEF CalmIInv, FilesIInv, StageSound, RequestSound, Stage, Meta, Refs
    <3>6. nodeInfo[p] = [hash |-> req[t].hash, ref |-> req[t].new.ref]
      BY <1>4, <2>3, <3>2, <3>4 DEF HandleFound
    <3>7. nodeInfo[p] # NoInfo
      <4>1. [hash |-> req[t].hash, ref |-> req[t].new.ref] \in Info
        BY <3>2, <3>5 DEF Info
      <4>. QED  BY <3>6, <4>1, FilesAssumption
    <3>. QED  BY <3>2, <3>3, <3>5, <3>6, <3>7, CalmTypes DEF CalmIInv
  <2>. QED  BY <2>1, <2>2, <2>3
<1>. QED  BY <1>1, <1>2, <1>3, <1>4 DEF ContentFound

\* What a path keeps afterwards it kept before, for a calm hash.
LEMMA NodeStepKeepsKeeps ==
    ASSUME CalmIInv, NEW t \in Threads, NodeStep(t), NEW p \in Path, NEW h \in Calm \cap Hash,
           Keeps(p, h)'
    PROVE  Keeps(p, h)
<1>1. UNCHANGED <<own, nodeInfo>>
  BY DEF NodeStep
<1>2. own[p] # NoFile /\ nodeInfo[p] # NoInfo /\ nodeInfo[p].hash = h
  BY <1>1 DEF Keeps
<1>3. ASSUME NEW u \in Threads, Stage(u) \in {"link", "swap"}, req[u].path = p PROVE FALSE
  <2>1. u = t
    BY <1>3 DEF Keeps, NodeStep, OthersKept, Stage
  <2>2. Stage(t) = "link" /\ req[t].hash \notin Calm /\ t \in Engaged
    BY <1>3, <2>1 DEF NodeStep, Engaged
  <2>3. nodeInfo[p].ref # 0 /\ p \in Calm
    BY <1>2, CalmInfo
  <2>4. h = req[t].hash
    BY <1>2, <1>3, <2>1, <2>2, <2>3, EngagedOnInfo
  <2>. QED  BY <2>2, <2>4
<1>. QED  BY <1>2, <1>3 DEF Keeps

\* of the inode duplicates share and of a link to it,
LEMMA NodeStepKeepsShared ==
    ASSUME CalmIInv, NEW t \in Threads, NodeStep(t)
    PROVE  Shared' /\ \A u \in Threads : LinkFound(u)'
<1>1. UNCHANGED <<names, tmp, want>> /\ \A h \in Calm' \cap Hash : h \in Calm \cap Hash
  BY DEF NodeStep, disk, Spoils, Calm
<1>2. Shared'
  <2>. SUFFICES ASSUME NEW h \in Calm' \cap Hash, NEW p \in Path, NEW q \in Path, Keeps(p, h)', Keeps(q, h)'
                PROVE  names'[p] = names'[q]
    BY DEF Shared
  <2>1. Keeps(p, h) /\ Keeps(q, h) /\ h \in Calm \cap Hash
    BY <1>1, NodeStepKeepsKeeps
  <2>. QED  BY <1>1, <2>1 DEF CalmIInv, NodesFound, Shared
<1>3. ASSUME NEW u \in Threads PROVE LinkFound(u)'
  <2>. SUFFICES ASSUME Stage(u)' = "swap", req'[u].hash \in Calm' PROVE LinkFound(u)'
    BY DEF LinkFound
  <2>1. u # t /\ req'[u] = req[u] /\ Stage(u) = "swap"
    BY DEF NodeStep, OthersKept, Stage
  <2>2. req[u].hash \in Calm /\ req[u].hash \in Calm' \cap Hash
    <3>1. req[u].hash \in Calm /\ req[u].hash \in Calm'
      BY <2>1 DEF NodeStep, Spoils, Calm
    <3>2. HasNew(u) /\ req[u].dup /\ StoredSound(u)
      BY <2>1 DEF HasNew, CalmIInv, StoreFound, NewSound
    <3>. QED  BY <3>1, <3>2 DEF StoredSound
  <2>3. LinkFound(u)
    BY DEF CalmIInv, NodesFound
  <2>4. ASSUME NEW v \in Threads, HoldsFile(v)' PROVE HoldsFile(v) /\ req'[v].inode = req[v].inode
    BY <2>4 DEF NodeStep, OthersKept, HoldsFile, Writing, InRelease, Stage
  <2>5. ASSUME NEW q \in Path, Keeps(q, req[u].hash)' PROVE Keeps(q, req[u].hash)
    <3>1. PICK h \in Calm \cap Hash : h = req[u].hash /\ h = req'[u].hash
      BY <2>1, <2>2
    <3>2. Keeps(q, h)'
      BY <2>5, <3>1 DEF Keeps
    <3>. QED  BY <3>1, <3>2, NodeStepKeepsKeeps
  <2>. QED  BY <1>1, <2>1, <2>2, <2>3, <2>4, <2>5 DEF LinkFound
<1>. QED  BY <1>2, <1>3

\* and of what the other requests have found.
LEMMA NodeStepKeepsOthers ==
    ASSUME CalmIInv, NEW t \in Threads, NodeStep(t), NEW u \in Threads \ {t}
    PROVE  HandleFound(u)' /\ LookFound(u)' /\ UnlinkFound(u)'
<1>1. /\ req'[u] = req[u] /\ pc'[u] = pc[u] /\ UNCHANGED <<names, own, nodeInfo>>
      /\ overlap \subseteq overlap'
      /\ HandleFound(u) /\ LookFound(u) /\ UnlinkFound(u)
  BY DEF NodeStep, OthersKept, OthersWait, disk, Spoils, CalmIInv, NodesFound
<1>2. HandleFound(u)' /\ LookFound(u)'
  BY <1>1 DEF HandleFound, LookFound, InLookup, HoldsFile, Writing, InRelease, Stage, Calm
<1>3. UnlinkFound(u)'
  <2>. SUFFICES ASSUME InUnlink(u) PROVE UnlinkFound(u)'
    BY <1>1 DEF UnlinkFound, InUnlink, Stage
  <2>0. u \in Engaged /\ req[u].hash = req[u].info.hash /\ req[u].path \in Path
        /\ req[u].hash \in AllHash
    BY CalmPlaces, ReleaseEngaged
  <2>1. ASSUME req[u].hash \in Calm' \cap Hash
        PROVE  req[u].path \in Calm' /\ LiveOf(req[u].hash)' = LiveOf(req[u].hash)
    <3>1. req[u].hash \in Calm
      BY <1>1, <2>1 DEF Calm
    <3>2. req[u].path \in Calm
      BY <1>1, <2>0, <2>1, <3>1 DEF UnlinkFound
    <3>3. req[u].path \in Calm'
      BY <2>0, <2>1, <3>2 DEF NodeStep, Spoils, Calm
    <3>4. ~(t \in Engaged /\ req[t].hash = req[u].hash)
      BY <2>0, <3>1, HashAlone
    <3>5. CellKept(req[u].hash)
      BY <2>0, <3>1, <3>4 DEF NodeStep, CellsKept
    <3>. QED  BY <1>1, <3>3, <3>5 DEF CellKept
  <2>. QED  BY <1>1, <2>0, <2>1 DEF UnlinkFound, Stage, Calm
<1>. QED  BY <1>2, <1>3

-----------------------------------------------------------------------------
(* Steps that leave the metadata of calm hashes alone as well.              *)

LiveSameAt(h) ==
    /\ LiveOf(h)' = LiveOf(h)
    /\ LiveOf(h) # {} =>
          table'[h] = table[h] /\ metaPath'[table[h]] = metaPath[table[h]]

LiveSame == \A h \in Calm \cap AllHash : LiveSameAt(h)

\* The step is not about the metadata of h.
Elsewhere(t, h) == LiveSameAt(h) /\ (HasNew(t) => req[t].hash # h)

\* A node info keeps its metadata where the cells of its hash are kept.
LEMMA SameMetadata ==
    ASSUME NEW h \in AllHash, LiveSameAt(h), NEW r \in LiveOf(h)
    PROVE  LET info == [hash |-> h, ref |-> r] IN
           MetadataOf(info)' = MetadataOf(info) /\ PathOf(MetadataOf(info))' = PathOf(MetadataOf(info))
<1>1. /\ table'[h] = table[h] /\ metaPath'[table[h]] = metaPath[table[h]]
      /\ r \in LiveOf(h)' /\ table[h] # NoEntry
  BY DEF LiveSameAt, LiveOf
<1>. QED  BY <1>1 DEF MetadataOf, HasMetadata, PathOf, LiveOf

\* A node info is its hash and its reference.
LEMMA InfoShape ==
    ASSUME CalmIInv, NEW p \in Path, nodeInfo[p] # NoInfo
    PROVE  nodeInfo[p] = [hash |-> nodeInfo[p].hash, ref |-> nodeInfo[p].ref]
           /\ nodeInfo[p].hash \in AllHash
BY CalmTypes DEF CalmIInv, Info

\* A node step that keeps the cells of a node info's hash keeps what is said of it,
LEMMA NodeStepKeepsInfo ==
    ASSUME CalmIInv, NEW t \in Threads, NodeStep(t), NEW p \in Path,
           nodeInfo[p] # NoInfo /\ nodeInfo[p].hash \in Calm \cap Hash =>
               Elsewhere(t, nodeInfo[p].hash)
    PROVE  InfoFound(p)'
<1>. DEFINE h == nodeInfo[p].hash  r == nodeInfo[p].ref
<1>1. UNCHANGED <<own, want, nodeInfo>> /\ InfoFound(p) /\ Spoils
  BY DEF NodeStep, CalmIInv, NodesFound
<1>. SUFFICES ASSUME nodeInfo[p] # NoInfo, r # 0, h \in Calm', h \in Hash PROVE InfoFound(p)'
  BY <1>1 DEF InfoFound
<1>2. h \in Calm \cap AllHash /\ h \in Calm /\ nodeInfo[p] = [hash |-> h, ref |-> r]
  BY <1>1, InfoShape DEF Spoils, Calm
<1>3. p \in Calm /\ p \in Calm'
  BY <1>1, <1>2, InfoPathsStay DEF InfoFound
<1>4. LiveSameAt(h) /\ LiveOf(h)' = LiveOf(h)
  BY <1>1, <1>2 DEF Elsewhere, LiveSameAt
<1>5. ASSUME r \in LiveOf(h)
      PROVE  \/ PathOf(MetadataOf(nodeInfo[p]))' = p
             \/ \E u \in Threads : (Stage(u) \in {"link", "swap", "fill"})' /\ req'[u].path = p
  <2>1. CASE PathOf(MetadataOf(nodeInfo[p])) = p
    BY <1>1, <1>2, <1>4, <1>5, <2>1, SameMetadata
  <2>2. CASE \E u \in Threads : Stage(u) \in {"link", "swap", "fill"} /\ req[u].path = p
    <3>1. PICK u \in Threads : Stage(u) \in {"link", "swap", "fill"} /\ req[u].path = p
      BY <2>2
    <3>2. CASE u # t
      BY <3>1, <3>2 DEF NodeStep, OthersKept, Stage
    <3>3. CASE u = t
      <4>1. t \in Engaged /\ HasNew(t)
        BY <3>1, <3>3 DEF HasNew, Engaged
      <4>2. h = req[t].hash
        BY <1>3, <3>1, <3>3, <4>1, EngagedOnInfo
      <4>. QED  BY <1>2, <4>1, <4>2 DEF Elsewhere
    <3>. QED  BY <3>2, <3>3
  <2>. QED  BY <1>1, <1>2, <1>5, <2>1, <2>2 DEF InfoFound
<1>. QED  BY <1>1, <1>2, <1>3, <1>4, <1>5 DEF InfoFound

\* and of the metadata of the hash.
LEMMA NodeStepKeepsMetadata ==
    ASSUME CalmIInv, NEW t \in Threads, NodeStep(t), NEW h \in Hash, h \in Calm => Elsewhere(t, h)
    PROVE  MetadataFound(h)'
<1>. SUFFICES ASSUME h \in Calm', NEW r \in LiveOf(h)'
     PROVE  LET info == [hash |-> h, ref |-> r]  q == PathOf(MetadataOf(info))' IN
            \/ q \in Path /\ nodeInfo'[q] = info
            \/ \E u \in Threads : HasNew(u)' /\ req'[u].hash = h /\ req'[u].new.ref = r
  BY DEF MetadataFound
<1>1. h \in Calm /\ h \in AllHash /\ nodeInfo' = nodeInfo
  BY CalmTypes DEF NodeStep, Spoils, Calm, CalmIInv
<1>2. LiveSameAt(h) /\ r \in LiveOf(h)
  BY <1>1 DEF Elsewhere, LiveSameAt
<1>3. ASSUME NEW u \in Threads, HasNew(u), req[u].hash = h
      PROVE  HasNew(u)' /\ req'[u] = req[u]
  BY <1>1, <1>3 DEF NodeStep, OthersKept, HasNew, Stage, Elsewhere
<1>. QED  BY <1>1, <1>2, <1>3, SameMetadata DEF CalmIInv, NodesFound, MetadataFound

\* So a node step that keeps all calm cells keeps NodesFound, but for its own request.
LEMMA NodeStepKeepsNodes ==
    ASSUME CalmIInv, NEW t \in Threads, NodeStep(t), LiveSame,
           HasNew(t) => req[t].hash \notin Calm,
           HandleFound(t)' /\ LookFound(t)' /\ UnlinkFound(t)'
    PROVE  NodesFound'
<1>1. \A h \in Calm \cap AllHash : Elsewhere(t, h)
  BY DEF Elsewhere, LiveSame
<1>2. \A p \in Path : InfoFound(p)'
  BY <1>1, NodeStepKeepsInfo, CalmTypes DEF CalmIInv
<1>3. \A h \in Hash : MetadataFound(h)'
  BY <1>1, NodeStepKeepsMetadata, CalmTypes DEF CalmIInv
<1>. QED  BY <1>2, <1>3, NodeStepKeepsPath, NodeStepKeepsContent, NodeStepKeepsShared,
          NodeStepKeepsOthers DEF NodesFound

\* Where the cells are kept nothing is created or removed,
LEMMA SameCellsAreLive ==
    ASSUME CalmIInv, NEW t \in Threads, CellsKept(t), metaPath' = metaPath,
           t \in Engaged /\ req[t].hash \in Calm =>
              /\ LiveOf(req[t].hash)' = LiveOf(req[t].hash) /\ req'[t].hash = req[t].hash
              /\ LiveOf(req[t].hash) # {} => table'[req[t].hash] = table[req[t].hash]
    PROVE  LiveSame
<1>. SUFFICES ASSUME NEW h \in Calm \cap AllHash
     PROVE  LiveOf(h)' = LiveOf(h) /\ (LiveOf(h) # {} => table'[h] = table[h])
  BY DEF LiveSame, LiveSameAt
<1>1. CASE CellKept(h)
  BY <1>1 DEF CellKept
<1>2. CASE t \in Engaged /\ req[t].hash = h
  BY <1>2
<1>. QED  BY <1>1, <1>2 DEF CellsKept

\* nor where the heap is.
LEMMA SameHeapIsLive ==
    ASSUME UNCHANGED <<table, heap, metaPath>>
    PROVE  LiveSame
BY DEF LiveSame, LiveSameAt, LiveOf, heap

\* A handle goes on towards the store.
EarlyStages == {"open", "pwrite", "released", "storing", "info"}

EarlyStep(t) ==
    /\ Stage(t) \in EarlyStages /\ Stage(t)' \in EarlyStages
    /\ req'[t].path = req[t].path /\ req'[t].inode = req[t].inode /\ req'[t].info = req[t].info
    /\ req'[t].old \in {req[t].old, MetadataOf(req[t].info)}

\* The zero node info leads to no metadata: no reference is zero.
LEMMA NewInfoHasNone ==
    ASSUME FilesIInv
    PROVE  MetadataOf(NewInfo) = NoMeta
BY CalmTypes, StoreAssumption DEF MetadataOf, HasMetadata, NewInfo, FilesIInv, IInv, TypeOK, AllHash

\* Until it has new metadata a Release goes by the zero node info it was opened with.
LEMMA EarlyStepKeepsHandle ==
    ASSUME CalmIInv, NEW t \in Threads, UNCHANGED <<names, own, nodeInfo>>, overlap \subseteq overlap',
           EarlyStep(t)
    PROVE  HandleFound(t)' /\ LookFound(t)' /\ UnlinkFound(t)'
<1>1. HoldsFile(t) /\ HandleFound(t)
  BY DEF EarlyStep, EarlyStages, HoldsFile, Writing, InRelease, CalmIInv, NodesFound
<1>2. HandleFound(t)'
  <2>. SUFFICES ASSUME req[t].path \in Calm PROVE HandleFound(t)'
    BY DEF HandleFound, EarlyStep, Calm
  <2>1. req[t].info = NewInfo /\ req[t].old = NoMeta /\ req'[t].old = NoMeta
    BY <1>1, NewInfoHasNone DEF HandleFound, EarlyStep, CalmIInv
  <2>. QED  BY <1>1, <2>1 DEF HandleFound, EarlyStep, EarlyStages, Stage
<1>. QED  BY <1>2 DEF LookFound, InLookup, UnlinkFound, InUnlink, EarlyStep, EarlyStages

\* Sufficient for a step of a handle on its way to the store.
LEMMA EarlyNodeStep ==
    ASSUME CalmIInv, NEW t \in Threads, UNCHANGED <<disk, own, want, nodeInfo>>,
           OthersKept(t), OthersWait(t), Spoils, CellsKept(t), EarlyStep(t)
    PROVE  NodeStep(t)
BY DEF NodeStep, EarlyStep, EarlyStages, HoldsFile, Writing, InRelease, InUnlink, Stage

\* Writing, and the buffer a Release takes.
LEMMA WritingKeepsNodes ==
    ASSUME CalmIInv, NEW t \in Threads,
           TakeBuffer(t) \/ \E c \in Chunk : HashChunk(t, c)
    PROVE  NodesFound'
<1>0. req \in [Threads -> Request] /\ req[t] \in Request /\ Stage(t) = "open"
  BY DEF CalmIInv, FilesIInv, FilesTypeOK, TakeBuffer, HashChunk, At
<1>1. UNCHANGED <<vars, metaPath, disk, own, want, nodeInfo>>
  BY DEF TakeBuffer, HashChunk, clients
<1>2. OthersKept(t) /\ EarlyStep(t)
  <2>1. CASE TakeBuffer(t)
    <3>1. PICK h : req' = [req EXCEPT ![t].stage = "released", ![t].to = req[t].path, ![t].hash = h]
      BY <2>1 DEF TakeBuffer
    <3>. QED  BY <1>0, <3>1 DEF EarlyStep, EarlyStages, OthersKept, Stage, Request
  <2>2. CASE \E c \in Chunk : HashChunk(t, c)
    <3>1. PICK c \in Chunk : req' = [req EXCEPT ![t].stage = "pwrite", ![t].chunk = c]
      BY <2>2 DEF HashChunk
    <3>. QED  BY <1>0, <3>1 DEF EarlyStep, EarlyStages, OthersKept, Stage, Request
  <2>. QED  BY <2>1, <2>2
<1>3. Spoils
  <2>1. CASE TakeBuffer(t)
    <3>. DEFINE p == req[t].path
                kept == IF p = Gone \/ buffer[p] = NoBuffer THEN << >> ELSE buffer[p]
    <3>1. HoldsFile(t) /\ p \in Path
      BY <1>0, CalmPlaces DEF HoldsFile, Writing
    <3>2. kept \in AllHash
      BY <3>1, HashesAreContents DEF CalmIInv, FilesIInv, FilesTypeOK
    <3>3. overlap' = Overlapping(kept, p) \cup (IF p \in overlap THEN {kept} ELSE {})
      BY <2>1 DEF TakeBuffer
    <3>4. p \in Calm => nodeInfo[p] = NewInfo
      BY <1>0, <3>1 DEF CalmIInv, NodesFound, HandleFound
    <3>. HIDE DEF kept, p
    <3>. QED  BY <3>1, <3>2, <3>3, <3>4, EngagingSpoils DEF NewInfo
  <2>2. CASE \E c \in Chunk : HashChunk(t, c)
    BY <2>2, SameOverlapSpoils DEF HashChunk
  <2>. QED  BY <2>1, <2>2
<1>4. OthersWait(t) /\ UNCHANGED <<table, heap>>
  BY <1>1 DEF OthersWait, vars, locals
<1>5. CellsKept(t)
  BY <1>1, <1>3, <1>4, SameHeapKeepsCells DEF CalmIInv, Spoils
<1>6. NodeStep(t) /\ ~HasNew(t)
  BY <1>0, <1>1, <1>2, <1>3, <1>4, <1>5, EarlyNodeStep DEF HasNew
<1>7. HandleFound(t)' /\ LookFound(t)' /\ UnlinkFound(t)'
  BY <1>1, <1>2, <1>3, EarlyStepKeepsHandle DEF disk, Spoils
<1>. QED  BY <1>0, <1>1, <1>4, <1>6, <1>7, NodeStepKeepsNodes, SameHeapIsLive

-----------------------------------------------------------------------------
(* Release's steps in the store.                                            *)

\* There is no old metadata to find for a file that is new.
LEMMA LookupOldMetadataKeepsNodes ==
    ASSUME CalmIInv, NEW t \in Threads, LookupOldMetadata(t)
    PROVE  NodesFound'
<1>0. /\ req \in [Threads -> Request] /\ req[t] \in Request /\ Stage(t) = "released"
      /\ UNCHANGED <<metaPath, disk, own, want, nodeInfo, overlap>> /\ BeginStore(t, req[t].hash)
      /\ req' = [req EXCEPT ![t].stage = "storing", ![t].old = MetadataOf(req[t].info)]
  BY DEF CalmIInv, FilesIInv, FilesTypeOK, LookupOldMetadata, At, clients
<1>1. OthersKept(t) /\ EarlyStep(t)
  BY <1>0 DEF EarlyStep, EarlyStages, OthersKept, Stage, Request
<1>2. UNCHANGED <<table, heap>> /\ OthersWait(t)
  BY <1>0 DEF BeginStore, Step, CalmIInv, FilesIInv, IInv, TypeOK, OthersWait
<1>3. CellsKept(t) /\ Spoils
  BY <1>0, <1>2, SameHeapKeepsCells, SameOverlapSpoils DEF CalmIInv
<1>4. NodeStep(t) /\ ~HasNew(t)
  BY <1>0, <1>1, <1>2, <1>3, EarlyNodeStep DEF HasNew
<1>5. HandleFound(t)' /\ LookFound(t)' /\ UnlinkFound(t)'
  BY <1>0, <1>1, <1>3, EarlyStepKeepsHandle DEF disk, Spoils
<1>. QED  BY <1>0, <1>2, <1>4, <1>5, NodeStepKeepsNodes, SameHeapIsLive

\* What the five steps have in common.
LEMMA StoringStep ==
    ASSUME CalmIInv, NEW t \in Threads,
           \/ ReleaseTest(t) \/ ReleaseCreateEntry(t) \/ ReleaseLookupEntry(t)
           \/ ReleaseRecent(t) \/ ReleaseNewMetadata(t)
    PROVE  /\ Stage(t) = "storing" /\ NodeStep(t) /\ metaPath' = metaPath
           /\ HandleFound(t)' /\ LookFound(t)' /\ UnlinkFound(t)'
<1>0. /\ req \in [Threads -> Request] /\ req[t] \in Request /\ Stage(t) = "storing"
      /\ Blank.stage = "idle"
      /\ UNCHANGED <<metaPath, disk, own, want, nodeInfo, overlap>>
  BY DEF CalmIInv, FilesIInv, FilesTypeOK, ReleaseTest, ReleaseCreateEntry, ReleaseLookupEntry,
     ReleaseRecent, ReleaseNewMetadata, At, clients, Blank
<1>1. StoreStep(t) /\ pc \in [Threads -> {"idle"} \cup StorePcs \cup RemovePcs]
  BY DEF ReleaseTest, ReleaseCreateEntry, ReleaseLookupEntry, ReleaseRecent, ReleaseNewMetadata,
     StoreStep, CalmIInv, FilesIInv, IInv, TypeOK
<1>2. OthersWait(t)
  BY <1>1 DEF StoreStep, IsContentHashUnique, CheckMapEntry, CreateMapEntry, LookupMapEntry,
     RetrieveRecent, CreateMetadata, Step, locals, OthersWait
<1>3. CellsKept(t) /\ Spoils
  BY <1>0, <1>1, StoreStepKeepsCells, SameOverlapSpoils DEF CalmIInv
<1>4. OthersKept(t) /\ (EarlyStep(t) \/ Stage(t)' = "idle")
  <2>1. CASE ReleaseTest(t)
    BY <1>0, <2>1 DEF ReleaseTest, EarlyStep, EarlyStages, OthersKept, Stage, Request
  <2>2. CASE ReleaseCreateEntry(t)
    BY <1>0, <2>2 DEF ReleaseCreateEntry, EarlyStep, EarlyStages, OthersKept, Stage, Request
  <2>3. CASE ReleaseLookupEntry(t)
    BY <1>0, <2>3 DEF ReleaseLookupEntry, Return, EarlyStep, EarlyStages, OthersKept, Stage, Request
  <2>4. CASE ReleaseRecent(t)
    BY <1>0, <2>4 DEF ReleaseRecent, EarlyStep, EarlyStages, OthersKept, Stage, Request
  <2>5. CASE ReleaseNewMetadata(t)
    BY <1>0, <2>5 DEF ReleaseNewMetadata, EarlyStep, EarlyStages, OthersKept, Stage, Request
  <2>. QED  BY <2>1, <2>2, <2>3, <2>4, <2>5
<1>5. CASE EarlyStep(t)
  <2>1. NodeStep(t)
    BY <1>0, <1>2, <1>3, <1>4, <1>5, EarlyNodeStep
  <2>2. HandleFound(t)' /\ LookFound(t)' /\ UnlinkFound(t)'
    BY <1>0, <1>3, <1>5, EarlyStepKeepsHandle DEF disk, Spoils
  <2>. QED  BY <1>0, <2>1, <2>2
<1>6. CASE ~EarlyStep(t)
  <2>1. Stage(t)' = "idle"
    BY <1>4, <1>6
  <2>2. ReleaseLookupEntry(t) /\ table[hashArg[t]] = NoEntry
    BY <1>0, <2>1 DEF ReleaseTest, ReleaseCreateEntry, ReleaseLookupEntry,
       ReleaseRecent, ReleaseNewMetadata, Stage, Request
  <2>3. req[t].hash \notin Calm
    <3>. SUFFICES ASSUME req[t].hash \in Calm PROVE FALSE
      OBVIOUS
    <3>1. hashArg[t] = req[t].hash /\ req[t].hash \in Quiet /\ Busy(t)
      BY <1>0, StoringAlone DEF CalmIInv
    <3>2. pc[t] = "lookup"
      BY <2>2 DEF ReleaseLookupEntry, LookupMapEntry, Step
    <3>. QED  BY <2>2, <3>1, <3>2 DEF CalmIInv, FilesIInv, IInv, ProgressSound
  <2>4. NodeStep(t)
    BY <1>0, <1>2, <1>3, <1>4, <2>1, <2>3 DEF NodeStep, HoldsFile, Writing, InRelease, InUnlink
  <2>5. HandleFound(t)' /\ LookFound(t)' /\ UnlinkFound(t)'
    BY <2>1 DEF HandleFound, LookFound, InLookup, UnlinkFound, HoldsFile, Writing, InRelease, InUnlink
  <2>. QED  BY <1>0, <2>4, <2>5
<1>. QED  BY <1>5, <1>6

\* The store's steps in a Release up to the new metadata.
LEMMA StoringKeepsNodes ==
    ASSUME CalmIInv, NEW t \in Threads,
           ReleaseTest(t) \/ ReleaseCreateEntry(t) \/ ReleaseLookupEntry(t) \/ ReleaseRecent(t)
    PROVE  NodesFound'
<1>1. /\ Stage(t) = "storing" /\ NodeStep(t) /\ metaPath' = metaPath
      /\ HandleFound(t)' /\ LookFound(t)' /\ UnlinkFound(t)'
  BY StoringStep
<1>2. LiveSame
  <2>1. CASE UNCHANGED <<table, heap>>
    BY <1>1, <2>1, SameHeapIsLive
  <2>2. CASE CreateMapEntry(t)
    <3>1. ASSUME req[t].hash \in Calm
          PROVE  LiveOf(req[t].hash) = {} /\ LiveOf(req[t].hash)' = {} /\ req'[t].hash = req[t].hash
      <4>1. hashArg[t] = req[t].hash /\ req[t].hash \in Quiet /\ Busy(t) /\ req[t].hash \in AllHash
        BY <1>1, <3>1, StoringAlone DEF CalmIInv
      <4>2. pc[t] = "create"
        BY <2>2 DEF CreateMapEntry, Step
      <4>3. table[req[t].hash] = NoEntry
        BY <4>1, <4>2 DEF CalmIInv, FilesIInv, IInv, ProgressSound
      <4>4. PICK e \in Entries \ allocated : table' = [table EXCEPT ![req[t].hash] = e]
        BY <2>2, <4>1 DEF CreateMapEntry
      <4>5. live[e] = {} /\ live' = live /\ table'[req[t].hash] = e
        BY <2>2, <4>1, <4>4 DEF CreateMapEntry, CalmIInv, FilesIInv, IInv, FreshCells, TypeOK
      <4>6. req' = req
        BY <2>2, <4>2 DEF ReleaseTest, ReleaseCreateEntry, ReleaseLookupEntry, ReleaseRecent,
           IsContentHashUnique, LookupMapEntry, RetrieveRecent, Step
      <4>. QED  BY <4>3, <4>5, <4>6 DEF LiveOf
    <3>. QED  BY <1>1, <3>1, SameCellsAreLive DEF NodeStep
  <2>. QED  BY <2>1, <2>2 DEF ReleaseTest, ReleaseCreateEntry, ReleaseLookupEntry, ReleaseRecent,
            IsContentHashUnique, CheckMapEntry, LookupMapEntry, RetrieveRecent
<1>. QED  BY <1>1, <1>2, NodeStepKeepsNodes DEF HasNew

-----------------------------------------------------------------------------
(* Steps on the store, and steps that begin.                                *)

\* The metadata of other hashes stays where it is.
LEMMA OtherHashesElsewhere ==
    ASSUME CalmIInv, NEW t \in Threads, CellsKept(t), NEW h \in Calm \cap AllHash,
           t \in Engaged => req[t].hash # h
    PROVE  Elsewhere(t, h)
<1>1. /\ CellKept(h) /\ (HasNew(t) => req[t].hash # h)
      /\ \A e \in allocated : metaPath'[e] = metaPath[e] \/ (t \in Engaged /\ req[t].hash = home[e])
  BY ReleaseEngaged DEF CellsKept
<1>2. table[h] # NoEntry => table[h] \in allocated /\ home[table[h]] = h
  BY DEF CalmIInv, FilesIInv, IInv, TableSound
<1>. QED  BY <1>1, <1>2 DEF Elsewhere, LiveSameAt, CellKept, LiveOf

\* Where a request works on a calm hash, no file with that hash is in the hands
\* of another one.
LEMMA HashAtWork ==
    ASSUME CalmIInv, NEW t \in Engaged, req[t].hash \in Calm \cap Hash,
           NEW p \in Path, nodeInfo[p] # NoInfo, nodeInfo[p].ref # 0, nodeInfo[p].hash = req[t].hash,
           NEW u \in Engaged, req[u].path = p
    PROVE  u = t
<1>1. p \in Calm
  BY DEF CalmIInv, NodesFound, InfoFound
<1>2. nodeInfo[p].hash = req[u].hash
  BY <1>1, EngagedOnInfo
<1>. QED  BY <1>2, HashAlone

\* The new metadata is in the hands of its Release.
LEMMA NewMetadataKeepsNodes ==
    ASSUME CalmIInv, NEW t \in Threads, ReleaseNewMetadata(t)
    PROVE  NodesFound'
<1>0. /\ Stage(t) = "storing" /\ NodeStep(t) /\ metaPath' = metaPath /\ ~HasNew(t) /\ t \in Engaged
      /\ HandleFound(t)' /\ LookFound(t)' /\ UnlinkFound(t)'
  BY StoringStep DEF HasNew, Engaged
<1>1. PICK h, e, n :
         /\ h = req[t].hash /\ e = entryPtr[t] /\ n = index[e] + 1
         /\ e \in Entries /\ n \in Refs /\ index[e] \in Nat /\ hashArg[t] = h
         /\ Stage(t)' = "info" /\ req'[t].hash = h /\ req'[t].new.ref = n
         /\ live'[e] = live[e] \cup {n} /\ table' = table
         /\ UNCHANGED <<overlap, own, want, nodeInfo>> /\ OthersKept(t) /\ pc[t] = "alloc"
  <2>1. /\ req \in [Threads -> Request] /\ req[t] \in Request
        /\ CreateMetadata(t) /\ UNCHANGED <<overlap, own, want, nodeInfo>>
        /\ req' = [req EXCEPT ![t].stage = "info",
                              ![t].new = [entry |-> entryPtr[t], ref |-> index[entryPtr[t]] + 1]]
    BY DEF ReleaseNewMetadata, CalmIInv, FilesIInv, FilesTypeOK, clients
  <2>2. pc[t] = "alloc"
    BY <2>1 DEF CreateMetadata, Step
  <2>3. hashArg[t] = req[t].hash /\ entryPtr[t] \in Entries
    BY <1>0, <2>2 DEF CalmIInv, Meetings, StoreCallSound, StorePcs, Busy, FilesIInv, IInv, TypeOK, PointersSound
  <2>4. /\ index[entryPtr[t]] \in Nat /\ index[entryPtr[t]] + 1 \in Refs
        /\ live'[entryPtr[t]] = live[entryPtr[t]] \cup {index[entryPtr[t]] + 1} /\ table' = table
    BY <2>1, <2>3, StoreAssumption DEF CreateMetadata, CalmIInv, FilesIInv, IInv, TypeOK, Refs
  <2>5. /\ Stage(t)' = "info" /\ req'[t].hash = req[t].hash /\ OthersKept(t)
        /\ req'[t].new = [entry |-> entryPtr[t], ref |-> index[entryPtr[t]] + 1]
    BY <2>1 DEF OthersKept, Stage, Request
  <2>. QED  BY <2>1, <2>2, <2>3, <2>4, <2>5
<1>2. ASSUME NEW k \in Calm \cap AllHash, k # h PROVE Elsewhere(t, k)
  BY <1>0, <1>1, <1>2, OtherHashesElsewhere DEF NodeStep
<1>3. ASSUME h \in Calm
      PROVE  /\ h \in AllHash /\ table[h] # NoEntry /\ n \notin LiveOf(h)
             /\ LiveOf(h)' = LiveOf(h) \cup {n}
  <2>1. h \in AllHash /\ h \in Quiet /\ Busy(t)
    BY <1>0, <1>1, <1>3, StoringAlone DEF CalmIInv
  <2>2. e = table[h] /\ table[h] # NoEntry
    BY <1>1, <2>1 DEF CalmIInv, FilesIInv, IInv, ProgressSound
  <2>3. n \notin live[e]
    BY <1>1 DEF CalmIInv, FilesIInv, IInv, KeysHandedOut
  <2>. QED  BY <1>1, <2>1, <2>2, <2>3 DEF LiveOf
<1>4. ASSUME h \in Calm, NEW r \in LiveOf(h)
      PROVE  LET info == [hash |-> h, ref |-> r] IN
             PathOf(MetadataOf(info))' = PathOf(MetadataOf(info))
  BY <1>0, <1>1, <1>3, <1>4 DEF MetadataOf, HasMetadata, PathOf, LiveOf
<1>5. ASSUME NEW p \in Path PROVE InfoFound(p)'
  <2>1. CASE ~(nodeInfo[p] # NoInfo /\ nodeInfo[p].hash = h /\ h \in Calm \cap Hash)
    BY <1>0, <1>2, <2>1, NodeStepKeepsInfo, CalmTypes DEF CalmIInv
  <2>2. CASE nodeInfo[p] # NoInfo /\ nodeInfo[p].hash = h /\ h \in Calm \cap Hash
    <3>. DEFINE r == nodeInfo[p].ref
    <3>0. InfoFound(p) /\ nodeInfo[p] = [hash |-> h, ref |-> r]
      BY <2>2, InfoShape DEF CalmIInv, NodesFound
    <3>. SUFFICES ASSUME r # 0 PROVE InfoFound(p)'
      BY <1>1, <2>2, <3>0 DEF InfoFound
    <3>1. p \in Calm
      BY <2>2, <3>0 DEF InfoFound
    <3>2. ASSUME NEW u \in Engaged, req[u].path = p, Stage(u) # "storing" PROVE FALSE
      BY <1>0, <1>1, <2>2, <3>2, HashAtWork
    <3>3. own[p] # NoFile
      <4>1. own[p] = NoFile => \E u \in Threads : InUnlink(u) /\ req[u].path = p
        BY <2>2, <3>1 DEF CalmIInv, NodesFound, PathFound
      <4>. QED  BY <3>2, <4>1, ReleaseEngaged DEF InUnlink
    <3>4. want[own[p]] = h /\ r \in LiveOf(h)
      BY <2>2, <3>0, <3>3 DEF InfoFound
    <3>5. PathOf(MetadataOf(nodeInfo[p])) = p
      BY <2>2, <3>0, <3>2, <3>4 DEF InfoFound, Engaged
    <3>6. PathOf(MetadataOf(nodeInfo[p]))' = p /\ r \in LiveOf(h)'
      BY <1>1, <1>3, <1>4, <2>2, <3>0, <3>4, <3>5
    <3>. QED  BY <1>1, <2>2, <3>1, <3>4, <3>6 DEF InfoFound, Calm
  <2>. QED  BY <2>1, <2>2
<1>6. ASSUME NEW k \in Hash PROVE MetadataFound(k)'
  <2>1. CASE ~(k = h /\ h \in Calm)
    BY <1>0, <1>2, <2>1, NodeStepKeepsMetadata, CalmTypes DEF CalmIInv
  <2>2. CASE k = h /\ h \in Calm
    <3>. SUFFICES ASSUME NEW r \in LiveOf(h)'
         PROVE  LET info == [hash |-> h, ref |-> r]  q == PathOf(MetadataOf(info))' IN
                \/ q \in Path /\ nodeInfo'[q] = info
                \/ \E u \in Threads : HasNew(u)' /\ req'[u].hash = h /\ req'[u].new.ref = r
      BY <2>2 DEF MetadataFound
    <3>1. CASE r = n
      BY <1>1, <3>1 DEF HasNew, Stage
    <3>2. CASE r # n
      <4>1. r \in LiveOf(h) /\ MetadataFound(h)
        BY <1>3, <2>2, <3>2 DEF CalmIInv, NodesFound
      <4>2. ASSUME NEW u \in Threads, HasNew(u) PROVE HasNew(u)' /\ req'[u] = req[u]
        BY <1>0, <1>1, <4>2 DEF OthersKept, HasNew, Stage
      <4>. QED  BY <1>1, <1>4, <2>2, <4>1, <4>2 DEF MetadataFound
    <3>. QED  BY <3>1, <3>2
  <2>. QED  BY <2>1, <2>2
<1>. QED  BY <1>0, <1>5, <1>6, NodeStepKeepsPath, NodeStepKeepsContent, NodeStepKeepsShared,
          NodeStepKeepsOthers DEF NodesFound

\* On a calm hash the link succeeds; what fails drops its metadata.
LEMMA LinkFailsKeepsNodes ==
    ASSUME CalmIInv, NEW t \in Threads, LinkFails(t)
    PROVE  NodesFound'
<1>0. /\ req \in [Threads -> Request] /\ req[t] \in Request /\ Stage(t) = "link" /\ ~CanLink(t)
      /\ req' = [req EXCEPT ![t].stage = "dropping"] /\ BeginRemove(t, req[t].hash, req[t].new.ref)
      /\ UNCHANGED <<metaPath, disk, own, want, nodeInfo, overlap>>
  BY DEF CalmIInv, FilesIInv, FilesTypeOK, LinkFails, DropNew, Goto, At, clients
<1>1. /\ OthersKept(t) /\ Stage(t)' = "dropping" /\ req'[t].path = req[t].path
      /\ req'[t].inode = req[t].inode /\ req'[t].info = req[t].info /\ req'[t].old = req[t].old
      /\ req'[t].hash = req[t].hash /\ req'[t].new = req[t].new
  BY <1>0 DEF OthersKept, Stage, Request
<1>2. UNCHANGED <<table, heap>> /\ OthersWait(t)
  BY <1>0 DEF BeginRemove, Step, CalmIInv, FilesIInv, IInv, TypeOK, OthersWait
<1>3. CellsKept(t) /\ Spoils /\ LiveSame
  BY <1>0, <1>2, SameHeapKeepsCells, SameOverlapSpoils, SameHeapIsLive DEF CalmIInv
<1>4. req[t].hash \notin Calm /\ InRelease(t)
  BY <1>0, LinkSucceeds DEF InRelease
<1>5. NodeStep(t)
  BY <1>0, <1>1, <1>2, <1>3, <1>4 DEF NodeStep, HoldsFile, Writing, InRelease, InUnlink, Stage
<1>6. HandleFound(t)' /\ LookFound(t)' /\ UnlinkFound(t)'
  <2>1. HandleFound(t)
    BY DEF CalmIInv, NodesFound
  <2>2. UNCHANGED <<names, own, nodeInfo>>
    BY <1>0 DEF disk
  <2>. QED  BY <1>0, <1>1, <1>4, <2>1, <2>2 DEF HandleFound, LookFound, InLookup, UnlinkFound, HoldsFile, Writing,
            InRelease, InUnlink, Calm, Stage
<1>. QED  BY <1>3, <1>4, <1>5, <1>6, NodeStepKeepsNodes

\* What a Release drops is of no calm hash.
LEMMA DropKeepsNodes ==
    ASSUME CalmIInv, NEW t \in Threads, Drop(t)
    PROVE  NodesFound'
<1>0. /\ req \in [Threads -> Request] /\ Stage(t) = "dropping" /\ RemoveStep(t) /\ Blank.stage = "idle"
      /\ UNCHANGED <<metaPath, disk, own, want, nodeInfo, overlap>>
      /\ HandleFound(t) /\ InRelease(t) /\ HoldsFile(t)
      /\ pc \in [Threads -> {"idle"} \cup StorePcs \cup RemovePcs]
  BY DEF CalmIInv, FilesIInv, FilesTypeOK, IInv, TypeOK, Drop, At, clients, Blank, NodesFound,
     InRelease, HoldsFile
<1>1. OthersKept(t) /\ (req' = req \/ Stage(t)' = "idle")
  BY <1>0 DEF Drop, Return, OthersKept, Stage
<1>2. OthersWait(t)
  BY <1>0 DEF RemoveStep, FindMetadata, DeleteMetadata, TestEmpty, DeleteMapEntry, Step, locals, OthersWait
<1>3. CellsKept(t) /\ Spoils
  BY <1>0, StoreStepKeepsCells, SameOverlapSpoils DEF CalmIInv
<1>4. req[t].hash \notin Calm
  BY <1>0, CalmPlaces DEF HandleFound
<1>5. LiveSame
  BY <1>0, <1>3, <1>4, SameCellsAreLive
<1>6. NodeStep(t)
  BY <1>0, <1>1, <1>2, <1>3, <1>4 DEF NodeStep, HoldsFile, Writing, InRelease, InUnlink, Stage
<1>7. HandleFound(t)' /\ LookFound(t)' /\ UnlinkFound(t)'
  <2>1. UNCHANGED <<names, own, nodeInfo>>
    BY <1>0 DEF disk
  <2>. QED  BY <1>0, <1>1, <2>1 DEF HandleFound, LookFound, InLookup, UnlinkFound, HoldsFile, Writing,
            InRelease, InUnlink, Calm, Stage
<1>. QED  BY <1>4, <1>5, <1>6, <1>7, NodeStepKeepsNodes

-----------------------------------------------------------------------------
(* Lookup and Unlink.                                                       *)

\* Lookup finds a file, whose node info is there.
LEMMA LookupBeginKeepsNodes ==
    ASSUME CalmIInv, NEW t \in Threads, NEW p \in Path, LookupBegin(t, p)
    PROVE  NodesFound'
<1>. DEFINE r == [Blank EXCEPT !.stage = "stat", !.path = p]
<1>0. /\ req \in [Threads -> Request] /\ Stage(t) = "idle" /\ names[p] # NoFile
      /\ UNCHANGED <<vars, metaPath, disk, own, want, nodeInfo>>
      /\ ~\E u \in Threads : Stage(u) = "create" /\ p = req[u].path
      /\ r.stage = "stat" /\ r.path = p
      /\ req' = [req EXCEPT ![t] = r] /\ overlap' = LookupOverlapping(p)
  BY DEF CalmIInv, FilesIInv, FilesTypeOK, LookupBegin, At, clients, Exists, Blank
<1>. HIDE DEF r
<1>2. /\ OthersKept(t) /\ OthersWait(t) /\ UNCHANGED <<table, heap>>
      /\ Stage(t)' = "stat" /\ req'[t].path = p
  BY <1>0 DEF OthersKept, OthersWait, Stage, vars, locals
<1>3. Spoils
  BY <1>0, LookupSpoils
<1>4. CellsKept(t) /\ LiveSame
  BY <1>0, <1>2, <1>3, SameHeapKeepsCells, SameHeapIsLive DEF CalmIInv, Spoils
<1>5. NodeStep(t) /\ ~HasNew(t)
  BY <1>0, <1>2, <1>3, <1>4 DEF NodeStep, HoldsFile, Writing, InRelease, InUnlink, HasNew
<1>6. LookFound(t)'
  <2>. SUFFICES ASSUME p \in Calm' PROVE own[p] # NoFile /\ nodeInfo[p] # NoInfo
    BY <1>0, <1>2 DEF LookFound, InLookup, Stage
  <2>1. p \in Calm /\ PathFound(p)
    BY <1>3 DEF Spoils, Calm, CalmIInv, NodesFound
  <2>. QED  BY <1>0, <2>1 DEF PathFound
<1>7. HandleFound(t)' /\ UnlinkFound(t)'
  BY <1>2 DEF HandleFound, UnlinkFound, HoldsFile, Writing, InRelease, InUnlink, Stage
<1>. QED  BY <1>4, <1>5, <1>6, <1>7, NodeStepKeepsNodes

\* The steps of a Lookup that change nothing but the request.
LEMMA LookupGoesOnKeepsNodes ==
    ASSUME CalmIInv, NEW t \in Threads, LookupReadsInfo(t) \/ LookupFills(t)
    PROVE  NodesFound'
<1>0. /\ req \in [Threads -> Request] /\ req[t] \in Request /\ Stage(t) \in {"stat", "attr"}
      /\ UNCHANGED <<vars, metaPath, disk, own, want, nodeInfo, overlap>> /\ LookFound(t)
      /\ req[t].path \in Path /\ Blank.stage = "idle"
  BY CalmPlaces DEF CalmIInv, FilesIInv, FilesTypeOK, LookupReadsInfo, LookupFills, At, clients,
     NodesFound, InLookup, Blank
<1>1. /\ OthersKept(t)
      /\ \/ /\ Stage(t)' = IF InfoOf(req[t].path) = NewInfo THEN "look" ELSE "attr"
            /\ req'[t].path = req[t].path /\ req'[t].info = InfoOf(req[t].path)
         \/ Stage(t)' = "idle"
         \/ Stage(t) = "attr" /\ req' = req
  <2>1. CASE LookupReadsInfo(t)
    BY <1>0, <2>1 DEF LookupReadsInfo, OthersKept, Stage, Request
  <2>2. CASE LookupFills(t)
    BY <1>0, <2>2 DEF LookupFills, At, Return, OthersKept, Stage
  <2>. QED  BY <2>1, <2>2
<1>2. OthersWait(t) /\ UNCHANGED <<table, heap>>
  BY <1>0 DEF OthersWait, vars, locals
<1>3. Spoils /\ CellsKept(t) /\ LiveSame
  BY <1>0, <1>2, SameOverlapSpoils, SameHeapKeepsCells, SameHeapIsLive DEF CalmIInv
<1>4. NodeStep(t) /\ ~HasNew(t)
  BY <1>0, <1>1, <1>2, <1>3 DEF NodeStep, HoldsFile, Writing, InRelease, InUnlink, HasNew, Stage
<1>5. LookFound(t)'
  BY <1>0, <1>1 DEF LookFound, InLookup, InfoOf, Stage, Calm
<1>6. HandleFound(t)' /\ UnlinkFound(t)'
  BY <1>0, <1>1 DEF HandleFound, UnlinkFound, HoldsFile, Writing, InRelease, InUnlink, Stage
<1>. QED  BY <1>3, <1>4, <1>5, <1>6, NodeStepKeepsNodes

\* Unlink finds the node info of its file.
LEMMA UnlinkBeginKeepsNodes ==
    ASSUME CalmIInv, NEW t \in Threads, NEW p \in Path, UnlinkBegin(t, p)
    PROVE  NodesFound'
<1>. DEFINE r == [Blank EXCEPT !.stage = "unlink", !.path = p, !.info = InfoOf(p),
                               !.exists = (nodeInfo[p] # NoInfo), !.hash = InfoOf(p).hash]
<1>0. /\ req \in [Threads -> Request] /\ Stage(t) = "idle" /\ own[p] # NoFile
      /\ UNCHANGED <<vars, metaPath, disk, own, want, nodeInfo>>
      /\ ~\E u \in Threads : Stage(u) = "create" /\ p = req[u].path
      /\ r.stage = "unlink" /\ r.path = p /\ r.info = InfoOf(p) /\ r.exists = (nodeInfo[p] # NoInfo)
      /\ req' = [req EXCEPT ![t] = r] /\ overlap' = Overlapping(InfoOf(p).hash, p)
  BY DEF CalmIInv, FilesIInv, FilesTypeOK, UnlinkBegin, At, clients, Blank, DirectoryFree
<1>. HIDE DEF r
<1>1. InfoOf(p).hash \in AllHash
  BY CalmTypes DEF InfoOf, NewInfo, CalmIInv, AllHash
<1>2. /\ OthersKept(t) /\ OthersWait(t) /\ UNCHANGED <<table, heap>>
      /\ Stage(t)' = "unlink" /\ req'[t].path = p /\ req'[t].info = InfoOf(p)
      /\ req'[t].exists = (nodeInfo[p] # NoInfo)
  BY <1>0 DEF OthersKept, OthersWait, Stage, vars, locals
<1>3. Spoils
  <2>1. nodeInfo[p] # NoInfo => nodeInfo[p].hash = InfoOf(p).hash
    BY DEF InfoOf
  <2>. QED  BY <1>0, <1>1, <2>1, EngagingSpoils
<1>4. CellsKept(t) /\ LiveSame
  BY <1>0, <1>2, <1>3, SameHeapKeepsCells, SameHeapIsLive DEF CalmIInv, Spoils
<1>5. NodeStep(t) /\ ~HasNew(t)
  BY <1>0, <1>2, <1>3, <1>4 DEF NodeStep, HoldsFile, Writing, InRelease, InUnlink, HasNew
<1>6. UnlinkFound(t)'
  <2>1. ASSUME p \in Calm' PROVE nodeInfo[p] = InfoOf(p) /\ nodeInfo[p] # NoInfo
    <3>1. p \in Calm /\ PathFound(p)
      BY <1>3, <2>1 DEF Spoils, Calm, CalmIInv, NodesFound
    <3>. QED  BY <1>0, <3>1 DEF PathFound, InfoOf
  <2>2. PICK info : info = InfoOf(p)
    OBVIOUS
  <2>3. ASSUME info.hash \in Calm' \cap Hash
        PROVE  p \in Calm' /\ info.ref \in LiveOf(info.hash)'
    <3>1. nodeInfo[p] # NoInfo /\ info = nodeInfo[p]
      BY <2>2, <2>3, CalmTypes DEF InfoOf, NewInfo, CalmIInv
    <3>2. nodeInfo[p].hash \in Calm \cap Hash
      BY <1>3, <2>3, <3>1 DEF Spoils, Calm
    <3>3. nodeInfo[p].ref # 0 /\ p \in Calm
      BY <3>1, <3>2, CalmInfo
    <3>4. p \in Calm'
      BY <1>3, <2>3, <3>1, <3>3, InfoPathsStay
    <3>5. info.ref \in LiveOf(info.hash)
      BY <1>0, <3>1, <3>2, <3>3 DEF CalmIInv, NodesFound, InfoFound
    <3>. QED  BY <1>2, <3>4, <3>5 DEF LiveOf, heap
  <2>4. ASSUME info.hash \in Calm' \cap Hash
        PROVE  p \in Calm' /\ (info.ref \in LiveOf(info.hash))'
    BY <2>3, <2>4
  <2>. QED  BY <1>0, <1>2, <2>1, <2>2, <2>4 DEF UnlinkFound, Stage
<1>7. HandleFound(t)' /\ LookFound(t)'
  BY <1>2 DEF HandleFound, LookFound, InLookup, HoldsFile, Writing, InRelease, Stage
<1>. QED  BY <1>4, <1>5, <1>6, <1>7, NodeStepKeepsNodes

\* Unlink removes the metadata of the file that has gone.
LEMMA UnlinkRemovesKeepsNodes ==
    ASSUME CalmIInv, NEW t \in Threads, UnlinkRemoves(t)
    PROVE  NodesFound'
<1>0. /\ req \in [Threads -> Request] /\ req[t] \in Request /\ Stage(t) = "unlinking" /\ RemoveStep(t)
      /\ UNCHANGED <<metaPath, disk, own, want, nodeInfo, overlap>>
      /\ UnlinkFound(t) /\ InUnlink(t) /\ t \in Engaged
      /\ pc \in [Threads -> {"idle"} \cup StorePcs \cup RemovePcs]
  BY DEF CalmIInv, FilesIInv, FilesTypeOK, IInv, TypeOK, UnlinkRemoves, At, clients, NodesFound,
     InUnlink, Engaged
<1>1. /\ OthersKept(t) /\ Stage(t)' \in {"unlinking", "forget"}
      /\ req'[t].path = req[t].path /\ req'[t].info = req[t].info /\ req'[t].hash = req[t].hash
      /\ req'[t].exists = req[t].exists
  BY <1>0 DEF UnlinkRemoves, Goto, OthersKept, Stage, Request
<1>2. OthersWait(t)
  BY <1>0 DEF RemoveStep, FindMetadata, DeleteMetadata, TestEmpty, DeleteMapEntry, Step, locals, OthersWait
<1>3. CellsKept(t) /\ Spoils
  BY <1>0, StoreStepKeepsCells, SameOverlapSpoils DEF CalmIInv
<1>4. NodeStep(t) /\ ~HasNew(t)
  BY <1>0, <1>1, <1>2, <1>3 DEF NodeStep, HoldsFile, Writing, InRelease, InUnlink, Stage, HasNew
<1>5. HandleFound(t)' /\ LookFound(t)'
  BY <1>1 DEF HandleFound, LookFound, InLookup, HoldsFile, Writing, InRelease, Stage
<1>6. PICK h, r, p : /\ h = req[t].hash /\ r = req[t].info.ref /\ p = req[t].path
                     /\ h = req[t].info.hash /\ h \in Hash /\ h \in AllHash /\ p \in Path
                     /\ hashArg[t] = h /\ refArg[t] = r /\ Busy(t)
  BY <1>0, CalmPlaces, CalmTypes DEF CalmIInv, Meetings, StoreCallSound, RemovePcs, Busy
\* What the store's steps do to a calm hash.
<1>7. ASSUME h \in Calm
      PROVE  /\ p \in Calm /\ (r \in LiveOf(h) <=> pc[t] \in {"find", "dec"})
             /\ pc[t] \in {"dec", "test", "delete"} => table[h] # NoEntry
             /\ pc[t] = "dec" => entryPtr[t] = table[h]
             /\ pc[t] = "delete" => LiveOf(h) = {}
  <2>1. h \in Quiet /\ ProgressSound
    BY <1>6, <1>7 DEF CalmIInv, FilesIInv, IInv, Meetings, Calm, Quiet
  <2>. QED  BY <1>0, <1>6, <1>7, <2>1 DEF UnlinkFound, ProgressSound, LiveOf
<1>8. ASSUME h \in Calm
      PROVE  /\ r \in LiveOf(h)' <=> pc'[t] \in {"find", "dec"}
             /\ LiveOf(h)' = IF DeleteMetadata(t) THEN LiveOf(h) \ {r} ELSE LiveOf(h)
             /\ LiveOf(h) # {} => table'[h] = table[h]
  <2>1. CASE FindMetadata(t)
    <3>1. r \in LiveOf(h) /\ r # 0 /\ h # NoHash
      BY <1>6, <1>7, <1>8, <2>1, CalmTypes DEF FindMetadata, Step, CalmIInv
    <3>2. Found(h, r)
      BY <3>1 DEF Found, LiveOf
    <3>. QED  BY <1>0, <1>6, <2>1, <3>1, <3>2 DEF FindMetadata, DeleteMetadata, Step, LiveOf, heap
  <2>2. CASE TestEmpty(t)
    BY <1>0, <1>7, <1>8, <2>2 DEF TestEmpty, DeleteMetadata, Step, LiveOf, heap
  <2>3. CASE DeleteMapEntry(t)
    BY <1>0, <1>6, <1>7, <1>8, <2>3 DEF DeleteMapEntry, DeleteMetadata, Step, LiveOf, heap,
       CalmIInv, FilesIInv, IInv, TypeOK
  <2>4. CASE DeleteMetadata(t)
    <3>1. table[h] \in Entries /\ table' = table /\ live' = [live EXCEPT ![table[h]] = @ \ {r}]
          /\ pc[t] = "dec" /\ pc'[t] = "test" /\ table[h] # NoEntry
      BY <1>0, <1>6, <1>7, <1>8, <2>4 DEF DeleteMetadata, Step, CalmIInv, FilesIInv, IInv, TypeOK
    <3>. QED  BY <2>4, <3>1 DEF LiveOf, CalmIInv, FilesIInv, IInv, TypeOK
  <2>. QED  BY <1>0, <2>1, <2>2, <2>3, <2>4 DEF RemoveStep
<1>9. UnlinkFound(t)'
  <2>1. own[p] = NoFile \/ p \notin Calm
    BY <1>0, <1>6 DEF UnlinkFound
  <2>. QED  BY <1>0, <1>1, <1>6, <1>7, <1>8, <2>1 DEF UnlinkFound, Stage, Calm
<1>10. CASE h \in Calm => ~DeleteMetadata(t)
  <2>1. LiveSame
    BY <1>0, <1>1, <1>3, <1>6, <1>8, <1>10, SameCellsAreLive
  <2>. QED  BY <1>4, <1>5, <1>9, <2>1, NodeStepKeepsNodes
<1>11. CASE h \in Calm /\ DeleteMetadata(t)
  <2>0. pc[t] = "dec" /\ table' = table /\ table[h] # NoEntry /\ r \in LiveOf(h)
        /\ LiveOf(h)' = LiveOf(h) \ {r}
    BY <1>7, <1>8, <1>11 DEF DeleteMetadata, Step
  <2>1. ASSUME NEW s \in LiveOf(h) \ {r}
        PROVE  LET info == [hash |-> h, ref |-> s] IN
               PathOf(MetadataOf(info))' = PathOf(MetadataOf(info))
    BY <1>0, <2>0, <2>1 DEF MetadataOf, HasMetadata, PathOf, LiveOf
  <2>2. ASSUME NEW k \in Calm \cap AllHash, k # h PROVE Elsewhere(t, k)
    BY <1>3, <1>6, <2>2, OtherHashesElsewhere
  \* Nobody else is at work where a node info has the hash.
  <2>3. ASSUME NEW q \in Path, nodeInfo[q] # NoInfo, nodeInfo[q].hash = h, nodeInfo[q].ref # 0,
               NEW u \in Threads, Stage(u) \in {"link", "swap", "fill"}, req[u].path = q
        PROVE  FALSE
    <3>1. u \in Engaged
      BY <2>3 DEF Engaged
    <3>2. u = t
      BY <1>0, <1>6, <1>11, <2>3, <3>1, HashAtWork
    <3>. QED  BY <1>0, <2>3, <3>2
  <2>4. nodeInfo[p] # NoInfo /\ nodeInfo[p] = [hash |-> h, ref |-> r] /\ own[p] = NoFile /\ r # 0
    <3>1. nodeInfo[p] = req[t].info /\ own[p] = NoFile
      BY <1>0, <1>6, <1>7, <1>11 DEF UnlinkFound
    <3>2. req[t].info \in Info
      BY <1>0 DEF Request
    <3>3. r # 0
      BY <1>6, <2>0, CalmTypes DEF CalmIInv
    <3>. QED  BY <1>6, <3>1, <3>2, <3>3, FilesAssumption, InfoShape
  <2>5. PathOf(MetadataOf(nodeInfo[p])) = p
    BY <1>6, <1>11, <2>0, <2>3, <2>4 DEF CalmIInv, NodesFound, InfoFound
  <2>6. ASSUME NEW q \in Path PROVE InfoFound(q)'
    <3>1. CASE ~(nodeInfo[q] # NoInfo /\ nodeInfo[q].hash = h)
      BY <1>4, <2>2, <3>1, NodeStepKeepsInfo, CalmTypes DEF CalmIInv
    <3>2. CASE nodeInfo[q] # NoInfo /\ nodeInfo[q].hash = h
      <4>. DEFINE s == nodeInfo[q].ref
      <4>0. InfoFound(q) /\ nodeInfo[q] = [hash |-> h, ref |-> s]
        BY <3>2, InfoShape DEF CalmIInv, NodesFound
      <4>. SUFFICES ASSUME s # 0 PROVE InfoFound(q)'
        BY <1>0, <3>2, <4>0 DEF InfoFound
      <4>1. /\ q \in Calm
            /\ own[q] # NoFile => want[own[q]] = h /\ s \in LiveOf(h)
            /\ s \in LiveOf(h) => PathOf(MetadataOf(nodeInfo[q])) = q
        BY <1>6, <1>11, <2>3, <3>2, <4>0 DEF InfoFound
      <4>2. own[q] # NoFile => s # r
        BY <2>4, <2>5, <4>0, <4>1
      <4>3. s \in LiveOf(h)' => PathOf(MetadataOf(nodeInfo[q]))' = q
        BY <1>0, <2>0, <2>1, <4>0, <4>1
      <4>. QED  BY <1>0, <2>0, <3>2, <4>1, <4>2, <4>3 DEF InfoFound, Calm
    <3>. QED  BY <3>1, <3>2
  <2>7. ASSUME NEW k \in Hash PROVE MetadataFound(k)'
    <3>1. CASE k # h
      BY <1>4, <2>2, <3>1, NodeStepKeepsMetadata, CalmTypes DEF CalmIInv
    <3>2. CASE k = h
      <4>. SUFFICES ASSUME NEW s \in LiveOf(h) \ {r}
           PROVE  LET info == [hash |-> h, ref |-> s]  q == PathOf(MetadataOf(info))' IN
                  \/ q \in Path /\ nodeInfo'[q] = info
                  \/ \E u \in Threads : HasNew(u)' /\ req'[u].hash = h /\ req'[u].new.ref = s
        BY <2>0, <3>2 DEF MetadataFound
      <4>1. MetadataFound(h)
        BY <1>6 DEF CalmIInv, NodesFound
      <4>2. ASSUME NEW u \in Threads, HasNew(u) PROVE HasNew(u)' /\ req'[u] = req[u]
        BY <1>1, <1>4, <4>2 DEF OthersKept, HasNew, Stage
      <4>. QED  BY <1>0, <1>11, <2>1, <4>1, <4>2 DEF MetadataFound
    <3>. QED  BY <3>1, <3>2
  <2>. QED  BY <1>4, <1>5, <1>9, <2>6, <2>7, NodeStepKeepsPath, NodeStepKeepsContent,
            NodeStepKeepsShared, NodeStepKeepsOthers DEF NodesFound
<1>. QED  BY <1>10, <1>11

-----------------------------------------------------------------------------
(* The last step of a Release.                                              *)

\* The new metadata's Path leads back to the node that leads to it.
LEMMA FillMetadataKeepsNodes ==
    ASSUME CalmIInv, NEW t \in Threads, FillMetadata(t)
    PROVE  NodesFound'
<1>0. /\ req \in [Threads -> Request] /\ req[t] \in Request /\ Stage(t) = "fill"
      /\ Blank.stage = "idle" /\ UNCHANGED <<disk, own, want, nodeInfo, overlap>>
      /\ HandleFound(t) /\ InRelease(t) /\ HoldsFile(t) /\ HasNew(t) /\ t \in Engaged
      /\ metaPath \in [Entries -> [Refs -> Path \cup {NoPath, Gone}]]
  BY DEF CalmIInv, FilesIInv, FilesTypeOK, FillMetadata, At, clients, Blank, NodesFound,
     InRelease, HoldsFile, HasNew, Engaged
<1>1. PICK new, h, p :
         /\ new = req[t].new /\ h = req[t].hash /\ p = req[t].path
         /\ OthersKept(t) /\ OthersWait(t) /\ UNCHANGED <<table, heap>> /\ CellsKept(t)
         /\ Stage(t)' \in {"idle", "dropping"}
         /\ new \in Meta /\ new.entry \in allocated /\ home[new.entry] = h
         /\ \A e \in Entries, r \in Refs :
               <<e, r>> # <<new.entry, new.ref>> => metaPath'[e][r] = metaPath[e][r]
         /\ \A e \in Entries \ {new.entry} : metaPath'[e] = metaPath[e]
         /\ p \in Path /\ req[t].to = p /\ h \in AllHash /\ (h \in Calm => p \in Calm)
  BY <1>0, FillMetadataKeepsCells, CalmPlaces DEF CalmIInv
<1>2. Spoils
  BY <1>0, SameOverlapSpoils
\* On a calm path the metadata is new, and Release is over.
<1>3. ASSUME p \in Calm
      PROVE  /\ Stage(t)' = "idle" /\ metaPath'[new.entry][new.ref] = p
             /\ nodeInfo[p] = [hash |-> h, ref |-> new.ref]
  <2>1. req[t].old = NoMeta /\ nodeInfo[p] = [hash |-> h, ref |-> new.ref]
    BY <1>0, <1>1, <1>3 DEF HandleFound
  <2>. QED  BY <1>0, <1>1, <2>1 DEF FillMetadata, Return, Stage, Meta, CalmIInv, FilesIInv, IInv, TypeOK
<1>4. NodeStep(t)
  BY <1>0, <1>1, <1>2 DEF NodeStep, HoldsFile, Writing, InRelease, InUnlink, Stage, FillMetadata,
     DropNew, Goto, Return, Request
<1>5. HandleFound(t)' /\ LookFound(t)' /\ UnlinkFound(t)'
  <2>1. Stage(t)' = "dropping" => p \notin Calm' /\ req'[t].path = p
    BY <1>0, <1>1, <1>3 DEF FillMetadata, DropNew, Goto, Return, Stage, Request, Calm
  <2>. QED  BY <1>1, <2>1 DEF HandleFound, LookFound, InLookup, UnlinkFound, HoldsFile, Writing,
            InRelease, InUnlink, Stage
<1>6. ASSUME NEW k \in Calm \cap AllHash, k # h PROVE Elsewhere(t, k)
  BY <1>0, <1>1, <1>6, OtherHashesElsewhere
<1>7. ASSUME h \in Calm
      PROVE  /\ table[h] = new.entry /\ table[h] # NoEntry /\ new.ref \in LiveOf(h)
             /\ PathOf(new) = NoPath /\ LiveOf(h)' = LiveOf(h)
  <2>1. StoredSound(t) /\ NoEntry \notin Entries
    BY StoreAssumption DEF CalmIInv, StoreFound
  <2>. QED  BY <1>0, <1>1, <1>7, <2>1 DEF StoredSound, LiveOf, heap, Meta
<1>8. ASSUME h \in Calm, NEW r \in LiveOf(h)
      PROVE  LET info == [hash |-> h, ref |-> r] IN
             PathOf(MetadataOf(info))' = IF r = new.ref THEN p ELSE PathOf(MetadataOf(info))
  <2>1. r \in Refs /\ new.entry \in Entries /\ new.ref \in Refs
    BY <1>1, <1>8, CalmTypes DEF CalmIInv, Meta
  <2>2. metaPath'[table[h]][r] = IF r = new.ref THEN p ELSE metaPath[table[h]][r]
    BY <1>1, <1>3, <1>7, <1>8, <2>1
  <2>3. table' = table /\ live' = live /\ table[h] # NoEntry /\ r \in live[table[h]]
    BY <1>1, <1>7, <1>8 DEF heap, LiveOf
  <2>. QED  BY <2>2, <2>3 DEF MetadataOf, HasMetadata, PathOf
<1>9. ASSUME NEW q \in Path PROVE InfoFound(q)'
  <2>1. CASE ~(nodeInfo[q] # NoInfo /\ nodeInfo[q].hash = h /\ h \in Calm \cap Hash)
    BY <1>4, <1>6, <2>1, NodeStepKeepsInfo, CalmTypes DEF CalmIInv
  <2>2. CASE nodeInfo[q] # NoInfo /\ nodeInfo[q].hash = h /\ h \in Calm \cap Hash
    <3>. DEFINE s == nodeInfo[q].ref
    <3>0. InfoFound(q) /\ nodeInfo[q] = [hash |-> h, ref |-> s]
      BY <2>2, InfoShape DEF CalmIInv, NodesFound
    <3>. SUFFICES ASSUME s # 0 PROVE InfoFound(q)'
      BY <1>0, <2>2, <3>0 DEF InfoFound
    <3>1. /\ q \in Calm
          /\ own[q] # NoFile => want[own[q]] = h /\ s \in LiveOf(h)
      BY <2>2, <3>0 DEF InfoFound
    <3>2. ASSUME NEW u \in Threads, Stage(u) \in {"link", "swap", "fill"}, req[u].path = q
          PROVE  u = t
      <4>1. u \in Engaged
        BY <3>2 DEF Engaged
      <4>. QED  BY <1>0, <1>1, <2>2, <3>2, <4>1, HashAtWork
    <3>3. ASSUME s \in LiveOf(h)
          PROVE  PathOf(MetadataOf(nodeInfo[q])) = q \/ q = p
      BY <1>1, <2>2, <3>0, <3>2, <3>3 DEF InfoFound
    <3>4. PathOf(MetadataOf(nodeInfo[q]))' = q \/ s \notin LiveOf(h)
      <4>. SUFFICES ASSUME s \in LiveOf(h) PROVE PathOf(MetadataOf(nodeInfo[q]))' = q
        OBVIOUS
      <4>1. PathOf(MetadataOf(nodeInfo[q]))' = IF s = new.ref THEN p ELSE PathOf(MetadataOf(nodeInfo[q]))
        BY <1>0, <1>8, <2>2, <3>0
      <4>2. q = p => s = new.ref
        BY <1>3, <3>0, <3>1
      <4>3. CASE s = new.ref
        <5>1. MetadataOf(nodeInfo[q]) = new
          BY <1>1, <1>7, <2>2, <3>0, <4>3 DEF MetadataOf, HasMetadata, LiveOf, Meta
        <5>2. PathOf(MetadataOf(nodeInfo[q])) # q
          BY <1>7, <2>2, <5>1, FilesAssumption
        <5>. QED  BY <3>3, <4>1, <4>3, <5>2
      <4>4. CASE s # new.ref
        BY <3>3, <4>1, <4>2, <4>4
      <4>. QED  BY <4>3, <4>4
    <3>. QED  BY <1>0, <1>7, <2>2, <3>1, <3>4 DEF InfoFound, Calm
  <2>. QED  BY <2>1, <2>2
<1>10. ASSUME NEW k \in Hash PROVE MetadataFound(k)'
  <2>1. CASE ~(k = h /\ h \in Calm)
    BY <1>4, <1>6, <2>1, NodeStepKeepsMetadata, CalmTypes DEF CalmIInv
  <2>2. CASE k = h /\ h \in Calm
    <3>. SUFFICES ASSUME NEW s \in LiveOf(h)
         PROVE  LET info == [hash |-> h, ref |-> s]  q == PathOf(MetadataOf(info))' IN
                \/ q \in Path /\ nodeInfo'[q] = info
                \/ \E u \in Threads : HasNew(u)' /\ req'[u].hash = h /\ req'[u].new.ref = s
      BY <1>7, <2>2 DEF MetadataFound
    <3>1. CASE s = new.ref
      BY <1>0, <1>1, <1>3, <1>8, <2>2, <3>1
    <3>2. CASE s # new.ref
      <4>1. ASSUME NEW u \in Threads, HasNew(u), req[u].hash = h, req[u].new.ref = s PROVE FALSE
        <5>1. u = t
          BY <1>0, <1>1, <2>2, <4>1, ReleaseEngaged, HashAlone
        <5>. QED  BY <1>1, <3>2, <4>1, <5>1
      <4>2. MetadataFound(h)
        BY <2>2 DEF CalmIInv, NodesFound
      <4>. QED  BY <1>0, <1>8, <2>2, <3>2, <4>1, <4>2 DEF MetadataFound
    <3>. QED  BY <3>1, <3>2
  <2>. QED  BY <2>1, <2>2
<1>. QED  BY <1>4, <1>5, <1>9, <1>10, NodeStepKeepsPath, NodeStepKeepsContent,
          NodeStepKeepsShared, NodeStepKeepsOthers DEF NodesFound

-----------------------------------------------------------------------------
(* Steps at one path that leave the store alone.                            *)

\* A node info keeps its metadata in an unchanged store.
LEMMA SameStoreSameInfo ==
    ASSUME UNCHANGED <<table, heap, metaPath>>
    PROVE  /\ \A h : LiveOf(h)' = LiveOf(h)
           /\ \A h, r : LET info == [hash |-> h, ref |-> r] IN
                        PathOf(MetadataOf(info))' = PathOf(MetadataOf(info))
BY DEF LiveOf, MetadataOf, HasMetadata, PathOf, heap

\* What is at the path may change hands, but not what a node info with a calm
\* hash says while its metadata is there.
AtPath(t, p) ==
    /\ UNCHANGED <<table, heap, metaPath, data, want>>
    /\ OthersKept(t) /\ OthersWait(t)
    /\ overlap \subseteq overlap' /\ overlap' \subseteq overlap \cup {p}
    /\ \A q \in Path \ {p} :
          names'[q] = names[q] /\ tmp'[q] = tmp[q] /\ own'[q] = own[q] /\ nodeInfo'[q] = nodeInfo[q]
    /\ (req[t].path = p \/ Stage(t) = "idle") /\ (req'[t].path = p \/ Stage(t)' = "idle")
    /\ p \in Calm => \A u \in Threads \ {t} :
                        HoldsFile(u) \/ u \in Engaged \/ InLookup(u) => req[u].path # p
    /\ HoldsFile(t)' => \/ HoldsFile(t) /\ req'[t].inode = req[t].inode
                        \/ \A q \in Path : req'[t].inode \notin {names[q], tmp[q]}
    /\ nodeInfo[p] # NoInfo /\ nodeInfo[p].hash \in Calm \cap Hash =>
          nodeInfo'[p] = nodeInfo[p] \/ nodeInfo[p].ref \notin LiveOf(nodeInfo[p].hash)
    /\ HasNew(t) /\ req[t].hash \in Calm =>
          HasNew(t)' /\ req'[t].hash = req[t].hash /\ req'[t].new = req[t].new

\* Where the path has a calm content afterwards, others with it show the same inode.
StillShared(t, p) ==
    \A h \in Calm \cap Hash :
        Keeps(p, h)' =>
            \/ Keeps(p, h) /\ names'[p] = names[p]
            \/ /\ t \in Engaged /\ req[t].hash = h
               /\ \A q \in Path \ {p} : Keeps(q, h) => names[q] = names'[p]

\* A step at one path keeps what the other requests have found,
LEMMA AtPathOthers ==
    ASSUME CalmIInv, NEW t \in Threads, NEW p \in Path, AtPath(t, p), NEW u \in Threads \ {t}
    PROVE  HandleFound(u)' /\ LookFound(u)' /\ UnlinkFound(u)'
<1>1. /\ req'[u] = req[u] /\ pc'[u] = pc[u] /\ \A h : LiveOf(h)' = LiveOf(h)
      /\ HandleFound(u) /\ LookFound(u) /\ UnlinkFound(u) /\ p \notin AllHash
      /\ InUnlink(u) => req[u].info.hash \in AllHash
  BY SameStoreSameInfo, CalmTypes, CalmPlaces DEF AtPath, OthersKept, OthersWait, CalmIInv, NodesFound
<1>2. CASE HoldsFile(u) \/ u \in Engaged \/ InLookup(u)
  <2>0. req[u].path \in Path
    BY <1>2, CalmPlaces, ReleaseEngaged DEF Engaged, InUnlink, InRelease
  <2>1. CASE req[u].path = p
    <3>1. p \notin Calm /\ p \notin Calm'
      BY <1>2, <2>1 DEF AtPath, Calm
    <3>2. HandleFound(u)' /\ LookFound(u)'
      BY <1>1, <2>1, <3>1 DEF HandleFound, LookFound, InLookup, Stage
    <3>3. InUnlink(u) => req[u].info.hash \notin Calm' \cap Hash
      BY <1>1, <2>1, <3>1 DEF UnlinkFound, AtPath, Calm
    <3>. QED  BY <1>1, <2>1, <3>1, <3>2, <3>3 DEF UnlinkFound, InUnlink, Stage
  <2>2. CASE req[u].path # p
    <3>1. /\ names'[req[u].path] = names[req[u].path] /\ own'[req[u].path] = own[req[u].path]
          /\ nodeInfo'[req[u].path] = nodeInfo[req[u].path]
          /\ \A x : x # p => (x \in Calm' <=> x \in Calm)
      BY <2>0, <2>2 DEF AtPath, Calm
    <3>2. InUnlink(u) => req[u].info.hash # p
      BY <1>1
    <3>3. req[u].hash # p
      BY <1>1, CalmPlaces
    <3>4. HandleFound(u)' /\ LookFound(u)'
      BY <1>1, <2>2, <3>1, <3>3 DEF HandleFound, LookFound, InLookup, HoldsFile, Writing, InRelease, Stage
    <3>. QED  BY <1>1, <2>2, <3>1, <3>2, <3>4 DEF UnlinkFound, InUnlink, Stage
  <2>. QED  BY <2>1, <2>2
<1>3. CASE ~(HoldsFile(u) \/ u \in Engaged \/ InLookup(u))
  <2>1. ~HoldsFile(u)' /\ ~InUnlink(u)' /\ ~InLookup(u)'
    BY <1>1, <1>3, ReleaseEngaged DEF HoldsFile, Writing, InRelease, InUnlink, InLookup, Stage
  <2>. QED  BY <2>1 DEF HandleFound, LookFound, InLookup, UnlinkFound
<1>. QED  BY <1>2, <1>3

\* what is said of the other paths,
LEMMA AtPathElsewhere ==
    ASSUME CalmIInv, NEW t \in Threads, NEW p \in Path, AtPath(t, p), NEW q \in Path \ {p}
    PROVE  PathFound(q)' /\ ContentFound(q)' /\ InfoFound(q)'
<1>1. /\ names'[q] = names[q] /\ tmp'[q] = tmp[q] /\ own'[q] = own[q] /\ nodeInfo'[q] = nodeInfo[q]
      /\ want' = want /\ data' = data /\ overlap \subseteq overlap' /\ (q \in Calm => q \in Calm')
      /\ PathFound(q) /\ ContentFound(q) /\ InfoFound(q)
  BY DEF AtPath, Calm, CalmIInv, NodesFound
<1>2. ASSUME NEW u \in Threads, Stage(u) # "idle", req[u].path = q
      PROVE  u # t /\ req'[u] = req[u]
  BY <1>2 DEF AtPath, OthersKept
<1>3. PathFound(q)'
  BY <1>1, <1>2 DEF PathFound, InUnlink, Stage, Calm
<1>4. ContentFound(q)'
  <2>. SUFFICES ASSUME own[q] # NoFile, {q, want[own[q]]} \subseteq Calm PROVE ContentFound(q)'
    BY <1>1 DEF ContentFound, Calm
  <2>1. ASSUME NEW u \in Threads, HoldsFile(u)', req'[u].inode = names[q] PROVE req'[u].path = q
    <3>1. CASE u # t
      BY <1>1, <2>1, <3>1 DEF AtPath, OthersKept, HoldsFile, Writing, InRelease, Stage, ContentFound
    <3>2. CASE u = t
      <4>1. HoldsFile(t) /\ req[t].inode = names[q]
        BY <2>1, <3>2 DEF AtPath
      <4>2. req[t].path = q
        BY <1>1, <4>1 DEF ContentFound
      <4>. QED  BY <4>1, <4>2 DEF AtPath, HoldsFile, Writing, InRelease
    <3>. QED  BY <3>1, <3>2
  <2>2. ASSUME NEW u \in Threads, HoldsFile(u), req[u].path = q PROVE HoldsFile(u)' /\ req'[u].path = q
    BY <1>2, <2>2 DEF HoldsFile, Writing, InRelease, Stage
  <2>. QED  BY <1>1, <2>1, <2>2 DEF ContentFound
<1>5. InfoFound(q)'
  <2>. SUFFICES ASSUME nodeInfo[q] # NoInfo, nodeInfo[q].ref # 0,
                nodeInfo[q].hash \in Calm' \cap Hash
       PROVE  InfoFound(q)'
    BY <1>1 DEF InfoFound
  <2>1. nodeInfo[q].hash \in Calm /\ nodeInfo[q] = [hash |-> nodeInfo[q].hash, ref |-> nodeInfo[q].ref]
    BY <1>1, InfoShape DEF Calm
  <2>2. /\ PathOf(MetadataOf(nodeInfo[q]))' = PathOf(MetadataOf(nodeInfo[q]))
        /\ LiveOf(nodeInfo[q].hash)' = LiveOf(nodeInfo[q].hash)
    BY <1>1, <2>1, SameStoreSameInfo DEF AtPath
  <2>3. ASSUME NEW u \in Threads, Stage(u) \in {"link", "swap", "fill"}, req[u].path = q
        PROVE  (Stage(u) \in {"link", "swap", "fill"})' /\ req'[u].path = q
    BY <1>2, <2>3 DEF Stage
  <2>. QED  BY <1>1, <2>1, <2>2, <2>3 DEF InfoFound
<1>. QED  BY <1>3, <1>4, <1>5

\* of the metadata,
LEMMA AtPathKeepsMetadata ==
    ASSUME CalmIInv, NEW t \in Threads, NEW p \in Path, AtPath(t, p), NEW h \in Hash
    PROVE  MetadataFound(h)'
<1>. SUFFICES ASSUME h \in Calm', NEW r \in LiveOf(h)'
     PROVE  LET info == [hash |-> h, ref |-> r]  q == PathOf(MetadataOf(info))' IN
            \/ q \in Path /\ nodeInfo'[q] = info
            \/ \E u \in Threads : HasNew(u)' /\ req'[u].hash = h /\ req'[u].new.ref = r
  BY DEF MetadataFound
<1>. DEFINE info == [hash |-> h, ref |-> r]  q == PathOf(MetadataOf(info))
<1>1. h \in Calm /\ r \in LiveOf(h) /\ PathOf(MetadataOf(info))' = q
  BY SameStoreSameInfo DEF AtPath, Calm
<1>2. \/ q \in Path /\ nodeInfo[q] = info
      \/ \E u \in Threads : HasNew(u) /\ req[u].hash = h /\ req[u].new.ref = r
  BY <1>1 DEF CalmIInv, NodesFound, MetadataFound
<1>3. ASSUME NEW u \in Threads, HasNew(u), req[u].hash = h
      PROVE  HasNew(u)' /\ req'[u].hash = h /\ req'[u].new = req[u].new
  BY <1>1, <1>3 DEF AtPath, OthersKept, HasNew, Stage
<1>4. ASSUME q \in Path, nodeInfo[q] = info PROVE nodeInfo'[q] = info
  <2>1. info \in Info /\ info.hash = h /\ info.ref = r
    BY <1>1, CalmTypes, StoreAssumption DEF CalmIInv, Info, Refs
  <2>2. info # NoInfo
    BY <2>1, FilesAssumption
  <2>. HIDE DEF info, q
  <2>. QED  BY <1>1, <1>4, <2>1, <2>2 DEF AtPath
<1>. QED  BY <1>1, <1>2, <1>3, <1>4

\* and of the inode that duplicates share.
LEMMA AtPathKeepsShared ==
    ASSUME CalmIInv, NEW t \in Threads, NEW p \in Path, AtPath(t, p), StillShared(t, p)
    PROVE  Shared' /\ \A u \in Threads \ {t} : LinkFound(u)'
<1>1. ASSUME NEW q \in Path \ {p}, NEW h, Keeps(q, h)' PROVE Keeps(q, h) /\ names'[q] = names[q]
  <2>1. own[q] # NoFile /\ nodeInfo[q] # NoInfo /\ nodeInfo[q].hash = h /\ names'[q] = names[q]
    BY <1>1 DEF Keeps, AtPath
  <2>2. ASSUME NEW u \in Threads, Stage(u) \in {"link", "swap"} PROVE req[u].path # q
    <3>1. CASE u = t
      BY <2>2, <3>1 DEF AtPath
    <3>2. CASE u # t
      BY <1>1, <2>2, <3>2 DEF AtPath, OthersKept, Keeps, Stage
    <3>. QED  BY <3>1, <3>2
  <2>. QED  BY <2>1, <2>2 DEF Keeps
<1>2. \A h \in Calm' \cap Hash : h \in Calm \cap Hash
  BY DEF AtPath, Calm
<1>3. Shared'
  <2>. SUFFICES ASSUME NEW h \in Calm' \cap Hash, NEW q1 \in Path, NEW q2 \in Path,
                       Keeps(q1, h)', Keeps(q2, h)'
                PROVE  names'[q1] = names'[q2]
    BY DEF Shared
  <2>1. \A q \in Path : Keeps(q, h) => \A q3 \in Path : Keeps(q3, h) => names[q] = names[q3]
    BY <1>2 DEF CalmIInv, NodesFound, Shared
  <2>. QED  BY <1>1, <1>2, <2>1 DEF StillShared
<1>4. ASSUME NEW u \in Threads \ {t} PROVE LinkFound(u)'
  <2>1. req'[u] = req[u] /\ LinkFound(u)
    BY DEF AtPath, OthersKept, CalmIInv, NodesFound
  <2>. SUFFICES ASSUME Stage(u) = "swap", req[u].hash \in Calm' PROVE LinkFound(u)'
    BY <2>1 DEF LinkFound, Stage
  <2>2. InRelease(u) /\ u \in Engaged /\ HoldsFile(u) /\ req[u].hash \in Calm
    BY DEF InRelease, Engaged, HoldsFile, AtPath, Calm
  <2>3. req[u].path \in Path \ {p} /\ req[u].hash \in Calm \cap Hash
    <3>1. req[u].path \in Path /\ req[u].path \in Calm
      BY <2>2, CalmPlaces
    <3>2. req[u].path # p
      BY <2>2, <3>1 DEF AtPath
    <3>3. HasNew(u) /\ req[u].dup /\ StoredSound(u)
      BY DEF HasNew, CalmIInv, StoreFound, NewSound
    <3>. QED  BY <2>2, <3>1, <3>2, <3>3 DEF StoredSound
  <2>4. PICK i : i = tmp[req[u].path] /\ i = tmp'[req[u].path]
    BY <2>3 DEF AtPath
  <2>5. PICK h : h = req[u].hash
    OBVIOUS
  <2>6. want'[i] = h
    BY <2>1, <2>2, <2>4, <2>5 DEF LinkFound, AtPath
  <2>7. ASSUME NEW v \in Threads, HoldsFile(v)' PROVE req'[v].inode # i
    <3>1. CASE v # t
      BY <2>1, <2>2, <2>4, <2>7, <3>1 DEF AtPath, OthersKept, HoldsFile, Writing, InRelease, Stage, LinkFound
    <3>2. CASE v = t
      BY <2>1, <2>2, <2>3, <2>4, <2>7, <3>2 DEF AtPath, LinkFound
    <3>. QED  BY <3>1, <3>2
  <2>8. ASSUME NEW q \in Path, Keeps(q, h)' PROVE names'[q] = i
    <3>1. CASE Keeps(q, h) /\ names'[q] = names[q]
      BY <2>1, <2>2, <2>4, <2>5, <3>1 DEF LinkFound
    <3>2. CASE q = p /\ t \in Engaged /\ req[t].hash = h
      BY <2>2, <2>5, <3>2, HashAlone
    <3>3. q = p => (Keeps(p, h) /\ names'[p] = names[p]) \/ (t \in Engaged /\ req[t].hash = h)
      BY <2>3, <2>5, <2>8 DEF StillShared
    <3>. QED  BY <1>1, <2>8, <3>1, <3>2, <3>3
  <2>9. \A q \in Path : Keeps(q, h)' => names'[q] = i
    BY <2>8
  <2>. QED  BY <2>1, <2>4, <2>5, <2>6, <2>7, <2>9 DEF LinkFound
<1>. QED  BY <1>3, <1>4

\* So only the path and the request of the step are to be looked at.
LEMMA AtPathKeepsNodes ==
    ASSUME CalmIInv, NEW t \in Threads, NEW p \in Path, AtPath(t, p), StillShared(t, p),
           PathFound(p)' /\ ContentFound(p)' /\ InfoFound(p)',
           HandleFound(t)' /\ LookFound(t)' /\ UnlinkFound(t)' /\ LinkFound(t)'
    PROVE  NodesFound'
BY AtPathOthers, AtPathElsewhere, AtPathKeepsMetadata, AtPathKeepsShared DEF NodesFound

\* A Release or an Unlink, and a new file, are alone on a calm path.
LEMMA EngagedAlone ==
    ASSUME CalmIInv, NEW t \in Threads, NEW p \in Path \cap Calm, req[t].path = p,
           InRelease(t) \/ InUnlink(t), NEW u \in Threads \ {t},
           HoldsFile(u) \/ u \in Engaged \/ InLookup(u)
    PROVE  req[u].path # p
<1>. SUFFICES ASSUME req[u].path = p PROVE FALSE
  OBVIOUS
<1>1. u \notin Engaged /\ ~InLookup(u)
  BY PathAlone, LookupAlone, ReleaseEngaged
<1>2. HoldsFile(u) /\ Writing(u)
  BY <1>1, ReleaseEngaged DEF HoldsFile
<1>3. ~HoldsFile(t)
  BY <1>2, HandlesAlone
<1>4. InUnlink(t) /\ WriterSound(u)
  BY <1>3 DEF HoldsFile, CalmIInv, FilesApart
<1>. QED  BY <1>2, <1>4 DEF WriterSound

\* Where the node info has no calm hash.
LEMMA NotKept ==
    ASSUME CalmIInv, NEW t \in Threads, NEW p \in Path,
           own'[p] = NoFile \/ nodeInfo'[p] \in {NoInfo, NewInfo}
               \/ (nodeInfo'[p] # NoInfo => nodeInfo'[p].hash \notin Calm \cap Hash)
    PROVE  StillShared(t, p)
BY CalmTypes DEF StillShared, Keeps, NewInfo, CalmIInv

-----------------------------------------------------------------------------
(* The steps at one path, and all steps.                                    *)

\* The zero node info is not a missing one.
LEMMA NewInfoIsInfo == NewInfo # NoInfo
BY FilesAssumption, StoreAssumption DEF NewInfo, Info, AllHash

\* Create puts a fresh inode at a path that has nothing.
LEMMA CreateKeepsNodes ==
    ASSUME CalmIInv, NEW t \in Threads, NEW p \in Path, Create(t, p)
    PROVE  NodesFound'
<1>0. PICK i \in FreshInodes :
         /\ names' = [names EXCEPT ![p] = i] /\ own' = [own EXCEPT ![p] = i]
         /\ data' = [data EXCEPT ![i] = << >>]
         /\ req' = [req EXCEPT ![t] = [Blank EXCEPT !.stage = "create", !.path = p, !.inode = i, !.file = i,
                                                    !.info = InfoOf(p)]]
  BY DEF Create
<1>1. /\ Stage(t) = "idle" /\ names[p] = NoFile
      /\ UNCHANGED <<vars, tmp, nodeInfo, metaPath, want, overlap>>
      /\ \A u \in Threads : Stage(u) # "create" /\ ~InUnlink(u)
      /\ i \in Inode /\ want[i] = << >> /\ i # NoFile
      /\ \A q \in Path : i \notin {names[q], tmp[q], own[q]}
      /\ \A u \in Threads : req[u].inode # i
  BY FilesAssumption DEF Create, At, DirectoryFree, FreshInodes, InUnlink
<1>2. /\ OthersKept(t) /\ Stage(t)' = "create" /\ req'[t].path = p /\ req'[t].inode = i
      /\ req'[t].info = InfoOf(p) /\ req'[t].old = NoMeta
  BY <1>0 DEF CalmIInv, FilesIInv, FilesTypeOK, OthersKept, Stage, Blank
<1>3. /\ names'[p] = i /\ own'[p] = i /\ data' = data
      /\ \A q \in Path \ {p} : names'[q] = names[q] /\ own'[q] = own[q]
  BY <1>0, <1>1, CalmTypes DEF CalmIInv, FilesApart, OwnersApart
<1>4. ASSUME p \in Calm PROVE own[p] = NoFile /\ nodeInfo[p] = NoInfo
  BY <1>1, <1>4 DEF CalmIInv, NodesFound, PathFound
<1>5. AtPath(t, p)
  <2>1. ASSUME p \in Calm, NEW u \in Threads, HoldsFile(u) \/ u \in Engaged \/ InLookup(u),
               req[u].path = p
        PROVE  FALSE
    <3>1. CASE HoldsFile(u)
      BY <1>4, <2>1, <3>1, CalmPlaces DEF CalmIInv, NodesFound, HandleFound
    <3>2. CASE ~HoldsFile(u)
      <4>1. InLookup(u) /\ LookFound(u)
        BY <1>1, <2>1, <3>2 DEF Engaged, HoldsFile, InRelease, InUnlink, CalmIInv, NodesFound
      <4>. QED  BY <1>4, <2>1, <4>1 DEF LookFound
    <3>. QED  BY <3>1, <3>2
  <2>2. UNCHANGED <<table, heap>> /\ OthersWait(t) /\ ~HasNew(t)
    BY <1>1 DEF vars, locals, OthersWait, HasNew
  <2>. QED  BY <1>1, <1>2, <1>3, <2>1, <2>2 DEF AtPath
<1>6. StillShared(t, p)
  <2>1. nodeInfo[p] # NoInfo => nodeInfo[p].hash \notin Calm \cap Hash
    BY <1>4, CalmInfo
  <2>. QED  BY <1>1, <2>1, NotKept
<1>7. PathFound(p)'
  <2>. SUFFICES ASSUME p \in Calm PROVE PathFound(p)'
    BY <1>1 DEF PathFound, Calm
  <2>1. ASSUME NEW u \in Threads, Stage(u) = "swap" PROVE req'[u] = req[u]
    BY <1>1, <1>2, <2>1 DEF OthersKept
  <2>. QED  BY <1>1, <1>2, <1>3, <1>4, <2>1 DEF PathFound, Stage, CalmIInv, NodesFound
<1>8. ContentFound(p)'
  <2>1. ASSUME NEW u \in Threads, req'[u].inode = i PROVE req'[u].path = p
    BY <1>1, <1>2, <2>1 DEF OthersKept
  <2>2. HoldsFile(t)' /\ data = want
    BY <1>2 DEF HoldsFile, Writing, Stage, CalmIInv, FilesApart, OwnersApart
  <2>. QED  BY <1>1, <1>2, <1>3, <2>1, <2>2 DEF ContentFound
<1>9. InfoFound(p)'
  <2>1. nodeInfo[p] # NoInfo /\ nodeInfo[p].ref # 0 => nodeInfo[p].hash \notin Calm \cap Hash
    BY <1>4 DEF CalmIInv, NodesFound, InfoFound
  <2>. QED  BY <1>1, <2>1 DEF InfoFound, CalmIInv, NodesFound, Calm
<1>10. HandleFound(t)' /\ LookFound(t)' /\ UnlinkFound(t)' /\ LinkFound(t)'
  <2>1. p \in Calm => InfoOf(p) = NewInfo
    BY <1>4 DEF InfoOf
  <2>. QED  BY <1>1, <1>2, <1>3, <1>4, <2>1 DEF HandleFound, LookFound, InLookup, UnlinkFound, LinkFound, InUnlink, Stage, Calm
<1>. QED  BY <1>5, <1>6, <1>7, <1>8, <1>9, <1>10, AtPathKeepsNodes

\* The created node gets its zero node info.
LEMMA CreateStoresInfoKeepsNodes ==
    ASSUME CalmIInv, NEW t \in Threads, CreateStoresInfo(t)
    PROVE  NodesFound'
<1>0. PICK p : /\ p = req[t].path /\ p \in Path /\ req[t].inode # NoFile
               /\ req \in [Threads -> Request] /\ req[t] \in Request /\ Stage(t) = "create"
               /\ UNCHANGED <<vars, disk, metaPath, own, want, overlap>>
               /\ nodeInfo' = IF req[t].info = NewInfo THEN [nodeInfo EXCEPT ![p] = NewInfo] ELSE nodeInfo
               /\ \/ req' = [req EXCEPT ![t].stage = "open"]
                  \/ req' = req /\ req[t].info # NewInfo
               /\ HoldsFile(t) /\ HandleFound(t)
  <2>1. /\ Stage(t) = "create" /\ HoldsFile(t) /\ HandleFound(t)
        /\ req \in [Threads -> Request] /\ req[t] \in Request
    BY DEF CreateStoresInfo, At, HoldsFile, Writing, CalmIInv, FilesIInv, FilesTypeOK, NodesFound
  <2>2. req[t].path \in Path /\ req[t].inode # NoFile
    BY <2>1, CalmPlaces
  <2>3. \/ req' = [req EXCEPT ![t].stage = "open"]
        \/ req' = req /\ req[t].info # NewInfo
    BY DEF CreateStoresInfo, FillsFromNil, Goto
  <2>. QED  BY <2>1, <2>2, <2>3 DEF CreateStoresInfo, clients
<1>1. /\ OthersKept(t) /\ req'[t].path = p /\ req'[t].inode = req[t].inode
      /\ req'[t].info = req[t].info /\ req'[t].old = req[t].old
      /\ \/ Stage(t)' = "open"
         \/ Stage(t)' = "create" /\ req[t].info # NewInfo
  BY <1>0 DEF OthersKept, Stage, Request
<1>2. /\ nodeInfo'[p] \in {NewInfo, nodeInfo[p]}
      /\ \A q \in Path \ {p} : nodeInfo'[q] = nodeInfo[q]
  BY <1>0, CalmTypes DEF CalmIInv
<1>3. ASSUME p \in Calm
      PROVE  /\ req[t].info = NewInfo /\ req[t].old = NoMeta /\ own[p] = req[t].inode
             /\ names[p] = req[t].inode /\ nodeInfo[p] = NoInfo /\ nodeInfo'[p] = NewInfo
             /\ Stage(t)' = "open"
  BY <1>0, <1>1, <1>3, CalmTypes DEF HandleFound, CalmIInv
<1>4. nodeInfo[p] # NoInfo => nodeInfo[p].hash \notin Calm \cap Hash
  BY <1>0, <1>3, CalmInfo
<1>5. AtPath(t, p)
  <2>1. ASSUME p \in Calm, NEW u \in Threads \ {t}, HoldsFile(u) \/ u \in Engaged \/ InLookup(u),
               req[u].path = p
        PROVE  FALSE
    <3>1. CASE HoldsFile(u)
      BY <1>0, <2>1, <3>1, HandlesAlone
    <3>2. CASE InLookup(u)
      BY <1>3, <2>1, <3>2 DEF CalmIInv, NodesFound, LookFound
    <3>3. CASE InUnlink(u)
      BY <1>0, <2>1, <3>3 DEF InUnlink, CalmIInv, FilesApart, OneInDirectory
    <3>. QED  BY <2>1, <3>1, <3>2, <3>3 DEF Engaged, HoldsFile, InRelease, InUnlink
  <2>2. UNCHANGED <<table, heap>> /\ OthersWait(t) /\ ~HasNew(t)
    BY <1>0 DEF vars, locals, OthersWait, HasNew
  <2>. QED  BY <1>0, <1>1, <1>2, <1>4, <2>1, <2>2 DEF AtPath, disk
<1>6. StillShared(t, p)
  BY <1>0, <1>2, <1>4, NotKept
<1>7. PathFound(p)'
  <2>. SUFFICES ASSUME p \in Calm PROVE PathFound(p)'
    BY <1>0 DEF PathFound, Calm
  <2>1. ASSUME NEW u \in Threads, Stage(u) = "swap" PROVE req'[u] = req[u]
    BY <1>0, <1>1, <2>1 DEF OthersKept
  <2>. QED  BY <1>0, <1>1, <1>3, <2>1, NewInfoIsInfo DEF PathFound, Stage, CalmIInv, NodesFound, disk
<1>8. ContentFound(p)'
  <2>1. ASSUME NEW u \in Threads, HoldsFile(u)' PROVE HoldsFile(u) /\ req'[u].inode = req[u].inode /\ req'[u].path = req[u].path
    BY <1>0, <1>1, <2>1 DEF OthersKept, HoldsFile, Writing, InRelease, Stage
  <2>2. HoldsFile(t)' /\ ContentFound(p)
    BY <1>0, <1>1 DEF HoldsFile, Writing, Stage, CalmIInv, NodesFound
  <2>. QED  BY <1>0, <1>1, <2>1, <2>2 DEF ContentFound, disk, Calm
<1>9. InfoFound(p)'
  <2>1. nodeInfo[p] # NoInfo /\ nodeInfo[p].ref # 0 => nodeInfo[p].hash \notin Calm \cap Hash
    BY <1>0, <1>3 DEF CalmIInv, NodesFound, InfoFound
  <2>2. InfoFound(p) /\ NewInfo.ref = 0 /\ NewInfo.hash = NoHash
    BY <1>0 DEF CalmIInv, NodesFound, NewInfo
  <2>. QED  BY <1>0, <1>2, <2>1, <2>2 DEF InfoFound, Calm
<1>10. HandleFound(t)' /\ LookFound(t)' /\ UnlinkFound(t)' /\ LinkFound(t)'
  BY <1>0, <1>1, <1>3 DEF HandleFound, LookFound, InLookup, UnlinkFound, LinkFound, InUnlink, Stage, Calm, disk
<1>. QED  BY <1>0, <1>5, <1>6, <1>7, <1>8, <1>9, <1>10, AtPathKeepsNodes

\* The written inode is at one path only.
LEMMA PwriteChunkKeepsNodes ==
    ASSUME CalmIInv, NEW t \in Threads, NEW off \in 0..MaxWrites, PwriteChunk(t, off)
    PROVE  NodesFound'
<1>0. PICK p, i :
         /\ p = req[t].path /\ p \in Path /\ i = req[t].inode /\ req[t].file = i /\ i \in Inode
         /\ req \in [Threads -> Request] /\ req[t] \in Request /\ Stage(t) = "pwrite"
         /\ UNCHANGED <<vars, names, tmp, nodeInfo, metaPath, own, overlap>>
         /\ req' = [req EXCEPT ![t].stage = "open"]
         /\ HoldsFile(t) /\ HandleFound(t) /\ own[p] = i
         /\ \A q \in Path : own[q] = i => q = p
         /\ \A u \in Threads : HoldsFile(u) /\ req[u].inode = i => u = t
  BY DEF PwriteChunk, CalmIInv, FilesIInv, FilesTypeOK, At, Goto, HoldsFile, Writing, NodesFound,
     FilesApart, HandleApart, WriterSound
<1>1. data' = want' /\ \A j \in Inode \ {i} : data'[j] = data[j] /\ want'[j] = want[j]
  <2>1. data = want /\ data \in [Inode -> Contents]
    BY DEF CalmIInv, FilesApart, OwnersApart, FilesIInv, FilesTypeOK
  <2>. QED  BY <1>0, <2>1 DEF PwriteChunk
<1>2. OthersKept(t) /\ EarlyStep(t) /\ Stage(t)' = "open"
  BY <1>0 DEF EarlyStep, EarlyStages, OthersKept, Stage, Request
<1>3. UNCHANGED <<table, heap, metaPath>> /\ pc' = pc
  BY <1>0 DEF vars, locals
<1>4. ASSUME p \in Calm PROVE names[p] = i /\ nodeInfo[p] = NewInfo
  BY <1>0, <1>4 DEF HandleFound
<1>5. ASSUME NEW u \in Threads
      PROVE  /\ u # t => req'[u] = req[u]
             /\ req'[u].path = req[u].path /\ req'[u].inode = req[u].inode
             /\ (HoldsFile(u)' <=> HoldsFile(u)) /\ (HasNew(u)' <=> HasNew(u))
             /\ \A s \in {"create", "link", "swap", "fill"} : Stage(u)' = s <=> Stage(u) = s
             /\ InUnlink(u)' <=> InUnlink(u)
  BY <1>0, <1>2 DEF OthersKept, EarlyStep, HoldsFile, Writing, InRelease, HasNew, InUnlink, Stage, Request
<1>6. ASSUME NEW u \in Threads PROVE HandleFound(u)' /\ LookFound(u)' /\ UnlinkFound(u)' /\ LinkFound(u)'
  <2>1. CASE u = t
    <3>1. HandleFound(t)' /\ LookFound(t)' /\ UnlinkFound(t)'
      BY <1>0, <1>2, EarlyStepKeepsHandle
    <3>. QED  BY <1>2, <2>1, <3>1 DEF LinkFound
  <2>2. CASE u # t
    <3>1. /\ req'[u] = req[u] /\ pc'[u] = pc[u] /\ \A h : LiveOf(h)' = LiveOf(h)
          /\ HandleFound(u) /\ LookFound(u) /\ UnlinkFound(u) /\ LinkFound(u)
      BY <1>3, <2>2, <1>5, SameStoreSameInfo DEF CalmIInv, NodesFound
    <3>2. HandleFound(u)' /\ LookFound(u)' /\ UnlinkFound(u)'
      BY <1>0, <3>1 DEF HandleFound, LookFound, InLookup, UnlinkFound, HoldsFile, Writing, InRelease, InUnlink, Stage, Calm
    <3>3. LinkFound(u)'
      <4>. SUFFICES ASSUME Stage(u) = "swap", req[u].hash \in Calm PROVE LinkFound(u)'
        BY <1>0, <3>1 DEF LinkFound, Stage, Calm
      <4>1. tmp[req[u].path] \in Inode /\ tmp[req[u].path] # i
        <5>1. req[u].path \in Path /\ tmp[req[u].path] # NoFile
          BY CalmPlaces, ReleaseEngaged DEF InRelease, CalmIInv, FilesApart, ReleaseSound
        <5>. QED  BY <1>0, <3>1, <5>1, CalmTypes DEF LinkFound, CalmIInv
      <4>2. \A q \in Path : \A h : Keeps(q, h)' <=> Keeps(q, h)
        BY <1>0, <1>5 DEF Keeps
      <4>. QED  BY <1>0, <1>1, <1>5, <3>1, <4>1, <4>2 DEF LinkFound
    <3>. QED  BY <3>2, <3>3
  <2>. QED  BY <2>1, <2>2
<1>7. ASSUME NEW q \in Path PROVE PathFound(q)' /\ ContentFound(q)' /\ InfoFound(q)'
  <2>1. PathFound(q) /\ ContentFound(q) /\ InfoFound(q)
    BY DEF CalmIInv, NodesFound
  <2>2. PathFound(q)'
    BY <1>0, <1>5, <2>1 DEF PathFound, Calm
  <2>3. ContentFound(q)'
    <3>. SUFFICES ASSUME own[q] # NoFile, {q, want'[own[q]]} \subseteq Calm PROVE ContentFound(q)'
      BY <1>0 DEF ContentFound, Calm
    <3>1. CASE q = p
      <4>1. names'[p] = i /\ own'[p] = i
        BY <1>0, <1>4, <3>1
      <4>. QED  BY <1>0, <1>1, <1>5, <3>1, <4>1 DEF ContentFound
    <3>2. CASE q # p
      <4>1. own[q] \in Inode \ {i} /\ want'[own[q]] = want[own[q]]
        BY <1>0, <1>1, <3>2, CalmTypes DEF CalmIInv
      <4>2. /\ data[names[q]] = want[own[q]]
            /\ \A u \in Threads : HoldsFile(u) /\ req[u].inode = names[q] => req[u].path = q
        BY <2>1, <4>1 DEF ContentFound
      <4>3. names[q] \in Inode \ {i}
        BY <1>0, <2>1, <3>2, <4>2, CalmTypes DEF PathFound, CalmIInv
      <4>. QED  BY <1>0, <1>1, <1>5, <2>1, <4>1, <4>2, <4>3 DEF ContentFound
    <3>. QED  BY <3>1, <3>2
  <2>4. InfoFound(q)'
    <3>. SUFFICES ASSUME nodeInfo[q] # NoInfo, nodeInfo[q].ref # 0,
                nodeInfo[q].hash \in Calm \cap Hash
         PROVE  InfoFound(q)'
      BY <1>0, <2>1 DEF InfoFound, Calm
    <3>1. q # p
      BY <1>4, <2>1 DEF InfoFound, NewInfo
    <3>2. own[q] # NoFile => want'[own[q]] = want[own[q]]
      BY <1>0, <1>1, <3>1, CalmTypes DEF CalmIInv
    <3>3. /\ PathOf(MetadataOf(nodeInfo[q]))' = PathOf(MetadataOf(nodeInfo[q]))
          /\ LiveOf(nodeInfo[q].hash)' = LiveOf(nodeInfo[q].hash)
      <4>0. nodeInfo[q] = [hash |-> nodeInfo[q].hash, ref |-> nodeInfo[q].ref] /\ nodeInfo' = nodeInfo
        BY <1>0, InfoShape
      <4>1. PICK h, r : nodeInfo[q] = [hash |-> h, ref |-> r] /\ nodeInfo'[q] = [hash |-> h, ref |-> r]
        BY <4>0
      <4>2. /\ PathOf(MetadataOf([hash |-> h, ref |-> r]))' = PathOf(MetadataOf([hash |-> h, ref |-> r]))
            /\ LiveOf(h)' = LiveOf(h)
        BY <1>3, SameStoreSameInfo
      <4>. QED  BY <1>0, <4>1, <4>2
    <3>. QED  BY <1>0, <1>5, <2>1, <3>2, <3>3 DEF InfoFound, Calm
  <2>. QED  BY <2>2, <2>3, <2>4
<1>8. ASSUME NEW h \in Hash PROVE MetadataFound(h)'
  <2>1. ASSUME NEW u \in Threads, HasNew(u) PROVE HasNew(u)' /\ req'[u] = req[u]
    BY <1>0, <1>5, <2>1 DEF HasNew
  <2>. QED  BY <1>0, <1>3, <2>1, SameStoreSameInfo DEF MetadataFound, Calm, CalmIInv, NodesFound
<1>9. Shared'
  <2>1. \A q \in Path : \A h : Keeps(q, h)' <=> Keeps(q, h)
    BY <1>0, <1>5 DEF Keeps
  <2>. QED  BY <1>0, <2>1 DEF Shared, Calm, CalmIInv, NodesFound
<1>. QED  BY <1>6, <1>7, <1>8, <1>9 DEF NodesFound

-----------------------------------------------------------------------------
(* Release once it has its metadata.                                        *)

\* The node info leads to the new metadata; a unique content is at its own inode.
LEMMA UpdateInfoKeepsNodes ==
    ASSUME CalmIInv, NEW t \in Threads, UpdateInfo(t)
    PROVE  NodesFound'
<1>0. PICK p, h, new :
         /\ p = req[t].path /\ p \in Path /\ p # Gone /\ h = req[t].hash /\ new = req[t].new
         /\ req[t].to = p /\ h \in AllHash /\ (h \in Calm => p \in Calm) /\ h = want[req[t].inode]
         /\ req[t].inode # NoFile
         /\ req \in [Threads -> Request] /\ req[t] \in Request /\ Stage(t) = "info" /\ new \in Meta
         /\ HoldsFile(t) /\ InRelease(t) /\ HasNew(t) /\ t \in Engaged
         /\ HandleFound(t) /\ StoredSound(t)
         /\ UNCHANGED <<metaPath, disk, own, want, overlap>>
  <2>1. Stage(t) = "info" /\ InRelease(t) /\ HasNew(t) /\ t \in Engaged /\ HoldsFile(t)
    BY DEF UpdateInfo, At, InRelease, HasNew, Engaged, HoldsFile
  <2>. QED  BY <2>1, CalmPlaces DEF UpdateInfo, CalmIInv, FilesIInv, FilesTypeOK, StageSound,
            RequestSound, clients, NodesFound, StoreFound, Stage
<1>1. /\ nodeInfo' = IF nodeInfo[p] # NoInfo THEN [nodeInfo EXCEPT ![p] = [hash |-> h, ref |-> new.ref]]
                                            ELSE nodeInfo
      /\ \/ DropNew(t) /\ req[t].dup /\ req[t].rec = NoMeta
         \/ UNCHANGED vars /\ Goto(t, IF req[t].dup THEN "link" ELSE "fill")
  BY <1>0 DEF UpdateInfo
<1>2. /\ OthersKept(t) /\ OthersWait(t) /\ UNCHANGED <<table, heap>>
      /\ req'[t].path = p /\ req'[t].inode = req[t].inode /\ req'[t].hash = h /\ req'[t].new = new
      /\ req'[t].info = req[t].info /\ req'[t].old = req[t].old
      /\ \/ Stage(t)' = "dropping" /\ req[t].dup /\ req[t].rec = NoMeta
         \/ Stage(t)' = (IF req[t].dup THEN "link" ELSE "fill")
  <2>1. CASE DropNew(t) /\ req[t].dup /\ req[t].rec = NoMeta
    <3>1. UNCHANGED <<table, heap>> /\ OthersWait(t)
      BY <2>1 DEF DropNew, BeginRemove, Step, CalmIInv, FilesIInv, IInv, TypeOK, OthersWait
    <3>. QED  BY <1>0, <2>1, <3>1 DEF DropNew, Goto, OthersKept, Stage, Request
  <2>2. CASE UNCHANGED vars /\ Goto(t, IF req[t].dup THEN "link" ELSE "fill")
    BY <1>0, <2>2 DEF Goto, OthersKept, OthersWait, Stage, Request, vars, locals
  <2>. QED  BY <1>1, <2>1, <2>2
<1>3. ASSUME h \in Calm
      PROVE  /\ HasNew(t)' /\ table[h] = new.entry /\ new.ref \in LiveOf(h) /\ PathOf(new) = NoPath
             /\ Stage(t)' \in {"link", "swap", "fill"}
             /\ Stage(t)' = "fill" /\ h \in Hash => LiveOf(h) = {new.ref}
  BY <1>0, <1>2, <1>3 DEF StoredSound, HasNew, Stage
<1>4. ASSUME p \in Calm
      PROVE  /\ req[t].info = NewInfo /\ req[t].old = NoMeta /\ own[p] = req[t].inode
             /\ names[p] = req[t].inode /\ nodeInfo[p] = NewInfo
             /\ nodeInfo'[p] = [hash |-> h, ref |-> new.ref]
  <2>1. /\ req[t].info = NewInfo /\ req[t].old = NoMeta /\ own[p] = req[t].inode
        /\ names[p] = req[t].inode /\ nodeInfo[p] = NewInfo
    BY <1>0, <1>4 DEF HandleFound
  <2>. QED  BY <1>0, <1>1, <2>1, NewInfoIsInfo, CalmTypes DEF CalmIInv
<1>5. /\ \A q \in Path \ {p} : nodeInfo'[q] = nodeInfo[q]
      /\ nodeInfo'[p] \in {nodeInfo[p], [hash |-> h, ref |-> new.ref]}
      /\ new.ref \in Refs /\ new.ref # 0 /\ [hash |-> h, ref |-> new.ref] # NoInfo
  <2>1. new.ref \in Refs /\ new.ref # 0
    BY <1>0, CalmTypes DEF CalmIInv, Meta
  <2>2. [hash |-> h, ref |-> new.ref] \in Info
    BY <1>0, <2>1, StoreAssumption DEF Info, Refs
  <2>. QED  BY <1>0, <1>1, <2>1, <2>2, CalmTypes, FilesAssumption DEF CalmIInv
<1>6. nodeInfo[p] # NoInfo => nodeInfo[p].hash \notin Calm \cap Hash
  BY <1>0, <1>4, CalmInfo, CalmTypes DEF NewInfo, CalmIInv
<1>7. AtPath(t, p)
  BY <1>0, <1>2, <1>3, <1>5, <1>6, EngagedAlone DEF AtPath, disk
<1>8. StillShared(t, p)
  <2>. SUFFICES ASSUME NEW k \in Calm \cap Hash, Keeps(p, k)'
       PROVE  t \in Engaged /\ h = k /\ \A q \in Path \ {p} : Keeps(q, k) => names[q] = names'[p]
    BY <1>0 DEF StillShared
  <2>1. k = h /\ nodeInfo'[p].hash = k
    BY <1>5, <1>6 DEF Keeps
  <2>2. LiveOf(h) = {new.ref}
    <3>1. Stage(t)' \notin {"link", "swap"}
      BY <1>2 DEF Keeps
    <3>. QED  BY <1>3, <2>1, <3>1
  <2>3. ASSUME NEW q \in Path \ {p}, Keeps(q, h) PROVE FALSE
    <3>1. nodeInfo[q] # NoInfo /\ nodeInfo[q].hash = h /\ own[q] # NoFile
      BY <2>3 DEF Keeps
    <3>2. nodeInfo[q].ref # 0 /\ q \in Calm /\ InfoFound(q)
      BY <2>1, <3>1, CalmInfo DEF CalmIInv, NodesFound
    <3>3. nodeInfo[q].ref = new.ref
      BY <2>1, <2>2, <3>1, <3>2 DEF InfoFound
    <3>4. MetadataOf(nodeInfo[q]) = new
      BY <1>0, <1>3, <2>1, <2>2, <3>1, <3>3 DEF MetadataOf, HasMetadata, LiveOf, Meta
    <3>5. PathOf(MetadataOf(nodeInfo[q])) # q
      BY <1>3, <2>1, <3>4, FilesAssumption
    <3>6. PICK u \in Threads : Stage(u) \in {"link", "swap", "fill"} /\ req[u].path = q
      BY <2>1, <2>2, <3>1, <3>2, <3>3, <3>5 DEF InfoFound
    <3>7. u = t
      BY <1>0, <2>1, <3>1, <3>2, <3>6, HashAtWork DEF Engaged
    <3>. QED  BY <1>0, <3>6, <3>7
  <2>. QED  BY <1>0, <2>1, <2>3
<1>9. PathFound(p)'
  <2>. SUFFICES ASSUME p \in Calm PROVE PathFound(p)'
    BY <1>0 DEF PathFound, Calm
  <2>1. ASSUME NEW u \in Threads, Stage(u) = "swap" PROVE req'[u] = req[u]
    BY <1>0, <1>2, <2>1 DEF OthersKept
  <2>. QED  BY <1>0, <1>4, <1>5, <2>1 DEF PathFound, Stage, CalmIInv, NodesFound, disk
<1>10. HoldsFile(t)' /\ ContentFound(p)'
  <2>1. HoldsFile(t)'
    BY <1>2 DEF HoldsFile, Writing, InRelease
  <2>2. ASSUME NEW u \in Threads, HoldsFile(u)'
        PROVE  HoldsFile(u) /\ req'[u].inode = req[u].inode /\ req'[u].path = req[u].path
    BY <1>0, <1>2, <2>2 DEF OthersKept, HoldsFile, Writing, InRelease, Stage
  <2>. QED  BY <1>0, <1>2, <2>1, <2>2 DEF ContentFound, disk, Calm, CalmIInv, NodesFound
<1>11. InfoFound(p)'
  <2>1. nodeInfo[p] # NoInfo /\ nodeInfo[p].ref # 0 => nodeInfo[p].hash \notin Calm \cap Hash
    BY <1>0, <1>4 DEF CalmIInv, NodesFound, InfoFound, NewInfo
  <2>2. CASE nodeInfo'[p] = [hash |-> h, ref |-> new.ref]
    <3>1. LiveOf(h)' = LiveOf(h)
      BY <1>0, <1>2, SameStoreSameInfo
    <3>2. h \in Calm' => /\ p \in Calm' /\ new.ref \in LiveOf(h)' /\ want'[own'[p]] = h
                         /\ Stage(t)' \in {"link", "swap", "fill"}
      BY <1>0, <1>3, <1>4, <3>1 DEF Calm
    <3>. QED  BY <1>2, <1>5, <2>2, <3>2 DEF InfoFound, Stage
  <2>3. CASE nodeInfo'[p] = nodeInfo[p]
    BY <1>0, <2>1, <2>3 DEF InfoFound, Calm, CalmIInv, NodesFound
  <2>. QED  BY <1>5, <2>2, <2>3
<1>12. HandleFound(t)' /\ LookFound(t)' /\ UnlinkFound(t)' /\ LinkFound(t)'
  <2>1. Stage(t)' = "dropping" => h \notin Calm
    BY <1>3
  <2>. QED  BY <1>0, <1>2, <1>4, <2>1 DEF HandleFound, LookFound, InLookup, UnlinkFound, LinkFound, InUnlink, Stage, Calm, disk
<1>. QED  BY <1>0, <1>7, <1>8, <1>9, <1>10, <1>11, <1>12, AtPathKeepsNodes

\* The temporary link is to the inode that the hash's files share.
LEMMA LinkOriginalKeepsNodes ==
    ASSUME CalmIInv, NEW t \in Threads, LinkOriginal(t)
    PROVE  NodesFound'
<1>0. PICK p, h, z :
         /\ p = req[t].path /\ p \in Path /\ h = req[t].hash /\ z = PathOf(req[t].rec)
         /\ req[t].to = p /\ (h \in Calm => p \in Calm)
         /\ req \in [Threads -> Request] /\ req[t] \in Request /\ Stage(t) = "link"
         /\ HoldsFile(t) /\ InRelease(t) /\ HasNew(t) /\ t \in Engaged /\ HandleFound(t)
         /\ UNCHANGED <<vars, names, data, nodeInfo, metaPath, own, want, overlap>>
         /\ tmp' = [tmp EXCEPT ![p] = names[z]]
         /\ req' = [req EXCEPT ![t].stage = "swap"]
  <2>1. Stage(t) = "link" /\ InRelease(t) /\ HasNew(t) /\ t \in Engaged /\ HoldsFile(t)
    BY DEF LinkOriginal, At, InRelease, HasNew, Engaged, HoldsFile
  <2>. QED  BY <2>1, CalmPlaces DEF LinkOriginal, Goto, CalmIInv, FilesIInv, FilesTypeOK, clients, NodesFound
<1>1. /\ OthersKept(t) /\ OthersWait(t) /\ UNCHANGED <<table, heap>> /\ Stage(t)' = "swap"
      /\ req'[t].path = p /\ req'[t].inode = req[t].inode /\ req'[t].hash = h
      /\ req'[t].new = req[t].new /\ req'[t].info = req[t].info /\ req'[t].old = req[t].old
      /\ tmp'[p] = names[z] /\ \A q \in Path \ {p} : tmp'[q] = tmp[q]
  BY <1>0, CalmTypes DEF OthersKept, OthersWait, Stage, Request, vars, locals, CalmIInv
<1>2. AtPath(t, p)
  BY <1>0, <1>1, EngagedAlone DEF AtPath, HasNew, Stage
<1>3. StillShared(t, p)
  BY <1>1 DEF StillShared, Keeps
<1>4. PathFound(p)'
  <2>1. ASSUME NEW u \in Threads, InUnlink(u) \/ Stage(u) = "create" PROVE req'[u] = req[u]
    BY <1>0, <1>1, <2>1 DEF OthersKept, InUnlink
  <2>. QED  BY <1>0, <1>1, <2>1 DEF PathFound, InUnlink, Stage, Calm, CalmIInv, NodesFound
<1>5. ContentFound(p)'
  <2>1. ASSUME NEW u \in Threads
        PROVE  /\ HoldsFile(u)' <=> HoldsFile(u)
               /\ req'[u].inode = req[u].inode /\ req'[u].path = req[u].path
    BY <1>0, <1>1 DEF OthersKept, HoldsFile, Writing, InRelease, Stage
  <2>. QED  BY <1>0, <2>1 DEF ContentFound, Calm, CalmIInv, NodesFound
<1>6. InfoFound(p)'
  <2>. SUFFICES ASSUME nodeInfo[p] # NoInfo, nodeInfo[p].ref # 0,
                nodeInfo[p].hash \in Calm \cap Hash
       PROVE  InfoFound(p)'
    BY <1>0 DEF InfoFound, Calm, CalmIInv, NodesFound
  <2>1. PICK k, r : nodeInfo[p] = [hash |-> k, ref |-> r] /\ nodeInfo'[p] = [hash |-> k, ref |-> r]
    BY <1>0, InfoShape
  <2>2. LiveOf(k)' = LiveOf(k)
    BY <1>0, <1>1, SameStoreSameInfo
  <2>. QED  BY <1>0, <1>1, <2>1, <2>2 DEF InfoFound, Stage, Calm, CalmIInv, NodesFound
<1>7. HandleFound(t)' /\ LookFound(t)' /\ UnlinkFound(t)'
  BY <1>0, <1>1 DEF HandleFound, LookFound, InLookup, UnlinkFound, InUnlink, HoldsFile, Writing, InRelease, Stage, Calm
<1>8. LinkFound(t)'
  <2>. SUFFICES ASSUME h \in Calm PROVE LinkFound(t)'
    BY <1>0, <1>1 DEF LinkFound, Calm
  <2>1. /\ h \in Hash /\ z \in Path /\ names[z] # NoFile
        /\ want[names[z]] = h /\ Keeps(z, h)
        /\ \A u \in Threads : HoldsFile(u) => req[u].inode # names[z]
    BY <1>0, OriginalFound
  <2>2. ASSUME NEW u \in Threads, HoldsFile(u)' PROVE req'[u].inode # names[z]
    BY <1>0, <1>1, <2>1, <2>2 DEF OthersKept, HoldsFile, Writing, InRelease, Stage
  <2>3. ASSUME NEW q \in Path, Keeps(q, h)' PROVE names'[q] = names[z]
    <3>1. q # p
      BY <1>1, <2>3 DEF Keeps
    <3>2. Keeps(q, h)
      BY <1>0, <1>1, <2>3, <3>1 DEF Keeps, OthersKept, Stage
    <3>. QED  BY <1>0, <2>1, <3>2 DEF CalmIInv, NodesFound, Shared
  <2>4. \A q \in Path : Keeps(q, h)' => names'[q] = names[z]
    BY <2>3
  <2>. QED  BY <1>0, <1>1, <2>1, <2>2, <2>4 DEF LinkFound
<1>. QED  BY <1>0, <1>2, <1>3, <1>4, <1>5, <1>6, <1>7, <1>8, AtPathKeepsNodes

\* The path joins the files that share the inode.
LEMMA SwapKeepsNodes ==
    ASSUME CalmIInv, NEW t \in Threads, SwapInDuplicate(t)
    PROVE  NodesFound'
<1>0. PICK p, h, i :
         /\ p = req[t].path /\ p \in Path /\ h = req[t].hash /\ i = tmp[p]
         /\ req[t].to = p /\ h \in AllHash /\ (h \in Calm => p \in Calm) /\ h = want[req[t].inode]
         /\ req[t].inode # NoFile
         /\ req \in [Threads -> Request] /\ req[t] \in Request /\ Stage(t) = "swap" /\ i # NoFile
         /\ HoldsFile(t) /\ InRelease(t) /\ HasNew(t) /\ t \in Engaged /\ HandleFound(t) /\ LinkFound(t)
         /\ UNCHANGED <<vars, data, nodeInfo, metaPath, own, want>>
         /\ IF names[p] = i THEN UNCHANGED <<names, tmp>>
            ELSE /\ names' = [names EXCEPT ![p] = i]
                 /\ tmp' = [tmp EXCEPT ![p] = NoFile]
         /\ overlap' = IF names[p] = i /\ h \in overlap THEN overlap \cup {p} ELSE overlap
         /\ req' = [req EXCEPT ![t].stage = "fill"]
  <2>1. Stage(t) = "swap" /\ InRelease(t) /\ HasNew(t) /\ t \in Engaged /\ HoldsFile(t)
    BY DEF SwapInDuplicate, At, InRelease, HasNew, Engaged, HoldsFile
  <2>2. /\ tmp[req[t].path] # NoFile /\ HandleFound(t) /\ LinkFound(t)
        /\ req \in [Threads -> Request] /\ req[t] \in Request
    BY <2>1 DEF CalmIInv, FilesApart, ReleaseSound, NodesFound, FilesIInv, FilesTypeOK
  <2>3. /\ req[t].path \in Path /\ req[t].to = req[t].path /\ req[t].hash \in AllHash
        /\ (req[t].hash \in Calm => req[t].path \in Calm)
        /\ req[t].hash = want[req[t].inode] /\ req[t].inode # NoFile
    BY <2>1, CalmPlaces
  <2>4. /\ UNCHANGED <<vars, data, nodeInfo, metaPath, own, want>>
        /\ IF names[req[t].path] = tmp[req[t].path] THEN UNCHANGED <<names, tmp>>
           ELSE /\ names' = [names EXCEPT ![req[t].path] = tmp[req[t].path]]
                /\ tmp' = [tmp EXCEPT ![req[t].path] = NoFile]
        /\ overlap' = IF names[req[t].path] = tmp[req[t].path] /\ req[t].hash \in overlap
                       THEN overlap \cup {req[t].path} ELSE overlap
        /\ req' = [req EXCEPT ![t].stage = "fill"]
    BY <2>3 DEF SwapInDuplicate, Goto, clients, disk
  <2>. QED  BY <2>1, <2>2, <2>3, <2>4
<1>1. /\ OthersKept(t) /\ OthersWait(t) /\ UNCHANGED <<table, heap>> /\ Stage(t)' = "fill"
      /\ req'[t].path = p /\ req'[t].inode = req[t].inode /\ req'[t].hash = h
      /\ req'[t].new = req[t].new /\ req'[t].info = req[t].info /\ req'[t].old = req[t].old
      /\ names'[p] = i /\ (names[p] # i => tmp'[p] = NoFile)
      /\ \A q \in Path \ {p} : names'[q] = names[q] /\ tmp'[q] = tmp[q]
      /\ overlap \subseteq overlap' /\ overlap' \subseteq overlap \cup {p} /\ p \notin AllHash
  BY <1>0, CalmTypes DEF OthersKept, OthersWait, Stage, Request, vars, locals, CalmIInv
\* A calm content comes in as another inode, which has that content.
<1>2. ASSUME p \in Calm PROVE own[p] = req[t].inode /\ names[p] = req[t].inode
  BY <1>0, <1>2 DEF HandleFound
<1>3. ASSUME h \in Calm
      PROVE  /\ want[i] = h /\ names[p] # i
             /\ \A u \in Threads : HoldsFile(u) => req[u].inode # i
             /\ \A q \in Path : Keeps(q, h) => names[q] = i
  <2>1. /\ want[i] = h /\ \A u \in Threads : HoldsFile(u) => req[u].inode # i
        /\ \A q \in Path : Keeps(q, h) => names[q] = i
    BY <1>0, <1>3 DEF LinkFound
  <2>. QED  BY <1>0, <1>2, <1>3, <2>1
<1>4. p \in Calm' => names[p] # i
  BY <1>0, <1>3 DEF Calm
<1>5. AtPath(t, p)
  BY <1>0, <1>1, EngagedAlone DEF AtPath, HasNew, Stage
\* The content at the path is the one the Release is about.
<1>6. ASSUME nodeInfo[p] # NoInfo, nodeInfo[p].ref # 0, nodeInfo[p].hash \in Calm \cap Hash
      PROVE  nodeInfo[p].hash = h /\ p \in Calm
  <2>1. p \in Calm
    BY <1>0, <1>6 DEF CalmIInv, NodesFound, InfoFound
  <2>. QED  BY <1>0, <1>6, <2>1, EngagedOnInfo
<1>7. StillShared(t, p)
  <2>. SUFFICES ASSUME NEW k \in Calm \cap Hash, Keeps(p, k)'
       PROVE  t \in Engaged /\ h = k /\ \A q \in Path \ {p} : Keeps(q, k) => names[q] = names'[p]
    BY <1>0 DEF StillShared
  <2>1. nodeInfo[p] # NoInfo /\ nodeInfo[p].hash = k
    BY <1>0 DEF Keeps
  <2>2. k = h
    BY <1>0, <1>6, <2>1, CalmInfo
  <2>. QED  BY <1>0, <1>1, <1>3, <2>2
<1>8. PathFound(p)'
  <2>. SUFFICES ASSUME p \in Calm' PROVE PathFound(p)'
    BY DEF PathFound
  <2>1. p \in Calm /\ own[p] # NoFile /\ names'[p] # NoFile /\ tmp'[p] = NoFile
    BY <1>0, <1>1, <1>2, <1>4 DEF Calm
  <2>2. ASSUME NEW u \in Threads, Stage(u) = "create" PROVE req'[u] = req[u]
    BY <1>0, <1>1, <2>2 DEF OthersKept
  <2>. QED  BY <1>0, <2>1, <2>2 DEF PathFound, Stage, CalmIInv, NodesFound
<1>9. ContentFound(p)'
  <2>1. ASSUME NEW u \in Threads
        PROVE  /\ HoldsFile(u)' <=> HoldsFile(u)
               /\ req'[u].inode = req[u].inode /\ req'[u].path = req[u].path
    BY <1>0, <1>1 DEF OthersKept, HoldsFile, Writing, InRelease, Stage
  <2>. SUFFICES ASSUME own[p] # NoFile, {p, want[own[p]]} \subseteq Calm' PROVE ContentFound(p)'
    BY <1>0 DEF ContentFound
  <2>2. p \in Calm /\ want[own[p]] = h /\ h \in Calm
    BY <1>0, <1>1, <1>2 DEF Calm
  <2>3. data = want
    BY DEF CalmIInv, FilesApart, OwnersApart
  <2>. QED  BY <1>0, <1>1, <1>3, <2>1, <2>2, <2>3 DEF ContentFound
<1>10. InfoFound(p)'
  <2>. SUFFICES ASSUME nodeInfo[p] # NoInfo, nodeInfo[p].ref # 0,
                nodeInfo[p].hash \in Calm' \cap Hash
       PROVE  InfoFound(p)'
    BY <1>0 DEF InfoFound, CalmIInv, NodesFound
  <2>1. PICK r : nodeInfo[p] = [hash |-> h, ref |-> r] /\ nodeInfo'[p] = [hash |-> h, ref |-> r]
                 /\ h \in Calm /\ p \in Calm
    <3>1. nodeInfo[p].hash \in Calm
      BY <1>1 DEF Calm
    <3>. QED  BY <1>0, <1>6, <3>1, InfoShape
  <2>2. LiveOf(h)' = LiveOf(h) /\ p \in Calm'
    BY <1>0, <1>1, <2>1, SameStoreSameInfo DEF Calm
  <2>. QED  BY <1>0, <1>1, <2>1, <2>2 DEF InfoFound, Stage, CalmIInv, NodesFound
<1>11. HandleFound(t)' /\ LookFound(t)' /\ UnlinkFound(t)' /\ LinkFound(t)'
  BY <1>0, <1>1 DEF HandleFound, LookFound, InLookup, UnlinkFound, LinkFound, InUnlink, HoldsFile, Writing, InRelease, Stage, Calm
<1>. QED  BY <1>0, <1>5, <1>7, <1>8, <1>9, <1>10, <1>11, AtPathKeepsNodes

-----------------------------------------------------------------------------
(* The ends of Lookup and Unlink.                                           *)

\* Lookup stores what was there.
LEMMA LookupStoresInfoKeepsNodes ==
    ASSUME CalmIInv, NEW t \in Threads, LookupStoresInfo(t)
    PROVE  NodesFound'
<1>0. PICK p :
         /\ p = req[t].path /\ p \in Path /\ LookFound(t)
         /\ req \in [Threads -> Request] /\ Stage(t) = "look" /\ Stage(t)' = "idle"
         /\ UNCHANGED <<vars, disk, metaPath, own, want, overlap>>
         /\ nodeInfo' = [nodeInfo EXCEPT ![p] = NewInfo]
         /\ OthersKept(t) /\ OthersWait(t) /\ UNCHANGED <<table, heap>>
  <2>1. Stage(t) = "look" /\ InLookup(t) /\ LookFound(t) /\ req \in [Threads -> Request]
    BY DEF LookupStoresInfo, At, InLookup, CalmIInv, FilesIInv, FilesTypeOK, NodesFound
  <2>. QED  BY <2>1, CalmPlaces DEF LookupStoresInfo, Return, Blank, OthersKept, OthersWait, Stage,
            clients, vars, locals
<1>1. HandleFound(t)' /\ LookFound(t)' /\ UnlinkFound(t)' /\ LinkFound(t)' /\ ~HasNew(t)
  BY <1>0 DEF HandleFound, LookFound, InLookup, UnlinkFound, LinkFound, HoldsFile, Writing, InRelease, InUnlink, HasNew
<1>2. CASE p \in Calm
  <2>1. nodeInfo' = nodeInfo
    BY <1>0, <1>2, CalmTypes DEF LookFound, InLookup, CalmIInv
  <2>2. CellsKept(t) /\ Spoils /\ LiveSame
    BY <1>0, SameHeapKeepsCells, SameHeapIsLive, SameOverlapSpoils DEF CalmIInv
  <2>3. NodeStep(t)
    BY <1>0, <2>1, <2>2 DEF NodeStep, HoldsFile, Writing, InRelease, InUnlink
  <2>. QED  BY <1>1, <2>2, <2>3, NodeStepKeepsNodes
<1>3. CASE p \notin Calm
  <2>0. /\ nodeInfo'[p] = NewInfo /\ p \notin Calm'
        /\ \A q \in Path \ {p} : nodeInfo'[q] = nodeInfo[q]
    BY <1>0, <1>3, CalmTypes DEF CalmIInv, Calm
  <2>1. AtPath(t, p)
    <3>1. nodeInfo[p] # NoInfo => nodeInfo[p].hash \notin Calm \cap Hash
      BY <1>0, <1>3, CalmInfo
    <3>2. ~HoldsFile(t)'
      BY <1>0 DEF HoldsFile, Writing, InRelease
    <3>. QED  BY <1>0, <1>1, <1>3, <2>0, <3>1, <3>2 DEF AtPath, disk
  <2>2. StillShared(t, p)
    BY <1>0, <2>0, NotKept
  <2>3. PathFound(p)' /\ ContentFound(p)' /\ InfoFound(p)'
    BY <2>0 DEF PathFound, ContentFound, InfoFound, NewInfo
  <2>. QED  BY <1>0, <1>1, <2>1, <2>2, <2>3, AtPathKeepsNodes
<1>. QED  BY <1>2, <1>3

\* The name goes; the node info and the metadata are still there.
LEMMA UnlinkFileKeepsNodes ==
    ASSUME CalmIInv, NEW t \in Threads, UnlinkFile(t)
    PROVE  NodesFound'
<1>0. PICK p, info :
         /\ p = req[t].path /\ p \in Path /\ info = req[t].info /\ info \in Info
         /\ req \in [Threads -> Request] /\ req[t] \in Request /\ Stage(t) = "unlink" /\ UnlinkFound(t)
         /\ InUnlink(t) /\ t \in Engaged
         /\ UNCHANGED <<tmp, data, nodeInfo, metaPath, want, overlap>>
         /\ names' = [names EXCEPT ![p] = NoFile] /\ own' = [own EXCEPT ![p] = NoFile]
         /\ IF info.ref = 0 \/ info.hash = NoHash
            THEN Goto(t, "forget") /\ UNCHANGED vars
            ELSE Goto(t, "unlinking") /\ BeginRemove(t, info.hash, info.ref)
  <2>1. Stage(t) = "unlink" /\ InUnlink(t)
    BY DEF UnlinkFile, At, InUnlink
  <2>. QED  BY <2>1, CalmPlaces, ReleaseEngaged DEF UnlinkFile, CalmIInv, FilesIInv, FilesTypeOK, NodesFound, Request
<1>1. /\ OthersKept(t) /\ OthersWait(t) /\ UNCHANGED <<table, heap>>
      /\ Stage(t)' \in {"unlinking", "forget"} /\ req'[t].path = p /\ req'[t].info = info
      /\ req'[t].exists = req[t].exists
      /\ info.ref # 0 /\ info.hash # NoHash => pc'[t] = "find"
  <2>1. /\ OthersWait(t) /\ UNCHANGED <<table, heap>>
        /\ info.ref # 0 /\ info.hash # NoHash => pc'[t] = "find"
    BY <1>0 DEF BeginRemove, Step, vars, locals, OthersWait, CalmIInv, FilesIInv, IInv, TypeOK
  <2>. QED  BY <1>0, <2>1 DEF Goto, OthersKept, Stage, Request
<1>2. /\ names'[p] = NoFile /\ own'[p] = NoFile
      /\ \A q \in Path \ {p} : names'[q] = names[q] /\ own'[q] = own[q]
  BY <1>0, CalmTypes DEF CalmIInv
<1>3. AtPath(t, p)
  <2>1. ~HoldsFile(t)' /\ ~HasNew(t)
    BY <1>0, <1>1 DEF HoldsFile, Writing, InRelease, HasNew
  <2>. QED  BY <1>0, <1>1, <1>2, <2>1, EngagedAlone DEF AtPath
<1>4. StillShared(t, p)
  BY <1>0, <1>2, NotKept
<1>5. PathFound(p)'
  <2>1. InUnlink(t)'
    BY <1>1 DEF InUnlink
  <2>2. ASSUME NEW u \in Threads, Stage(u) = "swap" PROVE req'[u] = req[u]
    BY <1>0, <1>1, <2>2 DEF OthersKept
  <2>. QED  BY <1>0, <1>1, <1>2, <2>1, <2>2 DEF PathFound, Stage, Calm, CalmIInv, NodesFound
<1>6. ContentFound(p)'
  BY <1>2 DEF ContentFound
<1>7. InfoFound(p)'
  <2>. SUFFICES ASSUME nodeInfo[p] # NoInfo, nodeInfo[p].ref # 0,
                nodeInfo[p].hash \in Calm \cap Hash
       PROVE  InfoFound(p)'
    BY <1>0 DEF InfoFound, Calm, CalmIInv, NodesFound
  <2>1. PICK h, r : nodeInfo[p] = [hash |-> h, ref |-> r] /\ nodeInfo'[p] = [hash |-> h, ref |-> r]
    BY <1>0, InfoShape
  <2>2. /\ PathOf(MetadataOf([hash |-> h, ref |-> r]))' = PathOf(MetadataOf([hash |-> h, ref |-> r]))
        /\ LiveOf(h)' = LiveOf(h)
    BY <1>0, <1>1, SameStoreSameInfo
  <2>3. ASSUME NEW u \in Threads, Stage(u) \in {"link", "swap", "fill"} PROVE req'[u] = req[u]
    BY <1>0, <1>1, <2>3 DEF OthersKept
  <2>. QED  BY <1>0, <1>2, <2>1, <2>2, <2>3 DEF InfoFound, Stage, Calm, CalmIInv, NodesFound
<1>8. UnlinkFound(t)'
  <2>1. ASSUME info.hash \in Calm \cap Hash
        PROVE  p \in Calm /\ info.ref \in LiveOf(info.hash)' /\ pc'[t] = "find"
    <3>1. p \in Calm /\ info.ref \in LiveOf(info.hash)
      BY <1>0, <2>1 DEF UnlinkFound
    <3>2. info.ref # 0 /\ info.hash # NoHash
      BY <2>1, <3>1, CalmTypes DEF CalmIInv
    <3>. QED  BY <1>0, <1>1, <3>1, <3>2, SameStoreSameInfo
  <2>. QED  BY <1>0, <1>1, <1>2, <2>1 DEF UnlinkFound, Stage, Calm
<1>9. HandleFound(t)' /\ LookFound(t)' /\ LinkFound(t)'
  BY <1>1 DEF HandleFound, LookFound, InLookup, LinkFound, HoldsFile, Writing, InRelease, Stage
<1>. QED  BY <1>0, <1>3, <1>4, <1>5, <1>6, <1>7, <1>8, <1>9, AtPathKeepsNodes

\* The node info goes last.
LEMMA UnlinkForgetsKeepsNodes ==
    ASSUME CalmIInv, NEW t \in Threads, UnlinkForgets(t)
    PROVE  NodesFound'
<1>0. PICK p, info :
         /\ p = req[t].path /\ p \in Path /\ info = req[t].info /\ req[t].hash = info.hash
         /\ req \in [Threads -> Request] /\ Stage(t) = "forget" /\ Stage(t)' = "idle" /\ UnlinkFound(t)
         /\ InUnlink(t) /\ t \in Engaged /\ pc[t] = "idle"
         /\ UNCHANGED <<vars, disk, metaPath, own, want, overlap>>
         /\ \/ nodeInfo' = [nodeInfo EXCEPT ![p] = NoInfo]
            \/ nodeInfo' = nodeInfo /\ ~req[t].exists
         /\ OthersKept(t) /\ OthersWait(t) /\ UNCHANGED <<table, heap>>
  <2>1. Stage(t) = "forget" /\ InUnlink(t)
    BY DEF UnlinkForgets, At, InUnlink
  <2>2. pc[t] = "idle"
    BY <2>1 DEF CalmIInv, Meetings, StoreCallSound, Busy
  <2>3. req' = [req EXCEPT ![t] = Blank]
    BY UnlinkForgetsAlone DEF CalmIInv
  <2>4. /\ req[t].path \in Path /\ req[t].hash = req[t].info.hash /\ t \in Engaged
        /\ req \in [Threads -> Request] /\ UnlinkFound(t)
    BY <2>1, CalmPlaces, ReleaseEngaged DEF CalmIInv, FilesIInv, FilesTypeOK, NodesFound
  <2>5. OthersKept(t) /\ Stage(t)' = "idle"
    BY <2>3, <2>4 DEF OthersKept, Stage, Blank
  <2>6. /\ UNCHANGED <<vars, disk, metaPath, own, want, overlap>>
        /\ OthersWait(t) /\ UNCHANGED <<table, heap>>
    BY DEF UnlinkForgets, clients, vars, locals, OthersWait
  <2>7. \/ nodeInfo' = [nodeInfo EXCEPT ![req[t].path] = NoInfo]
        \/ nodeInfo' = nodeInfo /\ ~req[t].exists
    BY DEF UnlinkForgets
  <2>. QED  BY <2>1, <2>2, <2>4, <2>5, <2>6, <2>7
\* Where it stays, the path is not calm.
<1>1. /\ \/ nodeInfo'[p] = NoInfo
         \/ nodeInfo'[p] = nodeInfo[p] /\ p \notin Calm
      /\ \A q \in Path \ {p} : nodeInfo'[q] = nodeInfo[q]
  <2>1. ~req[t].exists => p \notin Calm
    BY <1>0 DEF UnlinkFound
  <2>. QED  BY <1>0, <2>1, CalmTypes DEF CalmIInv
<1>2. AtPath(t, p)
  <2>1. ~HoldsFile(t)' /\ ~HasNew(t)
    BY <1>0 DEF HoldsFile, Writing, InRelease, HasNew
  <2>2. ASSUME nodeInfo[p] # NoInfo, nodeInfo[p].hash \in Calm \cap Hash
        PROVE  nodeInfo[p].ref \notin LiveOf(nodeInfo[p].hash)
    <3>1. p \in Calm /\ nodeInfo[p] = info
      BY <1>0, <2>2, CalmInfo DEF UnlinkFound
    <3>. QED  BY <1>0, <2>2, <3>1 DEF UnlinkFound
  <2>. QED  BY <1>0, <1>1, <2>1, <2>2, EngagedAlone DEF AtPath, disk
<1>3. StillShared(t, p)
  <2>1. nodeInfo[p] # NoInfo /\ p \notin Calm => nodeInfo[p].hash \notin Calm \cap Hash
    BY <1>0, CalmInfo
  <2>. QED  BY <1>0, <1>1, <2>1, NotKept
<1>4. PathFound(p)'
  <2>. SUFFICES ASSUME p \in Calm PROVE PathFound(p)'
    BY <1>0 DEF PathFound, Calm
  <2>1. own[p] = NoFile
    BY <1>0 DEF UnlinkFound
  <2>2. ASSUME NEW u \in Threads, Stage(u) = "swap" PROVE req'[u] = req[u]
    BY <1>0, <2>2 DEF OthersKept
  <2>. QED  BY <1>0, <1>1, <2>1, <2>2 DEF PathFound, Stage, CalmIInv, NodesFound, disk
<1>5. ContentFound(p)'
  <2>1. p \in Calm => own[p] = NoFile
    BY <1>0 DEF UnlinkFound
  <2>. QED  BY <1>0, <2>1 DEF ContentFound, Calm
<1>6. InfoFound(p)'
  BY <1>0, <1>1 DEF InfoFound, Calm, CalmIInv, NodesFound
<1>7. HandleFound(t)' /\ LookFound(t)' /\ UnlinkFound(t)' /\ LinkFound(t)'
  BY <1>0 DEF HandleFound, LookFound, InLookup, UnlinkFound, LinkFound, HoldsFile, Writing, InRelease, InUnlink
<1>. QED  BY <1>0, <1>2, <1>3, <1>4, <1>5, <1>6, <1>7, AtPathKeepsNodes

\* Initially there is no node.
LEMMA InitNodesFound == FilesInit => NodesFound
<1>. SUFFICES ASSUME FilesInit PROVE NodesFound
  OBVIOUS
<1>1. \A t \in Threads : Stage(t) = "idle"
  BY DEF FilesInit, Blank, Stage
<1>2. \A h \in Hash : LiveOf(h) = {}
  BY DEF FilesInit, Init, LiveOf, AllHash
<1>. QED  BY <1>1, <1>2 DEF FilesInit, NodesFound, HandleFound, LookFound, InLookup, UnlinkFound, LinkFound, HoldsFile,
          Writing, InRelease, InUnlink, PathFound, ContentFound, InfoFound, MetadataFound, Shared, Keeps

\* Names, node infos and metadata lead to each other after every step.
LEMMA FilesNextKeepsNodes ==
    ASSUME OnceWorkload, CalmIInv, [FilesNext]_filesVars
    PROVE  NodesFound'
<1>1. CASE UNCHANGED filesVars
  <2>1. UNCHANGED <<table, heap, live, pc, req, names, tmp, data, own, want, nodeInfo, metaPath, overlap>>
    BY <1>1 DEF filesVars, vars, disk, clients, heap
  <2>2. \A t \in Threads : HandleFound(t)' /\ LookFound(t)' /\ UnlinkFound(t)' /\ LinkFound(t)'
    BY <2>1 DEF CalmIInv, NodesFound, HandleFound, LookFound, InLookup, UnlinkFound, LinkFound, HoldsFile,
       Writing, InRelease, InUnlink, Keeps, LiveOf, Stage, Calm
  <2>3. \A p \in Path : PathFound(p)' /\ ContentFound(p)' /\ InfoFound(p)'
    BY <2>1 DEF CalmIInv, NodesFound, PathFound, ContentFound, InfoFound, HoldsFile,
       Writing, InRelease, InUnlink, LiveOf, MetadataOf, HasMetadata, PathOf, Stage, Calm
  <2>4. (\A h \in Hash : MetadataFound(h)') /\ Shared'
    BY <2>1 DEF CalmIInv, NodesFound, MetadataFound, HasNew, Shared, Keeps,
       LiveOf, MetadataOf, HasMetadata, PathOf, Stage, Calm
  <2>. QED  BY <2>2, <2>3, <2>4 DEF NodesFound
<1>2. CASE FilesNext
  <2>1. PICK t \in Threads : OnceStep(t)
    BY <1>2, StepsAreOnceSteps DEF CalmIInv
  <2>2. ASSUME ReleaseStep(t) PROVE NodesFound'
    BY <2>2, WritingKeepsNodes, LookupOldMetadataKeepsNodes, StoringKeepsNodes, NewMetadataKeepsNodes,
       UpdateInfoKeepsNodes, LinkOriginalKeepsNodes, LinkFailsKeepsNodes, SwapKeepsNodes,
       FillMetadataKeepsNodes, DropKeepsNodes DEF ReleaseStep
  <2>. QED  BY <2>1, <2>2, CreateKeepsNodes, LookupBeginKeepsNodes, UnlinkBeginKeepsNodes,
            WritingKeepsNodes, PwriteChunkKeepsNodes, CreateStoresInfoKeepsNodes,
            LookupGoesOnKeepsNodes, LookupStoresInfoKeepsNodes, UnlinkFileKeepsNodes, UnlinkRemovesKeepsNodes,
            UnlinkForgetsKeepsNodes DEF OnceStep
<1>. QED  BY <1>1, <1>2

-----------------------------------------------------------------------------
(* Empty files.                                                             *)

\* The metadata of empty files stays while they are calm: no request removes it,
LEMMA ZeroCellsStay ==
    ASSUME CalmIInv, NEW t \in Threads, OnceStep(t), NoHash \in Calm
    PROVE  /\ LiveOf(NoHash) \subseteq LiveOf(NoHash)'
           /\ LiveOf(NoHash) # {} => table'[NoHash] = table[NoHash]
<1>0. NoHash \in AllHash /\ NoHash \notin Hash
  BY StoreAssumption DEF AllHash
<1>1. CASE UNCHANGED <<table, heap>>
  BY <1>1 DEF heap, LiveOf
<1>2. CASE Stage(t) = "storing" /\ StoreStep(t) /\ ~UNCHANGED <<table, heap>>
  <2>1. CASE req[t].hash # NoHash
    <3>1. hashArg[t] # NoHash
      BY <1>2, <2>1 DEF StoreStep, IsContentHashUnique, CheckMapEntry, CreateMapEntry, LookupMapEntry,
         RetrieveRecent, CreateMetadata, Step, CalmIInv, Meetings, StoreCallSound, Busy
    <3>2. CellKept(NoHash)
      BY <1>0, <1>2, <3>1, StoreStepElsewhere DEF CalmIInv, FilesIInv
    <3>. QED  BY <3>2 DEF CellKept
  <2>2. CASE req[t].hash = NoHash
    <3>1. hashArg[t] = NoHash /\ NoHash \in Quiet /\ Busy(t)
      BY <1>0, <1>2, <2>2, StoringAlone DEF CalmIInv
    <3>2. CASE CreateMapEntry(t)
      <4>1. table[NoHash] = NoEntry
        BY <3>1, <3>2 DEF CreateMapEntry, Step, CalmIInv, FilesIInv, IInv, ProgressSound
      <4>. QED  BY <4>1 DEF LiveOf
    <3>3. CASE CreateMetadata(t)
      BY <3>3 DEF CreateMetadata, LiveOf, CalmIInv, FilesIInv, IInv, TypeOK
    <3>. QED  BY <1>2, <3>2, <3>3 DEF StoreStep, IsContentHashUnique, CheckMapEntry, LookupMapEntry,
              RetrieveRecent
  <2>. QED  BY <2>1, <2>2
<1>3. CASE Stage(t) \in {"dropping", "unlinking"} /\ RemoveStep(t)
  <2>1. req[t].hash # NoHash
    <3>1. CASE Stage(t) = "unlinking"
      BY <1>0, <3>1 DEF CalmIInv, Meetings, StoreCallSound
    <3>2. CASE Stage(t) = "dropping"
      <4>1. InRelease(t) /\ HoldsFile(t) /\ HandleFound(t)
        BY <3>2 DEF InRelease, HoldsFile, CalmIInv, NodesFound
      <4>. QED  BY <3>2, <4>1 DEF HandleFound, CalmIInv, Meetings, CalmHashCalmPath
    <3>. QED  BY <1>3, <3>1, <3>2
  <2>2. hashArg[t] = req[t].hash
    BY <1>3 DEF RemoveStep, FindMetadata, DeleteMetadata, TestEmpty, DeleteMapEntry, Step,
       CalmIInv, Meetings, StoreCallSound, Busy
  <2>3. CellKept(NoHash)
    BY <1>0, <1>3, <2>1, <2>2, StoreStepElsewhere DEF CalmIInv, FilesIInv
  <2>. QED  BY <2>3 DEF CellKept
<1>4. CASE ReleaseStep(t)
  BY <1>1, <1>2, <1>3, <1>4 DEF ReleaseStep, TakeBuffer, LookupOldMetadata, ReleaseTest,
     ReleaseCreateEntry, ReleaseLookupEntry, ReleaseRecent, ReleaseNewMetadata, UpdateInfo,
     LinkOriginal, LinkFails, SwapInDuplicate, FillMetadata, Drop, DropNew, BeginStore, BeginRemove,
     StoreStep, At, Stage, vars
<1>5. CASE ~ReleaseStep(t)
  BY <1>1, <1>3, <1>5 DEF OnceStep, Create, LookupBegin, UnlinkBegin, HashChunk, PwriteChunk,
     CreateStoresInfo, LookupReadsInfo, LookupStoresInfo, LookupFills, UnlinkFile, UnlinkRemoves,
     UnlinkForgets, BeginRemove,
     At, Stage, vars
<1>. QED  BY <1>4, <1>5

\* A step is one request's.
LEMMA OnceStepsAlone ==
    ASSUME FilesIInv, FilesApart, NEW t \in Threads, OnceStep(t)
    PROVE  OthersKept(t)
<1>1. req \in [Threads -> Request]
  BY DEF FilesIInv, FilesTypeOK
<1>2. CASE UnlinkForgets(t)
  BY <1>1, <1>2, UnlinkForgetsAlone DEF OthersKept
<1>3. CASE ReleaseStep(t)
  BY <1>1, <1>3 DEF ReleaseStep, TakeBuffer, LookupOldMetadata, ReleaseTest,
     ReleaseCreateEntry, ReleaseLookupEntry, ReleaseRecent, ReleaseNewMetadata, UpdateInfo,
     LinkOriginal, LinkFails, SwapInDuplicate, FillMetadata, Drop, DropNew, Goto, Return, OthersKept
<1>4. CASE ~ReleaseStep(t) /\ ~UnlinkForgets(t)
  BY <1>1, <1>4 DEF OnceStep, Create, LookupBegin, UnlinkBegin, HashChunk, PwriteChunk,
     CreateStoresInfo, LookupReadsInfo, LookupStoresInfo, LookupFills, UnlinkFile, UnlinkRemoves, Goto, Return, OthersKept
<1>. QED  BY <1>2, <1>3, <1>4

\* What has met has met.
LEMMA OverlapGrows ==
    ASSUME NEW t \in Threads, OnceStep(t)
    PROVE  overlap \subseteq overlap'
<1>1. CASE ReleaseStep(t)
  BY <1>1 DEF ReleaseStep, TakeBuffer, LookupOldMetadata, ReleaseTest,
     ReleaseCreateEntry, ReleaseLookupEntry, ReleaseRecent, ReleaseNewMetadata, UpdateInfo,
     LinkOriginal, LinkFails, SwapInDuplicate, FillMetadata, Drop, Overlapping
<1>2. CASE ~ReleaseStep(t)
  BY <1>2 DEF OnceStep, Create, LookupBegin, UnlinkBegin, HashChunk, PwriteChunk,
     CreateStoresInfo, LookupReadsInfo, LookupStoresInfo, LookupFills, UnlinkFile, UnlinkRemoves,
     UnlinkForgets, Overlapping, LookupOverlapping
<1>. QED  BY <1>1, <1>2

\* and its Path stays as it is, or is given to it.
LEMMA ZeroPathStays ==
    ASSUME CalmIInv, NEW t \in Threads, OnceStep(t), NoHash \in Calm,
           NEW p \in Path, NEW ref, ZeroKept(p, ref)
    PROVE  ZeroKept(p, ref)'
<1>1. PICK e : /\ e = table[NoHash] /\ e \in allocated /\ home[e] = NoHash /\ ref \in live[e]
  BY StoreAssumption DEF ZeroKept, LiveOf, CalmIInv, FilesIInv, IInv, TableSound, AllHash
<1>2. ref \in LiveOf(NoHash)' /\ table'[NoHash] = e
  BY <1>1, ZeroCellsStay DEF ZeroKept
<1>3. OthersKept(t) /\ OnceStep(t) /\ req \in [Threads -> Request]
      /\ metaPath \in [Entries -> [Refs -> Path \cup {NoPath, Gone}]]
  BY OnceStepsAlone DEF CalmIInv, FilesIInv, FilesTypeOK
<1>4. ASSUME metaPath[e][ref] = p
      PROVE  metaPath'[e][ref] = p
  <2>1. CASE metaPath' = metaPath
    BY <1>4, <2>1
  <2>2. CASE FillMetadata(t)
    <3>1. Stage(t) = "fill" /\ HasNew(t)
      BY <2>2 DEF FillMetadata, At, HasNew
    <3>2. NewSound(t) /\ StoredSound(t)
      BY DEF CalmIInv, StoreFound
    <3>3. ~(req[t].new.entry = e /\ req[t].new.ref = ref)
      <4>. SUFFICES ASSUME req[t].new.entry = e, req[t].new.ref = ref PROVE FALSE
        OBVIOUS
      <4>1. req[t].hash = NoHash
        BY <1>1, <3>1, <3>2 DEF NewSound
      <4>2. PathOf(req[t].new) = NoPath
        BY <3>1, <3>2, <4>1 DEF StoredSound
      <4>. QED  BY <1>4, <4>2, FilesAssumption DEF PathOf
    <3>. QED  BY <1>3, <1>4, <2>2, <3>3 DEF FillMetadata
  <2>3. metaPath' = metaPath \/ FillMetadata(t)
    BY <1>3 DEF OnceStep, Create, LookupBegin, UnlinkBegin, HashChunk, PwriteChunk,
       CreateStoresInfo, LookupReadsInfo, LookupStoresInfo, LookupFills, UnlinkFile, UnlinkRemoves, UnlinkForgets,
       ReleaseStep, TakeBuffer, LookupOldMetadata, ReleaseTest, ReleaseCreateEntry,
       ReleaseLookupEntry, ReleaseRecent, ReleaseNewMetadata, UpdateInfo,
       LinkOriginal, LinkFails, SwapInDuplicate, Drop
  <2>. QED  BY <2>1, <2>2, <2>3
<1>5. ASSUME NEW u \in Threads, Stage(u) = "fill", req[u].path = p, req[u].hash = NoHash,
             req[u].new.ref = ref
      PROVE  \/ metaPath'[e][ref] = p
             \/ Stage(u)' = "fill" /\ req'[u] = req[u]
  <2>1. CASE u # t
    BY <1>3, <1>5, <2>1 DEF OthersKept, Stage
  <2>2. CASE u = t
    <3>1. HasNew(t) /\ InRelease(t) /\ HoldsFile(t)
      BY <1>5, <2>2 DEF HasNew, InRelease, HoldsFile
    <3>2. StoredSound(t) /\ ReleaseSound(t) /\ HandleFound(t)
      BY DEF CalmIInv, StoreFound, FilesApart, NodesFound
    <3>3. req[t].new.entry = e /\ req[t].to = p
      BY <1>1, <1>5, <2>2, <3>1, <3>2 DEF StoredSound, ReleaseSound
    <3>4. req[t].path \in Calm
      BY <1>5, <2>2, <3>1 DEF CalmIInv, Meetings, CalmHashCalmPath
    <3>5. req[t].old = NoMeta
      BY <3>1, <3>2, <3>4 DEF HandleFound
    <3>6. FillMetadata(t)
      BY <1>3, <1>5, <2>2 DEF OnceStep, Create, LookupBegin, UnlinkBegin, HashChunk, PwriteChunk,
         CreateStoresInfo, LookupReadsInfo, LookupStoresInfo, LookupFills, UnlinkFile, UnlinkRemoves, UnlinkForgets,
         ReleaseStep, TakeBuffer, LookupOldMetadata, ReleaseTest, ReleaseCreateEntry,
         ReleaseLookupEntry, ReleaseRecent, ReleaseNewMetadata, UpdateInfo,
         LinkOriginal, LinkFails, SwapInDuplicate, Drop, At
    <3>7. e \in Entries /\ ref \in Refs
      BY <1>1 DEF CalmIInv, FilesIInv, IInv, TypeOK
    <3>. QED  BY <1>3, <1>5, <2>2, <3>3, <3>5, <3>6, <3>7 DEF FillMetadata
  <2>. QED  BY <2>1, <2>2
<1>6. CASE metaPath[e][ref] = p
  BY <1>1, <1>2, <1>4, <1>6 DEF ZeroKept
<1>7. CASE metaPath[e][ref] # p
  <2>1. PICK u \in Threads : /\ Stage(u) = "fill" /\ req[u].path = p /\ req[u].hash = NoHash
                             /\ req[u].new.ref = ref
    BY <1>1, <1>7 DEF ZeroKept
  <2>2. \/ metaPath'[e][ref] = p
        \/ Stage(u)' = "fill" /\ req'[u] = req[u]
    BY <1>5, <2>1
  <2>. QED  BY <1>2, <2>1, <2>2 DEF ZeroKept
<1>. QED  BY <1>6, <1>7

\* whichever request runs.
LEMMA ZeroStays ==
    ASSUME OnceWorkload, CalmIInv, [FilesNext]_filesVars, NoHash \in Calm',
           NEW p \in Path, NEW ref, ZeroKept(p, ref)
    PROVE  ZeroKept(p, ref)'
<1>1. CASE UNCHANGED filesVars
  BY <1>1 DEF filesVars, vars, heap, ZeroKept, LiveOf, Stage
<1>2. CASE FilesNext
  <2>1. PICK t \in Threads : OnceStep(t)
    BY <1>2, StepsAreOnceSteps DEF CalmIInv
  <2>2. NoHash \in Calm
    BY <2>1, OverlapGrows DEF Calm
  <2>. QED  BY <2>1, <2>2, ZeroPathStays
<1>. QED  BY <1>1, <1>2

\* A node info of an empty file is made by its Release, with new metadata.
LEMMA FilesNextKeepsZero ==
    ASSUME OnceWorkload, CalmIInv, [FilesNext]_filesVars
    PROVE  ZeroFound(nodeInfo)'
<1>. SUFFICES ASSUME NoHash \in Calm', NEW p \in Path, nodeInfo'[p] # NoInfo,
                     nodeInfo'[p].hash = NoHash, NEW ref, ref = nodeInfo'[p].ref, ref # 0
              PROVE  ZeroKept(p, ref)'
  BY DEF ZeroFound, ZeroKept
<1>1. ASSUME nodeInfo'[p] = nodeInfo[p], NoHash \in Calm
      PROVE  ZeroKept(p, ref)'
  <2>1. ZeroKept(p, ref)
    BY <1>1 DEF CalmIInv, ZeroFound
  <2>. QED  BY <2>1, ZeroStays
<1>2. CASE UNCHANGED filesVars
  BY <1>1, <1>2 DEF filesVars, Calm, clients
<1>3. CASE FilesNext
  <2>1. PICK t \in Threads : OnceStep(t)
    BY <1>3, StepsAreOnceSteps DEF CalmIInv
  <2>2. NoHash \in Calm
    BY <2>1, OverlapGrows DEF Calm
  <2>3. CASE UpdateInfo(t) /\ nodeInfo'[p] # nodeInfo[p]
    <3>0. Stage(t) = "info" /\ HasNew(t) /\ InRelease(t) /\ req \in [Threads -> Request]
          /\ nodeInfo \in [Path -> Info \cup {NoInfo}]
      BY <2>3 DEF UpdateInfo, At, HasNew, InRelease, CalmIInv, FilesIInv, FilesTypeOK
    <3>1. p = req[t].to /\ nodeInfo'[p] = [hash |-> req[t].hash, ref |-> req[t].new.ref]
      BY <2>3, <3>0 DEF UpdateInfo
    <3>2. StoredSound(t) /\ req[t].to = req[t].path /\ req[t].hash = NoHash
      BY <3>0, <3>1 DEF CalmIInv, StoreFound, FilesApart, ReleaseSound
    <3>3. req[t].new.ref \in LiveOf(NoHash) /\ ~req[t].dup
      BY <2>2, <3>0, <3>2, StoreAssumption DEF StoredSound
    <3>4. req' = [req EXCEPT ![t].stage = "fill"] /\ UNCHANGED vars
      BY <2>3, <3>3 DEF UpdateInfo, Goto
    <3>5. /\ Stage(t)' = "fill" /\ req'[t].path = p /\ req'[t].hash = NoHash
          /\ req'[t].new.ref = ref
      BY <3>0, <3>1, <3>2, <3>4 DEF Stage, Request
    <3>6. ref \in LiveOf(NoHash)'
      BY <3>1, <3>3, <3>4 DEF LiveOf, vars, heap
    <3>. QED  BY <3>5, <3>6 DEF ZeroKept
  <2>4. CASE CreateStoresInfo(t) \/ LookupStoresInfo(t) \/ UnlinkForgets(t)
    <3>1. nodeInfo \in [Path -> Info \cup {NoInfo}]
      BY DEF CalmIInv, FilesIInv, FilesTypeOK
    <3>2. nodeInfo'[p] = nodeInfo[p] \/ nodeInfo'[p] \in {NewInfo, NoInfo}
      BY <2>4, <3>1 DEF CreateStoresInfo, LookupStoresInfo, UnlinkForgets
    <3>. QED  BY <1>1, <2>2, <3>2 DEF NewInfo
  <2>5. CASE UNCHANGED nodeInfo
    BY <1>1, <2>2, <2>5
  <2>6. UpdateInfo(t) \/ CreateStoresInfo(t) \/ LookupStoresInfo(t) \/ UnlinkForgets(t) \/ UNCHANGED nodeInfo
    BY <2>1 DEF OnceStep, Create, LookupBegin, LookupReadsInfo, LookupFills, UnlinkBegin, HashChunk,
       PwriteChunk, UnlinkFile, UnlinkRemoves,
       ReleaseStep, TakeBuffer, LookupOldMetadata, ReleaseTest, ReleaseCreateEntry,
       ReleaseLookupEntry, ReleaseRecent, ReleaseNewMetadata,
       LinkOriginal, LinkFails, SwapInDuplicate, FillMetadata, Drop, disk
  <2>. QED  BY <1>1, <2>2, <2>3, <2>4, <2>5, <2>6
<1>. QED  BY <1>2, <1>3
-----------------------------------------------------------------------------
(* What clients get.                                                        *)

\* The initial states.
LEMMA InitIsCalm == FilesInit => CalmIInv
<1>1. FilesInit => FilesIInv
  BY FilesInitEstablishesIInv
<1>2. FilesInit => ZeroFound(nodeInfo)
  BY DEF FilesInit, ZeroFound
<1>. QED  BY <1>1, <1>2, InitIsApart, InitMeetings, InitStoreFound, InitNodesFound DEF CalmIInv

\* The five parts together.
LEMMA NextStaysCalm ==
    ASSUME OnceWorkload, CalmIInv, [FilesNext]_filesVars
    PROVE  FilesApart' /\ Meetings' /\ StoreFound' /\ NodesFound' /\ ZeroFound(nodeInfo)'
<1>1. FilesApart'
  BY FilesNextKeepsApart DEF CalmIInv
<1>2. Meetings'
  BY FilesNextKeepsMeetings DEF CalmIInv
<1>3. StoreFound'
  BY FilesNextKeepsStoreFound DEF CalmIInv
<1>. QED  BY <1>1, <1>2, <1>3, FilesNextKeepsNodes, FilesNextKeepsZero

\* What handles own, how requests meet, what a Release knows of the store and how names,
\* node infos and metadata lead to each other: in every state, for clients that write each
\* file once, look files up and remove them.
THEOREM CalmInductiveInvariant ==
    ASSUME Workload \subseteq WrittenOnce
    PROVE  FilesSpec => []CalmIInv
<1>. OnceWorkload
  BY DEF OnceWorkload
<1>1. FilesInit => CalmIInv
  BY InitIsCalm
<1>2. CalmIInv /\ FilesIInv' /\ [FilesNext]_filesVars => CalmIInv'
  BY NextStaysCalm DEF CalmIInv
<1>. QED  BY <1>1, <1>2, FilesInductiveInvariant, PTL DEF FilesSpec

\* A closed file's node info, and its metadata.
LEMMA ClosedFound ==
    ASSUME CalmIInv, NEW p \in Path, Closed(p)
    PROVE  LET info == nodeInfo[p] IN
           /\ p \in Calm /\ want[own[p]] \in Calm /\ own[p] # NoFile
           /\ info # NoInfo /\ info.ref # 0 /\ info.hash = want[own[p]]
           /\ info.ref \in LiveOf(info.hash)
           /\ PathOf(MetadataOf(info)) = p
<1>1. /\ p \in Calm /\ want[own[p]] \in Calm /\ own[p] # NoFile
      /\ \A t \in Threads : Stage(t) = "idle" \/ req[t].path # p
  BY DEF Closed, Settled
<1>2. ContentFound(p) /\ InfoFound(p)
  BY DEF CalmIInv, NodesFound
<1>3. nodeInfo[p] # NoInfo /\ nodeInfo[p].ref # 0 /\ nodeInfo[p].hash = want[own[p]]
  BY <1>1, <1>2 DEF ContentFound, HoldsFile, Writing, InRelease
<1>4. CASE nodeInfo[p].hash \in Hash
  BY <1>1, <1>2, <1>3, <1>4 DEF InfoFound
<1>5. CASE nodeInfo[p].hash = NoHash
  <2>1. ZeroKept(p, nodeInfo[p].ref)
    BY <1>1, <1>3, <1>5 DEF CalmIInv, ZeroFound
  <2>2. nodeInfo[p].ref \in LiveOf(NoHash) /\ metaPath[table[NoHash]][nodeInfo[p].ref] = p
    BY <1>1, <2>1 DEF ZeroKept
  <2>. QED  BY <1>1, <1>3, <1>5, <2>2 DEF LiveOf, MetadataOf, HasMetadata, PathOf
<1>. QED  BY <1>3, <1>4, <1>5, InfoShape DEF AllHash

\* Names show the right contents,
LEMMA CalmReadsBack == CalmIInv => ReadsBack
<1>. SUFFICES ASSUME CalmIInv, NEW p \in Path, p \in Calm
     PROVE  IF own[p] # NoFile
            THEN want[own[p]] \in Calm => Exists(p) /\ data[names[p]] = want[own[p]]
            ELSE Exists(p) => data[names[p]] \notin Calm
  BY DEF ReadsBack
<1>1. PathFound(p) /\ ContentFound(p)
  BY DEF CalmIInv, NodesFound
<1>. QED  BY <1>1 DEF PathFound, ContentFound, Exists

\* closed files have metadata that leads back,
LEMMA CalmHasMetadata == CalmIInv => NodeHasMetadata
<1>. SUFFICES ASSUME CalmIInv, NEW p \in Path, Closed(p)
     PROVE  /\ InfoOf(p).hash = want[own[p]]
            /\ HasMetadata(InfoOf(p))
            /\ PathOf(MetadataOf(InfoOf(p))) = p
  BY DEF NodeHasMetadata
<1>1. InfoOf(p) = nodeInfo[p]
  BY ClosedFound DEF InfoOf
<1>. QED  BY <1>1, ClosedFound DEF LiveOf, HasMetadata

\* closed duplicates share an inode,
LEMMA CalmShareInode == CalmIInv => DuplicatesShareInode
<1>. SUFFICES ASSUME CalmIInv, NEW p \in Path, NEW q \in Path, Closed(p), Closed(q),
                     want[own[p]] = want[own[q]], want[own[p]] # NoHash
     PROVE  names[p] = names[q]
  BY DEF DuplicatesShareInode
<1>. DEFINE h == want[own[p]]
<1>1. h \in Calm \cap Hash
  BY ClosedFound, CalmTypes, FilesAssumption DEF CalmIInv, Calm
<1>2. Keeps(p, h)
  BY ClosedFound DEF Closed, Settled, Keeps
<1>3. Keeps(q, h)
  BY ClosedFound DEF Closed, Settled, Keeps
<1>4. Shared
  BY DEF CalmIInv, NodesFound
<1>. QED  BY <1>1, <1>2, <1>3, <1>4 DEF Shared

\* a temporary link has its Release,
LEMMA CalmLeavesNoLink == CalmIInv => NoLinkLeftBehind
<1>. SUFFICES ASSUME CalmIInv, NEW p \in Path, tmp[p] # NoFile, p \in Calm
     PROVE  \E t \in Threads : Stage(t) = "swap" /\ req[t].to = p
  BY DEF NoLinkLeftBehind
<1>1. PICK t \in Threads : Stage(t) = "swap" /\ req[t].path = p
  BY DEF CalmIInv, NodesFound, PathFound
<1>2. req[t].to = req[t].path
  BY <1>1 DEF CalmIInv, FilesApart, ReleaseSound, InRelease
<1>. QED  BY <1>1, <1>2

\* References are positive and bounded.
LEMMA LiveIsRefs ==
    ASSUME CalmIInv, NEW h \in AllHash
    PROVE  LiveOf(h) \in SUBSET Refs /\ \A r \in LiveOf(h) : r \in 0..MaxIndex
<1>1. LiveOf(h) \in SUBSET Refs
  BY DEF CalmIInv, FilesIInv, LiveOf, IInv, TypeOK
<1>. QED  BY <1>1, StoreAssumption DEF Refs

\* The files of a calm hash nobody is engaged on, and its references, lead to each other.
LEMMA FilesAndReferences ==
    ASSUME CalmIInv, NEW h \in Calm \cap Hash,
           \A t \in Threads : Stage(t) = "idle" \/ req[t].hash # h
    PROVE  ExistsBijection(LiveOf(h), {p \in Path : InfoOf(p).hash = h})
<1>. DEFINE S == LiveOf(h)
            T == {p \in Path : InfoOf(p).hash = h}
            info(r) == [hash |-> h, ref |-> r]
            f == [r \in S |-> PathOf(MetadataOf(info(r)))]
<1>1. h # NoHash
  BY StoreAssumption
<1>2. ASSUME NEW r \in S PROVE f[r] \in Path /\ nodeInfo[f[r]] = info(r)
  <2>1. MetadataFound(h)
    BY DEF CalmIInv, NodesFound
  <2>2. ~ \E t \in Threads : HasNew(t) /\ req[t].hash = h
    BY DEF HasNew
  <2>. QED  BY <1>2, <2>1, <2>2 DEF MetadataFound
<1>3. ASSUME NEW r \in S PROVE f[r] \in T
  <2>1. info(r) # NoInfo
    BY <1>3, FilesAssumption, LiveIsRefs DEF Info, AllHash
  <2>. QED  BY <1>2, <1>3, <2>1 DEF InfoOf
<1>4. ASSUME NEW r \in S, NEW s \in S, f[r] = f[s] PROVE r = s
  BY <1>2, <1>4
<1>5. ASSUME NEW p \in T PROVE \E r \in S : f[r] = p
  <2>1. nodeInfo[p] # NoInfo /\ nodeInfo[p].hash = h
    BY <1>1 DEF InfoOf, NewInfo
  <2>2. nodeInfo[p] = info(nodeInfo[p].ref) /\ p \in Calm /\ nodeInfo[p].ref # 0
    BY <2>1, InfoShape, CalmInfo
  <2>3. PathFound(p) /\ InfoFound(p) /\ \A t \in Threads : HandleFound(t) /\ UnlinkFound(t)
    BY DEF CalmIInv, NodesFound
  <2>4. \A t \in Threads : InUnlink(t) => req[t].path # p
    <3>. SUFFICES ASSUME NEW t \in Threads, InUnlink(t), req[t].path = p PROVE FALSE
      OBVIOUS
    <3>1. nodeInfo[p] = req[t].info
      BY <2>2, <2>3 DEF UnlinkFound
    <3>2. req[t].hash = h
      BY <2>1, <3>1 DEF CalmIInv, FilesApart, UnlinkSound
    <3>. QED  BY <3>2 DEF InUnlink
  <2>5. own[p] # NoFile
    BY <2>1, <2>2, <2>3, <2>4 DEF PathFound
  <2>6. nodeInfo[p].ref \in S
    BY <2>1, <2>2, <2>3, <2>5 DEF InfoFound
  <2>7. \A t \in Threads : Stage(t) \in {"link", "swap", "fill"} => req[t].path # p
    <3>. SUFFICES ASSUME NEW t \in Threads, Stage(t) \in {"link", "swap", "fill"},
                         req[t].path = p
         PROVE  FALSE
      OBVIOUS
    <3>1. HoldsFile(t) /\ req[t].path \in Calm /\ HandleFound(t)
      BY <2>2, <2>3 DEF HoldsFile, InRelease
    <3>2. nodeInfo[p] = [hash |-> req[t].hash, ref |-> req[t].new.ref]
      BY <3>1 DEF HandleFound
    <3>. QED  BY <2>1, <3>2
  <2>8. PathOf(MetadataOf(nodeInfo[p])) = p
    BY <2>1, <2>2, <2>3, <2>6, <2>7 DEF InfoFound
  <2>. QED  BY <2>2, <2>6, <2>8
<1>6. f \in Bijection(S, T)
  <2>1. f \in [S -> T]
    BY <1>3
  <2>. QED  BY <2>1, <1>4, <1>5 DEF Bijection, Injection, Surjection, IsInjective
<1>. QED  BY <1>6 DEF ExistsBijection

\* and so the reference count, which counts references, counts files.
LEMMA CalmCountsFiles == CalmIInv => CountsFiles
<1>. SUFFICES ASSUME CalmIInv, NEW h \in Calm \cap Hash,
                     \A t \in Threads : Stage(t) = "idle" \/ req[t].hash # h
     PROVE  Cardinality({p \in Path : InfoOf(p).hash = h}) =
                (IF table[h] = NoEntry THEN 0 ELSE count[table[h]])
  BY DEF CountsFiles
<1>1. ExistsBijection(LiveOf(h), {p \in Path : InfoOf(p).hash = h})
  BY FilesAndReferences
<1>2. LiveOf(h) \in SUBSET Refs /\ IsFiniteSet(LiveOf(h))
  <2>1. LiveOf(h) \in SUBSET Refs
    BY LiveIsRefs DEF AllHash
  <2>2. IsFiniteSet(Refs)
    BY FS_Interval, StoreAssumption DEF Refs
  <2>. QED  BY <2>1, <2>2, FS_Subset
<1>3. Cardinality({p \in Path : InfoOf(p).hash = h}) = Cardinality(LiveOf(h))
  BY <1>1, <1>2, FS_Bijection
<1>4. CASE table[h] = NoEntry
  BY <1>3, <1>4, FS_EmptySet DEF LiveOf
<1>5. CASE table[h] # NoEntry
  <2>1. table[h] \in allocated /\ home[table[h]] = h
    BY <1>5 DEF CalmIInv, FilesIInv, IInv, TableSound, AllHash
  <2>2. h \in Quiet
    BY DEF CalmIInv, Meetings, Calm, Quiet, AllHash
  <2>3. count[table[h]] = Cardinality(live[table[h]])
    BY <2>1, <2>2 DEF CalmIInv, FilesIInv, IInv, CountExact
  <2>. QED  BY <1>3, <1>5, <2>3 DEF LiveOf
<1>. QED  BY <1>4, <1>5

\* What fills an answer from metadata finds it where requests have not met: a Create is
\* that of a new node, and the node info a Lookup has read is still there.
LEMMA CalmNoCrash == CalmIInv => NoCrash
<1>. SUFFICES ASSUME CalmIInv, NEW t \in Threads, FillsFromNil(t), req[t].path \in Calm,
                     req[t].info.hash \in Calm
              PROVE  FALSE
  BY DEF NoCrash
<1>. DEFINE p == req[t].path  info == req[t].info
<1>1. HandleFound(t) /\ LookFound(t)
  BY DEF CalmIInv, NodesFound
<1>2. Stage(t) = "attr"
  BY <1>1 DEF FillsFromNil, HandleFound, HoldsFile, Writing
<1>3. p \in Path /\ own[p] # NoFile /\ nodeInfo[p] # NoInfo /\ nodeInfo[p] = info
  BY <1>1, <1>2, CalmPlaces DEF LookFound, InLookup
<1>4. InfoFound(p) /\ info = [hash |-> info.hash, ref |-> info.ref] /\ info.hash \in AllHash
  BY <1>3, InfoShape DEF CalmIInv, NodesFound
<1>5. info.ref # 0
  <2>1. info.ref = 0 => info.hash = NoHash
    BY <1>3, <1>4 DEF InfoFound
  <2>. QED  BY <1>4, <2>1 DEF FillsFromNil, NewInfo
<1>6. info.ref \in LiveOf(info.hash)
  <2>1. CASE info.hash \in Hash
    BY <1>3, <1>4, <1>5, <2>1 DEF InfoFound
  <2>2. CASE info.hash = NoHash
    BY <1>3, <1>5, <2>2 DEF CalmIInv, ZeroFound, ZeroKept
  <2>. QED  BY <1>4, <2>1, <2>2 DEF AllHash
<1>. QED  BY <1>6 DEF FillsFromNil, HasMetadata, LiveOf

\* Each path shows the file the client put there, with what the client wrote, and no
\* removed file shows, on every path and content no two requests have met on:
\* whichever inodes Release has made of the files.
THEOREM OnceReadsBack ==
    ASSUME Workload \subseteq WrittenOnce
    PROVE  FilesSpec => []ReadsBack
BY CalmInductiveInvariant, CalmReadsBack, PTL

\* The node info of each closed file leads to metadata whose Path leads back to it.
THEOREM OnceNodeHasMetadata ==
    ASSUME Workload \subseteq WrittenOnce
    PROVE  FilesSpec => []NodeHasMetadata
BY CalmInductiveInvariant, CalmHasMetadata, PTL

\* ReferenceCount is the number of files with the content, once the requests engaged
\* on it have returned.
THEOREM OnceCountsFiles ==
    ASSUME Workload \subseteq WrittenOnce
    PROVE  FilesSpec => []CountsFiles
BY CalmInductiveInvariant, CalmCountsFiles, PTL

\* Any two closed files with equal content, however many were written between them,
\* are one inode.
THEOREM OnceDuplicatesShareInode ==
    ASSUME Workload \subseteq WrittenOnce
    PROVE  FilesSpec => []DuplicatesShareInode
BY CalmInductiveInvariant, CalmShareInode, PTL

\* The temporary name of a Release is gone when the Release is.
THEOREM OnceNoLinkLeftBehind ==
    ASSUME Workload \subseteq WrittenOnce
    PROVE  FilesSpec => []NoLinkLeftBehind
BY CalmInductiveInvariant, CalmLeavesNoLink, PTL

\* Create and Lookup find the metadata they fill their answer from, on every path and
\* content no two requests have met on: whatever runs between the steps of a Lookup.
THEOREM OnceNoCrash ==
    ASSUME Workload \subseteq WrittenOnce
    PROVE  FilesSpec => []NoCrash
BY CalmInductiveInvariant, CalmNoCrash, PTL

=============================================================================
