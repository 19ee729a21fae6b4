------------------------- MODULE DistinctFilesProofs -------------------------
(***************************************************************************)
(* While no content is ever written twice, every path is the file its       *)
(* client put there, with what was written to it: Undisturbed, for any      *)
(* number of requests, paths and writes, and any interleaving of them.      *)
(***************************************************************************)
EXTENDS RegularFilesProofs

\* What a step leaves of the releases under way: none begins, none learns
\* another hash, none comes to test a hash for being unique.
ReleasesKept ==
    \A u \in Threads :
        Releasing(u)' =>
            /\ Stage(u)' = Stage(u)
            /\ req'[u].hash = req[u].hash
            /\ hashArg'[u] = hashArg[u]
            /\ pc'[u] = "unique" => pc[u] = "unique"

\* No hash enters the table.
TableShrinks == \A h \in AllHash : table'[h] \in {NoEntry, table[h]}

\* No chunk enters a buffer.
BuffersShrink == \A p \in Path : buffer'[p] \in {NoBuffer, << >>, buffer[p]}

-----------------------------------------------------------------------------
(* Steps that store no hash and write no chunk.                             *)

LEMMA HashesKept ==
    ASSUME FilesIInv, DistinctIInv, ReleasesKept, TableShrinks, BuffersShrink,
           used' = used
    PROVE  HashInHand' /\ ChunksApart' /\ TakenUsed'
<1>. USE DEF FilesIInv, DistinctIInv
<1>1. ASSUME NEW t \in Threads, Releasing(t)'
      PROVE  /\ Releasing(t) /\ Stage(t)' = Stage(t) /\ req'[t].hash = req[t].hash
             /\ hashArg'[t] = hashArg[t] /\ (pc'[t] = "unique" => pc[t] = "unique")
             /\ req[t].hash \in AllHash
  BY <1>1 DEF ReleasesKept, Releasing, FilesTypeOK, Request
<1>2. Taken' \subseteq Taken
  BY <1>1 DEF Taken, TableShrinks, AllHash
<1>3. ChunksOf(<< >>) = {}
  BY DEF ChunksOf
<1>4. HashInHand'
  <2>. SUFFICES ASSUME NEW t \in Threads
                PROVE  /\ Stage(t)' = "storing" => hashArg'[t] = req'[t].hash
                       /\ Stage(t)' = "released" \/ (Stage(t)' = "storing" /\ pc'[t] = "unique") =>
                             req'[t].hash = NoHash \/ table'[req'[t].hash] = NoEntry
                       /\ \A u \in Threads \ {t} :
                             Releasing(t)' /\ Releasing(u)' /\ req'[t].hash = req'[u].hash =>
                                req'[t].hash = NoHash
    BY DEF HashInHand
  <2>1. CASE Releasing(t)'
    BY <1>1, <2>1 DEF HashInHand, TableShrinks, Releasing
  <2>2. CASE ~Releasing(t)'
    BY <2>2 DEF Releasing
  <2>. QED  BY <2>1, <2>2
<1>5. ChunksApart'
  BY <1>2, <1>3 DEF ChunksApart, BuffersShrink
<1>6. TakenUsed'
  BY <1>2 DEF TakenUsed
<1>. QED  BY <1>4, <1>5, <1>6

\* The store's steps of one request leave the others alone, and none but
\* CreateMapEntry adds to the table.
LEMMA OthersKept ==
    ASSUME TypeOK, NEW t \in Threads,
           \/ UNCHANGED vars
           \/ \E h, r : BeginRemove(t, h, r)
           \/ RemoveStep(t)
           \/ LookupMapEntry(t)
           \/ CreateMetadata(t)
    PROVE  /\ TableShrinks
           /\ \A u \in Threads \ {t} : hashArg'[u] = hashArg[u] /\ pc'[u] = pc[u]
<1>1. CASE UNCHANGED vars
  BY <1>1 DEF vars, locals, TableShrinks
<1>2. ASSUME NEW h, NEW r, BeginRemove(t, h, r)
      PROVE  /\ TableShrinks
             /\ \A u \in Threads \ {t} : hashArg'[u] = hashArg[u] /\ pc'[u] = pc[u]
  BY <1>2 DEF TypeOK, BeginRemove, Step, TableShrinks
<1>3. CASE RemoveStep(t)
  BY <1>3 DEF TypeOK, RemoveStep, FindMetadata, DeleteMetadata, TestEmpty, DeleteMapEntry,
     Step, locals, TableShrinks
<1>4. CASE LookupMapEntry(t) \/ CreateMetadata(t)
  BY <1>4 DEF TypeOK, LookupMapEntry, CreateMetadata, Step, locals, TableShrinks
<1>. QED  BY <1>1, <1>2, <1>3, <1>4

\* A request goes on to something that concerns no hash.
LEMMA RequestMovesOn ==
    ASSUME FilesIInv, DistinctIInv, NEW t \in Threads, NEW r,
           req' = [req EXCEPT ![t] = r],
           r.dup = FALSE,
           r.stage \notin {"link", "swap", "released", "storing"},
           r.stage \in {"create", "open", "pwrite"} => r.inode = r.file,
           names' = own', data' = want',
           TableShrinks, BuffersShrink, used' = used,
           \A u \in Threads \ {t} : hashArg'[u] = hashArg[u] /\ pc'[u] = pc[u]
    PROVE  DistinctIInv'
<1>. USE DEF FilesIInv, DistinctIInv
<1>1. \A u \in Threads \ {t} : req'[u] = req[u]
  BY DEF FilesTypeOK
<1>2. req'[t] = r
  BY DEF FilesTypeOK
<1>3. OwnFiles'
  BY <1>1, <1>2 DEF OwnFiles, Stage
<1>4. NoDuplicate'
  BY <1>1, <1>2 DEF NoDuplicate, Stage
<1>5. ReleasesKept
  BY <1>1, <1>2 DEF ReleasesKept, Releasing, Stage
<1>. QED  BY <1>3, <1>4, <1>5, HashesKept

\* The same for a step that only changes the stage.
LEMMA RequestGoesTo ==
    ASSUME FilesIInv, DistinctIInv, NEW t \in Threads, NEW stage,
           Goto(t, stage),
           stage \notin {"link", "swap", "released", "storing", "create", "pwrite"},
           stage = "open" => Stage(t) \in {"create", "pwrite"},
           names' = own', data' = want',
           TableShrinks, BuffersShrink, used' = used,
           \A u \in Threads \ {t} : hashArg'[u] = hashArg[u] /\ pc'[u] = pc[u]
    PROVE  DistinctIInv'
<1>. DEFINE r == [req[t] EXCEPT !.stage = stage]
<1>1. req[t] \in Request /\ req[t].dup = FALSE
  BY DEF FilesIInv, FilesTypeOK, DistinctIInv, NoDuplicate
<1>2. /\ r.stage = stage /\ r.dup = req[t].dup /\ r.inode = req[t].inode
      /\ r.file = req[t].file
  BY <1>1 DEF Request
<1>3. stage = "open" => req[t].inode = req[t].file
  BY DEF DistinctIInv, OwnFiles
<1>4. req' = [req EXCEPT ![t] = r]
  BY DEF Goto
<1>. HIDE DEF r
<1>. QED  BY <1>1, <1>2, <1>3, <1>4, RequestMovesOn

LEMMA RequestReturns ==
    ASSUME FilesIInv, DistinctIInv, NEW t \in Threads, Return(t),
           names' = own', data' = want',
           TableShrinks, BuffersShrink, used' = used,
           \A u \in Threads \ {t} : hashArg'[u] = hashArg[u] /\ pc'[u] = pc[u]
    PROVE  DistinctIInv'
<1>1. Blank.dup = FALSE /\ Blank.stage = "idle"
  BY DEF Blank
<1>. QED  BY <1>1, RequestMovesOn DEF Return

\* A request of which the step changes nothing.
LEMMA RequestStays ==
    ASSUME FilesIInv, DistinctIInv, UNCHANGED <<req, vars>>,
           names' = own', data' = want', BuffersShrink, used' = used
    PROVE  DistinctIInv'
<1>1. ReleasesKept
  BY DEF ReleasesKept, Stage, Releasing, vars, locals
<1>2. TableShrinks
  BY DEF TableShrinks, vars
<1>3. OwnFiles' /\ NoDuplicate'
  BY DEF DistinctIInv, OwnFiles, NoDuplicate, Stage
<1>. QED  BY <1>1, <1>2, <1>3, HashesKept DEF DistinctIInv

-----------------------------------------------------------------------------
(* Create, Open, Write, and the steps on names.                             *)

LEMMA CreateStaysDistinct ==
    ASSUME FilesIInv, DistinctIInv, NEW t \in Threads, NEW p \in Path, Create(t, p)
    PROVE  DistinctIInv'
<1>1. PICK i \in FreshInodes :
          /\ names' = [names EXCEPT ![p] = i]
          /\ data' = [data EXCEPT ![i] = << >>]
          /\ own' = [own EXCEPT ![p] = i]
          /\ req' = [req EXCEPT ![t] =
                [Blank EXCEPT !.stage = "create", !.path = p, !.inode = i, !.file = i,
                              !.info = InfoOf(p)]]
  BY DEF Create
<1>. DEFINE r == [Blank EXCEPT !.stage = "create", !.path = p, !.inode = i, !.file = i,
                               !.info = InfoOf(p)]
<1>2. r.stage = "create" /\ r.dup = FALSE /\ r.inode = i /\ r.file = i
  BY DEF Blank
<1>3. i \in Inode /\ data[i] = << >>
  BY DEF FreshInodes, DistinctIInv, OwnFiles
<1>4. names' = own' /\ data' = want'
  BY <1>1, <1>3 DEF Create, DistinctIInv, OwnFiles, FilesIInv, FilesTypeOK
<1>5. BuffersShrink /\ used' = used
  BY DEF Create, BuffersShrink, FilesIInv, FilesTypeOK
<1>6. UNCHANGED vars
  BY DEF Create
<1>7. req' = [req EXCEPT ![t] = r]
  BY <1>1
<1>. HIDE DEF r
<1>. QED  BY <1>2, <1>4, <1>5, <1>6, <1>7, OthersKept, RequestMovesOn DEF FilesIInv, IInv

LEMMA OpenStaysDistinct ==
    ASSUME FilesIInv, DistinctIInv, NEW t \in Threads, NEW p \in Path,
           NEW trunc \in BOOLEAN, Open(t, p, trunc)
    PROVE  DistinctIInv'
<1>. DEFINE r == [Blank EXCEPT !.stage = "open", !.path = p, !.inode = names[p],
                               !.file = own[p], !.info = InfoOf(p)]
<1>1. r.stage = "open" /\ r.dup = FALSE /\ r.inode = r.file
  BY DEF Blank, DistinctIInv, OwnFiles
<1>2. names' = own' /\ data' = want'
  BY DEF Open, DistinctIInv, OwnFiles
<1>3. BuffersShrink /\ used' = used /\ UNCHANGED vars /\ req' = [req EXCEPT ![t] = r]
  BY DEF Open, BuffersShrink
<1>. HIDE DEF r
<1>. QED  BY <1>1, <1>2, <1>3, OthersKept, RequestMovesOn DEF FilesIInv, IInv

\* What the client writes to its file goes to the same inode.
LEMMA PwriteChunkStaysDistinct ==
    ASSUME FilesIInv, DistinctIInv, NEW t \in Threads, NEW off \in 0..MaxWrites,
           PwriteChunk(t, off)
    PROVE  DistinctIInv'
<1>1. Stage(t) = "pwrite" /\ req[t].inode = req[t].file
  BY DEF PwriteChunk, At, DistinctIInv, OwnFiles
<1>2. names' = own' /\ data' = want'
  BY <1>1 DEF PwriteChunk, DistinctIInv, OwnFiles
<1>3. BuffersShrink /\ used' = used /\ UNCHANGED vars /\ Goto(t, "open")
  BY DEF PwriteChunk, BuffersShrink
<1>. QED  BY <1>1, <1>2, <1>3, OthersKept, RequestGoesTo DEF FilesIInv, IInv

\* The steps after which the request does something else on its path.
LEMMA NamesStayDistinct ==
    ASSUME FilesIInv, DistinctIInv, NEW t \in Threads,
           \/ CreateStoresInfo(t) /\ Goto(t, "open")
           \/ RenameFile(t) \/ RenameRemovesInfo(t) \/ UnlinkFile(t) \/ UnlinkRemoves(t)
    PROVE  DistinctIInv'
<1>1. PICK stage : Goto(t, stage) /\ stage \in {"open", "renamed", "moved", "forget", "unlinking"}
                   /\ (stage = "open" => Stage(t) = "create")
  BY DEF CreateStoresInfo, RenameFile, RenameRemovesInfo, UnlinkFile, UnlinkRemoves, At
<1>2. names' = own' /\ data' = want'
  BY DEF CreateStoresInfo, RenameFile, RenameRemovesInfo, UnlinkFile, UnlinkRemoves,
     disk, clients, DistinctIInv, OwnFiles
<1>3. BuffersShrink /\ used' = used
  BY DEF CreateStoresInfo, RenameFile, RenameRemovesInfo, UnlinkFile, UnlinkRemoves,
     clients, BuffersShrink
<1>4. \/ UNCHANGED vars
      \/ BeginRemove(t, req[t].info.hash, req[t].info.ref)
      \/ RemoveStep(t)
  BY DEF CreateStoresInfo, RenameFile, RenameRemovesInfo, UnlinkFile, UnlinkRemoves
<1>5. /\ TableShrinks
      /\ \A u \in Threads \ {t} : hashArg'[u] = hashArg[u] /\ pc'[u] = pc[u]
  BY <1>4, OthersKept DEF FilesIInv, IInv
<1>. QED  BY <1>1, <1>2, <1>3, <1>5, RequestGoesTo

\* The steps that end a request.
LEMMA ReturnsStayDistinct ==
    ASSUME FilesIInv, DistinctIInv, NEW t \in Threads,
           \/ LookupStoresInfo(t) \/ LinkStoresInfo(t) \/ LookupFills(t)
           \/ CreateStoresInfo(t) /\ UNCHANGED req
    PROVE  DistinctIInv'
<1>1. names' = own' /\ data' = want'
  BY DEF LookupStoresInfo, LookupFills, CreateStoresInfo, LinkStoresInfo, disk, clients,
     DistinctIInv, OwnFiles
<1>2. BuffersShrink /\ used' = used /\ UNCHANGED vars /\ (Return(t) \/ UNCHANGED req)
  BY DEF LookupStoresInfo, LookupFills, CreateStoresInfo, LinkStoresInfo, clients, BuffersShrink
<1>3. CASE Return(t)
  BY <1>1, <1>2, <1>3, OthersKept, RequestReturns DEF FilesIInv, IInv
<1>4. CASE UNCHANGED req
  BY <1>1, <1>2, <1>4, RequestStays
<1>. QED  BY <1>2, <1>3, <1>4

\* A Lookup that has read its node info concerns no hash yet.
LEMMA LookupReadsStaysDistinct ==
    ASSUME FilesIInv, DistinctIInv, NEW t \in Threads, LookupReadsInfo(t)
    PROVE  DistinctIInv'
<1>1. req[t] \in Request /\ req[t].dup = FALSE
  BY DEF FilesIInv, FilesTypeOK, DistinctIInv, NoDuplicate
<1>. DEFINE stage == IF InfoOf(req[t].path) = NewInfo THEN "look" ELSE "attr"
            r == [req[t] EXCEPT !.stage = stage, !.info = InfoOf(req[t].path)]
<1>2. stage \in {"look", "attr"}
  OBVIOUS
<1>3. req' = [req EXCEPT ![t] = r] /\ r.stage = stage /\ r.dup = FALSE
  <2>1. req' = [req EXCEPT ![t].stage = stage, ![t].info = InfoOf(req[t].path)]
    BY DEF LookupReadsInfo
  <2>. HIDE DEF stage
  <2>. QED  BY <1>1, <2>1 DEF FilesIInv, FilesTypeOK, Request
<1>4. names' = own' /\ data' = want' /\ BuffersShrink /\ used' = used /\ UNCHANGED vars
  BY DEF LookupReadsInfo, disk, clients, DistinctIInv, OwnFiles, BuffersShrink
<1>. HIDE DEF r, stage
<1>. QED  BY <1>2, <1>3, <1>4, OthersKept, RequestMovesOn DEF FilesIInv, IInv

\* The steps that begin a Lookup, Link, Rename or Unlink.
LEMMA BeginningsStayDistinct ==
    ASSUME FilesIInv, DistinctIInv, NEW t \in Threads, NEW p \in Path, NEW q \in Path,
           \/ LookupBegin(t, p) \/ UnlinkBegin(t, p)
           \/ LinkBegin(t, p, q) \/ RenameBegin(t, p, q)
    PROVE  DistinctIInv'
<1>1. names' = own' /\ data' = want'
  BY DEF LookupBegin, UnlinkBegin, LinkBegin, RenameBegin, disk, clients, DistinctIInv,
     OwnFiles
<1>2. BuffersShrink /\ used' = used /\ UNCHANGED vars
  BY DEF LookupBegin, UnlinkBegin, LinkBegin, RenameBegin, clients, BuffersShrink
<1>3. \E r : /\ req' = [req EXCEPT ![t] = r]
             /\ r.dup = FALSE
             /\ r.stage \in {"stat", "unlink", "linked", "rename"}
  <2>. DEFINE Begun(r) == /\ req' = [req EXCEPT ![t] = r]
                          /\ r.dup = FALSE
                          /\ r.stage \in {"stat", "unlink", "linked", "rename"}
              look == [Blank EXCEPT !.stage = "stat", !.path = p]
              unlink == [Blank EXCEPT !.stage = "unlink", !.path = p, !.info = InfoOf(p),
                                      !.exists = (nodeInfo[p] # NoInfo), !.hash = InfoOf(p).hash]
              link == [Blank EXCEPT !.stage = "linked", !.path = p, !.to = q]
              rename == [Blank EXCEPT !.stage = "rename", !.path = p, !.to = q,
                                      !.info = InfoOf(p)]
  <2>1. Begun(look) \/ Begun(unlink) \/ Begun(link) \/ Begun(rename)
    BY DEF LookupBegin, UnlinkBegin, LinkBegin, RenameBegin, Blank
  <2>. HIDE DEF look, unlink, link, rename
  <2>. QED  BY <2>1
<1>4. ASSUME NEW r, req' = [req EXCEPT ![t] = r], r.dup = FALSE,
             r.stage \in {"stat", "unlink", "linked", "rename"}
      PROVE  DistinctIInv'
  BY <1>1, <1>2, <1>4, OthersKept, RequestMovesOn DEF FilesIInv, IInv
<1>. QED  BY <1>3, <1>4

\* Moving go-fuse's nodes changes no more than the paths of open descriptors.
LEMMA MovesStayDistinct ==
    ASSUME FilesIInv, DistinctIInv, NEW t \in Threads,
           RenameStoresInfo(t) \/ UnlinkForgets(t)
    PROVE  DistinctIInv'
<1>1. PICK from, to : req' = [Moved(from, to) EXCEPT ![t] = Blank]
  BY DEF RenameStoresInfo, UnlinkForgets
<1>2. ASSUME NEW u \in Threads \ {t}
      PROVE  /\ req'[u].stage = req[u].stage /\ req'[u].hash = req[u].hash
             /\ req'[u].dup = req[u].dup
             /\ req'[u].inode = req[u].inode /\ req'[u].file = req[u].file
  <2>1. req[u] \in Request
    BY DEF FilesIInv, FilesTypeOK
  <2>2. \A p : LET r == [req[u] EXCEPT !.path = p] IN
                  /\ r.stage = req[u].stage /\ r.hash = req[u].hash /\ r.dup = req[u].dup
                  /\ r.inode = req[u].inode /\ r.file = req[u].file
    BY <2>1 DEF Request
  <2>. QED  BY <1>1, <2>2 DEF Moved
<1>3. req'[t] = Blank
  BY <1>1 DEF Moved
<1>4. UNCHANGED vars /\ BuffersShrink /\ used' = used /\ UNCHANGED <<names, own, data, want>>
  BY DEF RenameStoresInfo, UnlinkForgets, disk, clients, BuffersShrink
<1>5. TableShrinks /\ pc' = pc /\ hashArg' = hashArg
  BY <1>4, OthersKept DEF FilesIInv, IInv, vars, locals
<1>6. ReleasesKept
  BY <1>2, <1>3, <1>5 DEF ReleasesKept, Releasing, Stage, Blank
<1>7. OwnFiles' /\ NoDuplicate'
  BY <1>2, <1>3, <1>4 DEF DistinctIInv, OwnFiles, NoDuplicate, Stage, Blank
<1>. QED  BY <1>4, <1>5, <1>6, <1>7, HashesKept DEF DistinctIInv

-----------------------------------------------------------------------------
(* Write and Release.                                                       *)

\* A chunk nobody wrote before goes to one buffer: the others, and the hashes
\* taken, do not contain it.
LEMMA HashChunkStaysDistinct ==
    ASSUME FilesIInv, DistinctIInv, "duplicate" \notin Workload,
           NEW t \in Threads, NEW c \in Chunk, HashChunk(t, c)
    PROVE  DistinctIInv'
<1>. USE DEF FilesIInv, DistinctIInv
<1>. DEFINE p == req[t].path
            kept == IF p = Gone \/ buffer[p] = NoBuffer THEN << >> ELSE buffer[p]
            r == [req[t] EXCEPT !.stage = "pwrite", !.chunk = c]
<1>1. req[t] \in Request /\ RequestSound(req[t]) /\ req[t].stage = "open"
  BY RequestAt DEF HashChunk
<1>2. /\ req' = [req EXCEPT ![t] = r]
      /\ r.stage = "pwrite" /\ r.dup = req[t].dup /\ r.inode = req[t].inode
      /\ r.file = req[t].file /\ r.hash = req[t].hash
  BY <1>1 DEF HashChunk, FilesTypeOK, Request
<1>. HIDE DEF r
<1>3. \A u \in Threads \ {t} : req'[u] = req[u]
  BY <1>2 DEF FilesTypeOK
<1>4. req'[t] = r
  BY <1>2 DEF FilesTypeOK
<1>5. UNCHANGED vars /\ UNCHANGED <<names, own, data, want>>
  BY DEF HashChunk, disk
<1>6. UNCHANGED <<table, pc, hashArg>>
  BY <1>5 DEF vars, locals
<1>7. OwnFiles' /\ NoDuplicate'
  BY <1>1, <1>2, <1>3, <1>4, <1>5 DEF OwnFiles, NoDuplicate, Stage
<1>8. \A u \in Threads : Releasing(u)' = Releasing(u) /\ (Releasing(u)' => req'[u] = req[u])
  BY <1>1, <1>2, <1>3, <1>4 DEF Releasing, Stage
<1>9. Taken' = Taken
  BY <1>6, <1>8 DEF Taken
<1>10. HashInHand'
  BY <1>6, <1>8 DEF HashInHand, Releasing, Stage
<1>11. c \notin used /\ used' = used \cup {c}
  BY DEF HashChunk
<1>12. TakenUsed'
  BY <1>9, <1>11 DEF TakenUsed
<1>13. ASSUME p \in Path
       PROVE  /\ buffer' = [buffer EXCEPT ![p] = Append(kept, c)]
              /\ kept = << >> \/ (kept = buffer[p] /\ buffer[p] # NoBuffer)
              /\ ChunksOf(Append(kept, c)) = ChunksOf(kept) \cup {c}
  <2>1. p # Gone
    BY <1>13, FilesAssumption
  <2>2. kept \in Contents
    BY <1>13, HashesAreContents DEF FilesTypeOK
  <2>3. kept \in Seq(Chunk)
    BY <2>2, ContentsAreSequences
  <2>4. DOMAIN Append(kept, c) = 1..(Len(kept) + 1) /\ DOMAIN kept = 1..Len(kept)
    BY <2>3
  <2>5. \A n \in 1..Len(kept) : Append(kept, c)[n] = kept[n]
    BY <2>3, AppendProperties
  <2>6. Append(kept, c)[Len(kept) + 1] = c
    BY <2>3, AppendProperties
  <2>7. ChunksOf(Append(kept, c)) = ChunksOf(kept) \cup {c}
    <3>1. Len(kept) \in Nat
      BY <2>3
    <3>2. 1..(Len(kept) + 1) = (1..Len(kept)) \cup {Len(kept) + 1}
      BY <3>1
    <3>. HIDE DEF kept
    <3>. QED  BY <2>4, <2>5, <2>6, <3>2 DEF ChunksOf
  <2>8. buffer' = [buffer EXCEPT ![p] = Append(kept, c)]
    BY <2>1 DEF HashChunk
  <2>9. kept = << >> \/ (kept = buffer[p] /\ buffer[p] # NoBuffer)
    OBVIOUS
  <2>. HIDE DEF kept
  <2>. QED  BY <2>7, <2>8, <2>9
<1>14. ChunksOf(<< >>) = {}
  BY DEF ChunksOf
<1>15. ChunksApart'
  <2>1. CASE p \in Path
    <3>. HIDE DEF p, kept
    <3>1. ChunksOf(kept) \subseteq used /\ \A h \in Taken : ChunksOf(kept) \cap ChunksOf(h) = {}
      BY <1>13, <1>14, <2>1 DEF ChunksApart
    <3>2. \A q \in Path \ {p} :
              buffer[q] # NoBuffer => ChunksOf(kept) \cap ChunksOf(buffer[q]) = {}
      BY <1>13, <1>14, <2>1 DEF ChunksApart
    <3>3. \A h \in Taken : c \notin ChunksOf(h)
      BY <1>11 DEF TakenUsed
    <3>4. \A q \in Path : buffer[q] # NoBuffer => c \notin ChunksOf(buffer[q])
      BY <1>11 DEF ChunksApart
    <3>5. \A q \in Path \ {p} : buffer'[q] = buffer[q]
      BY <1>13, <2>1 DEF FilesTypeOK
    <3>6. ChunksOf(buffer'[p]) = ChunksOf(kept) \cup {c}
      BY <1>13, <2>1 DEF FilesTypeOK
    <3>. QED  BY <1>9, <1>11, <3>1, <3>2, <3>3, <3>4, <3>5, <3>6 DEF ChunksApart
  <2>2. CASE p \notin Path
    <3>1. buffer' = buffer
      BY <1>1, <2>2 DEF RequestSound, HashChunk
    <3>. QED  BY <1>9, <1>11, <3>1 DEF ChunksApart
  <2>. QED  BY <2>1, <2>2
<1>. QED  BY <1>7, <1>10, <1>12, <1>15

\* The hash Release takes shares no chunk with a hash taken before, so it
\* differs from all of them.
LEMMA TakeBufferStaysDistinct ==
    ASSUME FilesIInv, DistinctIInv, NEW t \in Threads, TakeBuffer(t)
    PROVE  DistinctIInv'
<1>. USE DEF FilesIInv, DistinctIInv
<1>. DEFINE p == req[t].path
            kept == IF p = Gone \/ buffer[p] = NoBuffer THEN << >> ELSE buffer[p]
            r == [req[t] EXCEPT !.stage = "released", !.to = p, !.hash = kept]
<1>1. req[t] \in Request /\ RequestSound(req[t]) /\ req[t].stage = "open"
  BY RequestAt DEF TakeBuffer
<1>2. /\ req' = [req EXCEPT ![t] = r]
      /\ r.stage = "released" /\ r.dup = req[t].dup /\ r.hash = kept
  BY <1>1 DEF TakeBuffer, FilesTypeOK, Request
<1>. HIDE DEF r
<1>3. \A u \in Threads \ {t} : req'[u] = req[u]
  BY <1>2 DEF FilesTypeOK
<1>4. req'[t] = r
  BY <1>2 DEF FilesTypeOK
<1>5. UNCHANGED vars /\ UNCHANGED <<names, own, data, want, used>>
  BY DEF TakeBuffer, disk, clients
<1>6. UNCHANGED <<table, pc, hashArg>>
  BY <1>5 DEF vars, locals
<1>7. OwnFiles' /\ NoDuplicate'
  BY <1>2, <1>3, <1>4, <1>5 DEF OwnFiles, NoDuplicate, Stage
<1>8. /\ Releasing(t)' /\ Stage(t)' = "released" /\ ~Releasing(t)
      /\ \A u \in Threads \ {t} : Stage(u)' = Stage(u) /\ Releasing(u)' = Releasing(u)
  BY <1>1, <1>2, <1>3, <1>4 DEF Releasing, Stage
<1>9. Taken' \subseteq Taken \cup {kept}
  <2>. HIDE DEF kept
  <2>. QED  BY <1>2, <1>3, <1>4, <1>6, <1>8 DEF Taken
<1>10. kept = << >> \/ (p \in Path /\ kept = buffer[p] /\ buffer[p] # NoBuffer /\ buffer'[p] = NoBuffer)
  BY <1>1 DEF RequestSound, TakeBuffer, FilesTypeOK
<1>11. \A q \in Path : q # p => buffer'[q] = buffer[q]
  BY DEF TakeBuffer, FilesTypeOK
<1>12. kept \in AllHash /\ (kept # << >> => ChunksOf(kept) # {})
  <2>1. kept \in Contents
    BY <1>1, HashesAreContents DEF RequestSound, FilesTypeOK
  <2>2. DOMAIN kept = 1..Len(kept) /\ Len(kept) \in Nat /\ kept \in Seq(Chunk)
    BY <2>1, ContentsAreSequences
  <2>3. kept # << >> => Len(kept) # 0
    <3>. HIDE DEF kept
    <3>. QED  BY <2>2, EmptySeq
  <2>4. kept # << >> => 1 \in DOMAIN kept
    <3>. HIDE DEF kept
    <3>. QED  BY <2>2, <2>3
  <2>. QED  BY <2>1, <2>4, HashesAreContents DEF ChunksOf
<1>13. ChunksOf(<< >>) = {}
  BY DEF ChunksOf
<1>14. ChunksOf(kept) \subseteq used /\ \A h \in Taken : ChunksOf(kept) \cap ChunksOf(h) = {}
  <2>. HIDE DEF p, kept
  <2>. QED  BY <1>10, <1>13 DEF ChunksApart
<1>15. kept # << >> => kept \in Hash \ Taken
  <2>. HIDE DEF kept
  <2>. QED  BY <1>12, <1>14, FilesAssumption DEF AllHash
<1>16. HashInHand'
  <2>. HIDE DEF kept, p
  <2>1. \A u \in Threads : Releasing(u) => req[u].hash # kept \/ kept = << >>
    BY <1>15 DEF Taken
  <2>2. kept # << >> => table[kept] = NoEntry
    BY <1>15 DEF Taken
  <2>3. NoHash = << >>
    BY FilesAssumption
  <2>. QED  BY <1>2, <1>3, <1>4, <1>6, <1>8, <2>1, <2>2, <2>3 DEF HashInHand, Releasing
<1>17. TakenUsed'
  <2>. HIDE DEF kept
  <2>. QED  BY <1>5, <1>9, <1>14 DEF TakenUsed
<1>18. ChunksApart'
  <2>. HIDE DEF kept, p
  <2>1. \A q \in Path : buffer'[q] # NoBuffer =>
            /\ buffer'[q] = buffer[q] /\ ChunksOf(kept) \cap ChunksOf(buffer[q]) = {}
    <3>1. \A q \in Path : buffer'[q] # NoBuffer => buffer'[q] = buffer[q]
      BY <1>1 DEF TakeBuffer, FilesTypeOK, p
    <3>. QED  BY <1>10, <1>11, <1>13, <3>1 DEF ChunksApart
  <2>. QED  BY <1>5, <1>9, <2>1 DEF ChunksApart
<1>. QED  BY <1>7, <1>16, <1>17, <1>18

\* The store is asked about the hash in hand.
LEMMA LookupOldStaysDistinct ==
    ASSUME FilesIInv, DistinctIInv, NEW t \in Threads, LookupOldMetadata(t)
    PROVE  DistinctIInv'
<1>. USE DEF FilesIInv, DistinctIInv
<1>. DEFINE old == MetadataOf(req[t].info)
            r == [req[t] EXCEPT !.stage = "storing", !.old = old]
<1>1. req[t] \in Request /\ req[t].stage = "released"
  BY RequestAt DEF LookupOldMetadata
<1>2. /\ req' = [req EXCEPT ![t] = r]
      /\ r.stage = "storing" /\ r.dup = req[t].dup /\ r.hash = req[t].hash
  <2>1. req' = [req EXCEPT ![t] = r]
    BY DEF LookupOldMetadata, FilesTypeOK
  <2>. HIDE DEF old
  <2>. QED  BY <1>1, <2>1 DEF Request
<1>. HIDE DEF r
<1>3. \A u \in Threads \ {t} : req'[u] = req[u]
  BY <1>2 DEF FilesTypeOK
<1>4. req'[t] = r
  BY <1>2 DEF FilesTypeOK
<1>5. UNCHANGED <<names, own, data, want, used, buffer, table>>
  BY DEF LookupOldMetadata, disk, clients, BeginStore
<1>6. /\ hashArg'[t] = req[t].hash
      /\ \A u \in Threads \ {t} : hashArg'[u] = hashArg[u] /\ pc'[u] = pc[u]
  BY DEF LookupOldMetadata, BeginStore, Step, IInv, TypeOK
<1>7. OwnFiles' /\ NoDuplicate'
  BY <1>2, <1>3, <1>4, <1>5 DEF OwnFiles, NoDuplicate, Stage
<1>8. \A u \in Threads : Releasing(u)' = Releasing(u) /\ req'[u].hash = req[u].hash
  BY <1>1, <1>2, <1>3, <1>4 DEF Releasing, Stage
<1>9. Taken' = Taken
  BY <1>5, <1>8 DEF Taken
<1>10. HashInHand'
  BY <1>1, <1>2, <1>3, <1>4, <1>5, <1>6, <1>8 DEF HashInHand, Releasing, Stage
<1>11. ChunksApart' /\ TakenUsed'
  BY <1>5, <1>9 DEF ChunksApart, TakenUsed
<1>. QED  BY <1>7, <1>10, <1>11

\* IsContentHashUnique finds the hash new.
LEMMA ReleaseTestStaysDistinct ==
    ASSUME FilesIInv, DistinctIInv, NEW t \in Threads, ReleaseTest(t)
    PROVE  DistinctIInv'
<1>. USE DEF FilesIInv, DistinctIInv
<1>1. req[t] \in Request /\ Stage(t) = "storing" /\ pc[t] = "unique"
  BY RequestAt DEF ReleaseTest, At, IsContentHashUnique, Step
<1>2. Unique(hashArg[t])
  BY <1>1 DEF HashInHand, Unique
<1>3. req' = [req EXCEPT ![t].dup = FALSE]
  BY <1>2 DEF ReleaseTest
<1>4. \A u \in Threads : /\ req'[u].stage = req[u].stage /\ req'[u].hash = req[u].hash
                         /\ req'[u].inode = req[u].inode /\ req'[u].file = req[u].file
                         /\ req'[u].dup = FALSE
  BY <1>3 DEF FilesTypeOK, Request, NoDuplicate
<1>5. UNCHANGED <<names, own, data, want, used, buffer, table, hashArg>>
  BY DEF ReleaseTest, disk, clients, IsContentHashUnique, locals
<1>6. \A u \in Threads : pc'[u] = "unique" => pc[u] = "unique"
  BY DEF ReleaseTest, IsContentHashUnique, Step, IInv, TypeOK
<1>7. OwnFiles' /\ NoDuplicate'
  BY <1>4, <1>5 DEF OwnFiles, NoDuplicate, Stage
<1>8. ReleasesKept /\ TableShrinks /\ BuffersShrink
  BY <1>4, <1>5, <1>6 DEF ReleasesKept, TableShrinks, BuffersShrink, Releasing, Stage
<1>. QED  BY <1>5, <1>7, <1>8, HashesKept

\* Only the hash in hand enters the table.
LEMMA ReleaseCreateStaysDistinct ==
    ASSUME FilesIInv, DistinctIInv, NEW t \in Threads, ReleaseCreateEntry(t)
    PROVE  DistinctIInv'
<1>. USE DEF FilesIInv, DistinctIInv
<1>1. Stage(t) = "storing" /\ hashArg[t] = req[t].hash /\ pc[t] \in {"check", "create"}
  BY DEF ReleaseCreateEntry, At, CheckMapEntry, CreateMapEntry, Step, HashInHand
<1>2. UNCHANGED <<names, own, data, want, used, buffer, req, hashArg>>
  BY DEF ReleaseCreateEntry, disk, clients, CheckMapEntry, CreateMapEntry, locals
<1>3. \A u \in Threads : pc'[u] = "unique" => pc[u] = "unique" /\ u # t
  BY <1>1 DEF ReleaseCreateEntry, CheckMapEntry, CreateMapEntry, Step, IInv, TypeOK
<1>4. \A h \in AllHash : h # hashArg[t] => table'[h] = table[h]
  BY DEF ReleaseCreateEntry, CheckMapEntry, CreateMapEntry, IInv, TypeOK
<1>5. \A u \in Threads : Stage(u)' = Stage(u) /\ Releasing(u)' = Releasing(u)
  BY <1>2 DEF Stage, Releasing
<1>6. Taken' \subseteq Taken
  BY <1>1, <1>2, <1>4, <1>5 DEF Taken, Releasing, AllHash
<1>7. \A u \in Threads : req[u].hash \in AllHash
  BY DEF FilesTypeOK, Request
<1>8. ASSUME NEW u \in Threads, u # t, Releasing(u), req[u].hash # NoHash
      PROVE  table'[req[u].hash] = table[req[u].hash]
  <2>1. req[u].hash # req[t].hash
    BY <1>1, <1>8 DEF HashInHand, Releasing
  <2>. QED  BY <1>1, <1>4, <1>7, <2>1
<1>9. HashInHand'
  <2>. SUFFICES ASSUME NEW u \in Threads
                PROVE  /\ Stage(u)' = "storing" => hashArg'[u] = req'[u].hash
                       /\ Stage(u)' = "released" \/ (Stage(u)' = "storing" /\ pc'[u] = "unique") =>
                             req'[u].hash = NoHash \/ table'[req'[u].hash] = NoEntry
                       /\ \A v \in Threads \ {u} :
                             Releasing(u)' /\ Releasing(v)' /\ req'[u].hash = req'[v].hash =>
                                req'[u].hash = NoHash
    BY DEF HashInHand
  <2>1. /\ Stage(u)' = "storing" => hashArg'[u] = req'[u].hash
        /\ \A v \in Threads \ {u} :
              Releasing(u)' /\ Releasing(v)' /\ req'[u].hash = req'[v].hash =>
                 req'[u].hash = NoHash
    BY <1>2, <1>5 DEF HashInHand
  <2>2. ASSUME Stage(u)' = "released" \/ (Stage(u)' = "storing" /\ pc'[u] = "unique")
        PROVE  req'[u].hash = NoHash \/ table'[req'[u].hash] = NoEntry
    <3>1. u # t /\ Releasing(u)
      BY <1>1, <1>3, <1>5, <2>2 DEF Releasing
    <3>2. req[u].hash = NoHash \/ table[req[u].hash] = NoEntry
      BY <1>3, <1>5, <2>2 DEF HashInHand
    <3>. QED  BY <1>2, <1>8, <3>1, <3>2
  <2>. QED  BY <2>1, <2>2
<1>10. OwnFiles' /\ NoDuplicate'
  BY <1>2 DEF OwnFiles, NoDuplicate, Stage
<1>11. ChunksApart' /\ TakenUsed'
  BY <1>2, <1>6 DEF ChunksApart, TakenUsed
<1>. QED  BY <1>9, <1>10, <1>11

LEMMA ReleaseRecentStaysDistinct ==
    ASSUME FilesIInv, DistinctIInv, NEW t \in Threads, ReleaseRecent(t)
    PROVE  DistinctIInv'
<1>. USE DEF FilesIInv, DistinctIInv
<1>1. PICK rec : req' = [req EXCEPT ![t].rec = rec]
  BY DEF ReleaseRecent
<1>2. \A u \in Threads : /\ req'[u].stage = req[u].stage /\ req'[u].hash = req[u].hash
                         /\ req'[u].inode = req[u].inode /\ req'[u].file = req[u].file
                         /\ req'[u].dup = req[u].dup
  BY <1>1 DEF FilesTypeOK, Request
<1>3. UNCHANGED <<names, own, data, want, used, buffer, table, hashArg>>
  BY DEF ReleaseRecent, disk, clients, RetrieveRecent, locals
<1>4. \A u \in Threads : pc'[u] = "unique" => pc[u] = "unique"
  BY DEF ReleaseRecent, RetrieveRecent, Step, IInv, TypeOK
<1>5. OwnFiles' /\ NoDuplicate'
  BY <1>2, <1>3 DEF OwnFiles, NoDuplicate, Stage
<1>6. ReleasesKept /\ TableShrinks /\ BuffersShrink
  BY <1>2, <1>3, <1>4 DEF ReleasesKept, TableShrinks, BuffersShrink, Releasing, Stage
<1>. QED  BY <1>3, <1>5, <1>6, HashesKept

LEMMA ReleaseLookupStaysDistinct ==
    ASSUME FilesIInv, DistinctIInv, NEW t \in Threads, ReleaseLookupEntry(t)
    PROVE  DistinctIInv'
<1>. USE DEF FilesIInv, DistinctIInv
<1>1. names' = own' /\ data' = want' /\ used' = used /\ BuffersShrink
  BY DEF ReleaseLookupEntry, disk, clients, OwnFiles, BuffersShrink
<1>2. LookupMapEntry(t)
  BY DEF ReleaseLookupEntry
<1>3. /\ TableShrinks
      /\ \A u \in Threads \ {t} : hashArg'[u] = hashArg[u] /\ pc'[u] = pc[u]
  BY <1>2, OthersKept DEF IInv
<1>4. CASE Return(t)
  BY <1>1, <1>3, <1>4, RequestReturns
<1>5. CASE UNCHANGED req
  <2>1. hashArg' = hashArg /\ \A u \in Threads : pc'[u] = "unique" => pc[u] = "unique"
    BY <1>2 DEF LookupMapEntry, Step, IInv, TypeOK
  <2>2. ReleasesKept
    BY <1>5, <2>1 DEF ReleasesKept, Releasing, Stage
  <2>3. OwnFiles' /\ NoDuplicate'
    BY <1>1, <1>5 DEF OwnFiles, NoDuplicate, Stage
  <2>. QED  BY <1>1, <1>3, <2>2, <2>3, HashesKept
<1>. QED  BY <1>4, <1>5 DEF ReleaseLookupEntry

LEMMA ReleaseNewStaysDistinct ==
    ASSUME FilesIInv, DistinctIInv, NEW t \in Threads, ReleaseNewMetadata(t)
    PROVE  DistinctIInv'
<1>. USE DEF FilesIInv, DistinctIInv
<1>. DEFINE new == [entry |-> entryPtr[t], ref |-> index[entryPtr[t]] + 1]
            r == [req[t] EXCEPT !.stage = "info", !.new = new]
<1>1. req' = [req EXCEPT ![t] = r]
  BY DEF ReleaseNewMetadata, FilesTypeOK
<1>2. r.stage = "info" /\ r.dup = FALSE
  <2>1. req[t] \in Request /\ req[t].dup = FALSE
    BY DEF FilesTypeOK, NoDuplicate
  <2>. HIDE DEF new
  <2>. QED  BY <2>1 DEF Request
<1>3. names' = own' /\ data' = want' /\ used' = used /\ BuffersShrink
  BY DEF ReleaseNewMetadata, disk, clients, OwnFiles, BuffersShrink
<1>4. /\ TableShrinks
      /\ \A u \in Threads \ {t} : hashArg'[u] = hashArg[u] /\ pc'[u] = pc[u]
  BY OthersKept DEF ReleaseNewMetadata, IInv
<1>. HIDE DEF r
<1>. QED  BY <1>1, <1>2, <1>3, <1>4, RequestMovesOn

\* A content that is new is neither linked nor given up.
LEMMA ReleaseEndsDistinct ==
    ASSUME FilesIInv, DistinctIInv, NEW t \in Threads,
           UpdateInfo(t) \/ FillMetadata(t) \/ Drop(t)
    PROVE  DistinctIInv'
<1>1. names' = own' /\ data' = want' /\ used' = used /\ BuffersShrink
  BY DEF UpdateInfo, FillMetadata, Drop, disk, clients, DistinctIInv, OwnFiles, BuffersShrink
<1>2. \/ UNCHANGED vars
      \/ BeginRemove(t, req[t].hash, req[t].new.ref)
      \/ RemoveStep(t)
  BY DEF UpdateInfo, FillMetadata, Drop, DropNew
<1>3. /\ TableShrinks
      /\ \A u \in Threads \ {t} : hashArg'[u] = hashArg[u] /\ pc'[u] = pc[u]
  BY <1>2, OthersKept DEF FilesIInv, IInv
<1>4. req[t].dup = FALSE
  BY DEF DistinctIInv, NoDuplicate
<1>5. Goto(t, "fill") \/ Goto(t, "dropping") \/ Return(t) \/ UNCHANGED req
  BY <1>4 DEF UpdateInfo, FillMetadata, Drop, DropNew
<1>6. CASE Goto(t, "fill") \/ Goto(t, "dropping")
  BY <1>1, <1>3, <1>6, RequestGoesTo
<1>7. CASE Return(t)
  BY <1>1, <1>3, <1>7, RequestReturns
<1>8. CASE UNCHANGED req
  <2>1. Stage(t) \notin {"released", "storing"}
    BY DEF UpdateInfo, FillMetadata, Drop, At
  <2>2. ReleasesKept
    BY <1>3, <1>8, <2>1 DEF ReleasesKept, Releasing, Stage
  <2>3. OwnFiles' /\ NoDuplicate'
    BY <1>1, <1>8 DEF DistinctIInv, OwnFiles, NoDuplicate, Stage
  <2>. QED  BY <1>1, <1>3, <2>2, <2>3, HashesKept DEF DistinctIInv
<1>. QED  BY <1>5, <1>6, <1>7, <1>8

LEMMA NothingIsLinked ==
    ASSUME DistinctIInv, NEW t \in Threads
    PROVE  ~LinkOriginal(t) /\ ~LinkFails(t) /\ ~SwapInDuplicate(t)
BY DEF DistinctIInv, NoDuplicate, LinkOriginal, LinkFails, SwapInDuplicate, At

-----------------------------------------------------------------------------
(* The theorem.                                                             *)

LEMMA InitIsDistinct == FilesInit => DistinctIInv
<1>. SUFFICES ASSUME FilesInit PROVE DistinctIInv
  OBVIOUS
<1>1. OwnFiles
  BY DEF FilesInit, OwnFiles, Stage, Blank
<1>2. NoDuplicate /\ HashInHand
  BY DEF FilesInit, NoDuplicate, HashInHand, Releasing, Stage, Blank
<1>3. Taken = {}
  BY DEF FilesInit, Init, Taken, Releasing, Stage, Blank, AllHash
<1>4. ChunksApart /\ TakenUsed
  BY <1>3 DEF FilesInit, ChunksApart, TakenUsed
<1>. QED  BY <1>1, <1>2, <1>4 DEF DistinctIInv

LEMMA NextStaysDistinct ==
    ASSUME "duplicate" \notin Workload
    PROVE  FilesIInv /\ DistinctIInv /\ [FilesNext]_filesVars => DistinctIInv'
<1>. SUFFICES ASSUME FilesIInv, DistinctIInv, [FilesNext]_filesVars PROVE DistinctIInv'
  OBVIOUS
<1>1. ASSUME NEW t \in Threads, ClientStep(t) PROVE DistinctIInv'
  <2>1. ASSUME NEW p \in Path, NEW q \in Path,
               LookupBegin(t, p) \/ UnlinkBegin(t, p) \/ LinkBegin(t, p, q) \/ RenameBegin(t, p, q)
        PROVE  DistinctIInv'
    BY <2>1, BeginningsStayDistinct
  <2>. QED  BY <1>1, <2>1, CreateStaysDistinct, OpenStaysDistinct, HashChunkStaysDistinct,
                PwriteChunkStaysDistinct DEF ClientStep
<1>2. ASSUME NEW t \in Threads, ReleaseStep(t) PROVE DistinctIInv'
  BY <1>2, TakeBufferStaysDistinct, LookupOldStaysDistinct, ReleaseTestStaysDistinct,
     ReleaseCreateStaysDistinct, ReleaseLookupStaysDistinct, ReleaseRecentStaysDistinct,
     ReleaseNewStaysDistinct, ReleaseEndsDistinct, NothingIsLinked DEF ReleaseStep
<1>3. ASSUME NEW t \in Threads, NamespaceStep(t) PROVE DistinctIInv'
  <2>1. CASE CreateStoresInfo(t)
    <3>1. Goto(t, "open") \/ UNCHANGED req
      BY <2>1 DEF CreateStoresInfo
    <3>. QED  BY <2>1, <3>1, NamesStayDistinct, ReturnsStayDistinct
  <2>. QED  BY <1>3, <2>1, NamesStayDistinct, LookupReadsStaysDistinct, ReturnsStayDistinct,
                MovesStayDistinct DEF NamespaceStep
<1>4. ASSUME UNCHANGED filesVars PROVE DistinctIInv'
  <2>1. UNCHANGED <<names, own, data, want, used, buffer, req, table, pc, hashArg>>
    BY <1>4 DEF filesVars, disk, clients, vars, locals
  <2>2. OwnFiles' /\ NoDuplicate'
    BY <2>1 DEF DistinctIInv, OwnFiles, NoDuplicate, Stage
  <2>3. ReleasesKept /\ TableShrinks /\ BuffersShrink
    BY <2>1 DEF ReleasesKept, TableShrinks, BuffersShrink, Releasing, Stage
  <2>. QED  BY <2>1, <2>2, <2>3, HashesKept DEF DistinctIInv
<1>. QED  BY <1>1, <1>2, <1>3, <1>4 DEF FilesNext

\* Clients that never write the same content twice never see deduplication:
\* whatever requests run at the same time, each path is the inode its client
\* created there, with what its clients wrote.
THEOREM DistinctFilesUndisturbed ==
    ASSUME "duplicate" \notin Workload
    PROVE  FilesSpec => []Undisturbed
<1>1. FilesInit => DistinctIInv
  BY InitIsDistinct
<1>2. FilesIInv /\ DistinctIInv /\ [FilesNext]_filesVars => DistinctIInv'
  BY NextStaysDistinct
<1>3. FilesIInv /\ DistinctIInv => Undisturbed
  BY DEF DistinctIInv, OwnFiles, Undisturbed, FilesIInv, FilesTypeOK
<1>. QED  BY <1>1, <1>2, <1>3, FilesInductiveInvariant, PTL DEF FilesSpec

-----------------------------------------------------------------------------
(* The abstract store: every step of every request, however they            *)
(* interleave, is one step of FileStore or leaves alone what clients can    *)
(* read.                                                                    *)

FileStoreStep == [Store!Next]_<<own, Shown>>

\* What a path shows, of the client's own files.
ShownFile(p) == IF own[p] # NoFile THEN want[own[p]] ELSE NoBuffer

LEMMA ShownIsOwn == ASSUME OwnFiles PROVE Shown = [p \in Path |-> ShownFile(p)]
BY DEF OwnFiles, Shown, ShownFile, Exists

LEMMA ShownIsOwnNext ==
    ASSUME OwnFiles' PROVE Shown' = [p \in Path |-> ShownFile(p)']
BY DEF OwnFiles, Shown, ShownFile, Exists

\* The two ways to put a chunk at an offset are the same.
LEMMA PatchedOverwrites ==
    ASSUME NEW s \in Contents, NEW off \in 0..Len(s), NEW c \in Chunk
    PROVE  Patched(s, off, c) = Store!Overwritten(s, off, c)
<1>1. PICK n \in 0..MaxWrites : s \in [1..n -> Chunk]
  BY DEF Contents
<1>2. n \in Nat /\ DOMAIN s = 1..n /\ Len(s) = n
  BY <1>1, FilesAssumption
<1>3. DOMAIN s \cup {off + 1} = 1..(IF off = Len(s) THEN off + 1 ELSE Len(s))
  BY <1>2
<1>. QED  BY <1>3 DEF Patched, Store!Overwritten

\* Steps after which the client's files and what was written to them are the same.
LEMMA NothingShows ==
    ASSUME OwnFiles, OwnFiles', own' = own,
           \A p \in Path : own[p] # NoFile => want'[own[p]] = want[own[p]]
    PROVE  FileStoreStep
<1>1. \A p \in Path : ShownFile(p)' = ShownFile(p)
  BY DEF ShownFile
<1>2. Shown' = Shown
  BY <1>1, ShownIsOwn, ShownIsOwnNext, Zenon
<1>. QED  BY <1>2 DEF FileStoreStep

-----------------------------------------------------------------------------
(* One step each.                                                           *)

LEMMA CreateShows ==
    ASSUME FilesIInv, OwnFiles, OwnFiles', NEW t \in Threads, NEW p \in Path, Create(t, p)
    PROVE  FileStoreStep
<1>1. PICK i \in FreshInodes : own' = [own EXCEPT ![p] = i]
  BY DEF Create
<1>2. i \in Inode /\ want[i] = << >> /\ \A q \in Path : own[q] # i
  BY <1>1 DEF FreshInodes
<1>3. want' = want /\ own[p] = NoFile
  BY DEF Create, OwnFiles
<1>4. Shown' = [Shown EXCEPT ![p] = << >>]
  BY <1>1, <1>2, <1>3, ShownIsOwn, ShownIsOwnNext, FilesAssumption DEF ShownFile, FilesIInv, FilesTypeOK
<1>5. Store!Create(p, i)
  BY <1>1, <1>2, <1>3, <1>4 DEF Store!Create, Store!InUse
<1>. QED  BY <1>2, <1>5 DEF FileStoreStep, Store!Next

\* O_TRUNC empties the file, under all its names.
LEMMA OpenShows ==
    ASSUME FilesIInv, OwnFiles, OwnFiles', NEW t \in Threads, NEW p \in Path,
           NEW trunc \in BOOLEAN, Open(t, p, trunc)
    PROVE  FileStoreStep
<1>1. CASE ~trunc
  BY <1>1, NothingShows DEF Open
<1>2. CASE trunc
  <2>1. own' = own /\ want' = [want EXCEPT ![own[p]] = << >>] /\ own[p] # NoFile
    BY <1>2 DEF Open
  <2>2. own[p] \in Inode
    BY <2>1 DEF FilesIInv, FilesTypeOK
  <2>3. \A q \in Path : ShownFile(q)' = IF own[q] = own[p] THEN << >> ELSE ShownFile(q)
    BY <2>1, <2>2 DEF ShownFile, FilesIInv, FilesTypeOK
  <2>4. Shown' = [q \in Path |-> IF own[q] = own[p] THEN << >> ELSE Shown[q]]
    BY <2>3, ShownIsOwn, ShownIsOwnNext
  <2>5. Store!Truncate(p)
    BY <2>1, <2>4 DEF Store!Truncate, Store!InUse, Store!Put
  <2>. QED  BY <2>5 DEF FileStoreStep, Store!Next
<1>. QED  BY <1>1, <1>2

\* A chunk shows under all names of the file, or nowhere when it has none.
LEMMA PwriteChunkShows ==
    ASSUME FilesIInv, DistinctIInv, OwnFiles', NEW t \in Threads, NEW off \in 0..MaxWrites,
           PwriteChunk(t, off)
    PROVE  FileStoreStep
<1>. DEFINE f == req[t].file  c == req[t].chunk
<1>1. /\ Stage(t) = "pwrite" /\ req[t].inode = f
      /\ own' = own /\ want' = [want EXCEPT ![f] = Patched(@, off, c)]
  BY DEF PwriteChunk, At, DistinctIInv, OwnFiles
<1>2. f \in Inode /\ c \in Chunk /\ data = want /\ off <= Len(data[f])
  <2>1. RequestSound(req[t])
    BY DEF FilesIInv, StageSound
  <2>. QED  BY <1>1, <2>1 DEF RequestSound, Stage, PwriteChunk, DistinctIInv, OwnFiles
<1>3. want[f] \in Contents /\ off \in 0..Len(want[f])
  <2>1. want[f] \in Contents
    BY <1>2 DEF FilesIInv, FilesTypeOK
  <2>2. Len(want[f]) \in Nat
    BY <2>1, FilesAssumption DEF Contents
  <2>. QED  BY <1>2, <2>1, <2>2, FilesAssumption
<1>4. want'[f] = Store!Overwritten(want[f], off, c)
  BY <1>1, <1>2, <1>3, PatchedOverwrites DEF FilesIInv, FilesTypeOK
<1>5. \A g \in Inode \ {f} : want'[g] = want[g]
  BY <1>1 DEF FilesIInv, FilesTypeOK
<1>6. CASE \A p \in Path : own[p] # f
  <2>1. \A p \in Path : own[p] # NoFile => own[p] \in Inode \ {f}
    BY <1>6 DEF FilesIInv, FilesTypeOK
  <2>. QED  BY <1>1, <1>5, <2>1, NothingShows DEF DistinctIInv
<1>7. ASSUME NEW p \in Path, own[p] = f PROVE FileStoreStep
  <2>1. own[p] # NoFile /\ Shown[p] = want[f]
    BY <1>2, <1>7, ShownIsOwn, FilesAssumption DEF ShownFile, DistinctIInv
  <2>2. \A q \in Path : ShownFile(q)' = IF own[q] = own[p] THEN want'[f] ELSE ShownFile(q)
    BY <1>1, <1>5, <1>7, <2>1 DEF ShownFile, FilesIInv, FilesTypeOK
  <2>3. Shown' = [q \in Path |-> IF own[q] = own[p] THEN want'[f] ELSE Shown[q]]
    BY <2>2, ShownIsOwn, ShownIsOwnNext DEF DistinctIInv
  <2>4. Store!Write(p, off, c)
    BY <1>1, <1>4, <2>1, <2>3 DEF Store!Write, Store!Put
  <2>. QED  BY <1>2, <1>3, <2>1, <2>4 DEF FileStoreStep, Store!Next, Store!InUse
<1>. QED  BY <1>6, <1>7

\* A link that is undone is removed.
LEMMA LinkShows ==
    ASSUME FilesIInv, OwnFiles, OwnFiles', NEW t \in Threads, NEW p \in Path, NEW q \in Path,
           LinkBegin(t, p, q)
    PROVE  FileStoreStep
<1>1. own' = [own EXCEPT ![q] = own[p]] /\ want' = want /\ own[p] # NoFile /\ own[q] = NoFile
  BY DEF LinkBegin, OwnFiles, Exists
<1>2. Shown' = [Shown EXCEPT ![q] = Shown[p]]
  BY <1>1, ShownIsOwn, ShownIsOwnNext DEF ShownFile, FilesIInv, FilesTypeOK
<1>3. Store!Link(p, q)
  BY <1>1, <1>2 DEF Store!Link, Store!InUse
<1>. QED  BY <1>3 DEF FileStoreStep, Store!Next

LEMMA RemovalShows ==
    ASSUME FilesIInv, OwnFiles, OwnFiles', NEW p \in Path,
           own' = [own EXCEPT ![p] = NoFile], want' = want
    PROVE  FileStoreStep
<1>1. CASE own[p] = NoFile
  <2>1. own' = own
    BY <1>1 DEF FilesIInv, FilesTypeOK
  <2>. QED  BY <2>1, NothingShows
<1>2. CASE own[p] # NoFile
  <2>1. Shown' = [Shown EXCEPT ![p] = NoBuffer]
    BY ShownIsOwn, ShownIsOwnNext DEF ShownFile, FilesIInv, FilesTypeOK
  <2>2. Store!Unlink(p)
    BY <1>2, <2>1 DEF Store!Unlink, Store!InUse
  <2>. QED  BY <2>2 DEF FileStoreStep, Store!Next
<1>. QED  BY <1>1, <1>2

LEMMA RenameShows ==
    ASSUME FilesIInv, OwnFiles, OwnFiles', NEW t \in Threads, RenameFile(t)
    PROVE  FileStoreStep
<1>. DEFINE p == req[t].path  q == req[t].to
<1>1. p \in Path /\ q \in Path
  BY RequestAt DEF RenameFile, RequestSound
<1>2. want' = want
  BY DEF RenameFile
<1>3. CASE own[p] = own[q]
  <2>1. own' = own
    BY <1>3 DEF RenameFile
  <2>. QED  BY <1>2, <2>1, NothingShows
<1>4. CASE own[p] # own[q] /\ own[p] = NoFile
  <2>1. own' = [own EXCEPT ![q] = NoFile]
    BY <1>1, <1>4 DEF RenameFile, FilesIInv, FilesTypeOK
  <2>. QED  BY <1>1, <1>2, <2>1, RemovalShows
<1>5. CASE own[p] # own[q] /\ own[p] # NoFile
  <2>1. own' = [own EXCEPT ![q] = own[p], ![p] = NoFile]
    BY <1>5 DEF RenameFile
  <2>2. Shown' = [Shown EXCEPT ![q] = Shown[p], ![p] = NoBuffer]
    BY <1>1, <1>2, <1>5, <2>1, ShownIsOwn, ShownIsOwnNext DEF ShownFile, FilesIInv, FilesTypeOK
  <2>3. Store!Rename(p, q)
    BY <1>5, <2>1, <2>2 DEF Store!Rename, Store!InUse
  <2>. QED  BY <1>1, <2>3 DEF FileStoreStep, Store!Next
<1>. QED  BY <1>3, <1>4, <1>5

-----------------------------------------------------------------------------
(* The theorem.                                                             *)

LEMMA NextShows ==
    ASSUME FilesIInv, DistinctIInv, DistinctIInv', [FilesNext]_filesVars
    PROVE  FileStoreStep
<1>. USE DEF DistinctIInv
<1>1. CASE UNCHANGED clients
  BY <1>1, NothingShows DEF clients
<1>2. ASSUME NEW t \in Threads, ClientStep(t) PROVE FileStoreStep
  <2>1. ASSUME NEW p \in Path, LookupBegin(t, p) \/ UnlinkBegin(t, p) PROVE UNCHANGED clients
    BY <2>1 DEF LookupBegin, UnlinkBegin
  <2>2. ASSUME NEW p \in Path, NEW q \in Path, RenameBegin(t, p, q) PROVE UNCHANGED clients
    BY <2>2 DEF RenameBegin
  <2>3. ASSUME NEW c \in Chunk, HashChunk(t, c) PROVE FileStoreStep
    BY <2>3, NothingShows DEF HashChunk
  <2>. QED  BY <1>1, <1>2, <2>1, <2>2, <2>3, CreateShows, OpenShows, PwriteChunkShows, LinkShows
         DEF ClientStep
<1>3. ASSUME NEW t \in Threads, ReleaseStep(t) PROVE UNCHANGED clients
  BY <1>3 DEF ReleaseStep, TakeBuffer, LookupOldMetadata, ReleaseTest, ReleaseCreateEntry,
     ReleaseLookupEntry, ReleaseRecent, ReleaseNewMetadata, UpdateInfo, LinkOriginal, LinkFails,
     SwapInDuplicate, FillMetadata, Drop
<1>4. ASSUME NEW t \in Threads, NamespaceStep(t) PROVE FileStoreStep
  <2>1. CASE CreateStoresInfo(t) \/ LookupReadsInfo(t) \/ LookupStoresInfo(t) \/ LookupFills(t)
             \/ RenameRemovesInfo(t) \/ RenameStoresInfo(t) \/ UnlinkRemoves(t) \/ UnlinkForgets(t)
    BY <1>1, <2>1 DEF CreateStoresInfo, LookupReadsInfo, LookupStoresInfo, LookupFills, RenameRemovesInfo, RenameStoresInfo,
       UnlinkRemoves, UnlinkForgets
  <2>2. CASE LinkStoresInfo(t)
    <3>1. req[t].to \in Path /\ want' = want
      BY <2>2, RequestAt DEF LinkStoresInfo, RequestSound
    <3>. QED  BY <2>2, <3>1, RemovalShows, NothingShows DEF LinkStoresInfo
  <2>3. CASE UnlinkFile(t)
    <3>1. req[t].path \in Path /\ want' = want
      BY <2>3, RequestAt DEF UnlinkFile, RequestSound
    <3>. QED  BY <2>3, <3>1, RemovalShows DEF UnlinkFile
  <2>. QED  BY <1>4, <2>1, <2>2, <2>3, RenameShows DEF NamespaceStep
<1>5. CASE UNCHANGED filesVars
  BY <1>1, <1>5 DEF filesVars
<1>. QED  BY <1>1, <1>2, <1>3, <1>4, <1>5 DEF FilesNext

LEMMA InitShows == FilesInit => Store!Init
BY DEF FilesInit, Store!Init, Shown, Exists

\* Clients that never write one content twice have a plain file store: with
\* any number of requests, in any order of their steps, each request takes
\* effect at one moment, and all the names of a file show the same.
THEOREM DistinctFilesImplementStore ==
    ASSUME "duplicate" \notin Workload
    PROVE  FilesSpec => ImplementsFileStore
<1>1. FilesInit => DistinctIInv /\ Store!Init
  BY InitIsDistinct, InitShows
<1>2. FilesIInv /\ DistinctIInv /\ [FilesNext]_filesVars => DistinctIInv'
  BY NextStaysDistinct
<1>3. FilesIInv /\ DistinctIInv /\ DistinctIInv' /\ [FilesNext]_filesVars => FileStoreStep
  BY NextShows
<1>. QED  BY <1>1, <1>2, <1>3, FilesInductiveInvariant, PTL
         DEF FilesSpec, ImplementsFileStore, Store!Spec, FileStoreStep
=============================================================================
