-------------------------- MODULE PersistenceProofs --------------------------
(***************************************************************************)
(* Proofs about Persistence, for any number of restarts, saves and clients. *)
(* Under any workload an unmounted file system comes back as it was, and    *)
(* the store keeps its promises, restart after restart, on every content    *)
(* hash that no crash has damaged and requests take turns on.  For clients  *)
(* that write each file once, the same is shown of the files: what they     *)
(* show, what their node infos lead to and how many share an inode.  The    *)
(* inductive invariant is RestartsIInv, which relates memory, the two saved *)
(* maps and what requests have in hand.                                     *)
(***************************************************************************)
EXTENDS Persistence, CalmFilesProofs

-----------------------------------------------------------------------------
(* A request in a call of the store works on the hash it remembers.         *)

\* One request moves, inside the store or outside.
LEMMA RememberedUpdate ==
    ASSUME FilesIInv, HashRemembered, NEW t \in Threads, NEW x, NEW h, NEW r \in Request,
           pc' = [pc EXCEPT ![t] = x], hashArg' = [hashArg EXCEPT ![t] = h],
           req' = [req EXCEPT ![t] = r],
           x # "idle" => r.stage \in {"storing", "dropping", "unlinking"} /\ h = r.hash,
           r.stage = "unlink" => r.hash = r.info.hash
    PROVE  HashRemembered'
<1>1. ASSUME NEW u \in Threads
      PROVE  /\ Busy(u)' => Stage(u)' \in {"storing", "dropping", "unlinking"} /\ hashArg'[u] = req'[u].hash
             /\ Stage(u)' = "unlink" => req'[u].hash = req'[u].info.hash
  <2>1. CASE u = t
    BY <2>1 DEF FilesIInv, IInv, TypeOK, FilesTypeOK, Busy, Stage
  <2>2. CASE u # t
    BY <2>2 DEF FilesIInv, IInv, TypeOK, FilesTypeOK, HashRemembered, Busy, Stage
  <2>. QED  BY <2>1, <2>2
<1>. QED  BY <1>1 DEF HashRemembered, Busy, Stage

\* Steps that neither call the store nor start an unlink.
LEMMA RememberedOutside ==
    ASSUME FilesIInv, HashRemembered, UNCHANGED vars, NEW t \in Threads,
           NEW r \in Request, req' = [req EXCEPT ![t] = r],
           Stage(t) \notin {"storing", "dropping", "unlinking"},
           r.stage = "unlink" => r.hash = r.info.hash
    PROVE  HashRemembered'
<1>1. pc[t] = "idle"
  BY DEF HashRemembered, Busy
<1>2. pc' = [pc EXCEPT ![t] = "idle"] /\ hashArg' = [hashArg EXCEPT ![t] = hashArg[t]]
  BY <1>1 DEF FilesIInv, IInv, TypeOK, vars, locals
<1>. QED  BY <1>2, RememberedUpdate

LEMMA RememberedUnchanged ==
    ASSUME HashRemembered, UNCHANGED <<vars, req>>
    PROVE  HashRemembered'
BY DEF HashRemembered, vars, locals, Busy, Stage

LEMMA BlankRequest == Blank \in Request /\ Blank.stage = "idle"
BY BlankIsSound DEF Blank

LEMMA RememberedClient ==
    ASSUME FilesIInv, HashRemembered, NEW t \in Threads, ClientStep(t)
    PROVE  HashRemembered'
<1>. USE DEF FilesIInv
<1>1. UNCHANGED vars /\ FilesIInv'
  BY ClientStepIsNoStoreStep, FilesNextKeepsIInv DEF FilesNext
<1>2. req \in [Threads -> Request] /\ req' \in [Threads -> Request]
  BY <1>1 DEF FilesTypeOK
<1>3. ASSUME NEW stage \in {"idle", "open", "pwrite"}, Stage(t) = stage,
             req' = [req EXCEPT ![t] = req'[t]], req'[t].stage # "unlink"
      PROVE  HashRemembered'
  BY <1>1, <1>2, <1>3, RememberedOutside
<1>5. ASSUME NEW p \in Path, UnlinkBegin(t, p) PROVE HashRemembered'
  <2>. DEFINE r == [Blank EXCEPT !.stage = "unlink", !.path = p, !.info = InfoOf(p),
                                 !.exists = (nodeInfo[p] # NoInfo), !.hash = InfoOf(p).hash]
  <2>1. r.hash = r.info.hash
    BY DEF Blank
  <2>2. req' = [req EXCEPT ![t] = r] /\ Stage(t) = "idle"
    BY <1>5 DEF UnlinkBegin, At
  <2>3. r \in Request
    BY <1>2, <2>2
  <2>. QED  BY <1>1, <2>1, <2>2, <2>3, RememberedOutside
<1>6. ASSUME NEW p \in Path, Create(t, p) PROVE HashRemembered'
  <2>1. PICK i \in FreshInodes :
          req' = [req EXCEPT ![t] =
              [Blank EXCEPT !.stage = "create", !.path = p, !.inode = i, !.file = i,
                            !.info = InfoOf(p)]]
    BY <1>6 DEF Create
  <2>2. Stage(t) = "idle"
    BY <1>6 DEF Create, At
  <2>. QED  BY <1>2, <1>3, <2>1, <2>2 DEF Blank
<1>7. ASSUME NEW p \in Path, NEW trunc \in BOOLEAN, Open(t, p, trunc) PROVE HashRemembered'
  <2>1. req' = [req EXCEPT ![t] =
          [Blank EXCEPT !.stage = "open", !.path = p, !.inode = names[p],
                        !.file = own[p], !.info = InfoOf(p)]]
    BY <1>7 DEF Open
  <2>2. Stage(t) = "idle"
    BY <1>7 DEF Open, At
  <2>. QED  BY <1>2, <1>3, <2>1, <2>2 DEF Blank
<1>8. ASSUME NEW p \in Path, LookupBegin(t, p) PROVE HashRemembered'
  <2>1. req' = [req EXCEPT ![t] = [Blank EXCEPT !.stage = "stat", !.path = p]]
    BY <1>8 DEF LookupBegin
  <2>2. Stage(t) = "idle"
    BY <1>8 DEF LookupBegin, At
  <2>. QED  BY <1>2, <1>3, <2>1, <2>2 DEF Blank
<1>9. ASSUME NEW p \in Path, NEW q \in Path, LinkBegin(t, p, q) PROVE HashRemembered'
  <2>1. req' = [req EXCEPT ![t] = [Blank EXCEPT !.stage = "linked", !.path = p, !.to = q]]
    BY <1>9 DEF LinkBegin
  <2>2. Stage(t) = "idle"
    BY <1>9 DEF LinkBegin, At
  <2>. QED  BY <1>2, <1>3, <2>1, <2>2 DEF Blank
<1>10. ASSUME NEW p \in Path, NEW q \in Path, RenameBegin(t, p, q) PROVE HashRemembered'
  <2>1. req' = [req EXCEPT ![t] =
          [Blank EXCEPT !.stage = "rename", !.path = p, !.to = q, !.info = InfoOf(p)]]
    BY <1>10 DEF RenameBegin
  <2>2. Stage(t) = "idle"
    BY <1>10 DEF RenameBegin, At
  <2>. QED  BY <1>2, <1>3, <2>1, <2>2 DEF Blank
<1>11. ASSUME NEW c \in Chunk, HashChunk(t, c) PROVE HashRemembered'
  <2>1. req' = [req EXCEPT ![t].stage = "pwrite", ![t].chunk = c]
    BY <1>11 DEF HashChunk
  <2>2. Stage(t) = "open"
    BY <1>11 DEF HashChunk, At
  <2>3. req' = [req EXCEPT ![t] = req'[t]] /\ req'[t].stage = "pwrite"
    BY <1>2, <2>1 DEF Request
  <2>. QED  BY <1>3, <2>2, <2>3
<1>12. ASSUME NEW off \in 0..MaxWrites, PwriteChunk(t, off) PROVE HashRemembered'
  <2>1. req' = [req EXCEPT ![t].stage = "open"]
    BY <1>12 DEF PwriteChunk, Goto
  <2>2. Stage(t) = "pwrite"
    BY <1>12 DEF PwriteChunk, At
  <2>3. req' = [req EXCEPT ![t] = req'[t]] /\ req'[t].stage = "open"
    BY <1>2, <2>1 DEF Request
  <2>. QED  BY <1>3, <2>2, <2>3
<1>. QED  BY <1>5, <1>6, <1>7, <1>8, <1>9, <1>10, <1>11, <1>12 DEF ClientStep

\* Release calls the store with the hash it took, and remembers it.
LEMMA RememberedRelease ==
    ASSUME FilesIInv, HashRemembered, NEW t \in Threads, ReleaseStep(t)
    PROVE  HashRemembered'
<1>. USE DEF FilesIInv
<1>1. FilesIInv'
  BY FilesNextKeepsIInv DEF FilesNext
<1>2. /\ req \in [Threads -> Request] /\ req' \in [Threads -> Request]
      /\ pc \in [Threads -> {"idle"} \cup StorePcs \cup RemovePcs]
      /\ hashArg \in [Threads -> AllHash]
  BY <1>1 DEF FilesTypeOK, IInv, TypeOK
<1>3. ASSUME NEW stage \in {"open", "released", "info", "link", "swap", "fill"},
             Stage(t) = stage, UNCHANGED vars,
             req' = [req EXCEPT ![t] = req'[t]], req'[t].stage # "unlink"
      PROVE  HashRemembered'
  BY <1>2, <1>3, RememberedOutside
\* A call of the store begins: the hash becomes its argument.
<1>4. ASSUME NEW x, pc' = [pc EXCEPT ![t] = x],
             hashArg' = [hashArg EXCEPT ![t] = req[t].hash],
             req' = [req EXCEPT ![t] = req'[t]], req'[t].hash = req[t].hash,
             req'[t].stage \in {"storing", "dropping"}
      PROVE  HashRemembered'
  BY <1>2, <1>4, RememberedUpdate
\* A call goes on or ends.
<1>5. ASSUME NEW x, pc' = [pc EXCEPT ![t] = x], UNCHANGED hashArg,
             Stage(t) \in {"storing", "dropping"}, pc[t] # "idle",
             req' = [req EXCEPT ![t] = req'[t]], req'[t].stage # "unlink",
             x # "idle" => req'[t].stage = Stage(t) /\ req'[t].hash = req[t].hash
      PROVE  HashRemembered'
  <2>1. hashArg' = [hashArg EXCEPT ![t] = hashArg[t]]
    BY <1>2, <1>5
  <2>2. hashArg[t] = req[t].hash
    BY <1>5 DEF HashRemembered, Busy
  <2>3. req'[t] \in Request
    BY <1>2
  <2>4. x # "idle" => req'[t].stage \in {"storing", "dropping"} /\ hashArg[t] = req'[t].hash
    BY <1>5, <2>2
  <2>. QED  BY <1>5, <2>1, <2>3, <2>4, RememberedUpdate
<1>6. CASE TakeBuffer(t)
  <2>1. Stage(t) = "open" /\ UNCHANGED vars
    BY <1>6 DEF TakeBuffer, At
  <2>2. req' = [req EXCEPT ![t] = req'[t]] /\ req'[t].stage = "released"
    BY <1>2, <1>6 DEF TakeBuffer, Request
  <2>. QED  BY <1>3, <2>1, <2>2
<1>7. CASE LookupOldMetadata(t)
  <2>1. req' = [req EXCEPT ![t] = req'[t]] /\ req'[t].stage = "storing" /\ req'[t].hash = req[t].hash
    BY <1>2, <1>7 DEF LookupOldMetadata, Request
  <2>. QED  BY <1>4, <1>7, <2>1 DEF LookupOldMetadata, BeginStore, Step
<1>8. CASE ReleaseTest(t)
  <2>1. /\ req' = [req EXCEPT ![t] = req'[t]]
        /\ req'[t].stage = Stage(t) /\ req'[t].hash = req[t].hash
    BY <1>2, <1>8 DEF ReleaseTest, Request, Stage
  <2>2. Stage(t) = "storing"
    BY <1>8 DEF ReleaseTest, At
  <2>. QED  BY <1>5, <1>8, <2>1, <2>2 DEF ReleaseTest, IsContentHashUnique, Step, locals
<1>9. CASE ReleaseCreateEntry(t)
  <2>1. req' = [req EXCEPT ![t] = req'[t]] /\ UNCHANGED req
    BY <1>2, <1>9 DEF ReleaseCreateEntry
  <2>2. Stage(t) = "storing"
    BY <1>9 DEF ReleaseCreateEntry, At
  <2>. QED  BY <1>5, <1>9, <2>1, <2>2
            DEF ReleaseCreateEntry, CheckMapEntry, CreateMapEntry, Step, Stage, locals
<1>10. CASE ReleaseLookupEntry(t)
  <2>1. Stage(t) = "storing" /\ pc[t] = "lookup"
    BY <1>10 DEF ReleaseLookupEntry, LookupMapEntry, Step, At
  <2>2. CASE table[hashArg[t]] = NoEntry
    <3>1. req' = [req EXCEPT ![t] = Blank]
      BY <1>10, <2>2 DEF ReleaseLookupEntry, Return
    <3>2. req' = [req EXCEPT ![t] = req'[t]] /\ req'[t].stage = "idle"
      BY <1>2, <3>1 DEF Blank
    <3>. QED  BY <1>5, <1>10, <2>1, <2>2, <3>2 DEF ReleaseLookupEntry, LookupMapEntry, Step
  <2>3. CASE table[hashArg[t]] # NoEntry
    <3>1. req' = [req EXCEPT ![t] = req'[t]] /\ UNCHANGED req
      BY <1>2, <1>10, <2>3 DEF ReleaseLookupEntry
    <3>. QED  BY <1>5, <1>10, <2>1, <3>1 DEF ReleaseLookupEntry, LookupMapEntry, Step, Stage
  <2>. QED  BY <2>2, <2>3
<1>11. CASE ReleaseRecent(t)
  <2>1. PICK rec : req' = [req EXCEPT ![t].rec = rec]
    BY <1>11 DEF ReleaseRecent
  <2>2. /\ req' = [req EXCEPT ![t] = req'[t]]
        /\ req'[t].stage = Stage(t) /\ req'[t].hash = req[t].hash
    BY <1>2, <2>1 DEF Request, Stage
  <2>3. Stage(t) = "storing"
    BY <1>11 DEF ReleaseRecent, At
  <2>. QED  BY <1>5, <1>11, <2>2, <2>3 DEF ReleaseRecent, RetrieveRecent, Step, locals
<1>12. CASE ReleaseNewMetadata(t)
  <2>1. req' = [req EXCEPT ![t] = req'[t]] /\ req'[t].stage = "info"
    BY <1>2, <1>12 DEF ReleaseNewMetadata, Request
  <2>2. Stage(t) = "storing"
    BY <1>12 DEF ReleaseNewMetadata, At
  <2>. QED  BY <1>5, <1>12, <2>1, <2>2 DEF ReleaseNewMetadata, CreateMetadata, Step, locals
<1>13. CASE UpdateInfo(t) \/ LinkFails(t) \/ FillMetadata(t)
  <2>1. Stage(t) \in {"info", "link", "fill"}
    BY <1>13 DEF UpdateInfo, LinkFails, FillMetadata, At
  <2>2. CASE DropNew(t)
    <3>1. req' = [req EXCEPT ![t] = req'[t]] /\ req'[t].stage = "dropping" /\ req'[t].hash = req[t].hash
      BY <1>2, <2>2 DEF DropNew, Goto, Request
    <3>. QED  BY <1>4, <2>2, <3>1 DEF DropNew, BeginRemove, Step
  <2>3. CASE UNCHANGED vars /\ \E stage \in {"link", "fill"} : Goto(t, stage)
    <3>1. PICK stage \in {"link", "fill"} : req' = [req EXCEPT ![t].stage = stage]
      BY <2>3 DEF Goto
    <3>2. req' = [req EXCEPT ![t] = req'[t]] /\ req'[t].stage = stage
      BY <1>2, <3>1 DEF Request
    <3>. QED  BY <1>3, <2>1, <2>3, <3>2
  <2>4. CASE UNCHANGED vars /\ Return(t)
    <3>1. req' = [req EXCEPT ![t] = req'[t]] /\ req'[t].stage = "idle"
      BY <1>2, <2>4 DEF Return, Blank
    <3>. QED  BY <1>3, <2>1, <2>4, <3>1
  <2>. QED  BY <1>13, <2>2, <2>3, <2>4 DEF UpdateInfo, LinkFails, FillMetadata
<1>14. CASE LinkOriginal(t) \/ SwapInDuplicate(t)
  <2>1. Stage(t) \in {"link", "swap"} /\ UNCHANGED vars
    BY <1>14 DEF LinkOriginal, SwapInDuplicate, At
  <2>2. PICK stage \in {"swap", "fill"} : req' = [req EXCEPT ![t].stage = stage]
    BY <1>14 DEF LinkOriginal, SwapInDuplicate, Goto
  <2>3. req' = [req EXCEPT ![t] = req'[t]] /\ req'[t].stage = stage
    BY <1>2, <2>2 DEF Request
  <2>. QED  BY <1>3, <2>1, <2>3
<1>15. CASE Drop(t)
  <2>1. PICK x : pc' = [pc EXCEPT ![t] = x] /\ UNCHANGED hashArg /\ pc[t] # "idle"
    BY <1>15 DEF Drop, RemoveStep, FindMetadata, DeleteMetadata, TestEmpty, DeleteMapEntry,
       Step, locals
  <2>2. pc'[t] = x
    BY <1>2, <2>1
  <2>3. Stage(t) = "dropping"
    BY <1>15 DEF Drop, At
  <2>4. CASE x = "idle"
    <3>1. req' = [req EXCEPT ![t] = req'[t]] /\ req'[t].stage = "idle"
      BY <1>2, <1>15, <2>2, <2>4 DEF Drop, Return, Blank
    <3>. QED  BY <1>5, <2>1, <2>3, <2>4, <3>1
  <2>5. CASE x # "idle"
    <3>1. req' = [req EXCEPT ![t] = req'[t]] /\ UNCHANGED req
      BY <1>2, <1>15, <2>2, <2>5 DEF Drop
    <3>. QED  BY <1>5, <2>1, <2>3, <3>1 DEF Stage
  <2>. QED  BY <2>4, <2>5
<1>. QED  BY <1>6, <1>7, <1>8, <1>9, <1>10, <1>11, <1>12, <1>13, <1>14, <1>15 DEF ReleaseStep

\* Nodes that go-fuse moves belong to descriptors, which are not in the store.
LEMMA RememberedMoved ==
    ASSUME FilesIInv, HashRemembered, UNCHANGED vars, NEW t \in Threads,
           NEW from, NEW to, req' = [Moved(from, to) EXCEPT ![t] = Blank],
           pc[t] = "idle"
    PROVE  HashRemembered'
<1>1. req \in [Threads -> Request]
  BY DEF FilesIInv, FilesTypeOK
<1>2. ASSUME NEW u \in Threads
      PROVE  /\ Moved(from, to)[u].stage = req[u].stage
             /\ Moved(from, to)[u].hash = req[u].hash
             /\ Moved(from, to)[u].info = req[u].info
  BY <1>1 DEF Moved, Request
<1>3. ASSUME NEW u \in Threads
      PROVE  /\ Busy(u)' => Stage(u)' \in {"storing", "dropping", "unlinking"} /\ hashArg'[u] = req'[u].hash
             /\ Stage(u)' = "unlink" => req'[u].hash = req'[u].info.hash
  <2>1. CASE u = t
    <3>1. req'[u].stage = "idle"
      BY <2>1, BlankRequest DEF Moved
    <3>2. pc'[u] = "idle"
      BY <2>1 DEF vars
    <3>. QED  BY <3>1, <3>2 DEF Busy, Stage
  <2>2. CASE u # t
    <3>1. req'[u] = Moved(from, to)[u]
      BY <2>2 DEF Moved
    <3>2. req'[u].stage = req[u].stage /\ req'[u].hash = req[u].hash /\ req'[u].info = req[u].info
      BY <1>2, <3>1
    <3>. QED  BY <3>2 DEF HashRemembered, Busy, Stage, vars, locals
  <2>. QED  BY <2>1, <2>2
<1>. QED  BY <1>3 DEF HashRemembered, Busy, Stage

\* Unlink calls the store with the hash it read.
LEMMA RememberedNamespace ==
    ASSUME FilesIInv, HashRemembered, NEW t \in Threads, NamespaceStep(t)
    PROVE  HashRemembered'
<1>. USE DEF FilesIInv
<1>1. FilesIInv'
  BY FilesNextKeepsIInv DEF FilesNext
<1>2. /\ req \in [Threads -> Request] /\ req' \in [Threads -> Request]
      /\ pc \in [Threads -> {"idle"} \cup StorePcs \cup RemovePcs]
      /\ hashArg \in [Threads -> AllHash]
  BY <1>1 DEF FilesTypeOK, IInv, TypeOK
\* A request that a nil dereference has stopped stays as it is.
<1>0. CASE UNCHANGED <<vars, req>>
  BY <1>0, RememberedUnchanged
<1>3. CASE CreateStoresInfo(t) \/ RenameFile(t) \/ RenameRemovesInfo(t)
  <2>. SUFFICES ASSUME req' # req PROVE HashRemembered'
    BY <1>0, <1>3 DEF CreateStoresInfo, RenameFile, RenameRemovesInfo
  <2>1. PICK stage \in {"open", "renamed", "moved"} : req' = [req EXCEPT ![t].stage = stage]
    BY <1>3 DEF CreateStoresInfo, RenameFile, RenameRemovesInfo, Goto
  <2>2. req' = [req EXCEPT ![t] = req'[t]] /\ req'[t].stage = stage
    BY <1>2, <2>1 DEF Request
  <2>3. UNCHANGED vars /\ Stage(t) \in {"create", "rename", "renamed"}
    BY <1>3 DEF CreateStoresInfo, RenameFile, RenameRemovesInfo, At
  <2>. QED  BY <1>2, <2>2, <2>3, RememberedOutside
<1>4. CASE LookupFills(t) \/ LookupStoresInfo(t) \/ LinkStoresInfo(t)
  <2>. SUFFICES ASSUME req' # req PROVE HashRemembered'
    BY <1>0, <1>4 DEF LookupFills, LookupStoresInfo, LinkStoresInfo
  <2>1. UNCHANGED vars /\ Stage(t) \in {"attr", "look", "linked"} /\ Return(t)
    BY <1>4 DEF LookupFills, LookupStoresInfo, LinkStoresInfo, At
  <2>. QED  BY <2>1, BlankRequest, RememberedOutside DEF Return
<1>8. CASE LookupReadsInfo(t)
  <2>1. UNCHANGED vars /\ Stage(t) = "stat"
    BY <1>8 DEF LookupReadsInfo, At
  <2>2. req' = [req EXCEPT ![t] = req'[t]] /\ req'[t].stage \in {"look", "attr"}
    BY <1>2, <1>8 DEF LookupReadsInfo, Request
  <2>. QED  BY <1>2, <2>1, <2>2, RememberedOutside
<1>5. CASE RenameStoresInfo(t) \/ UnlinkForgets(t)
  <2>1. UNCHANGED vars /\ Stage(t) \in {"moved", "forget"}
    BY <1>5 DEF RenameStoresInfo, UnlinkForgets, At
  <2>2. pc[t] = "idle"
    BY <2>1 DEF HashRemembered, Busy
  <2>3. PICK to : req' = [Moved(req[t].path, to) EXCEPT ![t] = Blank]
    BY <1>5 DEF RenameStoresInfo, UnlinkForgets
  <2>. QED  BY <2>1, <2>2, <2>3, RememberedMoved
<1>6. CASE UnlinkFile(t)
  <2>1. Stage(t) = "unlink" /\ req[t].hash = req[t].info.hash
    BY <1>6 DEF UnlinkFile, At, HashRemembered
  <2>2. CASE Goto(t, "forget") /\ UNCHANGED vars
    <3>1. req' = [req EXCEPT ![t] = req'[t]] /\ req'[t].stage = "forget"
      BY <1>2, <2>2 DEF Goto, Request
    <3>. QED  BY <1>2, <2>1, <2>2, <3>1, RememberedOutside
  <2>3. CASE Goto(t, "unlinking") /\ BeginRemove(t, req[t].info.hash, req[t].info.ref)
    <3>1. req' = [req EXCEPT ![t] = req'[t]] /\ req'[t].stage = "unlinking" /\ req'[t].hash = req[t].hash
      BY <1>2, <2>3 DEF Goto, Request
    <3>2. pc' = [pc EXCEPT ![t] = "find"] /\ hashArg' = [hashArg EXCEPT ![t] = req[t].hash]
      BY <2>1, <2>3 DEF BeginRemove, Step
    <3>. QED  BY <1>2, <3>1, <3>2, RememberedUpdate
  <2>. QED  BY <1>6, <2>2, <2>3 DEF UnlinkFile
<1>7. CASE UnlinkRemoves(t)
  <2>1. PICK x : pc' = [pc EXCEPT ![t] = x] /\ UNCHANGED hashArg /\ pc[t] # "idle"
    BY <1>7 DEF UnlinkRemoves, RemoveStep, FindMetadata, DeleteMetadata, TestEmpty,
       DeleteMapEntry, Step, locals
  <2>2. pc'[t] = x /\ hashArg[t] = req[t].hash /\ hashArg' = [hashArg EXCEPT ![t] = hashArg[t]]
    BY <1>2, <2>1 DEF HashRemembered, Busy
  <2>3. /\ req' = [req EXCEPT ![t] = req'[t]]
        /\ req'[t].stage = (IF x = "idle" THEN "forget" ELSE "unlinking")
        /\ req'[t].hash = req[t].hash
    BY <1>2, <1>7, <2>2 DEF UnlinkRemoves, Goto, Request
  <2>4. req'[t] \in Request
    BY <1>2
  <2>5. x # "idle" => req'[t].stage = "unlinking" /\ hashArg[t] = req'[t].hash
    BY <2>2, <2>3
  <2>6. req'[t].stage # "unlink"
    BY <2>3
  <2>. QED  BY <2>1, <2>2, <2>3, <2>4, <2>5, <2>6, RememberedUpdate
<1>. QED  BY <1>3, <1>4, <1>5, <1>6, <1>7, <1>8 DEF NamespaceStep

LEMMA FilesNextRemembers == FilesIInv /\ HashRemembered /\ [FilesNext]_filesVars => HashRemembered'
<1>. SUFFICES ASSUME FilesIInv, HashRemembered, [FilesNext]_filesVars PROVE HashRemembered'
  OBVIOUS
<1>1. CASE UNCHANGED filesVars
  BY <1>1, RememberedUnchanged DEF filesVars
<1>2. CASE FilesNext
  BY <1>2, RememberedClient, RememberedRelease, RememberedNamespace DEF FilesNext
<1>. QED  BY <1>1, <1>2

-----------------------------------------------------------------------------
(* Requests beside the saves.                                               *)

LEMMA OneMap == ASSUME NEW map PROVE <<map>> # << >> /\ <<map>>[1] = map
OBVIOUS

LEMMA ChangedIsTyped == Changed \subseteq AllHash \cup Path
BY DEF Changed

\* What is encoded is a map the store could have, and shows what memory shows.
LEMMA EncodedIsSound ==
    ASSUME FilesIInv
    PROVE  MapSound(MetadataMap) /\ \A h \in AllHash : SavedCell(MetadataMap, h) = Cell(h)
<1>. USE DEF FilesIInv, IInv
<1>1. table \in [AllHash -> Entries \cup {NoEntry}]
  BY DEF TypeOK
<1>2. Reachable \subseteq Entries
  BY <1>1 DEF Reachable
<1>3. ASSUME NEW e \in Reachable
      PROVE  /\ MetadataMap.cells[e] \in CellType
             /\ MetadataMap.cells[e].live \subseteq 1..MetadataMap.cells[e].index
  <2>1. e \in Entries
    BY <1>2
  <2>2. MetadataMap.cells[e] =
          [live |-> live[e], index |-> index[e], count |-> count[e], home |-> home[e],
           path |-> metaPath[e]]
    BY DEF MetadataMap
  <2>3. live[e] \subseteq 1..index[e]
    BY <2>1 DEF KeysHandedOut
  <2>. QED  BY <2>1, <2>2, <2>3 DEF TypeOK, FilesTypeOK, CellType
<1>4. ASSUME NEW h \in AllHash, table[h] # NoEntry
      PROVE  MetadataMap.cells[table[h]].home = h /\ SavedCell(MetadataMap, h) = Cell(h)
  <2>1. table[h] \in Reachable /\ home[table[h]] = h
    BY <1>4 DEF Reachable, TableSound
  <2>. QED  BY <1>4, <2>1 DEF MetadataMap, SavedCell, Cell
<1>5. ASSUME NEW h \in AllHash, table[h] = NoEntry
      PROVE  SavedCell(MetadataMap, h) = Cell(h)
  BY <1>5 DEF MetadataMap, SavedCell, Cell
<1>6. MetadataMap.table = table /\ DOMAIN MetadataMap.cells = Reachable
  BY DEF MetadataMap
<1>. QED  BY <1>1, <1>3, <1>4, <1>5, <1>6 DEF MapSound, Reachable

LEMMA ServeKeeps == ASSUME PersistenceIInv, Serve PROVE PersistenceIInv'
<1>. USE DEF PersistenceIInv
<1>1. FilesIInv' /\ HashRemembered'
  BY FilesNextKeepsIInv, FilesNextRemembers DEF Serve
<1>2. PersistenceTypeOK'
  BY <1>1, ChangedIsTyped
     DEF Serve, Remember, saves, PersistenceTypeOK, SavedSound, FilesIInv
<1>3. SavedAgrees'
  <2>1. ASSUME NEW h \in AllHash, h \notin dirty', savedMeta # << >>
        PROVE  SavedCell(savedMeta[1], h) = Cell(h)'
    <3>1. h \notin dirty /\ Cell(h)' = Cell(h)
      BY <2>1 DEF Serve, Remember, Changed
    <3>. QED  BY <2>1, <3>1 DEF SavedAgrees
  <2>2. UNCHANGED savedMeta
    BY DEF Serve, saves
  <2>. QED  BY <2>1, <2>2 DEF SavedAgrees
<1>4. ClosingSaves' /\ StartingSound'
  BY DEF Serve, ClosingSaves, StartingSound
<1>. QED  BY <1>1, <1>2, <1>3, <1>4

-----------------------------------------------------------------------------
(* The saves.                                                               *)

\* A save changes nothing in memory.
LEMMA MemoryKeeps ==
    ASSUME PersistenceIInv, UNCHANGED filesVars
    PROVE  FilesIInv' /\ HashRemembered' /\ \A h \in AllHash : Cell(h)' = Cell(h)
<1>1. FilesIInv' /\ HashRemembered'
  BY FilesNextKeepsIInv, FilesNextRemembers DEF PersistenceIInv
<1>2. \A h \in AllHash : Cell(h)' = Cell(h)
  BY DEF filesVars, vars, heap, Cell
<1>. QED  BY <1>1, <1>2

LEMMA TickKeeps == ASSUME PersistenceIInv, Tick PROVE PersistenceIInv'
<1>. USE DEF PersistenceIInv
<1>1. UNCHANGED <<filesVars, main, savedNodes, savedMeta, restarts, dirty>>
  BY DEF Tick
<1>2. FilesIInv' /\ HashRemembered' /\ \A h \in AllHash : Cell(h)' = Cell(h)
  BY <1>1, MemoryKeeps
<1>3. save' = [save EXCEPT !["ticker"] = "nodes"] /\ save["ticker"] = "idle"
  BY DEF Tick, Saving
<1>4. rounds' \in 0..MaxRounds
  BY PersistenceAssumption DEF Tick, PersistenceTypeOK
<1>5. since' \subseteq AllHash \cup Path
  BY DEF Tick, InHand
<1>6. PersistenceTypeOK'
  BY <1>1, <1>2, <1>3, <1>4, <1>5
     DEF PersistenceTypeOK, SavedSound, FilesIInv, Savers, SaveStages
<1>7. SavedAgrees'
  BY <1>1, <1>2 DEF SavedAgrees
<1>8. ClosingSaves'
  <2>1. save'["exit"] = save["exit"] /\ (NodesHeld' <=> NodesHeld) /\ (MetadataHeld' <=> MetadataHeld)
    BY <1>3 DEF PersistenceTypeOK, NodesHeld, MetadataHeld, Savers
  <2>2. UNCHANGED <<nodeInfo, MetadataMap>>
    BY <1>1 DEF filesVars, vars, heap, MetadataMap, Reachable
  <2>. QED  BY <1>1, <2>1, <2>2 DEF ClosingSaves
<1>9. StartingSound'
  BY <1>1 DEF Tick, Saving, StartingSound
<1>. QED  BY <1>2, <1>6, <1>7, <1>8, <1>9

LEMMA CreateNodesFileKeeps ==
    ASSUME PersistenceIInv, NEW s \in Savers, CreateNodesFile(s)
    PROVE  PersistenceIInv'
<1>. USE DEF PersistenceIInv
<1>1. UNCHANGED <<filesVars, main, savedMeta, rounds, restarts, dirty, since>> /\ savedNodes' = << >>
  BY DEF CreateNodesFile
<1>2. FilesIInv' /\ HashRemembered' /\ \A h \in AllHash : Cell(h)' = Cell(h)
  BY <1>1, MemoryKeeps
<1>3. save' = [save EXCEPT ![s] = "nodesOpen"] /\ save[s] = "nodes"
  BY DEF CreateNodesFile, Saving
<1>4. PersistenceTypeOK'
  BY <1>1, <1>2, <1>3 DEF PersistenceTypeOK, SavedSound, FilesIInv, SaveStages
<1>5. SavedAgrees'
  BY <1>1, <1>2 DEF SavedAgrees
<1>6. ClosingSaves'
  <2>1. NodesHeld' /\ (MetadataHeld' <=> MetadataHeld)
    BY <1>3 DEF PersistenceTypeOK, NodesHeld, MetadataHeld
  <2>2. save'["exit"] = "done" => save["exit"] = "done"
    BY <1>3 DEF PersistenceTypeOK, Savers
  <2>3. UNCHANGED MetadataMap
    BY <1>1 DEF filesVars, vars, heap, MetadataMap, Reachable
  <2>. QED  BY <1>1, <2>1, <2>2, <2>3 DEF ClosingSaves
<1>7. StartingSound'
  BY <1>1 DEF CreateNodesFile, Saving, StartingSound
<1>. QED  BY <1>2, <1>4, <1>5, <1>6, <1>7

LEMMA EncodeNodesKeeps ==
    ASSUME PersistenceIInv, NEW s \in Savers, EncodeNodes(s)
    PROVE  PersistenceIInv'
<1>. USE DEF PersistenceIInv
<1>1. UNCHANGED <<filesVars, main, savedMeta, rounds, restarts, dirty, since>> /\ savedNodes' = <<nodeInfo>>
  BY DEF EncodeNodes
<1>2. FilesIInv' /\ HashRemembered' /\ \A h \in AllHash : Cell(h)' = Cell(h)
  BY <1>1, MemoryKeeps
<1>3. save' = [save EXCEPT ![s] = "meta"] /\ save[s] = "nodesOpen"
  BY DEF EncodeNodes, Saving
<1>4. PersistenceTypeOK'
  BY <1>1, <1>2, <1>3, OneMap DEF PersistenceTypeOK, SavedSound, FilesIInv, SaveStages, FilesTypeOK
<1>5. SavedAgrees'
  BY <1>1, <1>2 DEF SavedAgrees
<1>6. ClosingSaves'
  <2>1. MetadataHeld' <=> MetadataHeld
    BY <1>3 DEF PersistenceTypeOK, MetadataHeld
  <2>2. save'["exit"] = "done" => save["exit"] = "done"
    BY <1>3 DEF PersistenceTypeOK, Savers
  <2>3. UNCHANGED <<nodeInfo, MetadataMap>>
    BY <1>1 DEF filesVars, vars, heap, MetadataMap, Reachable
  <2>. QED  BY <1>1, <2>1, <2>2, <2>3 DEF ClosingSaves
<1>7. StartingSound'
  BY <1>1 DEF EncodeNodes, Saving, StartingSound
<1>. QED  BY <1>2, <1>4, <1>5, <1>6, <1>7

LEMMA CreateMetadataFileKeeps ==
    ASSUME PersistenceIInv, NEW s \in Savers, CreateMetadataFile(s)
    PROVE  PersistenceIInv'
<1>. USE DEF PersistenceIInv
<1>1. UNCHANGED <<filesVars, main, savedNodes, rounds, restarts, dirty, since>> /\ savedMeta' = << >>
  BY DEF CreateMetadataFile
<1>2. FilesIInv' /\ HashRemembered'
  BY <1>1, MemoryKeeps
<1>3. save' = [save EXCEPT ![s] = "metaOpen"] /\ save[s] = "meta"
  BY DEF CreateMetadataFile, Saving
<1>4. PersistenceTypeOK'
  BY <1>1, <1>2, <1>3 DEF PersistenceTypeOK, SavedSound, FilesIInv, SaveStages
<1>5. SavedAgrees'
  BY <1>1 DEF SavedAgrees
<1>6. ClosingSaves'
  <2>1. MetadataHeld' /\ (NodesHeld' <=> NodesHeld)
    BY <1>3 DEF PersistenceTypeOK, NodesHeld, MetadataHeld
  <2>2. save'["exit"] \in {"meta", "metaOpen", "done"} => save["exit"] \in {"meta", "metaOpen", "done"}
    BY <1>3 DEF PersistenceTypeOK, Savers
  <2>3. UNCHANGED nodeInfo
    BY <1>1 DEF filesVars
  <2>. QED  BY <1>1, <2>1, <2>2, <2>3 DEF ClosingSaves
<1>7. StartingSound'
  BY <1>1 DEF CreateMetadataFile, Saving, StartingSound
<1>. QED  BY <1>2, <1>4, <1>5, <1>6, <1>7

LEMMA EncodeMetadataKeeps ==
    ASSUME PersistenceIInv, NEW s \in Savers, EncodeMetadata(s)
    PROVE  PersistenceIInv'
<1>. USE DEF PersistenceIInv
<1>1. UNCHANGED <<filesVars, main, savedNodes, rounds, restarts, since>> /\ savedMeta' = <<MetadataMap>>
  BY DEF EncodeMetadata
<1>2. FilesIInv' /\ HashRemembered' /\ \A h \in AllHash : Cell(h)' = Cell(h)
  BY <1>1, MemoryKeeps
<1>3. PICK to \in {"idle", "done"} : save' = [save EXCEPT ![s] = to]
  BY DEF EncodeMetadata, Saving
<1>4. save[s] = "metaOpen"
  BY DEF EncodeMetadata, Saving
<1>5. MapSound(MetadataMap) /\ \A h \in AllHash : SavedCell(MetadataMap, h) = Cell(h)
  BY EncodedIsSound
<1>6. savedMeta'[1] = MetadataMap
  BY <1>1, OneMap
<1>7. PersistenceTypeOK'
  <2>1. SavedSound'
    BY <1>1, <1>5, <1>6 DEF PersistenceTypeOK, SavedSound
  <2>2. dirty' \in SUBSET (AllHash \cup Path)
    BY DEF EncodeMetadata, PersistenceTypeOK
  <2>. QED  BY <1>1, <1>2, <1>3, <2>1, <2>2 DEF PersistenceTypeOK, FilesIInv, SaveStages
<1>8. SavedAgrees'
  BY <1>2, <1>5, <1>6 DEF SavedAgrees
<1>9. ClosingSaves'
  <2>1. NodesHeld' <=> NodesHeld
    BY <1>3, <1>4 DEF PersistenceTypeOK, NodesHeld
  <2>2. save'["exit"] \in {"meta", "metaOpen", "done"} => save["exit"] \in {"meta", "metaOpen", "done"}
    BY <1>3, <1>4 DEF PersistenceTypeOK, Savers
  <2>3. UNCHANGED <<nodeInfo, MetadataMap>>
    BY <1>1 DEF filesVars, vars, heap, MetadataMap, Reachable
  <2>. QED  BY <1>1, <2>1, <2>2, <2>3 DEF ClosingSaves
<1>10. StartingSound'
  BY <1>1 DEF EncodeMetadata, Saving, StartingSound
<1>. QED  BY <1>2, <1>7, <1>8, <1>9, <1>10

LEMMA UnmountKeeps == ASSUME PersistenceIInv, Unmount PROVE PersistenceIInv'
<1>. USE DEF PersistenceIInv
<1>1. /\ UNCHANGED <<filesVars, savedNodes, savedMeta, rounds, restarts, dirty, since>>
      /\ main' = "closing" /\ save' = [save EXCEPT !["exit"] = "nodes"]
  BY DEF Unmount
<1>2. FilesIInv' /\ HashRemembered' /\ \A h \in AllHash : Cell(h)' = Cell(h)
  BY <1>1, MemoryKeeps
<1>3. PersistenceTypeOK'
  BY <1>1, <1>2 DEF PersistenceTypeOK, SavedSound, FilesIInv, Savers, SaveStages
<1>4. SavedAgrees'
  BY <1>1, <1>2 DEF SavedAgrees
<1>5. ClosingSaves'
  <2>1. save'["exit"] = "nodes"
    BY <1>1 DEF PersistenceTypeOK, Savers
  <2>. QED  BY <2>1 DEF ClosingSaves
<1>6. StartingSound'
  BY <1>1 DEF StartingSound
<1>. QED  BY <1>2, <1>3, <1>4, <1>5, <1>6

-----------------------------------------------------------------------------
(* A new process.                                                           *)

LEMMA BlankCellIsTyped == BlankCell \in CellType /\ BlankCell.live \subseteq 1..BlankCell.index
BY StoreAssumption DEF BlankCell, CellType, AllHash

LEMMA EmptyMapIsSound == MapSound(EmptyMap)
<1>1. DOMAIN EmptyMap.cells = {}
  BY DEF EmptyMap
<1>2. EmptyMap.table = [h \in AllHash |-> NoEntry]
  BY DEF EmptyMap
<1>. QED  BY <1>1, <1>2 DEF MapSound

\* What a map that was saved or is missing makes of the store: a hash that the
\* crash has not damaged shows what it showed, and no request is at work on it.
LEMMA RestartKeeps == ASSUME PersistenceIInv, Restart PROVE PersistenceIInv'
<1>. USE DEF PersistenceIInv, FilesIInv, IInv
<1>. DEFINE map == IF savedMeta = << >> THEN EmptyMap ELSE savedMeta[1]
            cell(e) == IF e \in DOMAIN map.cells THEN map.cells[e] ELSE BlankCell
<1>1. /\ table' = map.table
      /\ allocated' = DOMAIN map.cells
      /\ live' = [e \in Entries |-> cell(e).live]
      /\ index' = [e \in Entries |-> cell(e).index]
      /\ count' = [e \in Entries |-> cell(e).count]
      /\ home' = [e \in Entries |-> cell(e).home]
      /\ metaPath' = [e \in Entries |-> cell(e).path]
  BY DEF Restart, LoadMetadata
<1>2. MapSound(map) /\ (savedMeta # << >> => map = savedMeta[1])
  BY EmptyMapIsSound DEF PersistenceTypeOK, SavedSound
<1>. HIDE DEF map
<1>3. /\ map.table \in [AllHash -> Entries \cup {NoEntry}]
      /\ DOMAIN map.cells = {map.table[h] : h \in AllHash} \ {NoEntry}
      /\ DOMAIN map.cells \subseteq Entries
      /\ \A h \in AllHash : map.table[h] # NoEntry =>
            map.table[h] \in DOMAIN map.cells /\ map.cells[map.table[h]].home = h
  BY <1>2 DEF MapSound
<1>4. ASSUME NEW e PROVE cell(e) \in CellType /\ cell(e).live \subseteq 1..cell(e).index
  BY <1>2, BlankCellIsTyped DEF MapSound
<1>5. \A e \in DOMAIN map.cells : cell(e) = map.cells[e]
  OBVIOUS
<1>6. \A e : e \notin DOMAIN map.cells => cell(e) = BlankCell
  OBVIOUS
<1>. HIDE DEF cell
<1>7. Damage \in SUBSET (AllHash \cup Path)
  BY DEF Damage, InHand, PersistenceTypeOK
<1>8. TypeOK'
  <2>1. /\ live' \in [Entries -> SUBSET Refs]
        /\ index' \in [Entries -> 0..MaxIndex]
        /\ count' \in [Entries -> 0..CountMax]
        /\ home' \in [Entries -> AllHash]
    BY <1>1, <1>4 DEF CellType
  <2>2. /\ pc' \in [Threads -> {"idle"} \cup StorePcs \cup RemovePcs]
        /\ hashArg' \in [Threads -> AllHash]
        /\ refArg' \in [Threads -> 0..MaxIndex]
        /\ entryPtr' \in [Threads -> Entries \cup {NoEntry}]
    BY StoreAssumption DEF Restart, AllHash
  <2>3. contended' \in SUBSET AllHash
    BY DEF Restart, TypeOK
  <2>. QED  BY <1>1, <1>3, <2>1, <2>2, <2>3 DEF TypeOK
<1>9. FilesTypeOK'
  <2>1. nodeInfo' \in [Path -> Info \cup {NoInfo}]
    BY DEF Restart, LoadNodes, PersistenceTypeOK, SavedSound
  <2>2. metaPath' \in [Entries -> [Refs -> Path \cup {NoPath, Gone}]]
    BY <1>1, <1>4 DEF CellType
  <2>3. req' \in [Threads -> Request]
    BY BlankRequest DEF Restart
  <2>4. buffer' \in [Path -> Contents \cup {NoBuffer}] /\ crashed' \in BOOLEAN
    BY DEF Restart
  <2>5. overlap' \in SUBSET (AllHash \cup Path)
    BY <1>7 DEF Restart, FilesTypeOK
  <2>6. UNCHANGED <<disk, clients>>
    BY DEF Restart
  <2>. QED  BY <2>1, <2>2, <2>3, <2>4, <2>5, <2>6 DEF FilesTypeOK, disk, clients
<1>10. \A t \in Threads : req'[t] = Blank /\ pc'[t] = "idle"
  BY DEF Restart
<1>11. StageSound'
  <2>1. \A t \in Threads : RequestSound(req'[t])
    BY <1>10, BlankIsSound
  <2>. QED  BY <2>1 DEF StageSound, RequestSound
<1>12. TableSound'
  BY <1>1, <1>3, <1>5 DEF TableSound
<1>13. FreshCells' /\ KeysHandedOut'
  <2>1. FreshCells'
    BY <1>1, <1>6 DEF FreshCells, BlankCell
  <2>2. KeysHandedOut'
    BY <1>1, <1>4 DEF KeysHandedOut
  <2>. QED  BY <2>1, <2>2
<1>14. PointersSound' /\ Alone' /\ ProgressSound'
  BY <1>10 DEF PointersSound, Alone, ProgressSound, Busy
\* A quiet hash of the new process.
<1>15. ASSUME NEW h \in AllHash, h \notin contended', map.table[h] # NoEntry
       PROVE  /\ live'[map.table[h]] # {}
              /\ count'[map.table[h]] = Cardinality(live'[map.table[h]])
  <2>. DEFINE e == table[h]  f == map.table[h]
  <2>1. h \notin contended /\ h \notin Damage
    BY <1>15 DEF Restart
  <2>2. h \notin dirty /\ h \notin InHand /\ savedMeta # << >>
    BY <2>1 DEF Damage
  <2>3. SavedCell(map, h) = Cell(h)
    BY <1>2, <2>2 DEF SavedAgrees
  <2>4. e # NoEntry /\ map.cells[f].live = live[e] /\ map.cells[f].count = count[e]
    BY <1>15, <2>3 DEF SavedCell, Cell
  <2>5. live'[f] = live[e] /\ count'[f] = count[e]
    BY <1>1, <1>3, <1>5, <1>15, <2>4
  <2>6. WorkingOn(h) = {}
    BY <2>2 DEF WorkingOn, HashRemembered, InHand, InLookup, Stage
  <2>7. h \in Quiet /\ e \in allocated /\ home[e] = h
    BY <2>1, <2>4 DEF Quiet, TableSound
  <2>8. live[e] # {}
    BY <2>4, <2>6, <2>7 DEF EmptyEntryInHand
  <2>9. count[e] = Cardinality(live[e])
    BY <2>7 DEF CountExact
  <2>. QED  BY <2>5, <2>8, <2>9
<1>16. ASSUME NEW e \in allocated', home'[e] \in Quiet'
       PROVE  /\ count'[e] = Cardinality(live'[e])
              /\ table'[home'[e]] = e
  <2>1. PICK h \in AllHash : e = map.table[h] /\ e # NoEntry
    BY <1>1, <1>3
  <2>2. home'[e] = h
    BY <1>1, <1>3, <1>5, <2>1
  <2>3. h \notin contended'
    BY <1>16, <2>2 DEF Quiet
  <2>4. count'[e] = Cardinality(live'[e])
    BY <1>15, <2>1, <2>3
  <2>5. table'[home'[e]] = e
    BY <1>1, <2>1, <2>2
  <2>. QED  BY <2>4, <2>5
<1>17. CountExact' /\ NothingLost'
  BY <1>16 DEF CountExact, NothingLost
<1>18. EmptyEntryInHand'
  <2>1. ASSUME NEW h \in AllHash, h \notin contended', table'[h] # NoEntry
        PROVE  live'[table'[h]] # {}
    BY <1>1, <1>15, <2>1 DEF EmptyEntryInHand
  <2>. QED  BY <2>1 DEF EmptyEntryInHand, Quiet
<1>19. FilesIInv'
  BY <1>8, <1>9, <1>11, <1>12, <1>13, <1>14, <1>17, <1>18
<1>20. HashRemembered'
  BY <1>10, BlankRequest DEF HashRemembered, Busy, Stage
<1>21. PersistenceTypeOK'
  <2>1. /\ main' = "starting" /\ save' = [s \in Savers |-> "idle"]
        /\ dirty' = {} /\ since' = {} /\ UNCHANGED <<savedNodes, savedMeta, rounds>>
    BY DEF Restart
  <2>2. restarts' \in 0..MaxRestarts
    BY PersistenceAssumption DEF Restart, PersistenceTypeOK
  <2>. QED  BY <1>9, <2>1, <2>2 DEF PersistenceTypeOK, SavedSound, SaveStages
<1>22. SavedAgrees'
  <2>1. ASSUME NEW h \in AllHash PROVE SavedCell(map, h) = Cell(h)'
    <3>1. CASE map.table[h] = NoEntry
      BY <1>1, <3>1 DEF SavedCell, Cell
    <3>2. CASE map.table[h] # NoEntry
      BY <1>1, <1>3, <1>5, <3>2 DEF SavedCell, Cell
    <3>. QED  BY <3>1, <3>2
  <2>2. UNCHANGED savedMeta
    BY DEF Restart
  <2>. QED  BY <1>2, <2>1, <2>2 DEF SavedAgrees
<1>23. ClosingSaves'
  BY DEF Restart, ClosingSaves
<1>24. StartingSound'
  <2>1. allocated' = Reachable'
    BY <1>1, <1>3 DEF Reachable
  <2>2. \A e \in Entries \ allocated' : home'[e] = NoHash
    BY <1>1, <1>6 DEF BlankCell
  <2>. QED  BY <1>10, <2>1, <2>2, BlankRequest DEF StartingSound, Busy, Stage
<1>. QED  BY <1>19, <1>20, <1>21, <1>22, <1>23, <1>24

\* Removing an underlying file leaves the store and the snapshots alone.
LEMMA RemoveUnderlyingKeeps ==
    ASSUME PersistenceIInv, NEW p \in Path, RemoveUnderlying(p)
    PROVE  PersistenceIInv'
<1>. USE DEF PersistenceIInv, FilesIInv
<1>1. /\ UNCHANGED <<vars, tmp, data, nodeInfo, metaPath, buffer, req, crashed, want, used,
                     overlap, main, saves, restarts, dirty, since>>
      /\ main = "starting"
      /\ names' = [names EXCEPT ![p] = NoFile]
      /\ own' = [own EXCEPT ![p] = NoFile]
  BY DEF RemoveUnderlying
<1>2. IInv'
  BY <1>1, NextKeepsIInv
<1>3. FilesTypeOK'
  BY <1>1 DEF FilesTypeOK
<1>4. StageSound'
  BY <1>1 DEF StageSound
<1>5. HashRemembered'
  BY <1>1, RememberedUnchanged
<1>6. PersistenceTypeOK'
  BY <1>1, <1>3 DEF PersistenceTypeOK, SavedSound, saves
<1>7. SavedAgrees'
  BY <1>1 DEF SavedAgrees, saves, vars, heap, Cell
<1>8. ClosingSaves'
  BY <1>1 DEF ClosingSaves
<1>9. StartingSound'
  BY <1>1 DEF StartingSound, vars, heap, Busy, Stage, Reachable
<1>. QED  BY <1>2, <1>3, <1>4, <1>5, <1>6, <1>7, <1>8, <1>9

-----------------------------------------------------------------------------
(* InsureIntegrity.                                                         *)

\* What is taken from an entry is in it, and ReferenceCount goes down by as much.
LEMMA RemovalArithmetic ==
    ASSUME FilesIInv, NEW h \in AllHash, table[h] # NoEntry,
           count[table[h]] = Cardinality(live[table[h]])
    PROVE  LET e == table[h]  n == Cardinality(MissingRefs(h))
               rest == live[e] \ MissingRefs(h) IN
           /\ n \in Nat /\ MissingRefs(h) \subseteq live[e]
           /\ MissingRefs(h) # {} => n > 0
           /\ Cardinality(rest) = count[e] - n
           /\ (count[e] - n) % (CountMax + 1) = Cardinality(rest)
           /\ rest = {} <=> count[e] <= n
<1>. USE DEF FilesIInv, IInv
<1>. DEFINE e == table[h]
            n == Cardinality(MissingRefs(h))
            rest == live[e] \ MissingRefs(h)
<1>1. e \in Entries /\ count[e] \in 0..CountMax
  BY DEF TypeOK
<1>2. MissingRefs(h) \subseteq live[e]
  BY DEF MissingRefs, Found
<1>3. IsFiniteSet(live[e])
  BY <1>1, LiveCardinality
<1>4. IsFiniteSet(MissingRefs(h)) /\ n \in Nat /\ (MissingRefs(h) # {} => n > 0)
  <2>1. IsFiniteSet(MissingRefs(h))
    BY <1>2, <1>3, FS_Subset
  <2>2. n \in Nat /\ (n = 0 <=> MissingRefs(h) = {})
    BY <2>1, FS_CardinalityType, FS_EmptySet
  <2>. QED  BY <2>1, <2>2
<1>5. IsFiniteSet(rest) /\ Cardinality(rest) = count[e] - n
  <2>1. live[e] \cap MissingRefs(h) = MissingRefs(h)
    BY <1>2
  <2>2. IsFiniteSet(rest) /\ Cardinality(rest) = Cardinality(live[e]) - Cardinality(live[e] \cap MissingRefs(h))
    BY <1>3, FS_Difference
  <2>. QED  BY <2>1, <2>2
<1>6. Cardinality(rest) \in Nat /\ (Cardinality(rest) = 0 <=> rest = {})
  BY <1>5, FS_CardinalityType, FS_EmptySet
<1>. HIDE DEF e, n, rest
<1>7. (count[e] - n) % (CountMax + 1) = count[e] - n
  BY <1>1, <1>4, <1>5, <1>6, StoreAssumption
<1>8. rest = {} <=> count[e] <= n
  BY <1>1, <1>4, <1>5, <1>6, StoreAssumption
<1>. QED  BY <1>2, <1>4, <1>5, <1>7, <1>8 DEF e, n, rest

\* The check takes the references of missing files from entries nobody is at
\* work on, and with the last one the entry.
LEMMA CheckIntegrityKeeps == ASSUME PersistenceIInv, CheckIntegrity PROVE PersistenceIInv'
<1>. USE DEF PersistenceIInv, FilesIInv, IInv
<1>1. /\ main = "starting" /\ main' = "serving"
      /\ nodeInfo' = [p \in Path |-> IF p \in Missing THEN NoInfo ELSE nodeInfo[p]]
      /\ live' = [e \in Entries |-> live[e] \ MissingRefs(home[e])]
      /\ count' = [e \in Entries |->
            (count[e] - Cardinality(MissingRefs(home[e]))) % (CountMax + 1)]
      /\ table' = [h \in AllHash |->
            IF MissingRefs(h) # {} /\ count[table[h]] \in 1..Cardinality(MissingRefs(h))
            THEN NoEntry ELSE table[h]]
      /\ UNCHANGED <<allocated, index, home, pc, locals, contended, disk, metaPath, buffer,
                     req, crashed, clients, overlap, saves, restarts>>
      /\ Remember
  BY DEF CheckIntegrity
<1>2. /\ \A t \in Threads : pc[t] = "idle" /\ Stage(t) = "idle"
      /\ allocated = Reachable
      /\ \A e \in Entries \ allocated : home[e] = NoHash
  BY <1>1 DEF StartingSound, Busy
<1>3. /\ table \in [AllHash -> Entries \cup {NoEntry}]
      /\ live \in [Entries -> SUBSET Refs] /\ count \in [Entries -> 0..CountMax]
      /\ home \in [Entries -> AllHash] /\ allocated \subseteq Entries
  BY DEF TypeOK
<1>4. MissingRefs(NoHash) = {} /\ Cardinality(MissingRefs(NoHash)) = 0
  BY FS_EmptySet DEF MissingRefs, Found
<1>5. ASSUME NEW h \in AllHash
      PROVE  Cardinality(MissingRefs(h)) \in Nat
  <2>1. MissingRefs(h) \subseteq Refs /\ IsFiniteSet(Refs)
    BY StoreAssumption, FS_Interval DEF MissingRefs, Refs
  <2>. QED  BY <2>1, FS_Subset, FS_CardinalityType
<1>6. TypeOK'
  <2>1. table' \in [AllHash -> Entries \cup {NoEntry}] /\ live' \in [Entries -> SUBSET Refs]
    BY <1>1, <1>3
  <2>2. ASSUME NEW e \in Entries PROVE count'[e] \in 0..CountMax
    <3>1. count[e] \in 0..CountMax /\ Cardinality(MissingRefs(home[e])) \in Nat
      BY <1>3, <1>5
    <3>2. \A c \in Int : c % (CountMax + 1) \in 0..CountMax
      BY StoreAssumption
    <3>3. count'[e] = (count[e] - Cardinality(MissingRefs(home[e]))) % (CountMax + 1)
      BY <1>1
    <3>. QED  BY <3>1, <3>2, <3>3, StoreAssumption
  <2>3. count' \in [Entries -> 0..CountMax]
    BY <1>1, <2>2
  <2>. QED  BY <1>1, <2>1, <2>3 DEF TypeOK, locals
<1>7. FilesTypeOK'
  <2>1. nodeInfo' \in [Path -> Info \cup {NoInfo}]
    BY <1>1 DEF FilesTypeOK
  <2>. QED  BY <1>1, <2>1 DEF FilesTypeOK, disk, clients
<1>8. StageSound'
  BY <1>1 DEF StageSound
<1>9. TableSound'
  BY <1>1 DEF TableSound
<1>10. FreshCells'
  <2>1. ASSUME NEW e \in Entries, e \notin allocated
        PROVE  live'[e] = {} /\ index'[e] = 0 /\ count'[e] = 0
    <3>1. home[e] = NoHash /\ live[e] = {} /\ index[e] = 0 /\ count[e] = 0
      BY <1>2, <2>1 DEF FreshCells
    <3>2. live'[e] = {} /\ index'[e] = 0
      BY <1>1, <3>1
    <3>3. count'[e] = (count[e] - Cardinality(MissingRefs(home[e]))) % (CountMax + 1)
      BY <1>1
    <3>4. count[e] - Cardinality(MissingRefs(home[e])) = 0
      BY <1>4, <3>1
    <3>5. 0 % (CountMax + 1) = 0
      BY StoreAssumption
    <3>. QED  BY <3>2, <3>3, <3>4, <3>5
  <2>. QED  BY <1>1, <2>1 DEF FreshCells
<1>11. KeysHandedOut'
  BY <1>1 DEF KeysHandedOut
<1>12. PointersSound' /\ Alone' /\ ProgressSound'
  BY <1>1, <1>2 DEF PointersSound, Alone, ProgressSound, Busy
\* A quiet hash with an entry: what is left is counted, and found while there
\* is any.
<1>13. ASSUME NEW h \in Quiet, table[h] # NoEntry
       PROVE  /\ count'[table[h]] = Cardinality(live'[table[h]])
              /\ live'[table[h]] # {} <=> table'[h] = table[h]
              /\ table'[h] \in {NoEntry, table[h]}
  <2>1. table[h] \in allocated /\ home[table[h]] = h /\ h \in AllHash /\ table[h] \in Entries
    BY <1>3, <1>13 DEF TableSound, Quiet
  <2>2. count[table[h]] = Cardinality(live[table[h]])
    BY <1>13, <2>1 DEF CountExact
  <2>3. live[table[h]] # {}
    BY <1>2, <1>13 DEF EmptyEntryInHand, WorkingOn, Busy
  <2>. DEFINE e == table[h]
              n == Cardinality(MissingRefs(h))
              rest == live[e] \ MissingRefs(h)
  <2>4. /\ n \in Nat
        /\ MissingRefs(h) # {} => n > 0
        /\ (count[e] - n) % (CountMax + 1) = Cardinality(rest)
        /\ rest = {} <=> count[e] <= n
    BY <1>13, <2>1, <2>2, RemovalArithmetic
  <2>5. live'[e] = rest /\ count'[e] = Cardinality(rest)
    BY <1>1, <2>1, <2>4
  <2>6. table'[h] = (IF MissingRefs(h) # {} /\ count[e] \in 1..n THEN NoEntry ELSE e)
    BY <1>1, <2>1
  <2>7. count[e] \in Nat /\ count[e] > 0
    <3>1. Cardinality(live[e]) = 0 <=> live[e] = {}
      BY <2>1, LiveCardinality
    <3>. QED  BY <1>3, <2>1, <2>2, <2>3, <3>1, StoreAssumption
  <2>8. rest = {} <=> table'[h] = NoEntry
    <3>1. CASE MissingRefs(h) = {}
      BY <1>13, <2>3, <2>6, <3>1
    <3>2. CASE MissingRefs(h) # {}
      <4>1. n > 0 /\ (count[e] \in 1..n <=> count[e] <= n)
        BY <2>4, <2>7, <3>2
      <4>. QED  BY <1>13, <2>4, <2>6, <3>2, <4>1
    <3>. QED  BY <3>1, <3>2
  <2>. QED  BY <1>13, <2>5, <2>6, <2>8
<1>14. CountExact' /\ NothingLost'
  <2>1. ASSUME NEW e \in allocated, home[e] \in Quiet
        PROVE  table[home[e]] = e /\ e # NoEntry
    BY <1>2, <2>1 DEF Reachable, TableSound
  <2>2. ASSUME NEW e \in allocated, home[e] \in Quiet
        PROVE  count'[e] = Cardinality(live'[e]) /\ (live'[e] # {} => table'[home[e]] = e)
    BY <1>13, <2>1, <2>2
  <2>. QED  BY <1>1, <2>2 DEF CountExact, NothingLost, Quiet
<1>15. EmptyEntryInHand'
  <2>1. ASSUME NEW h \in Quiet, table'[h] # NoEntry
        PROVE  live'[table'[h]] # {}
    <3>1. table[h] # NoEntry
      BY <1>1, <2>1 DEF Quiet
    <3>. QED  BY <1>13, <2>1, <3>1
  <2>. QED  BY <1>1, <2>1 DEF EmptyEntryInHand, Quiet
<1>16. HashRemembered'
  BY <1>1, <1>2 DEF HashRemembered, Busy, Stage
<1>17. PersistenceTypeOK'
  BY <1>1, <1>7, ChangedIsTyped DEF PersistenceTypeOK, SavedSound, Remember, saves
<1>18. SavedAgrees'
  <2>1. ASSUME NEW h \in AllHash, h \notin dirty', savedMeta # << >>
        PROVE  SavedCell(savedMeta[1], h) = Cell(h)'
    <3>1. h \notin dirty /\ Cell(h)' = Cell(h)
      BY <1>1, <2>1 DEF Remember, Changed
    <3>. QED  BY <2>1, <3>1 DEF SavedAgrees
  <2>2. UNCHANGED savedMeta
    BY <1>1 DEF saves
  <2>. QED  BY <2>1, <2>2 DEF SavedAgrees
<1>19. ClosingSaves' /\ StartingSound'
  BY <1>1 DEF ClosingSaves, StartingSound
<1>. QED  BY <1>6, <1>7, <1>8, <1>9, <1>10, <1>11, <1>12, <1>14, <1>15, <1>16, <1>17,
             <1>18, <1>19

-----------------------------------------------------------------------------
(* The store over restarts, under any workload.                             *)

LEMMA PersistenceInitEstablishesIInv == PersistenceInit => PersistenceIInv
<1>. SUFFICES ASSUME PersistenceInit PROVE PersistenceIInv
  OBVIOUS
<1>1. FilesIInv
  BY FilesInitEstablishesIInv DEF PersistenceInit
<1>2. PersistenceTypeOK
  BY <1>1, PersistenceAssumption
     DEF PersistenceInit, PersistenceTypeOK, SavedSound, FilesIInv, SaveStages
<1>3. HashRemembered
  BY BlankRequest DEF PersistenceInit, FilesInit, Init, HashRemembered, Busy, Stage
<1>4. SavedAgrees /\ ClosingSaves /\ StartingSound
  BY DEF PersistenceInit, SavedAgrees, ClosingSaves, StartingSound
<1>. QED  BY <1>1, <1>2, <1>3, <1>4 DEF PersistenceIInv

LEMMA PersistenceNextKeepsIInv ==
    PersistenceIInv /\ [PersistenceNext]_persistenceVars => PersistenceIInv'
<1>. SUFFICES ASSUME PersistenceIInv, [PersistenceNext]_persistenceVars PROVE PersistenceIInv'
  OBVIOUS
<1>1. CASE PersistenceNext
  BY <1>1, ServeKeeps, TickKeeps, CreateNodesFileKeeps, EncodeNodesKeeps,
     CreateMetadataFileKeeps, EncodeMetadataKeeps, UnmountKeeps, RestartKeeps,
     RemoveUnderlyingKeeps, CheckIntegrityKeeps DEF PersistenceNext, Exit, Crash
<1>2. CASE UNCHANGED persistenceVars
  <2>1. UNCHANGED <<filesVars, main, saves, restarts, dirty, since>>
    BY <1>2 DEF persistenceVars
  <2>2. FilesIInv' /\ HashRemembered' /\ \A h \in AllHash : Cell(h)' = Cell(h)
    BY <2>1, MemoryKeeps
  <2>3. PersistenceTypeOK'
    BY <2>1, <2>2 DEF PersistenceIInv, PersistenceTypeOK, SavedSound, saves, FilesIInv
  <2>4. SavedAgrees'
    BY <2>1, <2>2 DEF PersistenceIInv, SavedAgrees, saves
  <2>5. UNCHANGED <<nodeInfo, MetadataMap>>
    BY <2>1 DEF filesVars, vars, heap, MetadataMap, Reachable
  <2>6. ClosingSaves'
    BY <2>1, <2>5 DEF PersistenceIInv, ClosingSaves, NodesHeld, MetadataHeld, saves
  <2>7. StartingSound'
    BY <2>1 DEF PersistenceIInv, StartingSound, filesVars, vars, heap, Busy, Stage, Reachable
  <2>. QED  BY <2>2, <2>3, <2>4, <2>6, <2>7 DEF PersistenceIInv
<1>. QED  BY <1>1, <1>2

\* The inductive invariant holds in every reachable state, restarts included.
THEOREM PersistenceInductiveInvariant == PersistenceSpec => []PersistenceIInv
BY PersistenceInitEstablishesIInv, PersistenceNextKeepsIInv, PTL DEF PersistenceSpec

\* Over any number of crashes and restarts, on every hash that no crash has
\* damaged and that requests take turns on, metadata stays reachable, each
\* ReferenceCount is exact (after InsureIntegrity too), no entry is empty and
\* RetrieveRecent returns.
THEOREM StoreSurvives ==
    PersistenceSpec => [](CountExact /\ NothingLost /\ NoEmptyEntry /\ LoopTerminates)
<1>1. PersistenceIInv => CountExact /\ NothingLost /\ NoEmptyEntry /\ LoopTerminates
  BY DEF PersistenceIInv, FilesIInv, IInv, NoEmptyEntry, EmptyEntryInHand, LoopTerminates,
     ProgressSound, Busy
<1>. QED  BY <1>1, PersistenceInductiveInvariant, PTL

\* A file system that is unmounted comes back as it was.
THEOREM UnmountingKeepsEverything == PersistenceSpec => ExitKeepsEverything
<1>1. ASSUME PersistenceIInv, [PersistenceNext]_persistenceVars,
             main = "closing", save["exit"] = "done", ~NodesHeld, ~MetadataHeld,
             main' = "starting"
      PROVE  nodeInfo' = nodeInfo /\ \A h \in AllHash : Cell(h)' = Cell(h)
  <2>1. savedNodes = <<nodeInfo>> /\ savedMeta = <<MetadataMap>>
    BY <1>1 DEF PersistenceIInv, ClosingSaves
  <2>2. Restart
    BY <1>1 DEF PersistenceNext, Serve, Tick, CreateNodesFile, EncodeNodes,
       CreateMetadataFile, EncodeMetadata, Unmount, Exit, Crash, RemoveUnderlying,
       CheckIntegrity, persistenceVars
  <2>3. nodeInfo' = nodeInfo
    BY <2>1, <2>2, OneMap DEF Restart, LoadNodes
  <2>4. savedMeta # << >> /\ savedMeta[1] = MetadataMap
    BY <2>1, OneMap
  <2>5. ASSUME NEW h \in AllHash PROVE Cell(h)' = Cell(h)
    <3>1. table' = table
      BY <2>2, <2>4 DEF Restart, LoadMetadata, MetadataMap
    <3>2. CASE table[h] = NoEntry
      BY <3>1, <3>2 DEF Cell
    <3>3. CASE table[h] # NoEntry
      <4>1. table[h] \in Reachable /\ table[h] \in Entries
        BY <1>1, <3>3 DEF Reachable, PersistenceIInv, FilesIInv, IInv, TypeOK
      <4>2. /\ live'[table[h]] = live[table[h]]
            /\ index'[table[h]] = index[table[h]]
            /\ count'[table[h]] = count[table[h]]
            /\ metaPath'[table[h]] = metaPath[table[h]]
        BY <2>2, <2>4, <4>1 DEF Restart, LoadMetadata, MetadataMap
      <4>. QED  BY <3>1, <3>3, <4>2 DEF Cell
    <3>. QED  BY <3>2, <3>3
  <2>. QED  BY <2>3, <2>5
<1>. QED  BY <1>1, PersistenceInductiveInvariant, PTL DEF PersistenceSpec, ExitKeepsEverything

-----------------------------------------------------------------------------
(* No node info outlives its file, one request at a time.                    *)

OneRequest == \A t, u \in Threads : t = u

\* Stages at which the name is there that the request is about.
Named(t) ==
    Stage(t) \in {"create", "open", "pwrite", "released", "storing", "info", "link", "swap",
                  "fill", "dropping", "stat", "look", "attr", "rename", "unlink"}

NameSound(t) ==
    /\ Named(t) /\ req[t].path \in Path => names[req[t].path] # NoFile
    /\ Stage(t) \in {"released", "storing", "info", "link", "swap", "fill", "dropping"} =>
          req[t].to = req[t].path
    /\ Stage(t) = "swap" => tmp[req[t].to] # NoFile
    /\ Stage(t) = "linked" => nodeInfo[req[t].to] = NoInfo
    /\ Stage(t) \in {"unlink", "unlinking", "forget"} /\ ~req[t].exists =>
          nodeInfo[req[t].path] = NoInfo
    /\ Stage(t) \in {"linked", "renamed", "moved"} => names[req[t].to] # NoFile

\* A node info is without a file only while the request that took the file away
\* has not come to the node info.
MissingInHand ==
    \A p \in Path :
        nodeInfo[p] # NoInfo /\ names[p] = NoFile =>
            \E t \in Threads : Stage(t) \in {"renamed", "unlinking", "forget"} /\ req[t].path = p

NamesSound == MissingInHand /\ \A t \in Threads : NameSound(t)

\* A request that is the only one: what it leaves, where nothing was missing.
LEMMA OneMoves ==
    ASSUME OneRequest, NEW t \in Threads, MissingInHand' , NameSound(t)'
    PROVE  NamesSound'
BY DEF OneRequest, NamesSound

LEMMA ServedNamesSound ==
    ASSUME OneRequest, FilesIInv, NamesSound, [FilesNext]_filesVars
    PROVE  NamesSound'
<1>1. CASE UNCHANGED filesVars
  BY <1>1 DEF NamesSound, MissingInHand, NameSound, Named, Stage, filesVars, disk
<1>2. CASE FilesNext
  <2>1. PICK t \in Threads : ClientStep(t) \/ ReleaseStep(t) \/ NamespaceStep(t)
    BY <1>2 DEF FilesNext
  <2>0. /\ req \in [Threads -> Request] /\ RequestSound(req[t])
        /\ names \in [Path -> Inode \cup {NoFile}] /\ tmp \in [Path -> Inode \cup {NoFile}]
        /\ nodeInfo \in [Path -> Info \cup {NoInfo}]
        /\ NoFile \notin Inode /\ NoPath \notin Path /\ Gone \notin Path
    BY FilesAssumption DEF FilesIInv, FilesTypeOK, StageSound
  <2>2. NameSound(t) /\ MissingInHand
    BY DEF NamesSound
  <2>3. \A u \in Threads : u = t
    BY DEF OneRequest
  <2>4. Stage(t) \notin {"renamed", "unlinking", "forget"} =>
           \A p \in Path : nodeInfo[p] # NoInfo => names[p] # NoFile
    BY <2>2, <2>3 DEF MissingInHand
  <2>5. ASSUME UNCHANGED <<names, tmp, nodeInfo>>, NameSound(t)',
               Stage(t) \notin {"renamed", "unlinking", "forget"}
        PROVE  NamesSound'
    <3>1. MissingInHand'
      BY <2>4, <2>5 DEF MissingInHand
    <3>. QED  BY <2>5, <3>1, OneMoves
  <2>6. ASSUME ClientStep(t) PROVE NamesSound'
    <3>1. ASSUME NEW p \in Path, Create(t, p) PROVE NamesSound'
      <4>1. PICK i \in Inode : /\ names' = [names EXCEPT ![p] = i]
                               /\ req'[t].stage = "create" /\ req'[t].path = p
        <5>1. PICK i \in FreshInodes :
                 /\ names' = [names EXCEPT ![p] = i]
                 /\ req' = [req EXCEPT ![t] =
                       [Blank EXCEPT !.stage = "create", !.path = p, !.inode = i, !.file = i,
                                     !.info = InfoOf(p)]]
          BY <3>1 DEF Create
        <5>. QED  BY <2>0, <5>1 DEF FreshInodes, Blank
      <4>2. UNCHANGED nodeInfo /\ Stage(t) = "idle"
        BY <3>1 DEF Create, At
      <4>3. MissingInHand'
        BY <2>0, <2>4, <4>1, <4>2 DEF MissingInHand
      <4>4. NameSound(t)'
        BY <2>0, <4>1 DEF NameSound, Named, Stage
      <4>. QED  BY <4>3, <4>4, OneMoves
    <3>2. ASSUME NEW p \in Path, NEW q \in Path, LinkBegin(t, p, q) PROVE NamesSound'
      <4>1. /\ names' = [names EXCEPT ![q] = names[p]] /\ names[p] # NoFile /\ names[q] = NoFile
            /\ UNCHANGED nodeInfo /\ Stage(t) = "idle"
            /\ req'[t].stage = "linked" /\ req'[t].to = q
        BY <2>0, <3>2 DEF LinkBegin, At, Exists, Blank
      <4>2. MissingInHand'
        BY <2>0, <2>4, <4>1 DEF MissingInHand
      <4>3. NameSound(t)'
        BY <2>0, <2>4, <4>1 DEF NameSound, Named, Stage
      <4>. QED  BY <4>2, <4>3, OneMoves
    <3>3. ASSUME NEW p \in Path, NEW trunc \in BOOLEAN, Open(t, p, trunc) PROVE NamesSound'
      <4>1. /\ UNCHANGED <<names, tmp, nodeInfo>> /\ Stage(t) = "idle" /\ names[p] # NoFile
            /\ req'[t].stage = "open" /\ req'[t].path = p
        BY <2>0, <3>3 DEF Open, At, Exists, Blank
      <4>. QED  BY <2>5, <4>1 DEF NameSound, Named, Stage
    <3>4. ASSUME NEW p \in Path, NEW q \in Path,
                 LookupBegin(t, p) \/ UnlinkBegin(t, p) \/ RenameBegin(t, p, q)
          PROVE  NamesSound'
      <4>1. /\ UNCHANGED <<names, tmp, nodeInfo>> /\ Stage(t) = "idle" /\ names[p] # NoFile
            /\ req'[t].stage \in {"stat", "unlink", "rename"} /\ req'[t].path = p
            /\ req'[t].stage = "unlink" => req'[t].exists = (nodeInfo[p] # NoInfo)
        <5>1. CASE LookupBegin(t, p)
          BY <2>0, <5>1 DEF LookupBegin, At, Exists, Blank, disk
        <5>2. CASE UnlinkBegin(t, p)
          BY <2>0, <5>2 DEF UnlinkBegin, At, Exists, Blank, disk
        <5>3. CASE RenameBegin(t, p, q)
          BY <2>0, <5>3 DEF RenameBegin, At, Exists, Blank, disk
        <5>. QED  BY <3>4, <5>1, <5>2, <5>3
      <4>. QED  BY <2>2, <2>5, <4>1 DEF NameSound, Named, Stage
    <3>5. ASSUME (\E c \in Chunk : HashChunk(t, c)) \/ (\E off \in 0..MaxWrites : PwriteChunk(t, off))
          PROVE  NamesSound'
      <4>1. UNCHANGED <<names, tmp, nodeInfo>> /\ Stage(t) \in {"open", "pwrite"}
        BY <3>5 DEF HashChunk, PwriteChunk, At, disk
      <4>2. req'[t].stage \in {"open", "pwrite"} /\ req'[t].path = req[t].path
        BY <2>0, <3>5 DEF HashChunk, PwriteChunk, Goto, Request
      <4>. QED  BY <2>2, <2>5, <4>1, <4>2 DEF NameSound, Named, Stage
    <3>. QED  BY <2>6, <3>1, <3>2, <3>3, <3>4, <3>5 DEF ClientStep
  <2>7. ASSUME ReleaseStep(t) PROVE NamesSound'
    <3>1. CASE SwapInDuplicate(t)
      <4>1. /\ Stage(t) = "swap" /\ req[t].to = req[t].path /\ tmp[req[t].to] # NoFile
            /\ names' \in {names, [names EXCEPT ![req[t].to] = tmp[req[t].to]]}
            /\ UNCHANGED nodeInfo
            /\ req'[t].stage = "fill" /\ req'[t].path = req[t].path /\ req'[t].to = req[t].to
        BY <2>0, <2>2, <3>1 DEF SwapInDuplicate, At, Goto, disk, NameSound
      <4>2. MissingInHand'
        BY <2>0, <2>4, <4>1 DEF MissingInHand
      <4>3. NameSound(t)'
        BY <2>0, <2>2, <4>1 DEF NameSound, Named, Stage
      <4>. QED  BY <4>2, <4>3, OneMoves
    <3>2. CASE UpdateInfo(t)
      <4>1. /\ Stage(t) = "info" /\ req[t].to = req[t].path /\ UNCHANGED <<names, tmp>>
            /\ req'[t].stage \in {"link", "fill", "dropping"}
            /\ req'[t].path = req[t].path /\ req'[t].to = req[t].to
        <5>1. Stage(t) = "info" /\ req[t].to = req[t].path /\ UNCHANGED <<names, tmp>>
          BY <2>2, <3>2 DEF UpdateInfo, At, disk, NameSound
        <5>2. PICK s \in {"link", "fill", "dropping"} : Goto(t, s)
          BY <3>2 DEF UpdateInfo, DropNew
        <5>. QED  BY <2>0, <5>1, <5>2 DEF Goto, Request
      <4>2. \A p \in Path : nodeInfo'[p] # NoInfo => nodeInfo[p] # NoInfo
        BY <2>0, <3>2 DEF UpdateInfo
      <4>3. MissingInHand'
        BY <2>4, <4>1, <4>2 DEF MissingInHand
      <4>4. NameSound(t)'
        BY <2>2, <4>1 DEF NameSound, Named, Stage
      <4>. QED  BY <4>3, <4>4, OneMoves
    <3>3. CASE LinkOriginal(t)
      <4>1. /\ Stage(t) = "link" /\ UNCHANGED <<names, nodeInfo>>
            /\ req'[t].stage = "swap" /\ req'[t].path = req[t].path /\ req'[t].to = req[t].to
            /\ tmp' = [tmp EXCEPT ![req[t].to] = names[PathOf(req[t].rec)]]
            /\ names[PathOf(req[t].rec)] # NoFile
        BY <2>0, <3>3 DEF LinkOriginal, CanLink, Exists, At, Goto
      <4>2. req[t].to \in Path
        BY <2>0, <3>3, <4>1 DEF LinkOriginal, CanLink, RequestSound, Stage
      <4>3. MissingInHand'
        BY <2>4, <4>1 DEF MissingInHand
      <4>4. NameSound(t)'
        BY <2>0, <2>2, <4>1, <4>2 DEF NameSound, Named, Stage
      <4>. QED  BY <4>3, <4>4, OneMoves
    <3>4. CASE TakeBuffer(t)
      <4>1. /\ UNCHANGED <<names, tmp, nodeInfo>> /\ Stage(t) = "open"
            /\ req'[t].stage = "released" /\ req'[t].path = req[t].path /\ req'[t].to = req[t].path
        BY <2>0, <3>4 DEF TakeBuffer, At, disk
      <4>. QED  BY <2>2, <2>5, <4>1 DEF NameSound, Named, Stage
    <3>5. CASE ~(SwapInDuplicate(t) \/ UpdateInfo(t) \/ LinkOriginal(t) \/ TakeBuffer(t))
      <4>1. /\ UNCHANGED <<names, tmp, nodeInfo>>
            /\ Stage(t) \in {"released", "storing", "link", "fill", "dropping"}
        BY <2>7, <3>5 DEF ReleaseStep, LookupOldMetadata, ReleaseTest, ReleaseCreateEntry,
           ReleaseLookupEntry, ReleaseRecent, ReleaseNewMetadata, LinkFails, FillMetadata, Drop,
           At, disk
      <4>2. \/ req'[t] = Blank
            \/ /\ req'[t].stage \in {"released", "storing", "info", "link", "fill", "dropping"}
               /\ req'[t].path = req[t].path /\ req'[t].to = req[t].to
        <5>0. req[t] \in Request
          BY <2>0
        <5>1. CASE LookupOldMetadata(t) \/ ReleaseTest(t)
          BY <2>0, <5>0, <5>1 DEF LookupOldMetadata, ReleaseTest, At, Stage, Request
        <5>2. CASE ReleaseCreateEntry(t) \/ ReleaseLookupEntry(t)
          BY <2>0, <4>1, <5>2 DEF ReleaseCreateEntry, ReleaseLookupEntry, Return, Stage
        <5>3. CASE ReleaseRecent(t) \/ ReleaseNewMetadata(t)
          BY <2>0, <5>0, <5>3 DEF ReleaseRecent, ReleaseNewMetadata, At, Stage, Request
        <5>4. CASE LinkFails(t)
          BY <2>0, <5>0, <5>4 DEF LinkFails, DropNew, Goto, Request
        <5>5. CASE FillMetadata(t)
          BY <2>0, <5>0, <5>5 DEF FillMetadata, DropNew, Return, Goto, Request
        <5>6. CASE Drop(t)
          BY <2>0, <4>1, <5>6 DEF Drop, Return, Stage
        <5>. QED  BY <2>7, <3>5, <5>1, <5>2, <5>3, <5>4, <5>5, <5>6 DEF ReleaseStep
      <4>3. NameSound(t)'
        BY <2>2, <4>1, <4>2 DEF NameSound, Named, Stage, Blank
      <4>. QED  BY <2>5, <4>1, <4>3
    <3>. QED  BY <3>1, <3>2, <3>3, <3>4, <3>5
  <2>8. ASSUME NamespaceStep(t) PROVE NamesSound'
    <3>1. CASE CreateStoresInfo(t)
      <4>1. /\ Stage(t) = "create" /\ UNCHANGED <<names, tmp>> /\ req[t].path \in Path
            /\ nodeInfo' \in {nodeInfo, [nodeInfo EXCEPT ![req[t].path] = NewInfo]}
            /\ req'[t].stage \in {"create", "open"} /\ req'[t].path = req[t].path
        BY <2>0, <3>1 DEF CreateStoresInfo, At, Goto, disk, RequestSound, Stage, Request
      <4>2. MissingInHand'
        BY <2>0, <2>2, <2>4, <4>1 DEF MissingInHand, NameSound, Named
      <4>3. NameSound(t)'
        BY <2>2, <4>1 DEF NameSound, Named, Stage
      <4>. QED  BY <4>2, <4>3, OneMoves
    <3>2. CASE LookupStoresInfo(t)
      <4>1. /\ Stage(t) = "look" /\ UNCHANGED <<names, tmp>> /\ req[t].path \in Path
            /\ nodeInfo' = [nodeInfo EXCEPT ![req[t].path] = NewInfo] /\ req'[t] = Blank
        BY <2>0, <3>2 DEF LookupStoresInfo, At, Return, disk, RequestSound, Stage
      <4>2. MissingInHand'
        BY <2>0, <2>2, <2>4, <4>1 DEF MissingInHand, NameSound, Named
      <4>3. NameSound(t)'
        BY <4>1 DEF NameSound, Named, Stage, Blank
      <4>. QED  BY <4>2, <4>3, OneMoves
    <3>10. CASE LookupReadsInfo(t) \/ LookupFills(t)
      <4>1. Stage(t) \in {"stat", "attr"} /\ UNCHANGED <<names, tmp, nodeInfo>>
        BY <3>10 DEF LookupReadsInfo, LookupFills, At, disk
      <4>2. \/ req'[t].stage \in {"look", "attr"} /\ req'[t].path = req[t].path
            \/ req'[t].stage = "idle"
        <5>1. CASE LookupReadsInfo(t)
          BY <2>0, <5>1 DEF LookupReadsInfo, Request
        <5>2. CASE LookupFills(t)
          BY <2>0, <5>2 DEF LookupFills, At, Return, Blank, Stage
        <5>. QED  BY <3>10, <5>1, <5>2
      <4>3. NameSound(t)'
        BY <2>2, <4>1, <4>2 DEF NameSound, Named, Stage
      <4>. QED  BY <2>5, <4>1, <4>3
    <3>3. CASE LinkStoresInfo(t)
      <4>1. Stage(t) = "linked" /\ req[t].path \in Path /\ req[t].to \in Path /\ req'[t] = Blank
        BY <2>0, <3>3 DEF LinkStoresInfo, At, Return, RequestSound, Stage
      <4>2. \/ nodeInfo' = [nodeInfo EXCEPT ![req[t].to] = nodeInfo[req[t].path]]
               /\ names' = names /\ names[req[t].to] # NoFile
            \/ nodeInfo' = nodeInfo /\ names' = [names EXCEPT ![req[t].to] = NoFile]
        BY <2>2, <3>3, <4>1 DEF LinkStoresInfo, NameSound
      <4>3. MissingInHand'
        BY <2>0, <2>2, <2>4, <4>1, <4>2 DEF MissingInHand, NameSound
      <4>4. NameSound(t)'
        BY <4>1 DEF NameSound, Named, Stage, Blank
      <4>. QED  BY <4>3, <4>4, OneMoves
    <3>4. CASE RenameFile(t)
      <4>. DEFINE p == req[t].path  q == req[t].to
      <4>1. /\ Stage(t) = "rename" /\ p \in Path /\ q \in Path /\ UNCHANGED nodeInfo
            /\ req'[t].stage = "renamed" /\ req'[t].path = p /\ req'[t].to = q
            /\ names' = IF names[p] = names[q] THEN names
                        ELSE [names EXCEPT ![q] = names[p], ![p] = NoFile]
        BY <2>0, <3>4 DEF RenameFile, At, Goto, RequestSound, Stage
      <4>2. names[p] # NoFile
        BY <2>2, <4>1 DEF NameSound, Named
      <4>3. MissingInHand'
        BY <2>0, <2>4, <4>1, <4>2 DEF MissingInHand, Stage
      <4>4. NameSound(t)'
        BY <2>0, <4>1, <4>2 DEF NameSound, Named, Stage
      <4>. QED  BY <4>3, <4>4, OneMoves
    <3>5. CASE RenameRemovesInfo(t)
      <4>1. /\ Stage(t) = "renamed" /\ req[t].path \in Path /\ UNCHANGED <<names, tmp>>
            /\ nodeInfo' = [nodeInfo EXCEPT ![req[t].path] = NoInfo]
            /\ req'[t].stage = "moved" /\ req'[t].to = req[t].to
        BY <2>0, <3>5 DEF RenameRemovesInfo, At, Goto, disk, RequestSound, Stage
      <4>2. MissingInHand'
        BY <2>0, <2>2, <2>3, <4>1 DEF MissingInHand, Stage
      <4>3. NameSound(t)'
        BY <2>2, <4>1 DEF NameSound, Named, Stage
      <4>. QED  BY <4>2, <4>3, OneMoves
    <3>6. CASE RenameStoresInfo(t)
      <4>1. /\ Stage(t) = "moved" /\ req[t].to \in Path /\ UNCHANGED <<names, tmp>>
            /\ nodeInfo' = [nodeInfo EXCEPT ![req[t].to] = req[t].info]
            /\ req'[t] = Blank
        BY <2>0, <3>6 DEF RenameStoresInfo, Moved, At, disk, RequestSound, Stage
      <4>2. MissingInHand'
        BY <2>0, <2>2, <2>4, <4>1 DEF MissingInHand, NameSound
      <4>3. NameSound(t)'
        BY <4>1 DEF NameSound, Named, Stage, Blank
      <4>. QED  BY <4>2, <4>3, OneMoves
    <3>7. CASE UnlinkFile(t)
      <4>1. /\ Stage(t) = "unlink" /\ req[t].path \in Path /\ UNCHANGED nodeInfo
            /\ names' = [names EXCEPT ![req[t].path] = NoFile]
            /\ req'[t].stage \in {"unlinking", "forget"} /\ req'[t].path = req[t].path
            /\ req'[t].exists = req[t].exists
        <5>1. /\ Stage(t) = "unlink" /\ req[t].path \in Path /\ UNCHANGED nodeInfo
              /\ names' = [names EXCEPT ![req[t].path] = NoFile]
          BY <2>0, <3>7 DEF UnlinkFile, At, RequestSound, Stage
        <5>2. PICK s \in {"unlinking", "forget"} : Goto(t, s)
          BY <3>7 DEF UnlinkFile
        <5>. QED  BY <2>0, <5>1, <5>2 DEF Goto, Request
      <4>2. MissingInHand'
        BY <2>0, <2>4, <4>1 DEF MissingInHand, Stage
      <4>3. NameSound(t)'
        BY <2>2, <4>1 DEF NameSound, Named, Stage
      <4>. QED  BY <4>2, <4>3, OneMoves
    <3>8. CASE UnlinkRemoves(t)
      <4>1. /\ Stage(t) = "unlinking" /\ UNCHANGED <<names, tmp, nodeInfo>>
            /\ req'[t].stage \in {"unlinking", "forget"} /\ req'[t].path = req[t].path
            /\ req'[t].exists = req[t].exists
        <5>1. Stage(t) = "unlinking" /\ UNCHANGED <<names, tmp, nodeInfo>>
          BY <3>8 DEF UnlinkRemoves, At, disk
        <5>2. PICK s \in {"unlinking", "forget"} : Goto(t, s)
          BY <3>8 DEF UnlinkRemoves
        <5>. QED  BY <2>0, <5>1, <5>2 DEF Goto, Request
      <4>2. NameSound(t)'
        BY <2>2, <4>1 DEF NameSound, Named, Stage
      <4>3. MissingInHand'
        BY <2>2, <2>3, <4>1 DEF MissingInHand, Stage
      <4>. QED  BY <4>2, <4>3, OneMoves
    <3>9. CASE UnlinkForgets(t)
      <4>1. /\ Stage(t) = "forget" /\ req[t].path \in Path /\ UNCHANGED <<names, tmp>>
            /\ nodeInfo' = [nodeInfo EXCEPT ![req[t].path] = NoInfo]
            /\ req'[t] = Blank
        <5>1. /\ Stage(t) = "forget" /\ req[t].path \in Path /\ UNCHANGED <<names, tmp>>
              /\ req'[t] = Blank
          BY <2>0, <3>9 DEF UnlinkForgets, Moved, At, disk, RequestSound, Stage
        <5>2. ~req[t].exists => nodeInfo[req[t].path] = NoInfo
          BY <2>2, <5>1 DEF NameSound
        <5>3. nodeInfo' = [nodeInfo EXCEPT ![req[t].path] = NoInfo]
          BY <2>0, <3>9, <5>1, <5>2 DEF UnlinkForgets
        <5>. QED  BY <5>1, <5>3
      <4>2. MissingInHand'
        BY <2>0, <2>2, <2>3, <4>1 DEF MissingInHand
      <4>3. NameSound(t)'
        BY <4>1 DEF NameSound, Named, Stage, Blank
      <4>. QED  BY <4>2, <4>3, OneMoves
    <3>. QED  BY <2>8, <3>1, <3>2, <3>3, <3>4, <3>5, <3>6, <3>7, <3>8, <3>9,
             <3>10 DEF NamespaceStep
  <2>. QED  BY <2>1, <2>6, <2>7, <2>8
<1>. QED  BY <1>1, <1>2

LEMMA PersistentNamesSound ==
    ASSUME OneRequest, PersistenceIInv, main # "starting" => NamesSound,
           [PersistenceNext]_persistenceVars
    PROVE  main' # "starting" => NamesSound'
<1>. SUFFICES ASSUME main' # "starting" PROVE NamesSound'
  OBVIOUS
<1>1. CASE main # "starting"
  <2>1. [FilesNext]_filesVars
    BY <1>1 DEF PersistenceNext, Serve, Tick, CreateNodesFile, EncodeNodes, CreateMetadataFile,
       EncodeMetadata, Unmount, Exit, Crash, Restart, RemoveUnderlying, CheckIntegrity,
       persistenceVars
  <2>. QED  BY <1>1, <2>1, ServedNamesSound DEF PersistenceIInv
<1>2. CASE main = "starting"
  <2>1. CheckIntegrity
    BY <1>2 DEF PersistenceNext, Serve, Tick, Saving, CreateNodesFile, EncodeNodes,
       CreateMetadataFile, EncodeMetadata, Unmount, Exit, Crash, RemoveUnderlying,
       persistenceVars
  <2>2. /\ UNCHANGED <<names, tmp, req>>
        /\ nodeInfo' = [p \in Path |-> IF p \in Missing THEN NoInfo ELSE nodeInfo[p]]
    BY <2>1 DEF CheckIntegrity, disk
  <2>3. \A t \in Threads : Stage(t)' = "idle"
    BY <1>2, <2>2 DEF PersistenceIInv, StartingSound, Stage
  <2>4. MissingInHand'
    BY <2>2 DEF MissingInHand, Missing
  <2>. QED  BY <2>3, <2>4 DEF NamesSound, NameSound, Named
<1>. QED  BY <1>1, <1>2

\* When requests come one at a time, whatever they are, a node info whose path no request
\* uses names a file that exists, also after files were removed between two processes.
THEOREM NodesHaveFiles ==
    ASSUME \A t, u \in Threads : t = u
    PROVE  PersistenceSpec => []NodesExist
<1>. OneRequest
  BY DEF OneRequest
<1>1. PersistenceInit => (main # "starting" => NamesSound)
  BY DEF PersistenceInit, FilesInit, NamesSound, MissingInHand, NameSound, Named, Stage, Blank
<1>2. PersistenceIInv /\ (main # "starting" => NamesSound) /\ [PersistenceNext]_persistenceVars
         => (main # "starting" => NamesSound)'
  BY PersistentNamesSound
<1>3. (main # "starting" => NamesSound) => NodesExist
  <2>. SUFFICES ASSUME NamesSound, NEW p \in Path, Settled(p), nodeInfo[p] # NoInfo
       PROVE  Exists(p)
    BY DEF NodesExist
  <2>. QED  BY DEF NamesSound, MissingInHand, Settled, Exists
<1>. QED  BY <1>1, <1>2, <1>3, PersistenceInductiveInvariant, PTL DEF PersistenceSpec

-----------------------------------------------------------------------------
(* Files, node infos and metadata over restarts, for clients that write each*)
(* file once.  Memory keeps CalmFiles' invariant; the node infos and the   *)
(* metadata are saved at different times, so the saved maps need not lead to*)
(* each other.  But where one of them is older, the content that its node  *)
(* info leads to counts as changed or is in the hands of a request, so that a*)
(* crash now would damage that content and not leave it to the next process.*)

\* Between crash and check: a node info that is calm leads to metadata, and only
\* its file may have gone.
StartingFound ==
    /\ dirty = {} /\ since = {}
    /\ \A p \in Path :
          /\ p \in Calm =>
                /\ own[p] = NoFile <=> names[p] = NoFile
                /\ own[p] # NoFile => nodeInfo[p] # NoInfo
                /\ tmp[p] = NoFile
          /\ nodeInfo[p] # NoInfo /\ nodeInfo[p].ref # 0 /\ nodeInfo[p].hash \in Calm \cap Hash =>
                nodeInfo[p].ref \in LiveOf(nodeInfo[p].hash)

\* CalmFiles' invariant, which the check completes.
NodesLed ==
    /\ \A t \in Threads : HandleFound(t) /\ LookFound(t) /\ UnlinkFound(t) /\ LinkFound(t)
    /\ \A p \in Path : ContentFound(p) /\ InfoFound(p)
    /\ \A h \in Hash : MetadataFound(h)
    /\ Shared

CalmKept ==
    /\ FilesApart /\ Meetings /\ StoreFound /\ NodesLed /\ ZeroFound(nodeInfo)
    /\ main # "starting" => \A p \in Path : PathFound(p)
    /\ main = "starting" => StartingFound

\* Where the saves are: a file that is open is empty, and nobody else has it open.
SavesSound ==
    /\ main = "serving" => save["exit"] = "idle"
    /\ main = "closing" => \A t \in Threads : Stage(t) = "idle"
    /\ main = "starting" => \A s \in Savers : save[s] = "idle"
    /\ \A s \in Savers :
          /\ save[s] = "nodesOpen" => savedNodes = << >> /\ \A u \in Savers : save[u] = "nodesOpen" => u = s
          /\ save[s] = "metaOpen" => savedMeta = << >> /\ \A u \in Savers : save[u] = "metaOpen" => u = s

\* A writer has no second path and no hash yet.
WritersTo == \A t \in Threads : Writing(t) => req[t].to = NoPath /\ req[t].hash = NoHash

\* The regular save is between the node infos and the metadata.
Late == save["ticker"] \in {"meta", "metaOpen"}

\* The node infos that are saved are those of memory, but for what has changed.
NodesAgree ==
    savedNodes # << >> =>
        /\ \A p \in Path \ dirty : savedNodes[1][p] = nodeInfo[p]
        /\ Late => \A p \in Path \ since : savedNodes[1][p] = nodeInfo[p]

SavedMapsFound ==
    /\ savedMeta # << >> =>
          \A e \in DOMAIN savedMeta[1].cells : \A r \in Refs :
              r > savedMeta[1].cells[e].index => savedMeta[1].cells[e].path[r] = NoPath
    /\ savedNodes # << >> =>
          /\ ZeroFound(savedNodes[1])
          /\ \A p \in Path :
                LET info == savedNodes[1][p] IN info # NoInfo /\ info.ref = 0 => info.hash = NoHash

\* An Unlink of the file at p is about to take metadata of h out of the store.
Removing(p, h) ==
    \E t \in Threads :
        /\ Stage(t) = "unlinking" /\ pc[t] \in {"find", "dec"}
        /\ req[t].path = p /\ req[t].hash = h

\* A path has not changed without the content its node info leads to.
Leads(p, info, changed) ==
    info # NoInfo /\ info.ref # 0 /\ info.hash \in Calm \cap Hash =>
        info.hash \in changed \/ Removing(p, info.hash)

\* A request that has changed the metadata of a content and not yet all of its path.
HasTouched(t) ==
    HasNew(t) \/ Stage(t) = "forget" \/ (Stage(t) = "unlinking" /\ pc[t] \notin {"find", "dec"})

Touched(changed) ==
    \A t \in Threads :
        HasTouched(t) /\ req[t].hash \in Calm \cap Hash => req[t].hash \in changed

ChangesLead ==
    /\ Touched(dirty) /\ Touched(since)
    /\ \A p \in Path \cap dirty : Leads(p, nodeInfo[p], dirty)
    /\ \A p \in Path \cap since : Leads(p, nodeInfo[p], since)
    /\ savedNodes # << >> =>
          /\ \A p \in Path \cap dirty : Leads(p, savedNodes[1][p], dirty)
          /\ Late => \A p \in Path \cap since : Leads(p, savedNodes[1][p], since)

\* What every step keeps.
RestartsIInv ==
    /\ PersistenceIInv /\ CalmKept /\ SavesSound /\ WritersTo
    /\ NodesAgree /\ SavedMapsFound /\ ChangesLead

-----------------------------------------------------------------------------
(* Memory, while requests are served and while it is saved.                *)

\* A process that serves or closes has the invariant of CalmFiles.
LEMMA ServingIsCalm == ASSUME RestartsIInv, main # "starting" PROVE CalmIInv
BY DEF RestartsIInv, PersistenceIInv, CalmKept, NodesLed, NodesFound, CalmIInv

\* Requests keep it.
LEMMA RequestsKeepCalm ==
    ASSUME OnceWorkload, RestartsIInv, main # "starting", main' # "starting",
           [FilesNext]_filesVars
    PROVE  CalmKept'
<1>1. CalmIInv
  BY ServingIsCalm
<1>2. FilesApart' /\ Meetings' /\ StoreFound' /\ NodesFound' /\ ZeroFound(nodeInfo)'
  BY <1>1, NextStaysCalm, FilesNextKeepsZero
<1>. QED  BY <1>2 DEF CalmKept, NodesLed, NodesFound

\* A writer's request is as Create made it.
LEMMA WritersStay ==
    ASSUME OnceWorkload, CalmIInv, WritersTo, [FilesNext]_filesVars
    PROVE  WritersTo'
<1>. SUFFICES ASSUME NEW u \in Threads, Writing(u)' PROVE req'[u].to = NoPath /\ req'[u].hash = NoHash
  BY DEF WritersTo
<1>1. CASE UNCHANGED filesVars
  BY <1>1 DEF filesVars, WritersTo, Writing, Stage
<1>2. CASE FilesNext
  <2>0. PICK t \in Threads : OnceStep(t)
    BY <1>2, StepsAreOnceSteps DEF CalmIInv
  <2>1. req \in [Threads -> Request] /\ OthersKept(t)
    BY <2>0, OnceStepsAlone DEF CalmIInv, FilesIInv, FilesTypeOK
  <2>2. CASE u # t
    BY <2>1, <2>2 DEF OthersKept, WritersTo, Writing, Stage
  <2>3. CASE u = t
    <3>1. CASE Writing(t) /\ req'[t].to = req[t].to /\ req'[t].hash = req[t].hash
      BY <2>3, <3>1 DEF WritersTo
    <3>2. ASSUME NEW p \in Path, Create(t, p) PROVE req'[t].to = NoPath /\ req'[t].hash = NoHash
      <4>1. PICK i : req' = [req EXCEPT ![t] =
                [Blank EXCEPT !.stage = "create", !.path = p, !.inode = i, !.file = i, !.info = InfoOf(p)]]
        BY <3>2 DEF Create
      <4>. QED  BY <2>1, <4>1 DEF Blank
    <3>3. ASSUME CreateStoresInfo(t) \/ \E off \in 0..MaxWrites : PwriteChunk(t, off)
          PROVE  Writing(t) /\ req'[t].to = req[t].to /\ req'[t].hash = req[t].hash
      BY <2>1, <3>3 DEF CreateStoresInfo, PwriteChunk, Goto, At, Writing, Request
    <3>4. ASSUME NEW c \in Chunk, HashChunk(t, c)
          PROVE  Writing(t) /\ req'[t].to = req[t].to /\ req'[t].hash = req[t].hash
      BY <2>1, <3>4 DEF HashChunk, At, Writing, Request
    <3>5. ASSUME ReleaseStep(t) PROVE ~Writing(t)'
      <4>1. ASSUME NEW stage \in {"released", "storing", "info", "link", "fill", "swap", "dropping"},
                   req'[t].stage = stage
            PROVE  ~Writing(t)'
        BY <4>1 DEF Writing, Stage
      <4>2. ASSUME req' = [req EXCEPT ![t] = Blank] PROVE ~Writing(t)'
        BY <2>1, <4>2 DEF Writing, Stage, Blank
      <4>3. CASE TakeBuffer(t) \/ LookupOldMetadata(t) \/ ReleaseNewMetadata(t)
        BY <2>1, <4>1, <4>3 DEF TakeBuffer, LookupOldMetadata, ReleaseNewMetadata, Request
      <4>4. CASE ReleaseTest(t) \/ ReleaseCreateEntry(t) \/ ReleaseRecent(t)
        BY <2>1, <4>1, <4>4 DEF ReleaseTest, ReleaseCreateEntry, ReleaseRecent, At, Stage, Request
      <4>5. CASE ReleaseLookupEntry(t) \/ Drop(t)
        BY <2>1, <4>1, <4>2, <4>5 DEF ReleaseLookupEntry, Drop, Return, At, Stage
      <4>6. CASE UpdateInfo(t) \/ LinkOriginal(t) \/ LinkFails(t) \/ SwapInDuplicate(t)
        BY <2>1, <4>1, <4>6 DEF UpdateInfo, LinkOriginal, LinkFails, SwapInDuplicate, DropNew, Goto, Request
      <4>7. CASE FillMetadata(t)
        BY <2>1, <4>1, <4>2, <4>7 DEF FillMetadata, DropNew, Goto, Return, Request
      <4>. QED  BY <3>5, <4>3, <4>4, <4>5, <4>6, <4>7 DEF ReleaseStep
    <3>6. ASSUME \/ \E p \in Path : LookupBegin(t, p) \/ UnlinkBegin(t, p)
                 \/ LookupReadsInfo(t) \/ LookupFills(t) \/ LookupStoresInfo(t)
                 \/ UnlinkFile(t) \/ UnlinkRemoves(t)
          PROVE  ~Writing(t)'
      <4>1. ASSUME NEW p \in Path, LookupBegin(t, p) PROVE ~Writing(t)'
        BY <2>1, <4>1 DEF LookupBegin, At, Writing, Stage, Blank
      <4>4. ASSUME NEW p \in Path, UnlinkBegin(t, p) PROVE ~Writing(t)'
        BY <2>1, <4>4 DEF UnlinkBegin, At, Writing, Stage, Blank
      <4>2. CASE LookupStoresInfo(t)
        BY <2>1, <4>2 DEF LookupStoresInfo, Return, Writing, Stage, Blank
      <4>5. CASE LookupReadsInfo(t)
        <5>1. req'[t].stage \in {"look", "attr"}
          BY <2>1, <4>5 DEF LookupReadsInfo, Request
        <5>. QED  BY <5>1 DEF Writing, Stage
      <4>6. CASE LookupFills(t)
        BY <2>1, <4>6 DEF LookupFills, Return, At, Writing, Stage, Blank
      <4>3. CASE UnlinkFile(t) \/ UnlinkRemoves(t)
        <5>1. req'[t].stage \in {"unlinking", "forget"}
          BY <2>1, <4>3 DEF UnlinkFile, UnlinkRemoves, Goto, Request
        <5>. QED  BY <5>1 DEF Writing, Stage
      <4>. QED  BY <3>6, <4>1, <4>2, <4>3, <4>4, <4>5, <4>6
    <3>7. ASSUME UnlinkForgets(t) PROVE ~Writing(t)'
      BY <2>1, <3>7, UnlinkForgetsAlone DEF CalmIInv, Writing, Stage, Blank
    <3>. QED  BY <2>0, <2>3, <3>1, <3>2, <3>3, <3>4, <3>5, <3>6, <3>7 DEF OnceStep
  <2>. QED  BY <2>2, <2>3
<1>. QED  BY <1>1, <1>2

-----------------------------------------------------------------------------
(* What a step changes, and what it leaves for later steps to change.      *)

\* A step of one request leaves the others where they are in the store.
LEMMA OnceStepsWait ==
    ASSUME FilesIInv, FilesApart, NEW t \in Threads, OnceStep(t)
    PROVE  OthersWait(t)
<1>1. /\ pc \in [Threads -> {"idle"} \cup StorePcs \cup RemovePcs]
      /\ hashArg \in [Threads -> AllHash] /\ refArg \in [Threads -> 0..MaxIndex]
  BY DEF FilesIInv, IInv, TypeOK
<1>2. ASSUME UNCHANGED vars PROVE OthersWait(t)
  BY <1>2 DEF vars, locals, OthersWait
<1>3. ASSUME StoreStep(t) \/ RemoveStep(t) PROVE OthersWait(t)
  BY <1>1, <1>3 DEF StoreStep, RemoveStep, IsContentHashUnique, CheckMapEntry, CreateMapEntry,
     LookupMapEntry, RetrieveRecent, CreateMetadata, FindMetadata, DeleteMetadata, TestEmpty,
     DeleteMapEntry, Step, locals, OthersWait
<1>4. ASSUME NEW h, NEW r, BeginStore(t, h) \/ BeginRemove(t, h, r) PROVE OthersWait(t)
  BY <1>1, <1>4 DEF BeginStore, BeginRemove, Step, OthersWait
<1>5. CASE ReleaseStep(t)
  BY <1>2, <1>3, <1>4, <1>5 DEF ReleaseStep, TakeBuffer, LookupOldMetadata, ReleaseTest,
     ReleaseCreateEntry, ReleaseLookupEntry, ReleaseRecent, ReleaseNewMetadata, UpdateInfo,
     LinkOriginal, LinkFails, SwapInDuplicate, FillMetadata, Drop, DropNew, StoreStep
<1>6. CASE ~ReleaseStep(t)
  BY <1>2, <1>3, <1>4, <1>6 DEF OnceStep, Create, LookupBegin, LookupReadsInfo, LookupFills,
     UnlinkBegin, HashChunk, PwriteChunk, CreateStoresInfo, LookupStoresInfo, UnlinkFile,
     UnlinkRemoves, UnlinkForgets
<1>. QED  BY <1>5, <1>6

\* The removal of calm metadata: it is found, and then taken from its entry.
LEMMA UnlinkRemovesCell ==
    ASSUME CalmIInv, NEW t \in Threads, UnlinkRemoves(t), req[t].hash \in Calm
    PROVE  /\ Stage(t) = "unlinking" /\ OthersKept(t) /\ OthersWait(t)
           /\ req'[t].path = req[t].path /\ req'[t].hash = req[t].hash
           /\ pc[t] = "find" => pc'[t] = "dec" /\ Stage(t)' = "unlinking"
           /\ pc[t] = "dec" => Cell(req[t].hash)' # Cell(req[t].hash)
<1>0. /\ req \in [Threads -> Request] /\ req[t] \in Request /\ Stage(t) = "unlinking" /\ RemoveStep(t)
      /\ UnlinkFound(t) /\ InUnlink(t) /\ t \in Engaged
      /\ pc \in [Threads -> {"idle"} \cup StorePcs \cup RemovePcs]
  BY DEF CalmIInv, FilesIInv, FilesTypeOK, IInv, TypeOK, UnlinkRemoves, At, NodesFound,
     InUnlink, Engaged
<1>1. req'[t].path = req[t].path /\ req'[t].hash = req[t].hash
  BY <1>0 DEF UnlinkRemoves, Goto, Request
<1>2. OthersKept(t) /\ OthersWait(t)
  BY OnceStepsAlone, OnceStepsWait DEF OnceStep, CalmIInv
<1>3. PICK h, r : /\ h = req[t].hash /\ r = req[t].info.ref
                  /\ h = req[t].info.hash /\ h \in Hash /\ h \in AllHash /\ h \in Calm
                  /\ hashArg[t] = h /\ refArg[t] = r /\ Busy(t)
  BY <1>0, CalmPlaces, CalmTypes DEF CalmIInv, Meetings, StoreCallSound, RemovePcs, Busy
<1>4. /\ r \in LiveOf(h) <=> pc[t] \in {"find", "dec"}
      /\ pc[t] = "dec" => table[h] # NoEntry /\ entryPtr[t] = table[h]
  <2>1. h \in Quiet /\ ProgressSound
    BY <1>3 DEF CalmIInv, FilesIInv, IInv, Meetings, Calm, Quiet
  <2>. QED  BY <1>0, <1>3, <2>1 DEF UnlinkFound, ProgressSound
<1>5. ASSUME pc[t] = "find" PROVE pc'[t] = "dec" /\ Stage(t)' = "unlinking"
  <2>1. FindMetadata(t) /\ Found(h, r)
    <3>1. r # 0 /\ h # NoHash /\ r \in LiveOf(h)
      BY <1>3, <1>4, <1>5, CalmTypes DEF CalmIInv
    <3>. QED  BY <1>0, <1>5, <3>1 DEF RemoveStep, DeleteMetadata, TestEmpty, DeleteMapEntry, Step, Found, LiveOf
  <2>2. pc'[t] = "dec"
    BY <1>0, <1>3, <2>1 DEF FindMetadata, Step
  <2>. QED  BY <1>0, <2>2 DEF UnlinkRemoves, Goto, Stage, Request
<1>6. ASSUME pc[t] = "dec" PROVE Cell(h)' # Cell(h)
  <2>1. DeleteMetadata(t)
    BY <1>0, <1>6 DEF RemoveStep, FindMetadata, TestEmpty, DeleteMapEntry, Step
  <2>2. /\ table[h] \in Entries /\ table[h] # NoEntry /\ table' = table
        /\ live' = [live EXCEPT ![table[h]] = @ \ {r}]
    BY <1>3, <1>4, <1>6, <2>1 DEF DeleteMetadata, CalmIInv, FilesIInv, IInv, TypeOK
  <2>3. live'[table[h]] # live[table[h]]
    BY <1>4, <1>6, <2>2 DEF LiveOf, CalmIInv, FilesIInv, IInv, TypeOK
  <2>. QED  BY <2>2, <2>3 DEF Cell
<1>. QED  BY <1>0, <1>1, <1>2, <1>3, <1>5, <1>6

\* A path whose name or node info changes has, or had, a calm content only if
\* the request has come to its metadata, or is about to.
LEMMA ChangeLeads ==
    ASSUME CalmIInv, NEW t \in Threads, OnceStep(t), NEW D, Touched(D), NEW p \in Path,
           nodeInfo'[p] # nodeInfo[p] \/ names'[p] # names[p],
           NEW info, info \in {nodeInfo[p], nodeInfo'[p]}, info # NoInfo, info.ref # 0,
           NEW h, h = info.hash, h \in Calm' \cap Hash
    PROVE  h \in D \/ Removing(p, h)'
<1>0. /\ h \in Calm /\ h \in Hash /\ h \in AllHash /\ req[t] \in Request
      /\ req \in [Threads -> Request]
      /\ names \in [Path -> Inode \cup {NoFile}] /\ nodeInfo \in [Path -> Info \cup {NoInfo}]
      /\ NewInfo.ref = 0
  BY OverlapGrows, CalmTypes DEF Calm, CalmIInv, NewInfo
<1>1. info = nodeInfo[p] => p \in Calm
  BY <1>0, CalmInfo
<1>2. \A u \in Threads : HandleFound(u) /\ LookFound(u) /\ UnlinkFound(u)
  BY DEF CalmIInv, NodesFound
<1>3. ASSUME NEW q \in Path, Create(t, q) PROVE FALSE
  <2>1. q = p /\ names[p] = NoFile /\ info = nodeInfo[p] /\ DirectoryFree
    BY <1>0, <1>3 DEF Create
  <2>2. own[p] = NoFile /\ \A u \in Threads : ~InUnlink(u)
    BY <1>1, <2>1 DEF CalmIInv, NodesFound, PathFound, DirectoryFree, InUnlink
  <2>. QED  BY <1>1, <2>1, <2>2 DEF CalmIInv, NodesFound, PathFound
<1>4. CASE CreateStoresInfo(t)
  <2>1. Stage(t) = "create" /\ p = req[t].path /\ HoldsFile(t) /\ nodeInfo'[p] = NewInfo
    BY <1>0, <1>4 DEF CreateStoresInfo, At, HoldsFile, Writing, disk
  <2>. QED  BY <1>0, <1>1, <1>2, <2>1 DEF HandleFound
<1>5. CASE LookupStoresInfo(t)
  <2>1. Stage(t) = "look" /\ p = req[t].path /\ nodeInfo'[p] = NewInfo
    BY <1>0, <1>5 DEF LookupStoresInfo, At, disk
  <2>. QED  BY <1>0, <1>1, <1>2, <2>1 DEF LookFound, InLookup
<1>6. CASE UnlinkForgets(t)
  <2>1. Stage(t) = "forget" /\ p = req[t].path /\ nodeInfo'[p] = NoInfo /\ InUnlink(t)
    BY <1>0, <1>6 DEF UnlinkForgets, At, disk, InUnlink
  <2>2. req[t].hash = h /\ HasTouched(t)
    BY <1>1, <1>2, <2>1, CalmPlaces DEF UnlinkFound, HasTouched
  <2>. QED  BY <1>0, <2>2 DEF Touched
<1>7. CASE UpdateInfo(t)
  <2>1. Stage(t) = "info" /\ InRelease(t) /\ HoldsFile(t) /\ HasNew(t) /\ req[t].to = req[t].path
    BY <1>7, CalmPlaces DEF UpdateInfo, At, InRelease, HoldsFile, HasNew
  <2>2. p = req[t].path /\ nodeInfo'[p] = [hash |-> req[t].hash, ref |-> req[t].new.ref]
    BY <1>0, <1>7, <2>1 DEF UpdateInfo, disk
  <2>3. info # nodeInfo[p]
    BY <1>0, <1>1, <1>2, <2>1, <2>2 DEF HandleFound
  <2>. QED  BY <1>0, <2>1, <2>2, <2>3 DEF Touched, HasTouched
<1>8. CASE SwapInDuplicate(t)
  <2>1. Stage(t) = "swap" /\ InRelease(t) /\ HoldsFile(t) /\ HasNew(t) /\ req[t].to = req[t].path
    BY <1>8, CalmPlaces DEF SwapInDuplicate, At, InRelease, HoldsFile, HasNew
  <2>2. p = req[t].path /\ info = nodeInfo[p]
    BY <1>0, <1>8, <2>1 DEF SwapInDuplicate, disk
  <2>3. HandleFound(t) /\ req[t].path \in Calm
    BY <1>1, <1>2, <2>2
  <2>4. nodeInfo[p] = [hash |-> req[t].hash, ref |-> req[t].new.ref]
    BY <2>1, <2>2, <2>3 DEF HandleFound
  <2>. QED  BY <1>0, <2>1, <2>2, <2>4 DEF Touched, HasTouched
<1>9. CASE UnlinkFile(t)
  <2>1. Stage(t) = "unlink" /\ InUnlink(t) /\ p = req[t].path /\ info = nodeInfo[p]
    BY <1>0, <1>9 DEF UnlinkFile, At, InUnlink
  <2>2. req[t].info = info /\ req[t].hash = h
    BY <1>1, <1>2, <2>1, CalmPlaces DEF UnlinkFound
  <2>3. Goto(t, "unlinking") /\ BeginRemove(t, h, info.ref)
    BY <1>0, <1>9, <2>2, CalmTypes DEF UnlinkFile, CalmIInv
  <2>4. pc'[t] = "find"
    BY <2>3 DEF BeginRemove, Step, CalmIInv, FilesIInv, IInv, TypeOK
  <2>5. Stage(t)' = "unlinking" /\ req'[t].path = p /\ req'[t].hash = h
    BY <1>0, <2>1, <2>2, <2>3 DEF Goto, Stage, Request
  <2>. QED  BY <2>4, <2>5 DEF Removing
<1>10. \/ UpdateInfo(t) \/ CreateStoresInfo(t) \/ LookupStoresInfo(t) \/ UnlinkForgets(t)
       \/ SwapInDuplicate(t) \/ UnlinkFile(t) \/ \E q \in Path : Create(t, q)
  BY DEF OnceStep, LookupBegin, LookupReadsInfo, LookupFills, UnlinkBegin, HashChunk, PwriteChunk,
     UnlinkRemoves, ReleaseStep, TakeBuffer, LookupOldMetadata, ReleaseTest, ReleaseCreateEntry,
     ReleaseLookupEntry, ReleaseRecent, ReleaseNewMetadata,
     LinkOriginal, LinkFails, FillMetadata, Drop, disk
<1>. QED  BY <1>3, <1>4, <1>5, <1>6, <1>7, <1>8, <1>9, <1>10

\* A request comes to calm metadata by changing it.
LEMMA TouchesChange ==
    ASSUME CalmIInv, NEW t \in Threads, OnceStep(t), NEW u \in Threads, HasTouched(u)',
           NEW h, h = req'[u].hash, h \in Calm' \cap Hash
    PROVE  (HasTouched(u) /\ req[u].hash = h) \/ Cell(h)' # Cell(h)
<1>0. /\ h \in Calm /\ h \in Hash /\ h \in AllHash /\ req[t] \in Request /\ h # NoHash
      /\ req \in [Threads -> Request] /\ Blank.stage = "idle"
      /\ OthersKept(t) /\ OthersWait(t) /\ RequestSound(req[t])
  BY OverlapGrows, CalmTypes, OnceStepsAlone, OnceStepsWait
     DEF Calm, CalmIInv, Blank, FilesIInv, StageSound
<1>1. CASE u # t
  BY <1>0, <1>1 DEF OthersKept, OthersWait, HasTouched, HasNew, Stage
<1>2. CASE u = t
  <2>1. CASE ReleaseNewMetadata(t)
    <3>1. Stage(t) = "storing" /\ CreateMetadata(t) /\ req'[t].hash = req[t].hash
      BY <1>0, <2>1 DEF ReleaseNewMetadata, At, Request
    <3>2. hashArg[t] = h /\ h \in Quiet /\ Busy(t)
      BY <1>0, <1>2, <3>1, StoringAlone DEF CalmIInv
    <3>3. pc[t] = "alloc" /\ entryPtr[t] = table[h] /\ table[h] # NoEntry
      BY <3>1, <3>2 DEF CreateMetadata, Step, CalmIInv, FilesIInv, IInv, ProgressSound
    <3>4. /\ table[h] \in Entries /\ table' = table /\ index'[table[h]] = index[table[h]] + 1
          /\ index[table[h]] \in Nat
      BY <1>0, <3>1, <3>3, StoreAssumption DEF CreateMetadata, CalmIInv, FilesIInv, IInv, TypeOK
    <3>. QED  BY <3>3, <3>4 DEF Cell
  <2>2. CASE UpdateInfo(t) \/ LinkOriginal(t) \/ SwapInDuplicate(t)
    <3>1. HasNew(t)
      BY <2>2 DEF UpdateInfo, LinkOriginal, SwapInDuplicate, At, HasNew
    <3>2. req'[t].hash = req[t].hash
      BY <1>0, <2>2 DEF UpdateInfo, LinkOriginal, SwapInDuplicate, DropNew, Goto, Request
    <3>. QED  BY <1>2, <3>1, <3>2 DEF HasTouched
  <2>3. CASE UnlinkFile(t)
    <3>1. Stage(t) = "unlink" /\ InUnlink(t) /\ req'[t].hash = req[t].hash /\ UnlinkFound(t)
      BY <1>0, <2>3 DEF UnlinkFile, At, InUnlink, Goto, Request, CalmIInv, NodesFound
    <3>2. PICK p, info : /\ p = req[t].path /\ info = req[t].info /\ info.hash = h /\ p \in Path
                         /\ info = nodeInfo[p] /\ InfoFound(p) /\ info # NoInfo
      <4>1. req[t].info.hash = h /\ req[t].path \in Path /\ req[t].info \in Info
        BY <1>0, <1>2, <3>1, CalmPlaces DEF Request
      <4>2. req[t].info = nodeInfo[req[t].path]
        BY <1>0, <3>1, <4>1 DEF UnlinkFound
      <4>. QED  BY <4>1, <4>2, FilesAssumption DEF CalmIInv, NodesFound
    <3>3. info.ref # 0
      BY <1>0, <3>2 DEF InfoFound
    <3>4. Goto(t, "unlinking") /\ BeginRemove(t, h, info.ref)
      BY <1>0, <2>3, <3>2, <3>3 DEF UnlinkFile
    <3>5. Stage(t)' = "unlinking" /\ pc'[t] = "find"
      BY <1>0, <3>4 DEF Goto, Stage, Request, BeginRemove, Step, CalmIInv, FilesIInv, IInv, TypeOK
    <3>. QED  BY <1>2, <3>5 DEF HasTouched, HasNew
  <2>4. CASE UnlinkRemoves(t)
    <3>1. req[t].hash = h /\ Stage(t) = "unlinking"
      <4>1. req'[t].hash = req[t].hash
        BY <1>0, <2>4 DEF UnlinkRemoves, Goto, Request
      <4>. QED  BY <1>2, <2>4, <4>1 DEF UnlinkRemoves, At
    <3>2. /\ pc[t] = "find" => pc'[t] = "dec" /\ Stage(t)' = "unlinking"
          /\ pc[t] = "dec" => Cell(h)' # Cell(h)
      BY <1>0, <2>4, <3>1, UnlinkRemovesCell
    <3>. QED  BY <1>2, <3>1, <3>2 DEF HasTouched, HasNew
  <2>5. ASSUME ~(UpdateInfo(t) \/ LinkOriginal(t) \/ SwapInDuplicate(t) \/ ReleaseNewMetadata(t)),
               ReleaseStep(t)
        PROVE  req'[t].stage \in {"released", "storing", "dropping", "idle", "fill"} /\
               (req'[t].stage = "fill" => HasNew(t) /\ req'[t].hash = req[t].hash)
    <3>1. CASE TakeBuffer(t) \/ LookupOldMetadata(t) \/ ReleaseTest(t) \/ ReleaseCreateEntry(t)
               \/ ReleaseRecent(t)
      BY <1>0, <3>1 DEF TakeBuffer, LookupOldMetadata, ReleaseTest, ReleaseCreateEntry,
         ReleaseRecent, At, Stage, Request
    <3>2. CASE ReleaseLookupEntry(t) \/ LinkFails(t) \/ FillMetadata(t)
      BY <1>0, <3>2 DEF ReleaseLookupEntry, LinkFails, FillMetadata, DropNew, Goto, Return, At, Stage,
         Request
    <3>3. CASE Drop(t)
      BY <1>0, <3>3 DEF Drop, Return, At, Stage
    <3>. QED  BY <2>5, <3>1, <3>2, <3>3 DEF ReleaseStep
  <2>6. ASSUME NEW p \in Path, LookupBegin(t, p)
        PROVE  Stage(t)' = "stat"
    BY <1>0, <2>6 DEF LookupBegin, Blank, Stage
  <2>7. ASSUME NEW p \in Path, Create(t, p) \/ UnlinkBegin(t, p)
        PROVE  Stage(t)' \in {"create", "unlink"}
    <3>1. CASE Create(t, p)
      <4>1. PICK i : req' = [req EXCEPT ![t] =
                [Blank EXCEPT !.stage = "create", !.path = p, !.inode = i, !.file = i, !.info = InfoOf(p)]]
        BY <3>1 DEF Create
      <4>. QED  BY <1>0, <4>1 DEF Blank, Stage
    <3>2. CASE UnlinkBegin(t, p)
      BY <1>0, <3>2 DEF UnlinkBegin, Blank, Stage
    <3>. QED  BY <2>7, <3>1, <3>2
  <2>8. CASE CreateStoresInfo(t) \/ LookupStoresInfo(t)
    <3>1. Stage(t)' \in {"create", "open", "idle"}
      <4>1. CASE CreateStoresInfo(t)
        BY <1>0, <4>1 DEF CreateStoresInfo, Goto, At, Stage, Request
      <4>2. CASE LookupStoresInfo(t)
        BY <1>0, <4>2 DEF LookupStoresInfo, Return, Stage
      <4>. QED  BY <2>8, <4>1, <4>2
    <3>. QED  BY <1>2, <3>1 DEF HasTouched, HasNew
  <2>13. ASSUME LookupReadsInfo(t) \/ LookupFills(t)
         PROVE  Stage(t)' \in {"look", "attr", "idle"}
    <3>1. CASE LookupReadsInfo(t)
      BY <1>0, <3>1 DEF LookupReadsInfo, Stage, Request
    <3>2. CASE LookupFills(t)
      BY <1>0, <3>2 DEF LookupFills, Return, At, Stage
    <3>. QED  BY <2>13, <3>1, <3>2
  <2>9. CASE UnlinkForgets(t)
    BY <1>0, <1>2, <2>9, UnlinkForgetsAlone DEF HasTouched, HasNew, Stage, CalmIInv
  <2>10. ASSUME NEW c \in Chunk, HashChunk(t, c) PROVE Stage(t)' = "pwrite"
    BY <1>0, <2>10 DEF HashChunk, Stage, Request
  <2>11. ASSUME NEW off \in 0..MaxWrites, PwriteChunk(t, off) PROVE Stage(t)' = "open"
    BY <1>0, <2>11 DEF PwriteChunk, Goto, Stage, Request
  <2>12. ASSUME NEW stage \in {"idle", "stat", "look", "attr", "create", "unlink", "pwrite", "open"}, Stage(t)' = stage
         PROVE  FALSE
    BY <1>2, <2>12 DEF HasTouched, HasNew
  <2>. QED  BY <1>2, <2>1, <2>2, <2>3, <2>4, <2>5, <2>6, <2>7, <2>8, <2>9, <2>10, <2>11, <2>12, <2>13
            DEF OnceStep, HasTouched, HasNew, Stage
<1>. QED  BY <1>1, <1>2

\* A removal that is about to change a cell does.
LEMMA RemovalsGoOn ==
    ASSUME CalmIInv, NEW t \in Threads, OnceStep(t), NEW p, NEW h, Removing(p, h),
           h \in Calm' \cap Hash
    PROVE  Removing(p, h)' \/ Cell(h)' # Cell(h)
<1>0. /\ h \in Calm /\ OthersKept(t) /\ OthersWait(t)
  BY OverlapGrows, OnceStepsAlone, OnceStepsWait DEF Calm, CalmIInv
<1>1. PICK u \in Threads : /\ Stage(u) = "unlinking" /\ pc[u] \in {"find", "dec"}
                           /\ req[u].path = p /\ req[u].hash = h
  BY DEF Removing
<1>2. CASE u # t
  BY <1>0, <1>1, <1>2 DEF OthersKept, OthersWait, Removing, Stage
<1>3. CASE u = t
  <2>1. UnlinkRemoves(t)
    BY <1>1, <1>3 DEF OnceStep, Create, LookupBegin, LookupReadsInfo, LookupFills, UnlinkBegin,
       HashChunk, PwriteChunk, CreateStoresInfo, LookupStoresInfo, UnlinkFile, UnlinkForgets, ReleaseStep, TakeBuffer,
       LookupOldMetadata, ReleaseTest, ReleaseCreateEntry, ReleaseLookupEntry, ReleaseRecent,
       ReleaseNewMetadata, UpdateInfo, LinkOriginal, LinkFails, SwapInDuplicate, FillMetadata, Drop, At
  <2>. QED  BY <1>0, <1>1, <1>3, <2>1, UnlinkRemovesCell DEF Removing
<1>. QED  BY <1>2, <1>3

\* While a request runs, what changes leads to a content that does.
LEMMA ChangesStayLed ==
    ASSUME OnceWorkload, CalmIInv, FilesNext, NEW D, Touched(D), NEW E, E = D \cup Changed
    PROVE  /\ Touched(E)'
           /\ \A p \in Path \cap E : \A info :
                 (IF p \in D THEN Leads(p, info, D) ELSE info = nodeInfo[p]) => Leads(p, info, E)'
           /\ \A p \in Path : \A info :
                 info = nodeInfo'[p] /\ nodeInfo'[p] # nodeInfo[p] => Leads(p, info, E)'
<1>1. PICK t \in Threads : OnceStep(t)
  BY StepsAreOnceSteps DEF CalmIInv
<1>2. overlap \subseteq overlap' /\ Hash \subseteq AllHash
  BY <1>1, OverlapGrows DEF AllHash
<1>3. \A h \in AllHash : Cell(h)' # Cell(h) => h \in E
  BY DEF Changed
<1>4. ASSUME NEW u \in Threads, HasTouched(u)', req'[u].hash \in Calm' \cap Hash
      PROVE  req'[u].hash \in E
  <2>1. PICK h : h = req'[u].hash
    OBVIOUS
  <2>2. (HasTouched(u) /\ req[u].hash = h) \/ Cell(h)' # Cell(h)
    BY <1>1, <1>4, <2>1, TouchesChange
  <2>3. h \in Calm
    BY <1>2, <1>4, <2>1 DEF Calm
  <2>. QED  BY <1>2, <1>3, <1>4, <2>1, <2>2, <2>3 DEF Touched
<1>5. ASSUME NEW p \in Path, NEW info, info # NoInfo, info.ref # 0, NEW h, h = info.hash,
             h \in Calm' \cap Hash,
             nodeInfo'[p] # nodeInfo[p] \/ names'[p] # names[p], info \in {nodeInfo[p], nodeInfo'[p]}
      PROVE  h \in E \/ Removing(p, h)'
  <2>1. h \in D \/ Removing(p, h)'
    BY <1>1, <1>5, ChangeLeads
  <2>. QED  BY <2>1
<1>6. ASSUME NEW p \in Path \cap E, NEW info, info # NoInfo, info.ref # 0, NEW h, h = info.hash,
             h \in Calm' \cap Hash, IF p \in D THEN Leads(p, info, D) ELSE info = nodeInfo[p]
      PROVE  h \in E \/ Removing(p, h)'
  <2>1. CASE p \in D
    <3>1. h \in Calm
      BY <1>2, <1>6 DEF Calm
    <3>2. h \in D \/ Removing(p, h)
      BY <1>6, <2>1, <3>1 DEF Leads
    <3>. QED  BY <1>1, <1>2, <1>3, <1>6, <3>2, RemovalsGoOn
  <2>2. CASE p \notin D
    <3>1. p \notin AllHash
      BY CalmTypes DEF CalmIInv
    <3>2. nodeInfo'[p] # nodeInfo[p] \/ names'[p] # names[p]
      BY <1>6, <2>2, <3>1 DEF Changed
    <3>. QED  BY <1>5, <1>6, <2>2, <3>2
  <2>. QED  BY <2>1, <2>2
<1>. QED  BY <1>4, <1>5, <1>6 DEF Touched, Leads

LEMMA ServeLeads ==
    ASSUME OnceWorkload, RestartsIInv, Serve
    PROVE  ChangesLead'
<1>0. /\ CalmIInv /\ FilesNext /\ UNCHANGED <<main, saves>>
      /\ main = "serving" /\ dirty' = dirty \cup Changed /\ since' = since \cup Changed
  BY ServingIsCalm DEF Serve, Remember
<1>1. PICK saved : saved = savedNodes
  OBVIOUS
<1>2. ASSUME NEW D, NEW E, E = D \cup Changed, Touched(D),
             \A p \in Path \cap D : Leads(p, nodeInfo[p], D)
      PROVE  Touched(E)' /\ \A p \in Path \cap E : Leads(p, nodeInfo[p], E)'
  <2>1. Touched(E)'
    BY <1>0, <1>2, ChangesStayLed
  <2>2. ASSUME NEW p \in Path \cap E, NEW info, info = nodeInfo'[p]
        PROVE  Leads(p, info, E)'
    <3>1. CASE nodeInfo'[p] = nodeInfo[p]
      <4>1. IF p \in D THEN Leads(p, info, D) ELSE info = nodeInfo[p]
        BY <1>2, <2>2, <3>1
      <4>. QED  BY <1>0, <1>2, <4>1, ChangesStayLed
    <3>2. CASE nodeInfo'[p] # nodeInfo[p]
      BY <1>0, <1>2, <2>2, <3>2, ChangesStayLed
    <3>. QED  BY <3>1, <3>2
  <2>. QED  BY <2>1, <2>2 DEF Leads
<1>3. ASSUME NEW D, NEW E, E = D \cup Changed, Touched(D),
             \A p \in Path \ D : saved[1][p] = nodeInfo[p],
             \A p \in Path \cap D : Leads(p, saved[1][p], D)
      PROVE  \A p \in Path \cap E : Leads(p, saved[1][p], E)'
  <2>1. ASSUME NEW p \in Path \cap E, NEW info, info = saved[1][p]
        PROVE  Leads(p, info, E)'
    <3>1. IF p \in D THEN Leads(p, info, D) ELSE info = nodeInfo[p]
      BY <1>3, <2>1
    <3>. QED  BY <1>0, <1>3, <3>1, ChangesStayLed
  <2>. QED  BY <2>1
<1>4. ChangesLead /\ NodesAgree
  BY DEF RestartsIInv
<1>5. PICK D1, D2, E1, E2 : D1 = dirty /\ D2 = since /\ E1 = dirty' /\ E2 = since'
  OBVIOUS
<1>6. Touched(E1)' /\ \A p \in Path \cap E1 : Leads(p, nodeInfo[p], E1)'
  BY <1>0, <1>2, <1>4, <1>5 DEF ChangesLead
<1>7. Touched(E2)' /\ \A p \in Path \cap E2 : Leads(p, nodeInfo[p], E2)'
  BY <1>0, <1>2, <1>4, <1>5 DEF ChangesLead
<1>8. ASSUME saved # << >> PROVE \A p \in Path \cap E1 : Leads(p, saved[1][p], E1)'
  BY <1>0, <1>1, <1>3, <1>4, <1>5, <1>8 DEF ChangesLead, NodesAgree
<1>9. ASSUME saved # << >>, Late PROVE \A p \in Path \cap E2 : Leads(p, saved[1][p], E2)'
  BY <1>0, <1>1, <1>3, <1>4, <1>5, <1>9 DEF ChangesLead, NodesAgree
<1>10. savedNodes' = saved /\ (Late' <=> Late)
  BY <1>0, <1>1 DEF saves, Late
<1>. QED  BY <1>5, <1>6, <1>7, <1>8, <1>9, <1>10 DEF ChangesLead

\* Where the node infos of a map lead to metadata of empty files, they go on to.
LEMMA ZeroMapStays ==
    ASSUME OnceWorkload, CalmIInv, [FilesNext]_filesVars, NEW map, ZeroFound(map)
    PROVE  ZeroFound(map)'
<1>. SUFFICES ASSUME NoHash \in Calm', NEW p \in Path, map[p] # NoInfo, map[p].hash = NoHash,
                     NEW ref, ref = map[p].ref, ref # 0
              PROVE  ZeroKept(p, ref)'
  BY DEF ZeroFound, ZeroKept
<1>1. overlap \subseteq overlap'
  <2>1. CASE UNCHANGED filesVars
    BY <2>1 DEF filesVars
  <2>2. CASE FilesNext
    <3>1. PICK t \in Threads : OnceStep(t)
      BY <2>2, StepsAreOnceSteps DEF CalmIInv
    <3>. QED  BY <3>1, OverlapGrows
  <2>. QED  BY <2>1, <2>2
<1>2. ZeroKept(p, ref)
  BY <1>1 DEF ZeroFound, Calm
<1>. QED  BY <1>2, ZeroStays

\* A request changes what is saved in nothing, and remembers what it changes.
LEMMA ServeStaysFound == ASSUME OnceWorkload, RestartsIInv, Serve PROVE RestartsIInv'
<1>0. /\ CalmIInv /\ FilesNext /\ UNCHANGED <<main, save, savedNodes, savedMeta>>
      /\ main = "serving" /\ dirty' = dirty \cup Changed /\ since' = since \cup Changed
  BY ServingIsCalm DEF Serve, Remember, saves
<1>1. PersistenceIInv'
  BY ServeKeeps DEF RestartsIInv
<1>2. CalmKept'
  BY <1>0, RequestsKeepCalm
<1>3. SavesSound'
  BY <1>0 DEF RestartsIInv, SavesSound
<1>4. WritersTo'
  BY <1>0, WritersStay DEF RestartsIInv
<1>5. NodesAgree'
  BY <1>0 DEF RestartsIInv, NodesAgree, Late, Changed
<1>6. SavedMapsFound'
  <2>1. ASSUME NEW map, map = savedNodes[1], savedNodes # << >> PROVE ZeroFound(map)'
    BY <1>0, <2>1, ZeroMapStays DEF RestartsIInv, SavedMapsFound
  <2>2. savedNodes # << >> => ZeroFound(savedNodes[1])'
    BY <1>0, <2>1 DEF ZeroFound
  <2>. QED  BY <1>0, <2>2 DEF RestartsIInv, SavedMapsFound
<1>. QED  BY <1>1, <1>2, <1>3, <1>4, <1>5, <1>6, ServeLeads DEF RestartsIInv

-----------------------------------------------------------------------------
(* Saves, which leave memory alone.                                        *)

\* What is said of memory stays true of it.
LEMMA StillMemory ==
    ASSUME UNCHANGED filesVars
    PROVE  /\ Calm' = Calm /\ (WritersTo => WritersTo')
           /\ \A D : Touched(D) => Touched(D)'
           /\ \A p, h : Removing(p, h)' <=> Removing(p, h)
           /\ \A map : ZeroFound(map) => ZeroFound(map)'
           /\ \A p, info, D : Leads(p, info, D) => Leads(p, info, D)'
<1>1. UNCHANGED <<table, heap, pc, req, metaPath, overlap>> /\ UNCHANGED live
  BY DEF filesVars, vars, heap
<1>2. \A t : Stage(t)' = Stage(t)
  BY <1>1 DEF Stage
<1>3. Calm' = Calm /\ (WritersTo => WritersTo')
  BY <1>1, <1>2 DEF Calm, WritersTo, Writing
<1>4. \A t : HasTouched(t)' <=> HasTouched(t)
  BY <1>1, <1>2 DEF HasTouched, HasNew
<1>5. \A p, h : Removing(p, h)' <=> Removing(p, h)
  BY <1>1, <1>2 DEF Removing
<1>6. \A p, ref : ZeroKept(p, ref)' <=> ZeroKept(p, ref)
  BY <1>1, <1>2 DEF ZeroKept, LiveOf
<1>7. ASSUME NEW D, Touched(D) PROVE Touched(D)'
  BY <1>1, <1>3, <1>4, <1>7 DEF Touched
<1>8. ASSUME NEW map, ZeroFound(map) PROVE ZeroFound(map)'
  BY <1>3, <1>6, <1>8 DEF ZeroFound
<1>9. ASSUME NEW p, NEW info, NEW D, Leads(p, info, D) PROVE Leads(p, info, D)'
  BY <1>3, <1>5, <1>9 DEF Leads
<1>. QED  BY <1>3, <1>5, <1>7, <1>8, <1>9

\* Saves keep what is said of memory.
LEMMA SavesKeepMemory ==
    ASSUME OnceWorkload, RestartsIInv, UNCHANGED filesVars, main # "starting", main' # "starting"
    PROVE  CalmKept' /\ WritersTo'
BY RequestsKeepCalm, StillMemory DEF RestartsIInv

\* A file that has been truncated says nothing.
LEMMA CreateNodesFileStaysFound ==
    ASSUME OnceWorkload, RestartsIInv, NEW s \in Savers, CreateNodesFile(s)
    PROVE  RestartsIInv'
<1>0. /\ UNCHANGED <<filesVars, nodeInfo, main, savedMeta, dirty, since>> /\ main \in {"serving", "closing"}
      /\ save[s] = "nodes" /\ save' = [save EXCEPT ![s] = "nodesOpen"] /\ savedNodes' = << >>
      /\ save \in [Savers -> SaveStages] /\ ~NodesHeld
  BY DEF CreateNodesFile, Saving, filesVars, RestartsIInv, PersistenceIInv, PersistenceTypeOK
<1>1. PersistenceIInv'
  BY CreateNodesFileKeeps DEF RestartsIInv
<1>2. CalmKept' /\ WritersTo'
  BY <1>0, SavesKeepMemory
<1>3. SavesSound'
  <2>1. \A t : Stage(t)' = Stage(t)
    BY <1>0 DEF filesVars, Stage
  <2>. QED  BY <1>0, <2>1 DEF RestartsIInv, SavesSound, NodesHeld
<1>4. NodesAgree'
  BY <1>0 DEF NodesAgree
<1>5. SavedMapsFound'
  BY <1>0 DEF RestartsIInv, SavedMapsFound
<1>6. ChangesLead'
  <2>1. PICK D, E, map : D = dirty /\ E = since /\ map = nodeInfo
    OBVIOUS
  <2>2. /\ Touched(D) /\ Touched(E)
        /\ \A p \in Path \cap D : Leads(p, map[p], D)
        /\ \A p \in Path \cap E : Leads(p, map[p], E)
    BY <2>1 DEF RestartsIInv, ChangesLead
  <2>3. /\ Touched(D)' /\ Touched(E)'
        /\ \A p \in Path \cap D : Leads(p, map[p], D)'
        /\ \A p \in Path \cap E : Leads(p, map[p], E)'
    BY <1>0, <2>2, StillMemory
  <2>. QED  BY <1>0, <2>1, <2>3 DEF ChangesLead
<1>. QED  BY <1>1, <1>2, <1>3, <1>4, <1>5, <1>6 DEF RestartsIInv

\* Node infos that have just been encoded are those of memory.
LEMMA EncodeNodesStaysFound ==
    ASSUME OnceWorkload, RestartsIInv, NEW s \in Savers, EncodeNodes(s)
    PROVE  RestartsIInv'
<1>0. /\ UNCHANGED <<filesVars, nodeInfo, main, savedMeta, dirty, since>> /\ main \in {"serving", "closing"}
      /\ save[s] = "nodesOpen" /\ save' = [save EXCEPT ![s] = "meta"] /\ savedNodes' = <<nodeInfo>>
      /\ save \in [Savers -> SaveStages]
  BY DEF EncodeNodes, Saving, filesVars, RestartsIInv, PersistenceIInv, PersistenceTypeOK
<1>1. PersistenceIInv'
  BY EncodeNodesKeeps DEF RestartsIInv
<1>2. CalmKept' /\ WritersTo'
  BY <1>0, SavesKeepMemory
<1>3. SavesSound'
  <2>1. \A t : Stage(t)' = Stage(t)
    BY <1>0 DEF filesVars, Stage
  <2>. QED  BY <1>0, <2>1 DEF RestartsIInv, SavesSound, Savers
<1>4. savedNodes' # << >> /\ savedNodes'[1] = nodeInfo
  BY <1>0, OneMap
<1>5. NodesAgree'
  BY <1>0, <1>4 DEF NodesAgree
<1>6. PICK D, E, map : D = dirty /\ E = since /\ map = nodeInfo
  OBVIOUS
<1>7. SavedMapsFound'
  <2>1. CalmIInv
    BY <1>0, ServingIsCalm
  <2>2. ZeroFound(map) /\ \A p \in Path : map[p] # NoInfo /\ map[p].ref = 0 => map[p].hash = NoHash
    BY <1>6, <2>1 DEF CalmIInv, NodesFound, InfoFound
  <2>3. ZeroFound(map)'
    BY <1>0, <2>2, StillMemory
  <2>. QED  BY <1>0, <1>4, <1>6, <2>2, <2>3 DEF RestartsIInv, SavedMapsFound
<1>8. ChangesLead'
  <2>2. /\ Touched(D) /\ Touched(E)
        /\ \A p \in Path \cap D : Leads(p, map[p], D)
        /\ \A p \in Path \cap E : Leads(p, map[p], E)
    BY <1>6 DEF RestartsIInv, ChangesLead
  <2>3. /\ Touched(D)' /\ Touched(E)'
        /\ \A p \in Path \cap D : Leads(p, map[p], D)'
        /\ \A p \in Path \cap E : Leads(p, map[p], E)'
    BY <1>0, <2>2, StillMemory
  <2>. QED  BY <1>0, <1>4, <1>6, <2>3 DEF ChangesLead
<1>. QED  BY <1>1, <1>2, <1>3, <1>5, <1>7, <1>8 DEF RestartsIInv

\* Creating the metadata's file leaves the node infos' as it is.
LEMMA CreateMetadataFileStaysFound ==
    ASSUME OnceWorkload, RestartsIInv, NEW s \in Savers, CreateMetadataFile(s)
    PROVE  RestartsIInv'
<1>0. /\ UNCHANGED <<filesVars, nodeInfo, main, savedNodes, dirty, since>> /\ main \in {"serving", "closing"}
      /\ save[s] = "meta" /\ save' = [save EXCEPT ![s] = "metaOpen"] /\ savedMeta' = << >>
      /\ save \in [Savers -> SaveStages] /\ ~MetadataHeld
  BY DEF CreateMetadataFile, Saving, filesVars, RestartsIInv, PersistenceIInv, PersistenceTypeOK
<1>1. PersistenceIInv'
  BY CreateMetadataFileKeeps DEF RestartsIInv
<1>2. CalmKept' /\ WritersTo'
  BY <1>0, SavesKeepMemory
<1>3. SavesSound'
  <2>1. \A t : Stage(t)' = Stage(t)
    BY <1>0 DEF filesVars, Stage
  <2>. QED  BY <1>0, <2>1 DEF RestartsIInv, SavesSound, MetadataHeld, Savers
<1>4. Late' <=> Late
  BY <1>0 DEF Late, Savers
<1>5. NodesAgree'
  BY <1>0, <1>4 DEF RestartsIInv, NodesAgree
<1>6. PICK D, E, map, saved : D = dirty /\ E = since /\ map = nodeInfo /\ saved = savedNodes
  OBVIOUS
<1>7. SavedMapsFound'
  <2>1. saved # << >> => ZeroFound(saved[1])
    BY <1>6 DEF RestartsIInv, SavedMapsFound
  <2>2. saved # << >> => ZeroFound(saved[1])'
    BY <1>0, <2>1, StillMemory
  <2>. QED  BY <1>0, <1>6, <2>2 DEF RestartsIInv, SavedMapsFound
<1>8. ChangesLead'
  <2>2. /\ Touched(D) /\ Touched(E)
        /\ \A p \in Path \cap D : Leads(p, map[p], D)
        /\ \A p \in Path \cap E : Leads(p, map[p], E)
        /\ saved # << >> =>
              /\ \A p \in Path \cap D : Leads(p, saved[1][p], D)
              /\ Late => \A p \in Path \cap E : Leads(p, saved[1][p], E)
    BY <1>6 DEF RestartsIInv, ChangesLead
  <2>3. /\ Touched(D)' /\ Touched(E)'
        /\ \A p \in Path \cap D : Leads(p, map[p], D)'
        /\ \A p \in Path \cap E : Leads(p, map[p], E)'
        /\ saved # << >> =>
              /\ \A p \in Path \cap D : Leads(p, saved[1][p], D)'
              /\ Late => \A p \in Path \cap E : Leads(p, saved[1][p], E)'
    BY <1>0, <2>2, StillMemory
  <2>. QED  BY <1>0, <1>4, <1>6, <2>3 DEF ChangesLead
<1>. QED  BY <1>1, <1>2, <1>3, <1>5, <1>7, <1>8 DEF RestartsIInv

\* A path that a request has in hand has the content its node info leads to in hand.
LEMMA HandsLead ==
    ASSUME RestartsIInv, main # "starting", NEW p \in Path \cap InHand, nodeInfo[p] # NoInfo,
           nodeInfo[p].ref # 0, nodeInfo[p].hash \in Calm \cap Hash
    PROVE  nodeInfo[p].hash \in InHand
<1>0. CalmIInv
  BY ServingIsCalm
<1>1. p \in Calm
  BY <1>0, CalmInfo
<1>2. PICK t \in Threads : /\ Stage(t) # "idle" /\ ~InLookup(t)
                         /\ p \in {req[t].path, req[t].to, req[t].hash}
  BY DEF InHand
<1>3. req[t] \in Request /\ req[t].hash \in AllHash /\ req[t].hash # p /\ p # NoPath
  BY <1>0, CalmTypes, CalmPlaces DEF CalmIInv
<1>4. CASE Writing(t)
  <2>1. req[t].path = p
    BY <1>2, <1>3, <1>4 DEF RestartsIInv, WritersTo
  <2>2. HandleFound(t)
    BY <1>0 DEF CalmIInv, NodesFound
  <2>. QED  BY <1>1, <1>4, <2>1, <2>2 DEF HandleFound, HoldsFile, Writing, NewInfo
<1>5. CASE t \in Engaged
  <2>1. req[t].path = p
    <3>1. InRelease(t) \/ InUnlink(t)
      BY <1>5 DEF Engaged, InRelease, InUnlink
    <3>. QED  BY <1>0, <1>2, <1>3, <3>1 DEF CalmIInv, FilesApart, UnlinkSound, ReleaseSound
  <2>2. nodeInfo[p].hash = req[t].hash
    BY <1>0, <1>1, <1>5, <2>1, EngagedOnInfo
  <2>. QED  BY <1>2, <1>3, <2>2 DEF InHand
<1>6. Writing(t) \/ t \in Engaged
  <2>1. Stage(t) \in Stages
    BY <1>3 DEF Request, Stage
  <2>. QED  BY <1>0, <1>2, <2>1 DEF Writing, Engaged, InLookup, Stages, CalmIInv, FilesApart, StagesOnce
<1>. QED  BY <1>4, <1>5, <1>6

\* A round of saves that begins knows what requests have in hand.
LEMMA TickStaysFound == ASSUME OnceWorkload, RestartsIInv, Tick PROVE RestartsIInv'
<1>0. /\ UNCHANGED <<filesVars, nodeInfo, main, savedNodes, savedMeta, dirty>> /\ main \in {"serving", "closing"}
      /\ save["ticker"] = "idle" /\ save' = [save EXCEPT !["ticker"] = "nodes"] /\ since' = InHand
      /\ save \in [Savers -> SaveStages]
  BY DEF Tick, Saving, filesVars, RestartsIInv, PersistenceIInv, PersistenceTypeOK
<1>1. PersistenceIInv'
  BY TickKeeps DEF RestartsIInv
<1>2. CalmKept' /\ WritersTo'
  BY <1>0, SavesKeepMemory
<1>3. SavesSound'
  <2>1. \A t : Stage(t)' = Stage(t)
    BY <1>0 DEF filesVars, Stage
  <2>. QED  BY <1>0, <2>1 DEF RestartsIInv, SavesSound, Savers
<1>4. ~Late'
  BY <1>0 DEF Late, Savers
<1>5. NodesAgree'
  BY <1>0, <1>4 DEF RestartsIInv, NodesAgree
<1>6. PICK D, E, map, saved : D = dirty /\ E = InHand /\ map = nodeInfo /\ saved = savedNodes
  OBVIOUS
<1>7. SavedMapsFound'
  <2>1. saved # << >> => ZeroFound(saved[1])
    BY <1>6 DEF RestartsIInv, SavedMapsFound
  <2>2. saved # << >> => ZeroFound(saved[1])'
    BY <1>0, <2>1, StillMemory
  <2>. QED  BY <1>0, <1>6, <2>2 DEF RestartsIInv, SavedMapsFound
<1>8. ChangesLead'
  <2>1. Touched(E)
    <3>1. \A t \in Threads : HasTouched(t) => Stage(t) # "idle" /\ ~InLookup(t)
      BY DEF HasTouched, HasNew, InLookup
    <3>2. Hash \subseteq AllHash
      BY DEF AllHash
    <3>. QED  BY <1>6, <3>1, <3>2 DEF Touched, InHand
  <2>2. \A p \in Path \cap E : Leads(p, map[p], E)
    BY <1>0, <1>6, HandsLead DEF Leads
  <2>3. /\ Touched(D) /\ \A p \in Path \cap D : Leads(p, map[p], D)
        /\ saved # << >> => \A p \in Path \cap D : Leads(p, saved[1][p], D)
    BY <1>6 DEF RestartsIInv, ChangesLead
  <2>4. /\ Touched(D)' /\ Touched(E)'
        /\ \A p \in Path \cap D : Leads(p, map[p], D)'
        /\ \A p \in Path \cap E : Leads(p, map[p], E)'
        /\ saved # << >> => \A p \in Path \cap D : Leads(p, saved[1][p], D)'
    BY <1>0, <2>1, <2>2, <2>3, StillMemory
  <2>. QED  BY <1>0, <1>4, <1>6, <2>4 DEF ChangesLead
<1>. QED  BY <1>1, <1>2, <1>3, <1>5, <1>7, <1>8 DEF RestartsIInv

\* The metadata that is encoded has no Path it should not have.
LEMMA EncodedIsUnfilled ==
    ASSUME UnfilledPaths, Reachable \subseteq Entries
    PROVE  \A e \in DOMAIN MetadataMap.cells : \A r \in Refs :
              r > MetadataMap.cells[e].index => MetadataMap.cells[e].path[r] = NoPath
BY DEF MetadataMap, UnfilledPaths

\* A round that ends leaves what has changed since it began, and the final save nothing.
LEMMA EncodeMetadataStaysFound ==
    ASSUME OnceWorkload, RestartsIInv, NEW s \in Savers, EncodeMetadata(s)
    PROVE  RestartsIInv'
<1>0. /\ UNCHANGED <<filesVars, nodeInfo, main, savedNodes, since>> /\ main \in {"serving", "closing"}
      /\ save[s] = "metaOpen" /\ save' = [save EXCEPT ![s] = IF s = "ticker" THEN "idle" ELSE "done"]
      /\ savedMeta' = <<MetadataMap>> /\ dirty' = (IF s = "ticker" THEN since ELSE {})
      /\ save \in [Savers -> SaveStages] /\ s \in {"ticker", "exit"}
  BY DEF EncodeMetadata, Saving, filesVars, RestartsIInv, PersistenceIInv, PersistenceTypeOK, Savers
<1>1. PersistenceIInv'
  BY EncodeMetadataKeeps DEF RestartsIInv
<1>2. CalmKept' /\ WritersTo'
  BY <1>0, SavesKeepMemory
<1>3. SavesSound'
  <2>1. \A t : Stage(t)' = Stage(t)
    BY <1>0 DEF filesVars, Stage
  <2>. QED  BY <1>0, <2>1 DEF RestartsIInv, SavesSound, Savers
<1>4. ASSUME s = "ticker" PROVE NodesAgree' /\ ChangesLead'
  <2>1. Late /\ ~Late' /\ dirty' = since
    BY <1>0, <1>4 DEF Late, Savers
  <2>2. NodesAgree'
    BY <1>0, <2>1 DEF RestartsIInv, NodesAgree
  <2>3. PICK E, map, saved : E = since /\ map = nodeInfo /\ saved = savedNodes
    OBVIOUS
  <2>4. /\ Touched(E) /\ \A p \in Path \cap E : Leads(p, map[p], E)
        /\ saved # << >> => \A p \in Path \cap E : Leads(p, saved[1][p], E)
    BY <2>1, <2>3 DEF RestartsIInv, ChangesLead
  <2>5. /\ Touched(E)' /\ \A p \in Path \cap E : Leads(p, map[p], E)'
        /\ saved # << >> => \A p \in Path \cap E : Leads(p, saved[1][p], E)'
    BY <1>0, <2>4, StillMemory
  <2>6. ChangesLead'
    BY <1>0, <2>1, <2>3, <2>5 DEF ChangesLead
  <2>. QED  BY <2>2, <2>6
<1>5. ASSUME s = "exit" PROVE NodesAgree' /\ ChangesLead'
  <2>1. /\ main = "closing" /\ dirty' = {} /\ \A t \in Threads : Stage(t) = "idle"
    BY <1>0, <1>5 DEF RestartsIInv, SavesSound
  <2>2. savedNodes # << >> => savedNodes[1] = nodeInfo
    <3>1. NodesHeld => savedNodes = << >>
      BY DEF NodesHeld, RestartsIInv, SavesSound
    <3>2. ~NodesHeld => savedNodes = <<nodeInfo>>
      BY <1>0, <1>5, <2>1 DEF RestartsIInv, PersistenceIInv, ClosingSaves
    <3>. QED  BY <3>1, <3>2, OneMap
  <2>3. Late' <=> Late
    BY <1>0, <1>5 DEF Late, Savers
  <2>4. NodesAgree'
    BY <1>0, <2>2 DEF NodesAgree
  <2>5. PICK D, E, map, saved : D = {} /\ E = since /\ map = nodeInfo /\ saved = savedNodes
    OBVIOUS
  <2>6. /\ Touched(D) /\ Touched(E) /\ \A p \in Path \cap E : Leads(p, map[p], E)
        /\ saved # << >> => (Late => \A p \in Path \cap E : Leads(p, saved[1][p], E))
    BY <2>1, <2>5 DEF RestartsIInv, ChangesLead, Touched, HasTouched, HasNew
  <2>7. /\ Touched(D)' /\ Touched(E)' /\ \A p \in Path \cap E : Leads(p, map[p], E)'
        /\ saved # << >> => (Late => \A p \in Path \cap E : Leads(p, saved[1][p], E)')
    BY <1>0, <2>6, StillMemory
  <2>8. ChangesLead'
    BY <1>0, <2>1, <2>3, <2>5, <2>7 DEF ChangesLead
  <2>. QED  BY <2>4, <2>8
<1>6. PICK saved : saved = savedNodes
  OBVIOUS
<1>7. SavedMapsFound'
  <2>1. saved # << >> => ZeroFound(saved[1])
    BY <1>6 DEF RestartsIInv, SavedMapsFound
  <2>2. saved # << >> => ZeroFound(saved[1])'
    BY <1>0, <2>1, StillMemory
  <2>3. UnfilledPaths /\ Reachable \subseteq Entries
    BY DEF RestartsIInv, CalmKept, StoreFound, PersistenceIInv, FilesIInv, IInv, TypeOK, Reachable
  <2>4. savedMeta' # << >> =>
          \A e \in DOMAIN savedMeta'[1].cells : \A r \in Refs :
              r > savedMeta'[1].cells[e].index => savedMeta'[1].cells[e].path[r] = NoPath
    <3>1. savedMeta'[1] = MetadataMap
      BY <1>0, OneMap
    <3>. QED  BY <2>3, <3>1, EncodedIsUnfilled, Zenon
  <2>. QED  BY <1>0, <1>6, <2>2, <2>4 DEF RestartsIInv, SavedMapsFound
<1>. QED  BY <1>0, <1>1, <1>2, <1>3, <1>4, <1>5, <1>7 DEF RestartsIInv

\* The final save begins when no request is running.
LEMMA UnmountStaysFound == ASSUME OnceWorkload, RestartsIInv, Unmount PROVE RestartsIInv'
<1>0. /\ UNCHANGED <<filesVars, nodeInfo, savedNodes, savedMeta, dirty, since>>
      /\ main = "serving" /\ main' = "closing" /\ save' = [save EXCEPT !["exit"] = "nodes"]
      /\ save \in [Savers -> SaveStages] /\ \A t \in Threads : Stage(t) = "idle"
  BY DEF Unmount, filesVars, RestartsIInv, PersistenceIInv, PersistenceTypeOK
<1>1. PersistenceIInv'
  BY UnmountKeeps DEF RestartsIInv
<1>2. CalmKept' /\ WritersTo'
  BY <1>0, SavesKeepMemory
<1>3. SavesSound'
  <2>1. \A t : Stage(t)' = Stage(t)
    BY <1>0 DEF filesVars, Stage
  <2>. QED  BY <1>0, <2>1 DEF RestartsIInv, SavesSound, Savers
<1>4. Late' <=> Late
  BY <1>0 DEF Late, Savers
<1>5. NodesAgree'
  BY <1>0, <1>4 DEF RestartsIInv, NodesAgree
<1>6. PICK D, E, map, saved : D = dirty /\ E = since /\ map = nodeInfo /\ saved = savedNodes
  OBVIOUS
<1>7. SavedMapsFound'
  <2>1. saved # << >> => ZeroFound(saved[1])
    BY <1>6 DEF RestartsIInv, SavedMapsFound
  <2>2. saved # << >> => ZeroFound(saved[1])'
    BY <1>0, <2>1, StillMemory
  <2>. QED  BY <1>0, <1>6, <2>2 DEF RestartsIInv, SavedMapsFound
<1>8. ChangesLead'
  <2>2. /\ Touched(D) /\ Touched(E)
        /\ \A p \in Path \cap D : Leads(p, map[p], D)
        /\ \A p \in Path \cap E : Leads(p, map[p], E)
        /\ saved # << >> =>
              /\ \A p \in Path \cap D : Leads(p, saved[1][p], D)
              /\ Late => \A p \in Path \cap E : Leads(p, saved[1][p], E)
    BY <1>6 DEF RestartsIInv, ChangesLead
  <2>3. /\ Touched(D)' /\ Touched(E)'
        /\ \A p \in Path \cap D : Leads(p, map[p], D)'
        /\ \A p \in Path \cap E : Leads(p, map[p], E)'
        /\ saved # << >> =>
              /\ \A p \in Path \cap D : Leads(p, saved[1][p], D)'
              /\ Late => \A p \in Path \cap E : Leads(p, saved[1][p], E)'
    BY <1>0, <2>2, StillMemory
  <2>. QED  BY <1>0, <1>4, <1>6, <2>3 DEF ChangesLead
<1>. QED  BY <1>1, <1>2, <1>3, <1>5, <1>7, <1>8 DEF RestartsIInv

-----------------------------------------------------------------------------
(* A new process, in which no request is running.                          *)

AllIdle == \A t \in Threads : Stage(t) = "idle" /\ ~Busy(t)

\* What is said of requests is true of those that do nothing.
IdleSound ==
    /\ OwnersApart => FilesApart
    /\ contended \subseteq overlap => Meetings
    /\ UnfilledPaths => StoreFound
    /\ \A t \in Threads : HandleFound(t) /\ LookFound(t) /\ UnlinkFound(t) /\ LinkFound(t)
    /\ WritersTo /\ Touched(dirty) /\ Touched(since)

LEMMA IdleFound == AllIdle => IdleSound
<1>. SUFFICES ASSUME AllIdle PROVE IdleSound
  OBVIOUS
<1>1. \A t \in Threads : /\ Stage(t) = "idle" /\ ~Busy(t) /\ ~Writing(t) /\ ~InRelease(t)
                         /\ ~HoldsFile(t) /\ ~InUnlink(t) /\ ~InLookup(t) /\ ~HasNew(t)
                         /\ ~HasTouched(t) /\ t \notin Engaged
  BY DEF AllIdle, Writing, InLookup, InRelease, HoldsFile, InUnlink, HasNew, HasTouched, Engaged
<1>2. OwnersApart => FilesApart
  BY <1>1 DEF FilesApart, StagesOnce, OneInDirectory, HandleApart, WriterSound, ReleaseSound, UnlinkSound
<1>3. contended \subseteq overlap => Meetings
  BY <1>1 DEF Meetings, EngagedApart, LookupsApart, Engaged, CalmHashCalmPath, StoreCallSound
<1>4. UnfilledPaths => StoreFound
  BY <1>1 DEF StoreFound, NewSound, StoringSound, StoredSound
<1>5. \A t \in Threads : HandleFound(t) /\ LookFound(t) /\ UnlinkFound(t) /\ LinkFound(t)
  BY <1>1 DEF HandleFound, LookFound, UnlinkFound, LinkFound
<1>6. WritersTo /\ Touched(dirty) /\ Touched(since)
  BY <1>1 DEF WritersTo, Touched
<1>. QED  BY <1>2, <1>3, <1>4, <1>5, <1>6 DEF IdleSound

\* A lookup shows the same of the same cell.
LEMMA CellShows ==
    ASSUME NEW h, Cell(h)' = Cell(h)
    PROVE  /\ LiveOf(h)' = LiveOf(h)
           /\ \A r \in LiveOf(h) : LET info == [hash |-> h, ref |-> r] IN
                 PathOf(MetadataOf(info))' = PathOf(MetadataOf(info))
<1>1. CASE table[h] = NoEntry
  BY <1>1 DEF Cell, LiveOf
<1>2. CASE table[h] # NoEntry
  <2>1. table'[h] # NoEntry /\ live'[table'[h]] = live[table[h]] /\ metaPath'[table'[h]] = metaPath[table[h]]
    BY <1>2 DEF Cell
  <2>. QED  BY <1>2, <2>1 DEF LiveOf, PathOf, MetadataOf, HasMetadata
<1>. QED  BY <1>1, <1>2

\* What a new process shows of what the crash has not damaged, where both files
\* were there, is what the old one showed; and no request was at work on it.
LEMMA UndamagedStays ==
    ASSUME RestartsIInv, main # "starting", Restart, << >> \notin {savedNodes, savedMeta}
    PROVE  /\ \A x \in Calm' : x \in Calm /\ x \notin dirty /\ x \notin InHand
           /\ \A h \in Calm' \cap AllHash : Cell(h)' = Cell(h)
           /\ nodeInfo' = savedNodes[1]
           /\ \A p \in Path \cap Calm' : nodeInfo'[p] = nodeInfo[p]
           /\ \A t \in Threads : Stage(t) # "idle" /\ ~InLookup(t) =>
                 req[t].path \notin Path \cap Calm' /\ req[t].hash \notin AllHash \cap Calm'
<1>1. ASSUME NEW x \in Calm' PROVE x \in Calm /\ x \notin dirty /\ x \notin InHand
  BY <1>1 DEF Restart, Damage, Calm
<1>2. \A h \in Calm' \cap AllHash : Cell(h)' = Cell(h)
  <2>1. SavedAgrees /\ SavedAgrees' /\ dirty' = {} /\ savedMeta' = savedMeta
    BY RestartKeeps DEF RestartsIInv, PersistenceIInv, Restart
  <2>. QED  BY <1>1, <2>1 DEF SavedAgrees
<1>3. nodeInfo' = savedNodes[1]
  BY DEF Restart, LoadNodes
<1>4. \A p \in Path \cap Calm' : nodeInfo'[p] = nodeInfo[p]
  BY <1>1, <1>3 DEF RestartsIInv, NodesAgree
<1>5. \A t \in Threads : Stage(t) # "idle" /\ ~InLookup(t) =>
          req[t].path \notin Path \cap Calm' /\ req[t].hash \notin AllHash \cap Calm'
  BY <1>1 DEF InHand
<1>. QED  BY <1>1, <1>2, <1>3, <1>4, <1>5

\* A node info that leads to undamaged content is about an undamaged path, in
\* memory and in the file.
LEMMA UndamagedLeads ==
    ASSUME RestartsIInv, main # "starting", Restart, << >> \notin {savedNodes, savedMeta},
           NEW p \in Path, NEW info \in {nodeInfo[p], nodeInfo'[p]}, info # NoInfo, info.ref # 0,
           info.hash \in Calm' \cap Hash
    PROVE  p \in Calm' /\ p \in Calm /\ nodeInfo[p] = info /\ nodeInfo'[p] = info
<1>1. /\ info.hash \in Calm /\ info.hash \notin dirty /\ info.hash \notin InHand /\ info.hash \in AllHash
      /\ nodeInfo' = savedNodes[1]
  BY UndamagedStays DEF AllHash
<1>2. ~Removing(p, info.hash)
  BY <1>1 DEF Removing, InHand, InLookup
<1>3. p \notin dirty
  <2>. SUFFICES ASSUME p \in dirty PROVE Leads(p, info, dirty)
    BY <1>1, <1>2 DEF Leads
  <2>. QED  BY <1>1 DEF RestartsIInv, ChangesLead
<1>4. nodeInfo[p] = info /\ nodeInfo'[p] = info
  BY <1>1, <1>3 DEF RestartsIInv, NodesAgree
<1>5. p \in Calm
  BY <1>1, <1>4, ServingIsCalm, CalmInfo
<1>6. p \notin InHand
  BY <1>1, <1>4, HandsLead
<1>7. p \in Calm'
  BY <1>3, <1>5, <1>6 DEF Restart, Damage, Calm
<1>. QED  BY <1>4, <1>5, <1>7

\* An undamaged path is as memory had it, with no request on it.
LEMMA UndamagedPath ==
    ASSUME RestartsIInv, main # "starting", Restart, << >> \notin {savedNodes, savedMeta},
           NEW p \in Path \cap Calm'
    PROVE  /\ nodeInfo'[p] = nodeInfo[p]
           /\ own[p] = NoFile <=> names[p] = NoFile
           /\ own[p] = NoFile <=> nodeInfo[p] = NoInfo
           /\ tmp[p] = NoFile
<1>1. p \in Calm /\ nodeInfo'[p] = nodeInfo[p]
  BY UndamagedStays
<1>2. \A t \in Threads : Stage(t) # "idle" /\ ~InLookup(t) => req[t].path # p
  BY UndamagedStays
<1>3. PathFound(p)
  BY DEF RestartsIInv, CalmKept
<1>. QED  BY <1>1, <1>2, <1>3 DEF PathFound, InUnlink, InLookup

\* What node infos and metadata show after a crash they showed before.
LEMMA UndamagedFound ==
    ASSUME RestartsIInv, main # "starting", Restart, << >> \notin {savedNodes, savedMeta}, AllIdle'
    PROVE  /\ \A p \in Path : ContentFound(p)' /\ InfoFound(p)'
           /\ \A h \in Hash : MetadataFound(h)'
           /\ Shared' /\ ZeroFound(nodeInfo)'
           /\ \A p \in Path : \A info :
                 info = nodeInfo'[p] /\ info # NoInfo /\ info.ref # 0 /\ info.hash \in Calm' \cap Hash =>
                    info.ref \in LiveOf(info.hash)'
<1>0. /\ UNCHANGED <<names, tmp, data, own, want>> /\ CalmIInv /\ Hash \subseteq AllHash /\ NoHash \notin Hash
      /\ nodeInfo \in [Path -> Info \cup {NoInfo}] /\ names \in [Path -> Inode \cup {NoFile}]
  BY ServingIsCalm, CalmTypes DEF Restart, disk, clients, CalmIInv
<1>1. \A t \in Threads : Stage(t) # "idle" /\ ~InLookup(t) =>
          req[t].path \notin Path \cap Calm' /\ req[t].hash \notin AllHash \cap Calm'
  BY UndamagedStays
<1>2. ASSUME NEW p \in Path PROVE ContentFound(p)'
  <2>. SUFFICES ASSUME own[p] # NoFile, p \in Calm', want[own[p]] \in Calm'
                PROVE  /\ data[names[p]] = want[own[p]]
                       /\ nodeInfo[p] # NoInfo /\ nodeInfo[p].hash = want[own[p]] /\ nodeInfo[p].ref # 0
    <3>1. nodeInfo'[p] = nodeInfo[p] \/ p \notin Calm'
      BY UndamagedPath
    <3>2. \A t \in Threads : ~HoldsFile(t)'
      BY DEF AllIdle, HoldsFile, Writing, InRelease
    <3>. QED  BY <1>0, <3>1, <3>2 DEF ContentFound
  <2>1. ContentFound(p) /\ p \in Calm /\ want[own[p]] \in Calm
    BY <1>0, UndamagedStays DEF CalmIInv, NodesFound
  <2>2. \A t \in Threads : HoldsFile(t) => req[t].path # p
    BY <1>1 DEF HoldsFile, Writing, InRelease, InLookup
  <2>. QED  BY <2>1, <2>2 DEF ContentFound
<1>3. ASSUME NEW p \in Path, NEW info, info = nodeInfo'[p], info # NoInfo, info.ref # 0,
             info.hash \in Calm' \cap Hash
      PROVE  /\ p \in Calm' /\ own[p] # NoFile /\ want[own[p]] = info.hash
             /\ info.ref \in LiveOf(info.hash)' /\ PathOf(MetadataOf(info))' = p
  <2>1. p \in Calm' /\ p \in Calm /\ nodeInfo[p] = info
    BY <1>3, UndamagedLeads
  <2>2. own[p] # NoFile
    BY <1>3, <2>1, UndamagedPath
  <2>3. InfoFound(p) /\ info.hash \in Calm
    BY <1>0, <1>3, UndamagedStays DEF CalmIInv, NodesFound
  <2>4. want[own[p]] = info.hash /\ info.ref \in LiveOf(info.hash) /\ PathOf(MetadataOf(info)) = p
    BY <1>1, <1>3, <2>1, <2>2, <2>3 DEF InfoFound, InLookup
  <2>5. Cell(info.hash)' = Cell(info.hash)
    BY <1>0, <1>3, UndamagedStays
  <2>6. info = [hash |-> info.hash, ref |-> info.ref]
    BY <1>0, <1>3, <2>1, InfoShape
  <2>. QED  BY <2>1, <2>2, <2>4, <2>5, <2>6, CellShows
<1>4. ASSUME NEW p \in Path PROVE InfoFound(p)'
  <2>1. nodeInfo'[p] # NoInfo /\ nodeInfo'[p].ref = 0 => nodeInfo'[p].hash = NoHash
    BY UndamagedStays DEF RestartsIInv, SavedMapsFound
  <2>2. PICK info : info = nodeInfo'[p]
    OBVIOUS
  <2>. QED  BY <1>0, <1>3, <2>1, <2>2 DEF InfoFound
<1>5. ASSUME NEW h \in Hash PROVE MetadataFound(h)'
  <2>. SUFFICES ASSUME h \in Calm', NEW r \in LiveOf(h)',
                       NEW info, info = [hash |-> h, ref |-> r]
                PROVE  PathOf(MetadataOf(info))' \in Path /\ nodeInfo'[PathOf(MetadataOf(info))'] = info
    BY DEF MetadataFound
  <2>1. h \in Calm /\ h \in AllHash /\ Cell(h)' = Cell(h)
    BY <1>0, UndamagedStays
  <2>2. r \in LiveOf(h) /\ PathOf(MetadataOf(info))' = PathOf(MetadataOf(info))
    BY <2>1, CellShows
  <2>3. \A t \in Threads : ~(HasNew(t) /\ req[t].hash = h)
    BY <1>1, <2>1 DEF HasNew, InLookup
  <2>4. PICK q \in Path : q = PathOf(MetadataOf(info)) /\ nodeInfo[q] = info
    BY <1>0, <2>1, <2>2, <2>3 DEF CalmIInv, NodesFound, MetadataFound
  <2>5. info # NoInfo /\ info.ref # 0
    <3>1. r \in Refs /\ 0 \notin Refs /\ info.ref = r
      BY <1>0, <2>1, <2>2, CalmTypes DEF CalmIInv
    <3>2. info \in Info
      BY <1>0, <2>1, <3>1, StoreAssumption DEF Info, Refs
    <3>. QED  BY <3>1, <3>2, FilesAssumption
  <2>6. nodeInfo'[q] = info
    BY <2>4, <2>5, UndamagedLeads
  <2>. QED  BY <2>2, <2>4, <2>6
<1>6. Shared'
  <2>1. ASSUME NEW h \in Calm' \cap Hash, NEW p \in Path, Keeps(p, h)' PROVE Keeps(p, h)
    <3>1. own[p] # NoFile /\ nodeInfo'[p] # NoInfo /\ nodeInfo'[p].hash = h
      BY <1>0, <2>1 DEF Keeps
    <3>2. nodeInfo'[p].ref # 0
      BY <1>0, <1>4, <3>1 DEF InfoFound
    <3>3. p \in Calm' /\ nodeInfo[p] = nodeInfo'[p]
      BY <3>1, <3>2, UndamagedLeads
    <3>4. \A t \in Threads : Stage(t) \in {"link", "swap"} => req[t].path # p
      BY <1>1, <3>3 DEF InLookup
    <3>. QED  BY <3>1, <3>3, <3>4 DEF Keeps
  <2>2. \A h \in Calm' \cap Hash : h \in Calm \cap Hash
    BY UndamagedStays
  <2>3. Shared
    BY <1>0 DEF CalmIInv, NodesFound
  <2>. QED  BY <1>0, <2>1, <2>2, <2>3 DEF Shared
<1>7. ZeroFound(nodeInfo)'
  <2>. SUFFICES ASSUME NoHash \in Calm', NEW p \in Path, nodeInfo'[p] # NoInfo, nodeInfo'[p].hash = NoHash,
                       NEW ref, ref = nodeInfo'[p].ref, ref # 0
                PROVE  ZeroKept(p, ref)'
    BY DEF ZeroFound, ZeroKept
  <2>1. NoHash \in Calm /\ NoHash \in AllHash /\ Cell(NoHash)' = Cell(NoHash) /\ nodeInfo' = savedNodes[1]
    BY UndamagedStays DEF AllHash
  <2>2. ZeroKept(p, ref)
    BY <2>1 DEF RestartsIInv, SavedMapsFound, ZeroFound
  <2>3. ref \in LiveOf(NoHash) /\ metaPath[table[NoHash]][ref] = p
    BY <1>1, <2>1, <2>2 DEF ZeroKept, InLookup
  <2>4. ref \in LiveOf(NoHash)' /\ metaPath'[table'[NoHash]][ref] = p
    BY <2>1, <2>3 DEF Cell, LiveOf
  <2>. QED  BY <2>4 DEF ZeroKept
<1>. QED  BY <1>2, <1>3, <1>4, <1>5, <1>6, <1>7

\* The metadata that is loaded has no Path it should not have.
LEMMA LoadedIsUnfilled == ASSUME SavedMapsFound, Restart PROVE UnfilledPaths'
<1>. DEFINE map == IF savedMeta = << >> THEN EmptyMap ELSE savedMeta[1]
            cell(e) == IF e \in DOMAIN map.cells THEN map.cells[e] ELSE BlankCell
<1>1. /\ index' = [e \in Entries |-> cell(e).index]
      /\ metaPath' = [e \in Entries |-> cell(e).path]
  BY DEF Restart, LoadMetadata
<1>2. ASSUME NEW e, NEW r \in Refs, r > cell(e).index PROVE cell(e).path[r] = NoPath
  <2>1. CASE e \in DOMAIN map.cells
    <3>1. savedMeta # << >>
      BY <2>1 DEF EmptyMap
    <3>. QED  BY <1>2, <2>1, <3>1 DEF SavedMapsFound
  <2>2. CASE e \notin DOMAIN map.cells
    <3>1. BlankCell.path = [i \in Refs |-> NoPath]
      BY DEF BlankCell
    <3>. QED  BY <1>2, <2>2, <3>1
  <2>. QED  BY <2>1, <2>2
<1>. HIDE DEF cell
<1>. QED  BY <1>1, <1>2 DEF UnfilledPaths

\* A crash leaves what it has not damaged as it was.
LEMMA RestartStaysFound ==
    ASSUME OnceWorkload, RestartsIInv, main # "starting", Restart
    PROVE  RestartsIInv'
<1>0. /\ main' = "starting" /\ dirty' = {} /\ since' = {} /\ save' = [s \in Savers |-> "idle"]
      /\ UNCHANGED <<names, tmp, data, own, want, savedNodes, savedMeta>>
      /\ buffer' = [p \in Path |-> NoBuffer]
  BY DEF Restart, disk, clients
<1>1. PersistenceIInv'
  BY RestartKeeps DEF RestartsIInv
<1>2. AllIdle'
  BY BlankRequest DEF Restart, AllIdle, Stage, Busy
<1>3. OwnersApart' /\ contended' \subseteq overlap' /\ UnfilledPaths'
  <2>1. OwnersApart'
    BY <1>0 DEF RestartsIInv, CalmKept, FilesApart, OwnersApart
  <2>2. contended' \subseteq overlap'
    BY DEF Restart, RestartsIInv, CalmKept, Meetings
  <2>. QED  BY <2>1, <2>2, LoadedIsUnfilled DEF RestartsIInv
<1>4. /\ FilesApart' /\ Meetings' /\ StoreFound' /\ WritersTo' /\ Touched(dirty)' /\ Touched(since)'
      /\ \A t \in Threads : HandleFound(t)' /\ LookFound(t)' /\ UnlinkFound(t)' /\ LinkFound(t)'
  <2>1. IdleSound'
    BY <1>2, IdleFound, PTL
  <2>. QED  BY <1>3, <2>1 DEF IdleSound
<1>5. ASSUME << >> \notin {savedNodes, savedMeta} PROVE NodesLed' /\ ZeroFound(nodeInfo)' /\ StartingFound'
  <2>1. NodesLed' /\ ZeroFound(nodeInfo)'
    BY <1>2, <1>4, <1>5, UndamagedFound DEF NodesLed
  <2>2. StartingFound'
    <3>1. \A p \in Path \cap Calm' :
             /\ own'[p] = NoFile <=> names'[p] = NoFile
             /\ own'[p] # NoFile => nodeInfo'[p] # NoInfo
             /\ tmp'[p] = NoFile
      BY <1>0, <1>5, UndamagedPath
    <3>2. \A p \in Path : \A info :
                 info = nodeInfo'[p] /\ info # NoInfo /\ info.ref # 0 /\ info.hash \in Calm' \cap Hash =>
                    info.ref \in LiveOf(info.hash)'
      BY <1>2, <1>5, UndamagedFound
    <3>. QED  BY <1>0, <3>1, <3>2 DEF StartingFound
  <2>. QED  BY <2>1, <2>2
<1>6. ASSUME << >> \in {savedNodes, savedMeta} PROVE NodesLed' /\ ZeroFound(nodeInfo)' /\ StartingFound'
  <2>1. Calm' = {}
    BY <1>6 DEF Restart, Damage, Calm
  <2>2. \A p \in Path : nodeInfo'[p] # NoInfo /\ nodeInfo'[p].ref = 0 => nodeInfo'[p].hash = NoHash
    BY DEF Restart, LoadNodes, RestartsIInv, SavedMapsFound
  <2>3. \A p \in Path : ContentFound(p)' /\ InfoFound(p)'
    BY <2>1, <2>2 DEF ContentFound, InfoFound
  <2>4. NodesLed' /\ ZeroFound(nodeInfo)'
    BY <1>4, <2>1, <2>3 DEF NodesLed, MetadataFound, Shared, ZeroFound
  <2>5. StartingFound'
    BY <1>0, <2>1 DEF StartingFound
  <2>. QED  BY <2>4, <2>5
<1>7. CalmKept'
  BY <1>0, <1>4, <1>5, <1>6 DEF CalmKept
<1>8. SavesSound'
  BY <1>0 DEF SavesSound
<1>9. savedNodes # << >> => nodeInfo' = savedNodes[1]
  BY DEF Restart, LoadNodes
<1>10. NodesAgree'
  BY <1>0, <1>9 DEF NodesAgree
<1>11. SavedMapsFound'
  <2>1. CASE savedNodes # << >>
    <3>1. \A p \in Path : nodeInfo'[p] = savedNodes'[1][p]
      BY <1>0, <1>9, <2>1
    <3>2. ZeroFound(savedNodes[1])'
      BY <1>0, <1>5, <1>6, <3>1 DEF ZeroFound
    <3>. QED  BY <1>0, <3>2 DEF RestartsIInv, SavedMapsFound
  <2>2. CASE savedNodes = << >>
    BY <1>0, <2>2 DEF RestartsIInv, SavedMapsFound
  <2>. QED  BY <2>1, <2>2
<1>12. ChangesLead'
  BY <1>0, <1>4 DEF ChangesLead
<1>. QED  BY <1>1, <1>4, <1>7, <1>8, <1>10, <1>11, <1>12 DEF RestartsIInv

\* A file that is gone takes its path's name with it and nothing else.
LEMMA RemoveUnderlyingStaysFound ==
    ASSUME OnceWorkload, RestartsIInv, NEW p \in Path, RemoveUnderlying(p)
    PROVE  RestartsIInv'
<1>0. /\ main = "starting" /\ main' = main /\ names' = [names EXCEPT ![p] = NoFile] /\ own' = [own EXCEPT ![p] = NoFile]
      /\ UNCHANGED <<table, heap, pc, contended, metaPath, index, req, buffer, tmp, data, nodeInfo, want, overlap,
                     save, savedNodes, savedMeta, dirty, since>>
      /\ names \in [Path -> Inode \cup {NoFile}] /\ own \in [Path -> Inode \cup {NoFile}]
  BY DEF RemoveUnderlying, vars, locals, heap, saves, RestartsIInv, PersistenceIInv, FilesIInv, FilesTypeOK
<1>1. PersistenceIInv'
  BY RemoveUnderlyingKeeps DEF RestartsIInv
<1>2. AllIdle /\ AllIdle'
  <2>1. AllIdle
    BY <1>0 DEF RestartsIInv, PersistenceIInv, StartingSound, AllIdle
  <2>. QED  BY <1>0, <2>1 DEF AllIdle, Stage, Busy
<1>3. OwnersApart' /\ contended' \subseteq overlap' /\ UnfilledPaths'
  <2>1. OwnersApart'
    BY <1>0, <1>2 DEF RestartsIInv, CalmKept, FilesApart, OwnersApart, AllIdle, Writing
  <2>. QED  BY <1>0, <2>1 DEF RestartsIInv, CalmKept, Meetings, StoreFound, UnfilledPaths
<1>4. /\ FilesApart' /\ Meetings' /\ StoreFound' /\ WritersTo' /\ Touched(dirty)' /\ Touched(since)'
      /\ \A t \in Threads : HandleFound(t)' /\ LookFound(t)' /\ UnlinkFound(t)' /\ LinkFound(t)'
  <2>1. IdleSound'
    BY <1>2, IdleFound, PTL
  <2>. QED  BY <1>3, <2>1 DEF IdleSound
<1>5. /\ \A h : LiveOf(h)' = LiveOf(h)
      /\ \A h, r : LET info == [hash |-> h, ref |-> r] IN
                   PathOf(MetadataOf(info))' = PathOf(MetadataOf(info))
      /\ \A t : Stage(t)' = Stage(t)
      /\ Calm' = Calm
  BY <1>0, SameStoreSameInfo DEF Stage, Calm
<1>6. \A q \in Path : ContentFound(q)' /\ InfoFound(q)'
  <2>1. \A t \in Threads : ~HoldsFile(t)' /\ ~HoldsFile(t) /\ Stage(t) = "idle"
    BY <1>2 DEF AllIdle, HoldsFile, Writing, InRelease
  <2>2. \A q \in Path : ContentFound(q) /\ InfoFound(q)
    BY DEF RestartsIInv, CalmKept, NodesLed
  <2>3. \A q \in Path : own'[q] # NoFile => own'[q] = own[q] /\ names'[q] = names[q]
    BY <1>0
  <2>4. \A q \in Path : ContentFound(q)'
    BY <1>0, <1>5, <2>1, <2>2, <2>3 DEF ContentFound
  <2>5. ASSUME NEW q \in Path, NEW info, info = nodeInfo[q], info # NoInfo PROVE InfoFound(q)'
    <3>1. info \in Info
      BY <2>5 DEF RestartsIInv, PersistenceIInv, FilesIInv, FilesTypeOK
    <3>2. info = [hash |-> info.hash, ref |-> info.ref]
      BY <3>1 DEF Info
    <3>3. PathOf(MetadataOf(info))' = PathOf(MetadataOf(info))
      BY <1>5, <3>2
    <3>. QED  BY <1>0, <1>5, <2>1, <2>2, <2>3, <2>5, <3>3 DEF InfoFound
  <2>6. \A q \in Path : InfoFound(q)'
    BY <1>0, <2>5 DEF InfoFound
  <2>. QED  BY <2>4, <2>6
<1>7. \A h \in Hash : MetadataFound(h)'
  <2>1. \A t \in Threads : HasNew(t)' <=> HasNew(t)
    BY <1>5 DEF HasNew
  <2>. QED  BY <1>0, <1>5, <2>1 DEF RestartsIInv, CalmKept, NodesLed, MetadataFound
<1>8. Shared'
  <2>1. \A h : \A q \in Path : Keeps(q, h)' => Keeps(q, h) /\ names'[q] = names[q]
    BY <1>0, <1>5 DEF Keeps
  <2>. QED  BY <1>0, <1>5, <2>1 DEF RestartsIInv, CalmKept, NodesLed, Shared
<1>9. ASSUME NEW map, ZeroFound(map) PROVE ZeroFound(map)'
  <2>1. \A q, ref : ZeroKept(q, ref)' <=> ZeroKept(q, ref)
    BY <1>0, <1>5 DEF ZeroKept
  <2>. QED  BY <1>5, <1>9, <2>1 DEF ZeroFound
<1>10. PICK map, saved : map = nodeInfo /\ saved = savedNodes
  OBVIOUS
<1>11. CalmKept'
  <2>1. ZeroFound(nodeInfo)'
    <3>1. ZeroFound(map)'
      BY <1>9, <1>10 DEF RestartsIInv, CalmKept
    <3>. QED  BY <1>0, <1>10, <3>1 DEF ZeroFound
  <2>2. StartingFound'
    <3>1. StartingFound
      BY <1>0 DEF RestartsIInv, CalmKept
    <3>. QED  BY <1>0, <1>5, <3>1 DEF StartingFound
  <2>. QED  BY <1>0, <1>4, <1>6, <1>7, <1>8, <2>1, <2>2 DEF CalmKept, NodesLed
<1>12. SavesSound'
  BY <1>0, <1>5 DEF RestartsIInv, SavesSound
<1>13. NodesAgree'
  BY <1>0 DEF RestartsIInv, NodesAgree, Late
<1>14. SavedMapsFound'
  <2>1. saved # << >> => ZeroFound(saved[1])'
    BY <1>9, <1>10 DEF RestartsIInv, SavedMapsFound
  <2>. QED  BY <1>0, <1>10, <2>1 DEF RestartsIInv, SavedMapsFound
<1>15. ChangesLead'
  BY <1>0, <1>4 DEF RestartsIInv, CalmKept, StartingFound, ChangesLead
<1>. QED  BY <1>1, <1>4, <1>11, <1>12, <1>13, <1>14, <1>15 DEF RestartsIInv

\* The check takes the references of missing files, and leaves the entry where
\* it is while one remains.
LEMMA CheckLeaves ==
    ASSUME RestartsIInv, CheckIntegrity, NEW h \in Calm \cap AllHash
    PROVE  /\ LiveOf(h)' = LiveOf(h) \ MissingRefs(h)
           /\ LiveOf(h)' # {} => table'[h] = table[h]
<1>0. /\ live' = [e \in Entries |-> live[e] \ MissingRefs(home[e])]
      /\ table' = [g \in AllHash |->
            IF MissingRefs(g) # {} /\ count[table[g]] \in 1..Cardinality(MissingRefs(g))
            THEN NoEntry ELSE table[g]]
      /\ UNCHANGED <<home, allocated, contended>>
  BY DEF CheckIntegrity
<1>1. TypeOK /\ TableSound /\ NothingLost'
  BY CheckIntegrityKeeps DEF RestartsIInv, PersistenceIInv, FilesIInv, IInv
<1>2. h \in Quiet'
  BY <1>0 DEF RestartsIInv, CalmKept, Meetings, Calm, Quiet
<1>3. table'[h] \in {NoEntry, table[h]}
  BY <1>0
<1>4. CASE table[h] = NoEntry
  BY <1>3, <1>4 DEF LiveOf
<1>5. CASE table[h] # NoEntry
  <2>1. table[h] \in Entries /\ table[h] \in allocated /\ home[table[h]] = h
    BY <1>1, <1>5 DEF TypeOK, TableSound
  <2>2. live'[table[h]] = live[table[h]] \ MissingRefs(h)
    BY <1>0, <2>1
  <2>3. live'[table[h]] # {} => table'[h] = table[h]
    BY <1>0, <1>1, <1>2, <2>1 DEF NothingLost
  <2>. QED  BY <1>3, <1>5, <2>2, <2>3 DEF LiveOf
<1>. QED  BY <1>4, <1>5

\* What is found of a hash after the check was found before, at the same place.
LEMMA CheckShows ==
    ASSUME RestartsIInv, CheckIntegrity, NEW h \in Calm \cap AllHash, NEW r \in LiveOf(h)'
    PROVE  /\ r \in LiveOf(h) /\ r \notin MissingRefs(h) /\ table'[h] = table[h]
           /\ LET info == [hash |-> h, ref |-> r] IN PathOf(MetadataOf(info))' = PathOf(MetadataOf(info))
<1>1. r \in LiveOf(h) /\ r \notin MissingRefs(h) /\ table'[h] = table[h] /\ metaPath' = metaPath
  BY CheckLeaves DEF CheckIntegrity
<1>2. r \in live[table[h]] /\ r \in live'[table'[h]] /\ table[h] # NoEntry
  BY <1>1 DEF LiveOf
<1>. QED  BY <1>1, <1>2 DEF PathOf, MetadataOf, HasMetadata

\* Empty files' metadata is not removed.
LEMMA CheckKeepsZero ==
    ASSUME RestartsIInv, CheckIntegrity, NEW map, ZeroFound(map)
    PROVE  ZeroFound(map)'
<1>. SUFFICES ASSUME NoHash \in Calm', NEW p \in Path, map[p] # NoInfo, map[p].hash = NoHash,
                     NEW ref, ref = map[p].ref, ref # 0
              PROVE  ZeroKept(p, ref)'
  BY DEF ZeroFound, ZeroKept
<1>1. /\ UNCHANGED <<metaPath, req, overlap>> /\ NoHash \in Calm \cap AllHash
  BY DEF CheckIntegrity, Calm, AllHash
<1>2. ZeroKept(p, ref)
  BY <1>1 DEF ZeroFound
<1>3. MissingRefs(NoHash) = {}
  BY DEF MissingRefs, Found
<1>4. ref \in LiveOf(NoHash)' /\ table'[NoHash] = table[NoHash]
  BY <1>1, <1>2, <1>3, CheckLeaves DEF ZeroKept
<1>. QED  BY <1>1, <1>2, <1>4 DEF ZeroKept, Stage

\* The check completes what node infos and metadata say of each other.
LEMMA CheckFinds ==
    ASSUME RestartsIInv, CheckIntegrity, AllIdle, AllIdle'
    PROVE  /\ \A p \in Path : PathFound(p)' /\ ContentFound(p)' /\ InfoFound(p)'
           /\ \A h \in Hash : MetadataFound(h)'
           /\ Shared'
<1>0. /\ main = "starting" /\ nodeInfo' = [p \in Path |-> IF p \in Missing THEN NoInfo ELSE nodeInfo[p]]
      /\ UNCHANGED <<metaPath, names, tmp, data, own, want, req, overlap>>
      /\ names \in [Path -> Inode \cup {NoFile}] /\ nodeInfo \in [Path -> Info \cup {NoInfo}]
      /\ Calm' = Calm /\ Hash \subseteq AllHash
  BY CalmTypes DEF CheckIntegrity, disk, clients, Calm, RestartsIInv, PersistenceIInv, FilesIInv, FilesTypeOK
<1>1. \A t \in Threads : Stage(t) = "idle" /\ Stage(t)' = "idle" /\ ~HoldsFile(t)' /\ ~HoldsFile(t) /\ ~HasNew(t)
  BY DEF AllIdle, HoldsFile, Writing, InRelease, HasNew
<1>2. StartingFound /\ NodesLed /\ OwnersApart
  BY <1>0 DEF RestartsIInv, CalmKept, FilesApart
<1>3. ASSUME NEW p \in Path, NEW info, info = nodeInfo[p], info # NoInfo, info.ref # 0, info.hash \in Calm \cap Hash
      PROVE  /\ p \in Calm /\ info.ref \in LiveOf(info.hash) /\ PathOf(MetadataOf(info)) = p
             /\ own[p] # NoFile => want[own[p]] = info.hash
             /\ info = [hash |-> info.hash, ref |-> info.ref]
  <2>1. InfoFound(p) /\ info.ref \in LiveOf(info.hash)
    BY <1>2, <1>3 DEF NodesLed, StartingFound
  <2>2. info = [hash |-> info.hash, ref |-> info.ref]
    BY <1>0, <1>3 DEF Info
  <2>. QED  BY <1>1, <1>3, <2>1, <2>2 DEF InfoFound
<1>4. ASSUME NEW p \in Path PROVE PathFound(p)'
  <2>. SUFFICES ASSUME p \in Calm
                PROVE  /\ own[p] = NoFile <=> names[p] = NoFile
                       /\ own[p] = NoFile => nodeInfo'[p] = NoInfo
                       /\ own[p] # NoFile => nodeInfo'[p] # NoInfo
                       /\ tmp[p] = NoFile
    BY <1>0 DEF PathFound
  <2>1. /\ own[p] = NoFile <=> names[p] = NoFile
        /\ own[p] # NoFile => nodeInfo[p] # NoInfo
        /\ tmp[p] = NoFile
    BY <1>2 DEF StartingFound
  <2>. QED  BY <1>0, <2>1 DEF Missing
<1>5. ASSUME NEW p \in Path PROVE ContentFound(p)'
  <2>1. ContentFound(p) /\ (own[p] # NoFile => names[p] # NoFile)
    BY <1>2 DEF NodesLed, OwnersApart
  <2>2. own[p] # NoFile => nodeInfo'[p] = nodeInfo[p]
    BY <1>0, <2>1 DEF Missing
  <2>. QED  BY <1>0, <1>1, <2>1, <2>2 DEF ContentFound
<1>6. ASSUME NEW p \in Path PROVE InfoFound(p)'
  <2>. SUFFICES ASSUME p \notin Missing, NEW info, info = nodeInfo[p], nodeInfo'[p] = info, info # NoInfo
                PROVE  InfoFound(p)'
    BY <1>0 DEF InfoFound
  <2>1. info.ref = 0 => info.hash = NoHash
    BY <1>2 DEF NodesLed, InfoFound
  <2>2. ASSUME info.ref # 0, info.hash \in Calm \cap Hash
        PROVE  /\ p \in Calm
               /\ own[p] # NoFile => want[own[p]] = info.hash
               /\ info.ref \in LiveOf(info.hash)' /\ PathOf(MetadataOf(info))' = p
    <3>1. /\ p \in Calm /\ info.ref \in LiveOf(info.hash) /\ PathOf(MetadataOf(info)) = p
          /\ own[p] # NoFile => want[own[p]] = info.hash
          /\ info = [hash |-> info.hash, ref |-> info.ref]
      BY <1>3, <2>2
    <3>2. info.ref \notin MissingRefs(info.hash)
      <4>. SUFFICES ASSUME NEW q \in Missing, nodeInfo[q] = info PROVE FALSE
        BY <3>1 DEF MissingRefs
      <4>1. q \in Path /\ PathOf(MetadataOf(info)) = q
        BY <1>3, <2>2 DEF Missing
      <4>. QED  BY <3>1, <4>1
    <3>3. info.ref \in LiveOf(info.hash)'
      BY <1>0, <2>2, <3>1, <3>2, CheckLeaves
    <3>. QED  BY <1>0, <2>2, <3>1, <3>3, CheckShows
  <2>. QED  BY <1>0, <2>1, <2>2 DEF InfoFound
<1>7. ASSUME NEW h \in Hash PROVE MetadataFound(h)'
  <2>. SUFFICES ASSUME h \in Calm, NEW r \in LiveOf(h)',
                       NEW info, info = [hash |-> h, ref |-> r]
                PROVE  PathOf(MetadataOf(info))' \in Path /\ nodeInfo'[PathOf(MetadataOf(info))'] = info
    BY <1>0 DEF MetadataFound
  <2>1. /\ r \in LiveOf(h) /\ r \notin MissingRefs(h) /\ h \in AllHash
        /\ PathOf(MetadataOf(info))' = PathOf(MetadataOf(info))
    BY <1>0, CheckShows
  <2>2. PICK q \in Path : q = PathOf(MetadataOf(info)) /\ nodeInfo[q] = info
    BY <1>1, <1>2, <2>1 DEF NodesLed, MetadataFound
  <2>3. q \notin Missing
    <3>1. r \in Refs /\ 0 \notin Refs /\ NoHash \notin Hash
      BY <2>1, CalmTypes DEF RestartsIInv, PersistenceIInv
    <3>2. table[h] # NoEntry /\ r \in live[table[h]]
      BY <2>1 DEF LiveOf
    <3>. QED  BY <2>1, <2>2, <3>1, <3>2 DEF MissingRefs, Found
  <2>. QED  BY <1>0, <2>1, <2>2, <2>3
<1>8. Shared'
  <2>1. \A p \in Path : \A h : Keeps(p, h)' => Keeps(p, h)
    BY <1>0, <1>1 DEF Keeps
  <2>. QED  BY <1>0, <1>2, <2>1 DEF NodesLed, Shared
<1>. QED  BY <1>4, <1>5, <1>6, <1>7, <1>8

\* The check remembers what it changes: the file's path and, where there was
\* metadata, the content.
LEMMA CheckIntegrityStaysFound ==
    ASSUME OnceWorkload, RestartsIInv, CheckIntegrity
    PROVE  RestartsIInv'
<1>0. /\ main = "starting" /\ main' = "serving"
      /\ nodeInfo' = [p \in Path |-> IF p \in Missing THEN NoInfo ELSE nodeInfo[p]]
      /\ UNCHANGED <<pc, contended, metaPath, index, req, buffer, names, tmp, data, own, want, overlap,
                     save, savedNodes, savedMeta>>
      /\ dirty' = dirty \cup Changed /\ since' = since \cup Changed
  BY DEF CheckIntegrity, Remember, locals, disk, clients, saves
<1>1. PersistenceIInv'
  BY CheckIntegrityKeeps DEF RestartsIInv
<1>2. AllIdle /\ AllIdle'
  <2>1. AllIdle
    BY <1>0 DEF RestartsIInv, PersistenceIInv, StartingSound, AllIdle
  <2>. QED  BY <1>0, <2>1 DEF AllIdle, Stage, Busy
<1>3. OwnersApart' /\ contended' \subseteq overlap' /\ UnfilledPaths'
  <2>1. OwnersApart'
    BY <1>0, <1>2 DEF RestartsIInv, CalmKept, FilesApart, OwnersApart, AllIdle, Writing
  <2>. QED  BY <1>0, <2>1 DEF RestartsIInv, CalmKept, Meetings, StoreFound, UnfilledPaths
<1>4. /\ FilesApart' /\ Meetings' /\ StoreFound' /\ WritersTo' /\ Touched(dirty)' /\ Touched(since)'
      /\ \A t \in Threads : HandleFound(t)' /\ LookFound(t)' /\ UnlinkFound(t)' /\ LinkFound(t)'
  <2>1. IdleSound'
    BY <1>2, IdleFound, PTL
  <2>. QED  BY <1>3, <2>1 DEF IdleSound
<1>5. PICK map, saved : map = nodeInfo /\ saved = savedNodes
  OBVIOUS
<1>6. CalmKept'
  <2>1. ZeroFound(map)'
    BY <1>5, CheckKeepsZero DEF RestartsIInv, CalmKept
  <2>2. ZeroFound(nodeInfo)'
    BY <1>0, <1>5, <2>1 DEF ZeroFound
  <2>. QED  BY <1>0, <1>2, <1>4, <2>2, CheckFinds DEF CalmKept, NodesLed
<1>7. SavesSound'
  BY <1>0 DEF RestartsIInv, SavesSound, Savers
<1>8. StartingFound /\ ~Late'
  BY <1>0 DEF RestartsIInv, CalmKept, SavesSound, Late, Savers
<1>9. NodesAgree'
  BY <1>0, <1>8 DEF RestartsIInv, NodesAgree, Changed
<1>10. SavedMapsFound'
  <2>1. saved # << >> => ZeroFound(saved[1])'
    BY <1>5, CheckKeepsZero DEF RestartsIInv, SavedMapsFound
  <2>. QED  BY <1>0, <1>5, <2>1 DEF RestartsIInv, SavedMapsFound
<1>11. ASSUME NEW p \in Path \cap Changed PROVE nodeInfo'[p] = NoInfo
  <2>1. p \notin AllHash /\ p \in Path
    BY CalmTypes DEF RestartsIInv, PersistenceIInv
  <2>2. nodeInfo'[p] # nodeInfo[p] \/ names'[p] # names[p]
    BY <2>1 DEF Changed
  <2>. QED  BY <1>0, <2>1, <2>2
<1>12. ASSUME NEW p \in Path \cap Changed, savedNodes # << >>, NEW info, info = savedNodes[1][p],
              info # NoInfo, info.ref # 0, info.hash \in Calm' \cap Hash
       PROVE  info.hash \in Changed
  <2>1. nodeInfo[p] = info
    BY <1>8, <1>12 DEF RestartsIInv, NodesAgree, StartingFound
  <2>2. info.hash \in Calm \cap Hash /\ info.hash \in AllHash
    BY <1>0, <1>12 DEF Calm, AllHash
  <2>3. p \in Missing /\ info.ref \in LiveOf(info.hash)
    BY <1>0, <1>8, <1>11, <1>12, <2>1, <2>2 DEF StartingFound
  <2>4. info.ref \in MissingRefs(info.hash)
    <3>1. info \in Info /\ NoHash \notin Hash /\ info.ref \in Refs
      BY <1>12, <2>1, <2>2, <2>3, CalmTypes DEF RestartsIInv, PersistenceIInv
    <3>2. info = [hash |-> info.hash, ref |-> info.ref]
      BY <3>1 DEF Info
    <3>3. Found(info.hash, info.ref)
      BY <1>12, <2>3, <3>1 DEF Found, LiveOf
    <3>. QED  BY <2>1, <2>3, <3>1, <3>2, <3>3 DEF MissingRefs
  <2>5. LiveOf(info.hash)' # LiveOf(info.hash)
    BY <2>2, <2>3, <2>4, CheckLeaves
  <2>6. Cell(info.hash)' # Cell(info.hash)
    BY <2>5, CellShows
  <2>. QED  BY <2>2, <2>6 DEF Changed
<1>13. ChangesLead'
  <2>1. PICK D : D = Changed
    OBVIOUS
  <2>2. dirty' = D /\ since' = D /\ Path \cap D \subseteq Path
    BY <1>0, <1>8, <2>1 DEF StartingFound
  <2>3. \A p \in Path \cap D : Leads(p, nodeInfo[p], D)'
    BY <1>11, <2>1 DEF Leads
  <2>4. saved # << >> => \A p \in Path \cap D : Leads(p, saved[1][p], D)'
    BY <1>5, <1>12, <2>1 DEF Leads
  <2>. QED  BY <1>0, <1>4, <1>5, <1>8, <2>2, <2>3, <2>4 DEF ChangesLead
<1>. QED  BY <1>1, <1>4, <1>6, <1>7, <1>9, <1>10, <1>13 DEF RestartsIInv

-----------------------------------------------------------------------------
(* Every step.                                                             *)

\* Nothing changes of what is said, where nothing changes.
LEMMA StutterStaysFound ==
    ASSUME OnceWorkload, RestartsIInv, UNCHANGED persistenceVars
    PROVE  RestartsIInv'
<1>0. /\ UNCHANGED <<filesVars, main, save, savedNodes, savedMeta, dirty, since>>
      /\ UNCHANGED <<table, heap, pc, req, names, tmp, data, own, want, nodeInfo, metaPath, overlap>>
  BY DEF persistenceVars, saves, filesVars, vars, disk, clients
<1>1. PersistenceIInv'
  BY PersistenceNextKeepsIInv DEF RestartsIInv
<1>2. FilesApart' /\ Meetings' /\ StoreFound'
  BY <1>0, FilesNextKeepsApart, FilesNextKeepsMeetings, FilesNextKeepsStoreFound
     DEF RestartsIInv, PersistenceIInv, CalmKept
<1>3. PICK D, E, map, saved : D = dirty /\ E = since /\ map = nodeInfo /\ saved = savedNodes
  OBVIOUS
<1>4. NodesLed' /\ \A p \in Path : PathFound(p) => PathFound(p)'
  <2>1. \A t \in Threads : HandleFound(t)' /\ LookFound(t)' /\ UnlinkFound(t)' /\ LinkFound(t)'
    BY <1>0 DEF heap, RestartsIInv, CalmKept, NodesLed, HandleFound, LookFound, UnlinkFound, LinkFound,
       HoldsFile, Writing, InRelease, InUnlink, InLookup, Keeps, LiveOf, Stage, Calm
  <2>2. \A p \in Path : ContentFound(p)' /\ InfoFound(p)'
    BY <1>0 DEF heap, RestartsIInv, CalmKept, NodesLed, ContentFound, InfoFound, HoldsFile,
       Writing, InRelease, LiveOf, MetadataOf, HasMetadata, PathOf, Stage, Calm
  <2>3. \A p \in Path : PathFound(p) => PathFound(p)'
    BY <1>0 DEF PathFound, InUnlink, Stage, Calm
  <2>4. (\A h \in Hash : MetadataFound(h)') /\ Shared'
    BY <1>0 DEF heap, RestartsIInv, CalmKept, NodesLed, MetadataFound, HasNew, Shared, Keeps,
       LiveOf, MetadataOf, HasMetadata, PathOf, Stage, Calm
  <2>. QED  BY <2>1, <2>2, <2>3, <2>4 DEF NodesLed
<1>5. CalmKept'
  <2>1. ZeroFound(map)'
    BY <1>0, <1>3, StillMemory DEF RestartsIInv, CalmKept
  <2>2. ZeroFound(nodeInfo)'
    BY <1>0, <1>3, <2>1 DEF ZeroFound
  <2>3. StartingFound => StartingFound'
    BY <1>0 DEF heap, StartingFound, LiveOf, Calm
  <2>. QED  BY <1>0, <1>2, <1>4, <2>2, <2>3 DEF RestartsIInv, CalmKept
<1>6. SavesSound'
  <2>1. \A t : Stage(t)' = Stage(t)
    BY <1>0 DEF Stage
  <2>. QED  BY <1>0, <2>1 DEF RestartsIInv, SavesSound
<1>7. WritersTo'
  BY <1>0, StillMemory DEF RestartsIInv
<1>8. (Late' <=> Late) /\ NodesAgree'
  BY <1>0 DEF Late, RestartsIInv, NodesAgree
<1>9. SavedMapsFound'
  <2>1. saved # << >> => ZeroFound(saved[1])
    BY <1>3 DEF RestartsIInv, SavedMapsFound
  <2>2. saved # << >> => ZeroFound(saved[1])'
    BY <1>0, <2>1, StillMemory
  <2>. QED  BY <1>0, <1>3, <2>2 DEF RestartsIInv, SavedMapsFound
<1>10. ChangesLead'
  <2>2. /\ Touched(D) /\ Touched(E)
        /\ \A p \in Path \cap D : Leads(p, map[p], D)
        /\ \A p \in Path \cap E : Leads(p, map[p], E)
        /\ saved # << >> =>
              /\ \A p \in Path \cap D : Leads(p, saved[1][p], D)
              /\ Late => \A p \in Path \cap E : Leads(p, saved[1][p], E)
    BY <1>3 DEF RestartsIInv, ChangesLead
  <2>3. /\ Touched(D)' /\ Touched(E)'
        /\ \A p \in Path \cap D : Leads(p, map[p], D)'
        /\ \A p \in Path \cap E : Leads(p, map[p], E)'
        /\ saved # << >> =>
              /\ \A p \in Path \cap D : Leads(p, saved[1][p], D)'
              /\ Late => \A p \in Path \cap E : Leads(p, saved[1][p], E)'
    BY <1>0, <2>2, StillMemory
  <2>. QED  BY <1>0, <1>3, <1>8, <2>3 DEF ChangesLead
<1>. QED  BY <1>1, <1>5, <1>6, <1>7, <1>8, <1>9, <1>10 DEF RestartsIInv

\* The first process has nothing to find.
LEMMA PersistenceInitFinds == PersistenceInit => RestartsIInv
<1>. SUFFICES ASSUME PersistenceInit PROVE RestartsIInv
  OBVIOUS
<1>1. /\ FilesInit /\ main = "serving" /\ save = [s \in Savers |-> "idle"]
      /\ savedNodes = << >> /\ savedMeta = << >> /\ dirty = {} /\ since = {}
      /\ req = [t \in Threads |-> Blank] /\ pc = [t \in Threads |-> "idle"]
  BY DEF PersistenceInit, FilesInit, Init
<1>2. PersistenceIInv /\ CalmIInv
  BY <1>1, PersistenceInitEstablishesIInv, InitIsCalm
<1>3. CalmKept
  BY <1>1, <1>2 DEF CalmKept, NodesLed, NodesFound, CalmIInv
<1>4. AllIdle
  BY <1>1, BlankRequest DEF AllIdle, Stage, Busy
<1>5. WritersTo /\ Touched(dirty) /\ Touched(since)
  BY <1>4, IdleFound DEF IdleSound
<1>6. SavesSound /\ NodesAgree /\ SavedMapsFound
  BY <1>1 DEF SavesSound, NodesAgree, SavedMapsFound, Savers
<1>7. ChangesLead
  BY <1>1, <1>5 DEF ChangesLead
<1>. QED  BY <1>2, <1>3, <1>5, <1>6, <1>7 DEF RestartsIInv

\* Every step keeps the invariant, requests, saves, crashes and the check alike.
LEMMA PersistenceNextFinds ==
    ASSUME OnceWorkload, RestartsIInv, [PersistenceNext]_persistenceVars
    PROVE  RestartsIInv'
<1>1. ASSUME Exit \/ Crash PROVE RestartsIInv'
  <2>1. Restart /\ main # "starting"
    BY <1>1 DEF Exit, Crash
  <2>. QED  BY <2>1, RestartStaysFound
<1>. QED  BY <1>1, ServeStaysFound, TickStaysFound, CreateNodesFileStaysFound, EncodeNodesStaysFound,
              CreateMetadataFileStaysFound, EncodeMetadataStaysFound, UnmountStaysFound,
              RemoveUnderlyingStaysFound, CheckIntegrityStaysFound, StutterStaysFound DEF PersistenceNext

\* Memory, both saved maps and the requests at work fit together in every reachable
\* state, whichever of the saves a crash has interrupted.
THEOREM RestartsInductiveInvariant ==
    ASSUME Workload \subseteq WrittenOnce
    PROVE  PersistenceSpec => []RestartsIInv
<1>. OnceWorkload
  BY DEF OnceWorkload
<1>1. RestartsIInv /\ [PersistenceNext]_persistenceVars => RestartsIInv'
  BY PersistenceNextFinds
<1>. QED  BY <1>1, PersistenceInitFinds, PTL DEF PersistenceSpec

\* Over any number of restarts each path shows the file the client put there, with what
\* the client wrote, on every path and content that no crash has damaged: also where a
\* Release has looked for duplicates in a table that was loaded.
THEOREM OnceContentsSurvive ==
    ASSUME Workload \subseteq WrittenOnce
    PROVE  PersistenceSpec => []ContentsSurvive
<1>1. RestartsIInv => ContentsSurvive
  BY ServingIsCalm, CalmReadsBack DEF ContentsSurvive
<1>. QED  BY <1>1, RestartsInductiveInvariant, PTL

\* The node info of each closed file leads to metadata whose Path leads back to it, though
\* the two maps were saved one after the other with requests in between.
THEOREM OnceMetadataSurvives ==
    ASSUME Workload \subseteq WrittenOnce
    PROVE  PersistenceSpec => []MetadataSurvives
<1>1. RestartsIInv => MetadataSurvives
  BY ServingIsCalm, CalmHasMetadata DEF MetadataSurvives
<1>. QED  BY <1>1, RestartsInductiveInvariant, PTL

\* ReferenceCount is the number of files with the content, also after InsureIntegrity has
\* removed the metadata of files that went while no process ran.
THEOREM OnceCountsSurvive ==
    ASSUME Workload \subseteq WrittenOnce
    PROVE  PersistenceSpec => []CountsSurvive
<1>1. RestartsIInv => CountsSurvive
  BY ServingIsCalm, CalmCountsFiles DEF CountsSurvive
<1>. QED  BY <1>1, RestartsInductiveInvariant, PTL

\* Closed files of equal content are one inode, whichever processes they were written in,
\* and only a Release at work has a temporary link at a path that no crash has damaged.
THEOREM OnceSharingSurvives ==
    ASSUME Workload \subseteq WrittenOnce
    PROVE  PersistenceSpec => [](main = "serving" => DuplicatesShareInode /\ NoLinkLeftBehind)
<1>1. RestartsIInv => (main = "serving" => DuplicatesShareInode /\ NoLinkLeftBehind)
  BY ServingIsCalm, CalmShareInode, CalmLeavesNoLink
<1>. QED  BY <1>1, RestartsInductiveInvariant, PTL

\* Create and Lookup find the metadata they fill their answer from, also where node info
\* and metadata were loaded from files saved at different times.
THEOREM OnceNoCrashOverRestarts ==
    ASSUME Workload \subseteq WrittenOnce
    PROVE  PersistenceSpec => []NoCrash
<1>1. RestartsIInv => NoCrash
  <2>1. CASE main # "starting"
    BY <2>1, ServingIsCalm, CalmNoCrash
  <2>2. CASE main = "starting"
    BY <2>2 DEF RestartsIInv, PersistenceIInv, StartingSound, NoCrash, FillsFromNil
  <2>. QED  BY <2>1, <2>2
<1>. QED  BY <1>1, RestartsInductiveInvariant, PTL

=============================================================================
