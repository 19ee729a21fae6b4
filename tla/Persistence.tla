----------------------------- MODULE Persistence -----------------------------
(***************************************************************************)
(* Snapshots, crashes and restarts: SaveStorageRegularly beside the        *)
(* requests of RegularFiles, the final save when the file system is        *)
(* unmounted, and what the next process makes of the files it finds        *)
(* (RetrievePersistantStorage, InsureIntegrity).                           *)
(*                                                                         *)
(* A save is os.Create, which truncates the file, and then Encode, under   *)
(* the lock of its map; the node infos and the metadata are saved one      *)
(* after the other, and requests run in between.  The goroutine that saves *)
(* regularly is never stopped: it runs on while the final save is made.    *)
(* Directories and the sysadmin have files of their own, not modelled here. *)
(***************************************************************************)
EXTENDS RegularFiles

CONSTANTS
    MaxRounds,      \* bound on the regular saves
    MaxRestarts     \* bound on the processes after the first

VARIABLES
    main,           \* what the process is doing
    save,           \* where the regular and the final save are
    savedNodes,     \* what OptiFSNodePersistenceSave.gob holds: at most one map
    savedMeta,      \* the same for OptiFSRegularFileMetadataSave.gob
    rounds,         \* regular saves begun
    restarts,       \* processes that have ended
    dirty,          \* history: hashes and paths changed since the last round of saves began
    since           \* history: the same since the round in progress began

saves == <<save, savedNodes, savedMeta, rounds>>
persistenceVars == <<filesVars, main, saves, restarts, dirty, since>>

ASSUME PersistenceAssumption == MaxRounds \in Nat /\ MaxRestarts \in Nat

Savers == {"ticker", "exit"}
SaveStages == {"idle", "nodes", "nodesOpen", "meta", "metaOpen", "done"}

-----------------------------------------------------------------------------
(* What is saved and loaded.                                                *)

Reachable == {table[h] : h \in AllHash} \ {NoEntry}

\* mutants of MetadataMap: Path or IndexCounter is a field gob does not see.
MetadataMapUnnamed ==
    [table |-> table,
     cells |-> [e \in Reachable |->
        [live |-> live[e], index |-> index[e], count |-> count[e], home |-> home[e],
         path |-> [r \in Refs |-> NoPath]]]]
MetadataMapUnindexed ==
    [table |-> table,
     cells |-> [e \in Reachable |->
        [live |-> live[e], index |-> 0, count |-> count[e], home |-> home[e],
         path |-> metaPath[e]]]]

\* regularFileMetadataHash with all that its pointers lead to.
MetadataMap ==
    [table |-> table,
     cells |-> [e \in Reachable |->
        [live |-> live[e], index |-> index[e], count |-> count[e], home |-> home[e],
         path |-> metaPath[e]]]]

\* The zero MapEntry.
BlankCell ==
    [live |-> {}, index |-> 0, count |-> 0, home |-> NoHash, path |-> [r \in Refs |-> NoPath]]

EmptyMap == [table |-> [h \in AllHash |-> NoEntry], cells |-> << >>]

\* Decoding into the empty map of a new process; a file that cannot be decoded
\* is ignored.  Addresses no pointer leads to are free.
LoadMetadata ==
    LET map == IF savedMeta = << >> THEN EmptyMap ELSE savedMeta[1]
        cell(e) == IF e \in DOMAIN map.cells THEN map.cells[e] ELSE BlankCell IN
    /\ table' = map.table
    /\ allocated' = DOMAIN map.cells
    /\ live' = [e \in Entries |-> cell(e).live]
    /\ index' = [e \in Entries |-> cell(e).index]
    /\ count' = [e \in Entries |-> cell(e).count]
    /\ home' = [e \in Entries |-> cell(e).home]
    /\ metaPath' = [e \in Entries |-> cell(e).path]

LoadNodes ==
    nodeInfo' = IF savedNodes = << >> THEN [p \in Path |-> NoInfo] ELSE savedNodes[1]

-----------------------------------------------------------------------------
PersistenceInit ==
    /\ FilesInit
    /\ main = "serving"
    /\ save = [s \in Savers |-> "idle"]
    /\ savedNodes = << >>
    /\ savedMeta = << >>
    /\ rounds = 0
    /\ restarts = 0
    /\ dirty = {}
    /\ since = {}

-----------------------------------------------------------------------------
(* Requests, beside the saves.                                              *)

\* nodeMutex and metadataMutex are held from os.Create to the end of Encode.
NodesHeld == \E s \in Savers : save[s] = "nodesOpen"
MetadataHeld == \E s \in Savers : save[s] = "metaOpen"

\* What a lookup by hash can see of an entry.
Cell(h) ==
    IF table[h] = NoEntry THEN << >>
    ELSE LET e == table[h] IN <<live[e], index[e], count[e], metaPath[e]>>

Changed ==
    {h \in AllHash : Cell(h)' # Cell(h)}
        \cup {p \in Path : nodeInfo'[p] # nodeInfo[p] \/ names'[p] # names[p]}

\* Hashes and paths that a request is in the middle of changing; a Lookup
\* changes one thing at most.
InHand ==
    {x \in AllHash \cup Path :
        \E t \in Threads :
            Stage(t) # "idle" /\ ~InLookup(t) /\ x \in {req[t].path, req[t].to, req[t].hash}}

Remember ==
    /\ dirty' = dirty \cup Changed
    /\ since' = since \cup Changed

Serve ==
    /\ main = "serving"
    /\ FilesNext
    /\ NodesHeld => UNCHANGED nodeInfo
    /\ MetadataHeld => UNCHANGED <<table, heap, metaPath>>
    /\ UNCHANGED <<main, saves, restarts>>
    /\ Remember

-----------------------------------------------------------------------------
(* SavePersistantStorage, by the ticker's goroutine or by main.             *)

Saving(s, from, to) ==
    /\ main \in {"serving", "closing"}
    /\ save[s] = from
    /\ save' = [save EXCEPT ![s] = to]

Tick ==
    /\ Saving("ticker", "idle", "nodes")
    /\ rounds < MaxRounds
    /\ rounds' = rounds + 1
    /\ since' = InHand
    /\ UNCHANGED <<filesVars, main, savedNodes, savedMeta, restarts, dirty>>

\* os.Create of the node infos' file.
CreateNodesFile(s) ==
    /\ Saving(s, "nodes", "nodesOpen")
    /\ ~NodesHeld
    /\ savedNodes' = << >>
    /\ UNCHANGED <<filesVars, main, savedMeta, rounds, restarts, dirty, since>>

\* mutant of EncodeNodes: nothing is written.
EncodeNodesNothing(s) ==
    /\ Saving(s, "nodesOpen", "meta")
    /\ UNCHANGED <<filesVars, main, savedNodes, savedMeta, rounds, restarts, dirty, since>>

EncodeNodes(s) ==
    /\ Saving(s, "nodesOpen", "meta")
    /\ savedNodes' = <<nodeInfo>>
    /\ UNCHANGED <<filesVars, main, savedMeta, rounds, restarts, dirty, since>>

\* mutant of CreateMetadataFile: the final save leaves the metadata out.
CreateMetadataFileRegularly(s) ==
    /\ Saving(s, "meta", IF s = "ticker" THEN "metaOpen" ELSE "done")
    /\ ~MetadataHeld /\ WriteLockFree
    /\ savedMeta' = IF s = "ticker" THEN << >> ELSE savedMeta
    /\ dirty' = IF s = "ticker" THEN dirty ELSE {}
    /\ UNCHANGED <<filesVars, main, savedNodes, rounds, restarts, since>>

\* os.Create of the metadata's file.
CreateMetadataFile(s) ==
    /\ Saving(s, "meta", "metaOpen")
    /\ ~MetadataHeld /\ WriteLockFree
    /\ savedMeta' = << >>
    /\ UNCHANGED <<filesVars, main, savedNodes, rounds, restarts, dirty, since>>

EncodeMetadata(s) ==
    /\ Saving(s, "metaOpen", IF s = "ticker" THEN "idle" ELSE "done")
    /\ savedMeta' = <<MetadataMap>>
    /\ dirty' = IF s = "ticker" THEN since ELSE {}
    /\ UNCHANGED <<filesVars, main, savedNodes, rounds, restarts, since>>

-----------------------------------------------------------------------------
(* The end of a process and the start of the next.                          *)

\* The kernel unmounts a file system that is not in use: server.Wait returns
\* and main's deferred save begins.
Unmount ==
    /\ main = "serving" /\ ~crashed
    /\ \A t \in Threads : Stage(t) = "idle"
    /\ main' = "closing"
    /\ save' = [save EXCEPT !["exit"] = "nodes"]
    /\ UNCHANGED <<filesVars, savedNodes, savedMeta, rounds, restarts, dirty, since>>

\* Hashes and paths of which memory and snapshot say different things, or
\* that a request is leaving half done.
Damage ==
    IF << >> \in {savedNodes, savedMeta}
    THEN AllHash \cup Path
    ELSE dirty \cup InHand

\* The memory of the process is gone; the underlying files stay.
Restart ==
    /\ restarts < MaxRestarts
    /\ restarts' = restarts + 1
    /\ main' = "starting"
    /\ save' = [s \in Savers |-> "idle"]
    /\ LoadNodes
    /\ LoadMetadata
    /\ pc' = [t \in Threads |-> "idle"]
    /\ hashArg' = [t \in Threads |-> NoHash]
    /\ refArg' = [t \in Threads |-> 0]
    /\ entryPtr' = [t \in Threads |-> NoEntry]
    /\ req' = [t \in Threads |-> Blank]
    /\ buffer' = [p \in Path |-> NoBuffer]
    /\ crashed' = FALSE
    /\ contended' = contended \cup (Damage \cap AllHash)
    /\ overlap' = overlap \cup Damage
    /\ dirty' = {}
    /\ since' = {}
    /\ UNCHANGED <<disk, clients, savedNodes, savedMeta, rounds>>

\* main returns after the final save.
Exit ==
    /\ main = "closing" /\ save["exit"] = "done"
    /\ Restart

\* The process is killed, or a nil dereference ends it.
Crash ==
    /\ main \in {"serving", "closing"}
    /\ Restart

\* A file may be removed from the underlying directory while no process runs.
RemoveUnderlying(p) ==
    /\ main = "starting"
    /\ Exists(p)
    /\ names' = [names EXCEPT ![p] = NoFile]
    /\ own' = [own EXCEPT ![p] = NoFile]
    /\ UNCHANGED <<vars, tmp, data, nodeInfo, metaPath, buffer, req, crashed, want, used,
                   overlap, main, saves, restarts, dirty, since>>

\* mutant of Missing: a node without metadata is not looked for.
MissingFiled == {p \in Path : InfoOf(p) # NewInfo /\ names[p] = NoFile}

\* Node infos whose path syscall.Stat does not find.
Missing == {p \in Path : nodeInfo[p] # NoInfo /\ names[p] = NoFile}

\* References of h that InsureIntegrity hands to RemoveRegularFileMetadata
\* and that it finds.
MissingRefs(h) ==
    {r \in Refs : Found(h, r) /\ \E p \in Missing : nodeInfo[p] = [hash |-> h, ref |-> r]}

\* mutant of CheckIntegrity: only the node infos are removed.
CheckIntegrityNodesOnly ==
    /\ main = "starting"
    /\ main' = "serving"
    /\ nodeInfo' = [p \in Path |-> IF p \in Missing THEN NoInfo ELSE nodeInfo[p]]
    /\ UNCHANGED <<vars, disk, metaPath, buffer, req, crashed, clients, overlap, saves, restarts>>
    /\ Remember

\* InsureIntegrity, with nothing else running: metadata and node info of each
\* missing path go, and the entry with them when its count reaches zero.
CheckIntegrity ==
    /\ main = "starting"
    /\ main' = "serving"
    /\ nodeInfo' = [p \in Path |-> IF p \in Missing THEN NoInfo ELSE nodeInfo[p]]
    /\ live' = [e \in Entries |-> live[e] \ MissingRefs(home[e])]
    /\ count' = [e \in Entries |->
          (count[e] - Cardinality(MissingRefs(home[e]))) % (CountMax + 1)]
    /\ table' = [h \in AllHash |->
          IF MissingRefs(h) # {} /\ count[table[h]] \in 1..Cardinality(MissingRefs(h))
          THEN NoEntry ELSE table[h]]
    /\ UNCHANGED <<allocated, index, home, pc, locals, contended, disk, metaPath, buffer,
                   req, crashed, clients, overlap, saves, restarts>>
    /\ Remember

-----------------------------------------------------------------------------
PersistenceNext ==
    \/ Serve
    \/ Tick
    \/ \E s \in Savers :
          \/ CreateNodesFile(s)
          \/ EncodeNodes(s)
          \/ CreateMetadataFile(s)
          \/ EncodeMetadata(s)
    \/ Unmount
    \/ Exit
    \/ Crash
    \/ \E p \in Path : RemoveUnderlying(p)
    \/ CheckIntegrity

PersistenceSpec == PersistenceInit /\ [][PersistenceNext]_persistenceVars

-----------------------------------------------------------------------------
(* What survives.  The properties of RegularFiles hold over any number of   *)
(* restarts on the hashes and paths a crash does not damage: those that no  *)
(* request was working on, unchanged since the last complete round of saves *)
(* began, when neither file is being written.                               *)

\* Files show what was written to them, also after duplicates are looked for
\* in a table that was loaded.
ContentsSurvive == main = "serving" => ReadsBack

\* Node infos and metadata, saved one after the other, still lead to each other.
MetadataSurvives == main = "serving" => NodeHasMetadata

\* Counts are right after InsureIntegrity has removed what is missing.
CountsSurvive == main = "serving" => CountsFiles

\* A file system that is unmounted comes back as it was: node infos, and
\* metadata with its counts and references.  The regular save must not be in
\* the middle of a file when main returns.
ExitKeepsEverything ==
    [][main = "closing" /\ save["exit"] = "done" /\ ~NodesHeld /\ ~MetadataHeld
          /\ main' = "starting" =>
            nodeInfo' = nodeInfo /\ \A h \in AllHash : Cell(h)' = Cell(h)]_persistenceVars

\* While serving, a node info whose path no request uses names a file that
\* exists: InsureIntegrity removes what a snapshot remembers of removed files.
NodesExist ==
    main = "serving" =>
        \A p \in Path : Settled(p) /\ nodeInfo[p] # NoInfo => Exists(p)

-----------------------------------------------------------------------------
(* The inductive invariant: FilesIInv holds over restarts, with the store's  *)
(* promises kept on every hash that no crash has damaged.                    *)

\* A request in a call of the store works on the hash it remembers.
HashRemembered ==
    \A t \in Threads :
        /\ Busy(t) => Stage(t) \in {"storing", "dropping", "unlinking"} /\ hashArg[t] = req[t].hash
        /\ Stage(t) = "unlink" => req[t].hash = req[t].info.hash

CellType ==
    [live : SUBSET Refs, index : 0..MaxIndex, count : 0..CountMax, home : AllHash,
     path : [Refs -> Path \cup {NoPath, Gone}]]

\* A saved map is one that the store could have: entries under their hashes,
\* with references that were handed out.
MapSound(map) ==
    /\ map.table \in [AllHash -> Entries \cup {NoEntry}]
    /\ DOMAIN map.cells = {map.table[h] : h \in AllHash} \ {NoEntry}
    /\ \A e \in DOMAIN map.cells :
          map.cells[e] \in CellType /\ map.cells[e].live \subseteq 1..map.cells[e].index
    /\ \A h \in AllHash : map.table[h] # NoEntry => map.cells[map.table[h]].home = h

SavedSound ==
    /\ savedNodes # << >> => savedNodes[1] \in [Path -> Info \cup {NoInfo}]
    /\ savedMeta # << >> => MapSound(savedMeta[1])

\* What a lookup by hash would see of an entry in a saved map.
SavedCell(map, h) ==
    IF map.table[h] = NoEntry THEN << >>
    ELSE LET c == map.cells[map.table[h]] IN <<c.live, c.index, c.count, c.path>>

\* Memory and snapshot agree on what has not changed since.
SavedAgrees ==
    savedMeta # << >> => \A h \in AllHash \ dirty : SavedCell(savedMeta[1], h) = Cell(h)

\* While the file system is closing, memory no longer changes and what is
\* written is all of it.
ClosingSaves ==
    main = "closing" =>
        /\ save["exit"] \in {"meta", "metaOpen", "done"} /\ ~NodesHeld => savedNodes = <<nodeInfo>>
        /\ save["exit"] = "done" /\ ~MetadataHeld => savedMeta = <<MetadataMap>>

\* Before the check nothing is running, and memory holds what the table leads to.
StartingSound ==
    main = "starting" =>
        /\ \A t \in Threads : ~Busy(t) /\ Stage(t) = "idle"
        /\ allocated = Reachable
        /\ \A e \in Entries \ allocated : home[e] = NoHash

PersistenceTypeOK ==
    /\ FilesTypeOK
    /\ main \in {"serving", "closing", "starting"}
    /\ save \in [Savers -> SaveStages]
    /\ SavedSound
    /\ dirty \in SUBSET (AllHash \cup Path)
    /\ since \in SUBSET (AllHash \cup Path)
    /\ rounds \in 0..MaxRounds
    /\ restarts \in 0..MaxRestarts

PersistenceIInv ==
    /\ PersistenceTypeOK
    /\ FilesIInv
    /\ HashRemembered
    /\ SavedAgrees
    /\ ClosingSaves
    /\ StartingSound

=============================================================================
