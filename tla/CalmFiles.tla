------------------------------ MODULE CalmFiles ------------------------------
(***************************************************************************)
(* Why deduplication is safe where requests take turns: the inductive       *)
(* invariant behind ReadsBack, NodeHasMetadata, CountsFiles,                *)
(* DuplicatesShareInode, NoLinkLeftBehind and NoCrash of RegularFiles, for  *)
(* clients that write each file once, look files up and remove them.        *)
(*                                                                         *)
(* It is in five parts, each inductive with the parts before it: what each  *)
(* handle owns, how requests meet, what a Release knows of the store, how   *)
(* names, node infos and metadata lead to each other, and what metadata the *)
(* node infos of empty files lead to.                                       *)
(***************************************************************************)
EXTENDS RegularFiles

WrittenOnce == {"duplicate", "unlink", "lookup"}

-----------------------------------------------------------------------------
(* Files: a handle is the only one on its inode and on its client's file.   *)

Writing(t) == Stage(t) \in {"create", "open", "pwrite"}

InRelease(t) ==
    Stage(t) \in {"released", "storing", "info", "link", "swap", "fill", "dropping"}

HoldsFile(t) == Writing(t) \/ InRelease(t)

InUnlink(t) == Stage(t) \in {"unlink", "unlinking", "forget"}

StagesOnce ==
    \A t \in Threads : Stage(t) \notin {"linked", "rename", "renamed", "moved"}

\* One request at a time has the directory's lock.
OneInDirectory ==
    \A t, u \in Threads :
        {Stage(t), Stage(u)} \subseteq {"create", "unlink", "unlinking", "forget"} => t = u

HandleApart(t) ==
    HoldsFile(t) =>
        /\ req[t].path \in Path /\ req[t].inode \in Inode /\ req[t].file = req[t].inode
        /\ \A q \in Path : own[q] = req[t].inode => q = req[t].path
        /\ \A u \in Threads : HoldsFile(u) /\ req[u].inode = req[t].inode => u = t

\* What a writer's buffer holds is what it has written, and is about to write.
WriterSound(t) ==
    Writing(t) =>
        /\ own[req[t].path] = req[t].inode
        /\ buffer[req[t].path] =
              IF Stage(t) = "pwrite" THEN Append(want[req[t].inode], req[t].chunk)
                                     ELSE want[req[t].inode]
        /\ \A u \in Threads : InUnlink(u) => req[u].path # req[t].path

\* So the hash of a Release is that of the whole file.
ReleaseSound(t) ==
    InRelease(t) =>
        /\ req[t].to = req[t].path
        /\ req[t].hash = want[req[t].inode]
        /\ Stage(t) = "swap" => tmp[req[t].path] # NoFile
        /\ \A u \in Threads :
              Stage(t) = "swap" /\ Stage(u) = "swap" /\ req[u].path = req[t].path => u = t

UnlinkSound(t) ==
    /\ InUnlink(t) => req[t].hash = req[t].info.hash
    /\ InUnlink(t) \/ InLookup(t) => req[t].to = NoPath
    /\ Stage(t) = "unlink" => own[req[t].path] # NoFile

OwnersApart ==
    /\ data = want
    /\ \A p \in Path :
          /\ own[p] # NoFile => names[p] # NoFile
          /\ \A q \in Path : own[p] = own[q] /\ own[p] # NoFile => p = q
          /\ buffer[p] # NoBuffer => \E t \in Threads : Writing(t) /\ req[t].path = p

FilesApart ==
    /\ StagesOnce
    /\ OneInDirectory
    /\ OwnersApart
    /\ \A t \in Threads :
          HandleApart(t) /\ WriterSound(t) /\ ReleaseSound(t) /\ UnlinkSound(t)

-----------------------------------------------------------------------------
(* Meetings: overlap knows of every two requests engaged on one thing.      *)

EngagedApart ==
    \A t, u \in Engaged :
        t # u =>
            /\ req[t].hash = req[u].hash => req[t].hash \in overlap
            /\ req[t].path = req[u].path => {req[t].path, req[t].hash} \subseteq overlap

LookupsApart ==
    \A t \in Engaged, u \in Threads :
        InLookup(u) /\ req[t].path = req[u].path => {req[t].path, req[t].hash} \subseteq overlap

\* A spoiled path spoils what is released there.
CalmHashCalmPath ==
    \A t \in Threads : InRelease(t) /\ req[t].hash \in Calm => req[t].path \in Calm

\* A request in a call of the store works on its hash.
StoreCallSound(t) ==
    /\ Stage(t) = "storing" => pc[t] \in StorePcs
    /\ Stage(t) \in {"dropping", "unlinking"} => pc[t] \in RemovePcs
    /\ Busy(t) => Stage(t) \in {"storing", "dropping", "unlinking"} /\ hashArg[t] = req[t].hash
    /\ Stage(t) = "unlinking" => refArg[t] = req[t].info.ref /\ req[t].hash \in Hash

Meetings ==
    /\ EngagedApart /\ LookupsApart
    /\ CalmHashCalmPath
    /\ \A t \in Threads : StoreCallSound(t)
    /\ contended \subseteq overlap

-----------------------------------------------------------------------------
(* The store, as a Release of a calm hash finds it.                         *)

\* The references that lead to metadata of a hash.
LiveOf(h) == IF table[h] = NoEntry THEN {} ELSE live[table[h]]

HasNew(t) == Stage(t) \in {"info", "link", "swap", "fill"}

\* The new metadata of any Release is a cell of its hash.
NewSound(t) ==
    /\ HasNew(t) =>
          /\ req[t].new.entry \in allocated
          /\ home[req[t].new.entry] = req[t].hash
          /\ req[t].new.ref <= index[req[t].new.entry]
    /\ Stage(t) \in {"link", "swap"} => req[t].dup /\ req[t].rec # NoMeta

\* While a calm hash is stored, its metadata is there exactly if the content is
\* a duplicate, until the new metadata joins it.
StoringSound(t) ==
    Stage(t) = "storing" /\ req[t].hash \in Calm =>
        LET h == req[t].hash IN
        /\ pc[t] \in {"check", "create"} => ~req[t].dup
        /\ pc[t] # "unique" /\ req[t].dup => h \in Hash /\ LiveOf(h) # {}
        /\ pc[t] # "unique" /\ ~req[t].dup /\ h \in Hash => LiveOf(h) = {}
        /\ pc[t] = "alloc" /\ req[t].dup =>
              /\ req[t].rec # NoMeta
              /\ req[t].rec.entry = table[h]
              /\ req[t].rec.ref \in LiveOf(h)

StoredSound(t) ==
    HasNew(t) /\ req[t].hash \in Calm =>
        LET h == req[t].hash  new == req[t].new  rec == req[t].rec IN
        /\ table[h] = new.entry
        /\ new.ref \in LiveOf(h)
        /\ PathOf(new) = NoPath
        /\ req[t].dup =>
              /\ h \in Hash /\ rec # NoMeta
              /\ rec.entry = table[h] /\ rec.ref \in LiveOf(h) \ {new.ref}
        /\ ~req[t].dup /\ h \in Hash => LiveOf(h) = {new.ref}

\* Metadata has no Path before FillMetadata.
UnfilledPaths ==
    \A e \in Entries : \A r \in Refs : r > index[e] => metaPath[e][r] = NoPath

StoreFound ==
    /\ UnfilledPaths
    /\ \A t \in Threads : NewSound(t) /\ StoringSound(t) /\ StoredSound(t)

-----------------------------------------------------------------------------
(* Names, node infos and metadata.                                          *)

\* What a handle on a calm path has found and done there.
HandleFound(t) ==
    HoldsFile(t) /\ req[t].path \in Calm =>
        LET p == req[t].path IN
        /\ req[t].info = NewInfo /\ req[t].old = NoMeta
        /\ own[p] = req[t].inode
        /\ Stage(t) \notin {"fill", "dropping"} => names[p] = req[t].inode
        /\ Stage(t) = "create" => nodeInfo[p] = NoInfo
        /\ Stage(t) \in {"open", "pwrite", "released", "storing", "info"} => nodeInfo[p] = NewInfo
        /\ Stage(t) \in {"link", "swap", "fill", "dropping"} =>
              nodeInfo[p] = [hash |-> req[t].hash, ref |-> req[t].new.ref]
        /\ Stage(t) = "dropping" => req[t].hash \notin Calm

\* A file that is looked up stays, and so does its node info.
LookFound(t) ==
    InLookup(t) /\ req[t].path \in Calm =>
        LET p == req[t].path IN
        /\ own[p] # NoFile /\ nodeInfo[p] # NoInfo
        /\ Stage(t) = "look" => nodeInfo[p] = NewInfo
        /\ Stage(t) = "attr" => nodeInfo[p] = req[t].info

UnlinkFound(t) ==
    InUnlink(t) =>
        LET p == req[t].path  info == req[t].info IN
        /\ info.hash \in Calm \cap Hash =>
              /\ p \in Calm
              /\ info.ref \in LiveOf(info.hash) <=>
                    Stage(t) = "unlink" \/ pc[t] \in {"find", "dec"}
        /\ p \in Calm =>
              /\ nodeInfo[p] = info /\ req[t].exists
              /\ own[p] # NoFile <=> Stage(t) = "unlink"

\* A calm path, while no request holds it and while one does.
PathFound(p) ==
    p \in Calm =>
        /\ own[p] = NoFile <=> names[p] = NoFile
        /\ own[p] = NoFile =>
              nodeInfo[p] = NoInfo \/ \E t \in Threads : InUnlink(t) /\ req[t].path = p
        /\ own[p] # NoFile =>
              nodeInfo[p] # NoInfo \/ \E t \in Threads : Stage(t) = "create" /\ req[t].path = p
        /\ tmp[p] # NoFile => \E t \in Threads : Stage(t) = "swap" /\ req[t].path = p

\* A calm path with a calm content shows it, from an inode nobody writes to.
ContentFound(p) ==
    own[p] # NoFile /\ {p, want[own[p]]} \subseteq Calm =>
        /\ data[names[p]] = want[own[p]]
        /\ \A t \in Threads : HoldsFile(t) /\ req[t].inode = names[p] => req[t].path = p
        /\ \/ nodeInfo[p] # NoInfo /\ nodeInfo[p].hash = want[own[p]] /\ nodeInfo[p].ref # 0
           \/ \E t \in Threads : HoldsFile(t) /\ req[t].path = p

\* A node info with a calm hash leads to the metadata of its own file, and back.
InfoFound(p) ==
    nodeInfo[p] # NoInfo =>
        LET info == nodeInfo[p] IN
        /\ info.ref = 0 => info.hash = NoHash
        /\ info.ref # 0 /\ info.hash \in Calm \cap Hash =>
              /\ p \in Calm
              /\ own[p] # NoFile => want[own[p]] = info.hash /\ info.ref \in LiveOf(info.hash)
              /\ info.ref \in LiveOf(info.hash) =>
                    \/ PathOf(MetadataOf(info)) = p
                    \/ \E t \in Threads :
                          Stage(t) \in {"link", "swap", "fill"} /\ req[t].path = p

\* All metadata of a calm hash is led to, or in the hands of a Release.
MetadataFound(h) ==
    h \in Calm => \A r \in LiveOf(h) :
        LET info == [hash |-> h, ref |-> r]  q == PathOf(MetadataOf(info)) IN
        \/ q \in Path /\ nodeInfo[q] = info
        \/ \E t \in Threads : HasNew(t) /\ req[t].hash = h /\ req[t].new.ref = r

\* The path has the content h and its link, if it is a duplicate.
Keeps(p, h) ==
    /\ own[p] # NoFile
    /\ nodeInfo[p] # NoInfo /\ nodeInfo[p].hash = h
    /\ \A t \in Threads : Stage(t) \in {"link", "swap"} => req[t].path # p

Shared ==
    \A h \in Calm \cap Hash : \A p, q \in Path :
        Keeps(p, h) /\ Keeps(q, h) => names[p] = names[q]

\* The temporary link of a Release is to the inode its duplicates share.
LinkFound(t) ==
    Stage(t) = "swap" /\ req[t].hash \in Calm =>
        LET i == tmp[req[t].path] IN
        /\ want[i] = req[t].hash
        /\ \A u \in Threads : HoldsFile(u) => req[u].inode # i
        /\ \A q \in Path : Keeps(q, req[t].hash) => names[q] = i

NodesFound ==
    /\ \A t \in Threads : HandleFound(t) /\ LookFound(t) /\ UnlinkFound(t) /\ LinkFound(t)
    /\ \A p \in Path : PathFound(p) /\ ContentFound(p) /\ InfoFound(p)
    /\ \A h \in Hash : MetadataFound(h)
    /\ Shared

-----------------------------------------------------------------------------
(* Empty files.  Their metadata is never removed, so after a crash a node     *)
(* info may lead to that of a file which was at its path before.              *)

ZeroKept(p, ref) ==
    /\ ref \in LiveOf(NoHash)
    /\ \/ metaPath[table[NoHash]][ref] = p
       \/ \E t \in Threads :
             Stage(t) = "fill" /\ req[t].path = p /\ req[t].hash = NoHash /\ req[t].new.ref = ref

\* Node infos of empty files lead to metadata with their path.
ZeroFound(map) ==
    NoHash \in Calm => \A p \in Path :
        map[p] # NoInfo /\ map[p].hash = NoHash /\ map[p].ref # 0 => ZeroKept(p, map[p].ref)

CalmIInv ==
    FilesIInv /\ FilesApart /\ Meetings /\ StoreFound /\ NodesFound /\ ZeroFound(nodeInfo)

=============================================================================
