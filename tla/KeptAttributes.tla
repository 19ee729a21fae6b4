--------------------------- MODULE KeptAttributes ---------------------------
(***************************************************************************)
(* Why a file keeps its attributes: the inductive invariant behind         *)
(* AttributesKept, XAttrsKept and SizeRight of Attributes, where file       *)
(* requests come one at a time and the setter runs beside them, without     *)
(* hard links and renames.                                                  *)
(*                                                                         *)
(* t is the one file request.  Through a Release the attributes of its      *)
(* file are still in the old metadata, until the new one is filled: MetaAt. *)
(***************************************************************************)
EXTENDS Attributes, CalmFiles

HandedOut(m) == m.ref <= index[m.entry]

MapOf(m) == attrs[m.entry][m.ref].xattr

HasOld(t) == Stage(t) \in {"storing", "info", "link", "swap", "fill"}

\* Whose metadata the attributes of the file at a path are in.
MetaAt(t, p) ==
    IF HasOld(t) /\ req[t].path = p THEN req[t].old ELSE MetadataOf(InfoOf(p))

\* What a request for the path can come to hold.
Reach(t, p) == {MetaAt(t, p), MetadataOf(InfoOf(p))} \ {NoMeta}

\* The file is there and no Release has lost its metadata.
Unspoiled(p) == own[p] # NoFile /\ own[p] \notin dropped

-----------------------------------------------------------------------------
(* Paths and the request.                                                   *)

PathsKept(t) ==
    \A p \in Path :
        /\ own[p] = NoFile <=> names[p] = NoFile
        /\ own[p] = NoFile => nodeInfo[p] = NoInfo \/ (InUnlink(t) /\ req[t].path = p)
        /\ buffer[p] # NoBuffer => Writing(t) /\ req[t].path = p
        /\ \A q \in Path : own[p] = own[q] /\ own[p] # NoFile => p = q

HandleKept(t) ==
    HoldsFile(t) =>
        LET p == req[t].path IN
        /\ p \in Path /\ own[p] = req[t].file
        /\ Stage(t) \notin {"fill", "dropping"} => names[p] = req[t].inode
        /\ InRelease(t) => req[t].to = p
        /\ Stage(t) = "create" => nodeInfo[p] = NoInfo /\ req[t].info = NewInfo
        /\ Stage(t) \in {"open", "pwrite", "released", "storing", "info"} =>
              InfoOf(p) = req[t].info
        /\ Unspoiled(p) =>
              /\ Stage(t) \in {"open", "pwrite", "released", "storing", "info"} =>
                    nodeInfo[p] # NoInfo
              /\ Stage(t) \in {"storing", "info"} => MetadataOf(InfoOf(p)) = req[t].old
              /\ Stage(t) \in {"link", "swap", "fill"} => MetadataOf(InfoOf(p)) = req[t].new

\* What a Release holds of the size of a duplicate.
SizeKept(t) ==
    /\ Stage(t) \in {"link", "swap"} => req[t].dup
    /\ Stage(t) = "swap" =>
          tmp[req[t].path] # NoFile /\ taken[t].size = Len(data[tmp[req[t].path]])
    /\ Stage(t) = "fill" =>
          IF req[t].dup THEN taken[t].size = Len(data[names[req[t].path]])
                        ELSE names[req[t].path] = req[t].inode

\* The store's call is the request's, and removes the metadata that it should.
CallKept(t) ==
    /\ Busy(t) => Stage(t) \in {"storing", "dropping", "unlinking"}
    /\ Stage(t) = "storing" => pc[t] \in StorePcs /\ hashArg[t] = req[t].hash
    /\ Stage(t) \in {"dropping", "unlinking"} => pc[t] \in RemovePcs
    /\ Stage(t) = "dropping" /\ pc[t] \in {"find", "dec"} =>
          hashArg[t] = req[t].hash /\ refArg[t] = req[t].new.ref
    /\ Stage(t) = "unlinking" /\ pc[t] \in {"find", "dec"} =>
          InfoOf(req[t].path) = [hash |-> hashArg[t], ref |-> refArg[t]]

\* Lookup stores a node info only where no metadata was.
RestKept(t) ==
    /\ Stage(t) \notin {"linked", "rename", "renamed", "moved"}
    /\ InLookup(t) => own[req[t].path] # NoFile
    /\ Stage(t) = "look" => own[req[t].path] \in dropped
    /\ InUnlink(t) /\ ~req[t].exists => nodeInfo[req[t].path] = NoInfo
    /\ Stage(t) = "unlink" =>
          own[req[t].path] # NoFile /\ InfoOf(req[t].path) = req[t].info
    /\ Stage(t) \in {"unlinking", "forget"} => own[req[t].path] = NoFile
    /\ contended = {}
    /\ Collisions \subseteq collided /\ Dropping \subseteq dropped

-----------------------------------------------------------------------------
(* Metadata and maps.                                                       *)

\* Metadata that is still to be handed out has a new map; nothing refers to one.
MapsFresh ==
    /\ \A e \in Entries : \A r \in Refs : r > index[e] => xattrs[e][r] = NoValue
    /\ \A m \in Meta : MapOf(m) # NoMeta => HandedOut(MapOf(m))

\* A file that has no metadata yet has been created by the request.
CreatedKept(t) ==
    LET p == req[t].path  f == own[p] IN
    /\ req[t].info = NewInfo /\ given[f].value = NoValue
    /\ Writing(t) => buffer[p] # NoBuffer
    /\ f \notin collided =>
          /\ inodeMode[req[t].inode] = given[f].mode
          /\ given[f].uid = IF Writing(t) THEN writer[p] ELSE taken[t].uid

FileKept(t, p) ==
    LET m == MetaAt(t, p)  f == own[p]  a == attrs[m.entry][m.ref] IN
    /\ HandedOut(m)
    /\ a.xattr # NoMeta /\ GetCustomXAttr(a) = given[f].value
    /\ f \notin collided => a.uid = given[f].uid
    /\ f \notin collided \cup spared => a.mode = given[f].mode
    /\ f \notin collided \cup cut /\ ~(HoldsFile(t) /\ req[t].path = p) =>
          a.size = Len(data[names[p]])

FilesKept(t) ==
    \A p \in Path : Unspoiled(p) =>
        IF MetaAt(t, p) = NoMeta THEN HoldsFile(t) /\ req[t].path = p /\ CreatedKept(t)
                                 ELSE FileKept(t, p)

\* No two files lead to one metadata or to one map.
FilesApartHere(t) ==
    \A p, q \in Path : p # q /\ Unspoiled(q) /\ MetaAt(t, q) # NoMeta =>
        \A m \in Reach(t, p) : m # MetaAt(t, q) /\ MapOf(m) # MapOf(MetaAt(t, q))

\* The new metadata of a Release is nobody else's.
NewKept(t) ==
    /\ HasNew(t) \/ Stage(t) = "dropping" =>
          /\ req[t].new \in Meta /\ HandedOut(req[t].new)
          /\ \A q \in Path : Unspoiled(q) => req[t].new # MetaAt(t, q)
          /\ ~(Stage(t) = "dropping" /\ pc[t] \notin {"find", "dec"}) =>
                table[req[t].hash] = req[t].new.entry
    /\ HasNew(t) =>
          /\ MapOf(req[t].new) = NoMeta
          /\ xattrs[req[t].new.entry][req[t].new.ref] = NoValue
          /\ \A m \in Meta : MapOf(m) # req[t].new
    /\ Stage(t) = "info" => req[t].new.ref \in live[req[t].new.entry]

-----------------------------------------------------------------------------
(* The setter.                                                              *)

\* It works on a file that stays, through metadata that is or was the file's.
SetterAt(t, p) ==
    LET m == setter.meta IN
    /\ own[p] = setter.file /\ ~Unlinking(p)
    /\ \A q \in Path \ {p} : Unspoiled(q) /\ MetaAt(t, q) # NoMeta =>
          m # MetaAt(t, q) /\ MapOf(m) # MapOf(MetaAt(t, q))
    /\ HasNew(t) /\ m = req[t].new /\ req[t].path # p =>
          ~Unspoiled(p) /\ MetadataOf(InfoOf(p)) = m
    /\ Unspoiled(p) =>
          /\ MapOf(m) # NoMeta => MetaAt(t, p) # NoMeta /\ MapOf(m) = MapOf(MetaAt(t, p))
          /\ setter.stage \in {"mode", "owner", "size"} /\ own[p] \notin collided =>
                m = MetaAt(t, p)

SetterKept(t) ==
    setter.stage # "idle" =>
        HandedOut(setter.meta) /\ \E p \in Path : SetterAt(t, p)

Kept(t) ==
    /\ PathsKept(t) /\ HandleKept(t) /\ SizeKept(t) /\ CallKept(t) /\ RestKept(t)
    /\ MapsFresh /\ FilesKept(t) /\ FilesApartHere(t) /\ NewKept(t)
    /\ SetterKept(t)

KeptIInv == AttributesIInv /\ \A t \in Threads : Kept(t)
=============================================================================
