------------------------------ MODULE FileStore ------------------------------
(***************************************************************************)
(* What the file system promises its clients: names of files, and a content *)
(* for each file that shows under all its names and changes only when a     *)
(* client writes to it.  Nothing here knows of hashes, of inodes that are   *)
(* shared, or of the steps a request takes: RegularFiles implements it,     *)
(* and deduplication does not show.                                         *)
(***************************************************************************)
EXTENDS Naturals, Sequences

CONSTANTS
    Path,
    File,       \* identities of files
    NoFile,     \* the name is free
    Chunk,      \* what one write carries
    NoContent   \* what a free name shows

VARIABLES
    file,       \* path -> the file it names
    shown       \* path -> what reading it returns

Init ==
    /\ file = [p \in Path |-> NoFile]
    /\ shown = [p \in Path |-> NoContent]

InUse(p) == file[p] # NoFile

\* The content of p's file becomes c under all its names.
Put(p, c) == shown' = [q \in Path |-> IF file[q] = file[p] THEN c ELSE shown[q]]

Overwritten(content, off, c) ==
    [n \in DOMAIN content \cup {off + 1} |-> IF n = off + 1 THEN c ELSE content[n]]

Create(p, f) ==
    /\ ~InUse(p) /\ \A q \in Path : file[q] # f
    /\ file' = [file EXCEPT ![p] = f]
    /\ shown' = [shown EXCEPT ![p] = << >>]

Write(p, off, c) ==
    /\ Put(p, Overwritten(shown[p], off, c))
    /\ UNCHANGED file

Truncate(p) ==
    /\ InUse(p)
    /\ Put(p, << >>)
    /\ UNCHANGED file

Link(p, q) ==
    /\ InUse(p) /\ ~InUse(q)
    /\ file' = [file EXCEPT ![q] = file[p]]
    /\ shown' = [shown EXCEPT ![q] = shown[p]]

Unlink(p) ==
    /\ InUse(p)
    /\ file' = [file EXCEPT ![p] = NoFile]
    /\ shown' = [shown EXCEPT ![p] = NoContent]

\* A name that is taken is replaced, unless both are names of one file.
Rename(p, q) ==
    /\ InUse(p) /\ file[q] # file[p]
    /\ file' = [file EXCEPT ![q] = file[p], ![p] = NoFile]
    /\ shown' = [shown EXCEPT ![q] = shown[p], ![p] = NoContent]

Next ==
    \E p \in Path :
        \/ \E f \in File : Create(p, f)
        \/ InUse(p) /\ \E off \in 0..Len(shown[p]), c \in Chunk : Write(p, off, c)
        \/ Truncate(p)
        \/ \E q \in Path : Link(p, q) \/ Rename(p, q)
        \/ Unlink(p)

Spec == Init /\ [][Next]_<<file, shown>>
=============================================================================
