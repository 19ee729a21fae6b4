---------------------------- MODULE MCAttributes ----------------------------
(* TLC instances of Attributes.                                             *)
EXTENDS KeptAttributes, TLC, FiniteSetsExt

MCNoHash == << >>
MCHash == Contents \ {<< >>}
MCEntries == 1..2
MCInode == 1..2

\* 022, and the modes 0620, which makes a file of 0600, and 0660.
MCUmask == {4, 1}
Created == {8, 7, 4}
ForGroup == {8, 7, 5, 4}
MCMode == {Created, ForGroup}

\* The hexadecimal of 10 is a letter: it has an account, and is refused.
MCUser == {1, 2}
MCAccount == {1, 2, 10}

Symmetric == Permutations(Path) \cup Permutations(Chunk)

\* Addresses and inodes are interchangeable: the lowest free one is taken.  Steps
\* of the store and of the underlying file system touch nothing that the setter does:
\* it waits for them.
LowestFirst ==
    /\ allocated' # allocated => allocated' = 1..Cardinality(allocated')
    /\ \A t \in Threads :
          Stage(t) = "idle" /\ Stage(t)' = "create" =>
              \A i \in FreshInodes : req'[t].file <= i
    /\ \A f \in Inode : given'[f].mode # given[f].mode =>
          given'[f].mode = IF setter.stage = "mode" THEN ForGroup ELSE Masked(Created)
    /\ setter' # setter =>
          \A t \in Threads :
              pc[t] = "idle" /\ Stage(t) \in {"idle", "open", "released", "info", "fill"}

\* Bound on the files closed so far.
MaxReleases == 3
FewReleases == FoldSet(LAMBDA e, n : n + index[e], 0, allocated) <= MaxReleases

\* What no later step and no property reads: contents, attributes and maps that
\* nothing refers to, what was given to files that are gone, and registers
\* between two store calls.
Named == {MetadataOf(InfoOf(p)) : p \in Path}
Held == {setter.meta} \cup UNION {{req[t].old, req[t].new, MetadataOf(req[t].info)} : t \in Threads}
LiveMeta == (Named \cup Held) \ {NoMeta}
LiveMaps == {attrs[m.entry][m.ref].xattr : m \in LiveMeta} \ {NoMeta}

LiveInodes ==
    {names[p] : p \in Path} \cup {tmp[p] : p \in Path} \cup {req[t].inode : t \in Threads}
LiveFiles ==
    {own[p] : p \in Path} \cup {req[t].file : t \in Threads} \cup {setter.file}

View ==
    <<table, heap, pc, names, tmp, nodeInfo, buffer, req, crashed, own, overlap,
      [i \in LiveInodes \ {NoFile} |-> <<data[i], inodeMode[i]>>],
      [f \in LiveFiles \ {NoFile, NoSetter} |-> <<given[f], want[f] = << >> >>],
      {f \in Inode : want[f] = << >>},
      [m \in {x \in Meta : x.ref \in live[x.entry]} |-> PathOf(m)],
      [m \in LiveMeta |-> attrs[m.entry][m.ref]],
      [m \in LiveMaps |-> xattrs[m.entry][m.ref]],
      writer, setter, calls,
      [t \in Threads |->
          IF Stage(t) \in {"create", "open", "pwrite"} THEN caller[t]
          ELSE IF Closing(t) THEN taken[t] ELSE NoUser],
      spared \cap LiveFiles, cut \cap LiveFiles, collided \cap LiveFiles, dropped \cap LiveFiles,
      [t \in Threads |-> IF Busy(t) THEN <<hashArg[t], refArg[t], entryPtr[t]>>
                                    ELSE <<NoHash, 0, NoEntry>>]>>
=============================================================================
