--------------------------- MODULE MCRegularFiles ---------------------------
(* TLC instances of RegularFiles, with the invariant of CalmFiles to check.   *)
EXTENDS CalmFiles, TLC, FiniteSetsExt

MCNoHash == << >>
MCHash == Contents \ {<< >>}
MCEntries == 1..4
MCInode == 1..3
MCEntriesFew == 1..3
MCInodeFew == 1..2

Symmetric == Permutations(Threads) \cup Permutations(Path) \cup Permutations(Chunk)

\* Addresses and inodes are interchangeable: the lowest free one is taken.
LowestFirst ==
    /\ allocated' # allocated => allocated' = 1..Cardinality(allocated')
    /\ \A t \in Threads :
          Stage(t) = "idle" /\ Stage(t)' = "create" =>
              \A i \in FreshInodes : req'[t].file <= i

\* Clients close no file that is still empty.
NoEmptyFiles ==
    /\ LowestFirst
    /\ \A t \in Threads :
          Stage(t) = "open" /\ Stage(t)' = "released" => data[req[t].inode] # << >>

\* One hash on which requests overlap at a time is enough to see whether the
\* damage reaches files of another hash.  A Lookup that meets an Unlink on its path
\* is followed until one of them has returned, or the Lookup has ended the process.
FewOverlaps ==
    \/ Cardinality(overlap) <= 1
    \/ \E t, u \in Threads : InLookup(t) /\ InUnlink(u) /\ req[t].path = req[u].path

\* Bounds on the files closed so far, when clients may do anything in between.
Releases == FoldSet(LAMBDA e, n : n + index[e], 0, allocated)
FewReleases == Releases <= 3
TwoReleases == Releases <= 2

\* What no later step and no property reads: registers of a request between
\* two store calls, contents of files and inodes that nothing refers to, the
\* store's own history, and the chunks used when they may be used again.
LiveData ==
    [i \in Inode |->
        IF \/ \E p \in Path : i \in {names[p], tmp[p]}
           \/ \E t \in Threads : i = req[t].inode
        THEN data[i] ELSE << >>]

LiveWant ==
    [i \in Inode |->
        IF \/ \E p \in Path : i = own[p]
           \/ \E t \in Threads : i = req[t].file
        THEN <<1, want[i]>> ELSE <<2, want[i] = << >> >>]

\* The Path of metadata that can be found, or that a request has a pointer to.
LivePaths ==
    LET held == UNION {{req[t].old, req[t].new, req[t].rec} : t \in Threads} IN
    [m \in {x \in Meta : x.ref \in live[x.entry] \/ x \in held} |-> PathOf(m)]

View ==
    <<table, heap, pc, names, tmp, LiveData, nodeInfo, LivePaths, buffer, req, crashed,
      own, LiveWant, overlap,
      IF "duplicate" \in Workload THEN {} ELSE used,
      [t \in Threads |-> IF Busy(t) THEN <<hashArg[t], refArg[t], entryPtr[t]>>
                                    ELSE <<NoHash, 0, NoEntry>>]>>
=============================================================================
