---------------------------- MODULE MCDirectories ----------------------------
(* TLC instances of Directories.                                            *)
EXTENDS Directories, TLC

Symmetric == Permutations(Threads) \cup Permutations(Top) \cup Permutations(Inode)
                \cup Permutations(User)

\* The last process makes no saves: no other would read them.
LastProcess == crashes = MaxCrashes
NoVainSaves == LastProcess => saves' = saves

\* Bound on the requests of behaviours with a save: three in the process that
\* saves, and one in the next.
FewRequests ==
    /\ saves > 0 /\ crashes = 0 => begun <= 3
    /\ crashes > 0 => begun <= 4

\* What no later step and no property reads: the makers of inodes that are
\* free, and in the last process what was saved.
View ==
    <<tree, [i \in Inode |-> IF \E p \in Path : tree[p] = i THEN maker[i] ELSE Server],
      info, dirMeta, node, req, begun, crashes, stale,
      IF LastProcess THEN << >> ELSE snapshot>>
=============================================================================
