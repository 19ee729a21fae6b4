---------------------------- MODULE MCPersistence ----------------------------
(* TLC instances of Persistence.                                            *)
EXTENDS Persistence, MCRegularFiles

MCOneWrite == {<<c>> : c \in Chunk}

\* Addresses and inodes are interchangeable: the lowest free one is taken.
LowestFree ==
    /\ \A t \in Threads :
          Stage(t) = "open" /\ Stage(t)' = "released" => data[req[t].inode] # << >>
    /\ main' # "starting" =>
          \A e \in allocated' \ allocated, f \in Entries \ allocated : e <= f
    /\ \A t \in Threads :
          Stage(t) = "idle" /\ Stage(t)' = "create" =>
              \A i \in FreshInodes : req'[t].file <= i

\* No request runs from the tick to the end of the first Encode, nor from the
\* second os.Create to the end of the second: what it could do there commutes
\* with the step of the save, and does less damage before the tick.
PromptSaves ==
    /\ LowestFree
    /\ (\E s \in Savers : save[s] \in {"nodes", "nodesOpen", "metaOpen"}) /\ main' = main
          => UNCHANGED filesVars

\* Bound on the files closed while a process and its successors run.
FewClosed == FoldSet(LAMBDA e, n : n + index[e], 0, allocated) <= 3

\* The last process makes no saves: no other would read them.
LastProcess == restarts = MaxRestarts

Useful == PromptSaves /\ (LastProcess => save' = save)

PersistenceView ==
    <<View, main, restarts, IF LastProcess THEN << >> ELSE <<saves, dirty, since>>>>
=============================================================================
