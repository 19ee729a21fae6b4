--------------------------- MODULE MCMetadataStore ---------------------------
(* TLC instances of MetadataStore.                                          *)
EXTENDS MetadataStore, TLC, FiniteSetsExt

\* Bound on the references handed out, over all entries.
MaxStores == 2
FewStores == FoldSet(LAMBDA e, n : n + index[e], 0, allocated) <= MaxStores

\* Removals of a reference that was never handed out find nothing; they are
\* left out, as they only multiply the states.
HandedOut(h) == UNION {1..index[e] : e \in {x \in allocated : home[x] = h}}
KnownReferences ==
    \A t \in Threads :
        pc[t] = "idle" /\ pc'[t] = "find" => refArg'[t] \in HandedOut(hashArg'[t])

\* Addresses are interchangeable: where symmetry would be unsound (liveness)
\* they are numbers and the lowest free one is taken.
MCEntries == 1..3
LowestFirst ==
    /\ KnownReferences
    /\ allocated' # allocated => allocated' = 1..Cardinality(allocated')
    /\ \A t \in Threads :
          pc[t] = "idle" /\ hashArg'[t] \in Hash =>
              \A h \in Hash : h < hashArg'[t] =>
                  \/ \E e \in allocated : home[e] = h
                  \/ \E u \in Threads : Busy(u) /\ hashArg[u] = h

MCHashes == 1..2
=============================================================================
