------------------------ MODULE MetadataStoreProofs ------------------------
(***************************************************************************)
(* Proofs about MetadataStore, for any set of hashes, addresses, requests  *)
(* and any bounds.  IInv is inductive: it holds initially and each action  *)
(* keeps it (one lemma per action).  The promises of the store are         *)
(* conjuncts or consequences of it.                                        *)
(***************************************************************************)
EXTENDS MetadataStore, TLAPS, FiniteSetTheorems

-----------------------------------------------------------------------------
(* Facts used by several actions.                                           *)

\* uint32 arithmetic stays within the width of a ReferenceCount.
LEMMA CountArithmetic ==
    ASSUME NEW c \in 0..CountMax
    PROVE  Incremented(c) \in 0..CountMax /\ Decremented(c) \in 0..CountMax
BY StoreAssumption DEF Incremented, Decremented

\* An EntryList is finite and no larger than the IndexCounter.
LEMMA LiveCardinality ==
    ASSUME TypeOK, KeysHandedOut, NEW e \in Entries
    PROVE  /\ IsFiniteSet(live[e])
           /\ Cardinality(live[e]) \in 0..index[e]
           /\ Cardinality(live[e]) = 0 <=> live[e] = {}
<1>1. index[e] \in 0..MaxIndex /\ index[e] \in Nat /\ live[e] \in SUBSET (1..index[e])
  BY StoreAssumption DEF TypeOK, KeysHandedOut
<1>2. IsFiniteSet(1..index[e]) /\ Cardinality(1..index[e]) = index[e]
  BY <1>1, FS_Interval
<1>3. IsFiniteSet(live[e]) /\ Cardinality(live[e]) <= index[e]
  BY <1>1, <1>2, FS_Subset
<1>4. Cardinality(live[e]) \in Nat
  BY <1>3, FS_CardinalityType
<1>5. Cardinality(live[e]) = 0 <=> live[e] = {}
  BY <1>3, FS_EmptySet
<1>. QED  BY <1>1, <1>3, <1>4, <1>5

\* The parts of IInv about the table and the entries alone survive a step
\* that leaves them alone; a hash that becomes contended only weakens them.
LEMMA HeapUntouched ==
    ASSUME IInv, UNCHANGED <<table, heap>>, contended \subseteq contended'
    PROVE  TableSound' /\ FreshCells' /\ KeysHandedOut' /\ CountExact' /\ NothingLost'
<1>1. TableSound' /\ FreshCells' /\ KeysHandedOut'
  BY DEF IInv, TableSound, FreshCells, KeysHandedOut, heap
<1>2. CountExact' /\ NothingLost'
  BY DEF IInv, CountExact, NothingLost, Quiet, heap
<1>. QED  BY <1>1, <1>2

-----------------------------------------------------------------------------
(* The steps that change neither the table nor an entry.                    *)

\* A store begins: if another request works on the hash it becomes contended.
LEMMA BeginStoreKeeps ==
    ASSUME IInv, NEW t \in Threads, NEW h \in AllHash, BeginStore(t, h)
    PROVE  IInv'
<1>. USE DEF IInv
<1>1. TypeOK'
  BY DEF TypeOK, BeginStore, Step, heap, locals, AllHash, Refs, StorePcs, RemovePcs
<1>2. PointersSound'
  BY DEF TypeOK, TableSound, PointersSound, BeginStore, Step, heap, locals
<1>3. Alone'
  BY DEF TypeOK, Alone, Busy, Quiet, BeginStore, Step, locals, WorkingOn
<1>4. ProgressSound'
  BY DEF TypeOK, ProgressSound, Busy, Quiet, BeginStore, Step, heap, locals, WorkingOn
<1>5. EmptyEntryInHand'
  BY DEF TypeOK, Alone, ProgressSound, EmptyEntryInHand, Busy, WorkingOn, Quiet, BeginStore, Step, heap, locals
<1>6. UNCHANGED <<table, heap>> /\ contended \subseteq contended'
  BY DEF BeginStore
<1>7. TableSound' /\ FreshCells' /\ KeysHandedOut' /\ CountExact' /\ NothingLost'
  BY <1>6, HeapUntouched
<1>. QED  BY <1>1, <1>2, <1>3, <1>4, <1>5, <1>7

\* A removal begins: if another request works on the hash it becomes contended.
LEMMA BeginRemoveKeeps ==
    ASSUME IInv, NEW t \in Threads, NEW h \in AllHash, NEW r \in Refs, BeginRemove(t, h, r)
    PROVE  IInv'
<1>. USE DEF IInv
<1>1. TypeOK'
  BY DEF TypeOK, BeginRemove, Step, heap, locals, AllHash, Refs, StorePcs, RemovePcs
<1>2. PointersSound'
  BY DEF TypeOK, TableSound, PointersSound, BeginRemove, Step, heap, locals
<1>3. Alone'
  BY DEF TypeOK, Alone, Busy, Quiet, BeginRemove, Step, locals, WorkingOn
<1>4. ProgressSound'
  BY DEF TypeOK, ProgressSound, Busy, Quiet, BeginRemove, Step, heap, locals, WorkingOn
<1>5. EmptyEntryInHand'
  BY DEF TypeOK, Alone, ProgressSound, EmptyEntryInHand, Busy, WorkingOn, Quiet, BeginRemove, Step, heap, locals
<1>6. UNCHANGED <<table, heap>> /\ contended \subseteq contended'
  BY DEF BeginRemove
<1>7. TableSound' /\ FreshCells' /\ KeysHandedOut' /\ CountExact' /\ NothingLost'
  BY <1>6, HeapUntouched
<1>. QED  BY <1>1, <1>2, <1>3, <1>4, <1>5, <1>7

\* The uniqueness test: a quiet hash that is not unique has its entry.
LEMMA IsContentHashUniqueKeeps ==
    ASSUME IInv, NEW t \in Threads, IsContentHashUnique(t)
    PROVE  IInv'
<1>. USE DEF IInv
<1>1. TypeOK'
  BY DEF TypeOK, IsContentHashUnique, Step, heap, locals, AllHash, Refs, StorePcs, RemovePcs
<1>2. PointersSound'
  BY DEF TypeOK, TableSound, PointersSound, IsContentHashUnique, Step, heap, locals
<1>3. Alone'
  BY DEF TypeOK, Alone, Busy, Quiet, IsContentHashUnique, Step, locals
<1>4. ProgressSound'
  BY DEF TypeOK, ProgressSound, Busy, Quiet, IsContentHashUnique, Step, heap, locals, Unique
<1>5. EmptyEntryInHand'
  BY DEF TypeOK, Alone, ProgressSound, EmptyEntryInHand, Busy, WorkingOn, Quiet, IsContentHashUnique, Step, heap, locals, Unique
<1>6. UNCHANGED <<table, heap>> /\ contended \subseteq contended'
  BY DEF IsContentHashUnique
<1>7. TableSound' /\ FreshCells' /\ KeysHandedOut' /\ CountExact' /\ NothingLost'
  BY <1>6, HeapUntouched
<1>. QED  BY <1>1, <1>2, <1>3, <1>4, <1>5, <1>7

\* The first critical section of CreateRegularFileMapEntry.
LEMMA CheckMapEntryKeeps ==
    ASSUME IInv, NEW t \in Threads, CheckMapEntry(t)
    PROVE  IInv'
<1>. USE DEF IInv
<1>1. TypeOK'
  BY DEF TypeOK, CheckMapEntry, Step, heap, locals, AllHash, Refs, StorePcs, RemovePcs
<1>2. PointersSound'
  BY DEF TypeOK, TableSound, PointersSound, CheckMapEntry, Step, heap, locals
<1>3. Alone'
  BY DEF TypeOK, Alone, Busy, Quiet, CheckMapEntry, Step, locals
<1>4. ProgressSound'
  BY DEF TypeOK, ProgressSound, Busy, Quiet, CheckMapEntry, Step, heap, locals
<1>5. EmptyEntryInHand'
  BY DEF TypeOK, Alone, ProgressSound, EmptyEntryInHand, Busy, WorkingOn, Quiet, CheckMapEntry, Step, heap, locals
<1>6. UNCHANGED <<table, heap>> /\ contended \subseteq contended'
  BY DEF CheckMapEntry
<1>7. TableSound' /\ FreshCells' /\ KeysHandedOut' /\ CountExact' /\ NothingLost'
  BY <1>6, HeapUntouched
<1>. QED  BY <1>1, <1>2, <1>3, <1>4, <1>5, <1>7

\* The pointer a store goes on with is the table's.
LEMMA LookupMapEntryKeeps ==
    ASSUME IInv, NEW t \in Threads, LookupMapEntry(t)
    PROVE  IInv'
<1>. USE DEF IInv
<1>1. TypeOK'
  BY DEF TypeOK, LookupMapEntry, Step, heap, locals, AllHash, Refs, StorePcs, RemovePcs
<1>2. PointersSound'
  BY DEF TypeOK, TableSound, PointersSound, LookupMapEntry, Step, heap, locals
<1>3. Alone'
  BY DEF TypeOK, Alone, Busy, Quiet, LookupMapEntry, Step, locals
<1>4. ProgressSound'
  BY DEF TypeOK, ProgressSound, Busy, Quiet, LookupMapEntry, Step, heap, locals
<1>5. EmptyEntryInHand'
  BY DEF TypeOK, Alone, ProgressSound, EmptyEntryInHand, Busy, WorkingOn, Quiet, LookupMapEntry, Step, heap, locals
<1>6. UNCHANGED <<table, heap>> /\ contended \subseteq contended'
  BY DEF LookupMapEntry
<1>7. TableSound' /\ FreshCells' /\ KeysHandedOut' /\ CountExact' /\ NothingLost'
  BY <1>6, HeapUntouched
<1>. QED  BY <1>1, <1>2, <1>3, <1>4, <1>5, <1>7

\* The entry a store found empty on a quiet hash is one it has just made.
LEMMA RetrieveRecentKeeps ==
    ASSUME IInv, NEW t \in Threads, RetrieveRecent(t)
    PROVE  IInv'
<1>. USE DEF IInv
<1>1. TypeOK'
  BY DEF TypeOK, RetrieveRecent, Step, heap, locals, AllHash, Refs, StorePcs, RemovePcs
<1>2. PointersSound'
  BY DEF TypeOK, TableSound, PointersSound, RetrieveRecent, Step, heap, locals
<1>3. Alone'
  BY DEF TypeOK, Alone, Busy, Quiet, RetrieveRecent, Step, locals
<1>4. ProgressSound'
  BY DEF TypeOK, ProgressSound, Busy, Quiet, RetrieveRecent, Step, heap, locals, Alone, EmptyEntryInHand, WorkingOn
<1>5. EmptyEntryInHand'
  BY DEF TypeOK, Alone, ProgressSound, EmptyEntryInHand, Busy, WorkingOn, Quiet, RetrieveRecent, Step, heap, locals
<1>6. UNCHANGED <<table, heap>> /\ contended \subseteq contended'
  BY DEF RetrieveRecent
<1>7. TableSound' /\ FreshCells' /\ KeysHandedOut' /\ CountExact' /\ NothingLost'
  BY <1>6, HeapUntouched
<1>. QED  BY <1>1, <1>2, <1>3, <1>4, <1>5, <1>7

\* The pointer a removal goes on with is the table's.
LEMMA FindMetadataKeeps ==
    ASSUME IInv, NEW t \in Threads, FindMetadata(t)
    PROVE  IInv'
<1>. USE DEF IInv
<1>1. TypeOK'
  BY DEF TypeOK, FindMetadata, Step, heap, locals, AllHash, Refs, StorePcs, RemovePcs
<1>2. PointersSound'
  BY DEF TypeOK, TableSound, PointersSound, FindMetadata, Step, heap, locals, Found
<1>3. Alone'
  BY DEF TypeOK, Alone, Busy, Quiet, FindMetadata, Step, locals
<1>4. ProgressSound'
  BY DEF TypeOK, ProgressSound, Busy, Quiet, FindMetadata, Step, heap, locals, Found
<1>5. EmptyEntryInHand'
  BY DEF TypeOK, Alone, ProgressSound, EmptyEntryInHand, Busy, WorkingOn, Quiet, FindMetadata, Step, heap, locals, Found
<1>6. UNCHANGED <<table, heap>> /\ contended \subseteq contended'
  BY DEF FindMetadata
<1>7. TableSound' /\ FreshCells' /\ KeysHandedOut' /\ CountExact' /\ NothingLost'
  BY <1>6, HeapUntouched
<1>. QED  BY <1>1, <1>2, <1>3, <1>4, <1>5, <1>7

\* A count of zero is an empty EntryList, on a quiet hash.
LEMMA TestEmptyKeeps ==
    ASSUME IInv, NEW t \in Threads, TestEmpty(t)
    PROVE  IInv'
<1>. USE DEF IInv
<1>1. entryPtr[t] \in Entries /\ (Cardinality(live[entryPtr[t]]) = 0 <=> live[entryPtr[t]] = {})
  BY LiveCardinality DEF TestEmpty, Step, TypeOK, PointersSound
<1>2. hashArg[t] \in Quiet => count[entryPtr[t]] = Cardinality(live[entryPtr[t]])
  BY DEF TestEmpty, Step, PointersSound, CountExact
<1>3. TypeOK'
  BY DEF TypeOK, TestEmpty, Step, heap, locals, AllHash, Refs, StorePcs, RemovePcs
<1>4. PointersSound'
  BY DEF TypeOK, TableSound, PointersSound, TestEmpty, Step, heap, locals
<1>5. Alone'
  BY DEF TypeOK, Alone, Busy, Quiet, TestEmpty, Step, locals
<1>6. ProgressSound'
  BY <1>1, <1>2 DEF TypeOK, ProgressSound, Busy, Quiet, TestEmpty, Step, heap, locals
<1>7. EmptyEntryInHand'
  BY <1>1, <1>2 DEF TypeOK, Alone, ProgressSound, EmptyEntryInHand, Busy, WorkingOn, Quiet, TestEmpty, Step, heap, locals
<1>8. UNCHANGED <<table, heap>> /\ contended \subseteq contended'
  BY DEF TestEmpty
<1>9. TableSound' /\ FreshCells' /\ KeysHandedOut' /\ CountExact' /\ NothingLost'
  BY <1>8, HeapUntouched
<1>. QED  BY <1>3, <1>4, <1>5, <1>6, <1>7, <1>9

-----------------------------------------------------------------------------
(* The steps that change the table or an entry.                             *)

\* A new entry replaces what the table held: nothing, on a quiet hash.
LEMMA CreateMapEntryKeeps ==
    ASSUME IInv, NEW t \in Threads, CreateMapEntry(t)
    PROVE  IInv'
<1>. USE DEF IInv
<1>1. PICK e \in Entries \ allocated :
          /\ allocated' = allocated \cup {e}
          /\ table' = [table EXCEPT ![hashArg[t]] = e]
          /\ home' = [home EXCEPT ![e] = hashArg[t]]
  BY DEF CreateMapEntry
<1>2. /\ Step(t, "create", "lookup")
      /\ UNCHANGED <<live, index, count, locals, contended>>
  BY DEF CreateMapEntry
<1>3. hashArg[t] \in AllHash /\ e # NoEntry
  BY StoreAssumption DEF TypeOK
<1>4. live[e] = {} /\ index[e] = 0 /\ count[e] = 0
  BY DEF FreshCells
<1>5. hashArg[t] \in Quiet => table[hashArg[t]] = NoEntry
  BY <1>2 DEF ProgressSound, Step, Busy
<1>6. TypeOK'
  BY <1>1, <1>2, <1>3 DEF TypeOK, Step, locals, StorePcs
<1>7. TableSound'
  BY <1>1, <1>3 DEF TypeOK, TableSound
<1>8. FreshCells'
  BY <1>1, <1>2 DEF FreshCells
<1>9. KeysHandedOut'
  BY <1>2 DEF KeysHandedOut
<1>10. PointersSound'
  BY <1>1, <1>2 DEF TypeOK, PointersSound, Step, locals
<1>11. Alone'
  BY <1>2 DEF TypeOK, Alone, Step, Busy, Quiet, locals
<1>12. ProgressSound'
  BY <1>1, <1>2, <1>3 DEF TypeOK, ProgressSound, Alone, Step, Busy, Quiet, locals
<1>13. EmptyEntryInHand'
  BY <1>1, <1>2, <1>3, <1>4
     DEF TypeOK, EmptyEntryInHand, Step, Busy, WorkingOn, Quiet, locals
<1>14. CountExact'
  <2>1. Cardinality({}) = 0
    BY FS_EmptySet
  <2>. QED  BY <1>1, <1>2, <1>4, <2>1 DEF TypeOK, CountExact, Quiet
<1>15. NothingLost'
  BY <1>1, <1>2, <1>3, <1>4, <1>5, StoreAssumption DEF TypeOK, NothingLost, Quiet
<1>. QED
  BY <1>6, <1>7, <1>8, <1>9, <1>10, <1>11, <1>12, <1>13, <1>14, <1>15

\* A new reference goes into the entry the table names, on a quiet hash.
LEMMA CreateMetadataKeeps ==
    ASSUME IInv, NEW t \in Threads, CreateMetadata(t)
    PROVE  IInv'
<1>. USE DEF IInv
<1>. DEFINE e == entryPtr[t]
<1>1. /\ e \in allocated /\ e \in Entries
      /\ home[e] = hashArg[t] /\ hashArg[t] \in AllHash
  BY DEF CreateMetadata, Step, PointersSound, TypeOK
<1>2. index[e] \in 0..MaxIndex /\ index[e] < MaxIndex /\ index[e] + 1 \in Refs
  BY <1>1, StoreAssumption DEF CreateMetadata, TypeOK, Refs
<1>3. hashArg[t] \in Quiet => table[hashArg[t]] = e
  BY DEF CreateMetadata, Step, ProgressSound, Busy
<1>4. TypeOK'
  <2>1. Incremented(count[e]) \in 0..CountMax
    BY <1>1, CountArithmetic DEF TypeOK
  <2>2. index[e] + 1 \in 0..MaxIndex
    BY <1>2, StoreAssumption
  <2>. QED  BY <1>1, <1>2, <2>1, <2>2 DEF TypeOK, CreateMetadata, Step, locals, StorePcs
<1>5. TableSound'
  BY DEF TableSound, CreateMetadata
<1>6. FreshCells'
  BY <1>1 DEF FreshCells, TypeOK, CreateMetadata
<1>7. KeysHandedOut'
  BY <1>1, <1>2 DEF KeysHandedOut, TypeOK, CreateMetadata
<1>8. PointersSound'
  BY DEF TypeOK, PointersSound, CreateMetadata, Step, locals
<1>9. Alone'
  BY DEF TypeOK, Alone, CreateMetadata, Step, Busy, Quiet, locals
<1>10. ProgressSound'
  BY <1>1, <1>3
     DEF TypeOK, TableSound, ProgressSound, Alone, CreateMetadata, Step, Busy, Quiet, locals
<1>11. EmptyEntryInHand'
  <2>. SUFFICES ASSUME NEW h \in Quiet', table'[h] # NoEntry, live'[table'[h]] = {}
                PROVE  \E u \in WorkingOn(h)' :
                          \/ /\ pc'[u] \in {"lookup", "recent", "alloc"}
                             /\ index'[table'[h]] = 0
                          \/ pc'[u] \in {"test", "delete"}
    BY DEF EmptyEntryInHand
  <2>1. h \in Quiet /\ h \in AllHash /\ table[h] = table'[h] /\ table[h] \in Entries
    BY DEF CreateMetadata, Quiet, TypeOK
  <2>2. table[h] # e
    BY <1>1, <2>1 DEF CreateMetadata, TypeOK
  <2>3. h # hashArg[t]
    BY <1>3, <2>1, <2>2
  <2>4. live'[table[h]] = live[table[h]] /\ index'[table[h]] = index[table[h]]
    BY <2>1, <2>2 DEF CreateMetadata, TypeOK
  <2>5. PICK u \in WorkingOn(h) :
            \/ pc[u] \in {"lookup", "recent", "alloc"} /\ index[table[h]] = 0
            \/ pc[u] \in {"test", "delete"}
    BY <2>1, <2>4 DEF EmptyEntryInHand
  <2>6. u # t /\ pc'[u] = pc[u] /\ u \in WorkingOn(h)'
    BY <2>3, <2>5 DEF CreateMetadata, TypeOK, Step, locals, WorkingOn, Busy
  <2>. QED  BY <2>1, <2>4, <2>5, <2>6
<1>12. CountExact'
  <2>1. IsFiniteSet(live[e]) /\ Cardinality(live[e]) \in 0..index[e]
    BY <1>1, LiveCardinality
  <2>2. index[e] + 1 \notin live[e]
    BY <1>1, <1>2 DEF KeysHandedOut
  <2>3. Cardinality(live[e] \cup {index[e] + 1}) = Cardinality(live[e]) + 1
    BY <2>1, <2>2, FS_AddElement
  <2>4. home[e] \in Quiet => count[e] = Cardinality(live[e]) /\ count[e] < CountMax
    BY <1>1, <1>2, <2>1, StoreAssumption DEF CountExact
  <2>5. home[e] \in Quiet => Incremented(count[e]) = Cardinality(live[e] \cup {index[e] + 1})
    BY <1>1, <2>1, <2>3, <2>4, StoreAssumption DEF Incremented
  <2>6. /\ live' = [live EXCEPT ![e] = live[e] \cup {index[e] + 1}]
        /\ count' = [count EXCEPT ![e] = Incremented(count[e])]
        /\ UNCHANGED <<allocated, home, contended>>
    BY DEF CreateMetadata
  <2>. QED  BY <1>1, <2>5, <2>6 DEF TypeOK, CountExact, Quiet
<1>13. NothingLost'
  BY <1>1, <1>3 DEF TypeOK, NothingLost, CreateMetadata, Quiet
<1>. QED
  BY <1>4, <1>5, <1>6, <1>7, <1>8, <1>9, <1>10, <1>11, <1>12, <1>13

\* The reference removed was there, on a quiet hash, so count and EntryList
\* go down together; an entry this empties is in the hands of the request.
LEMMA DeleteMetadataKeeps ==
    ASSUME IInv, NEW t \in Threads, DeleteMetadata(t)
    PROVE  IInv'
<1>. USE DEF IInv
<1>. DEFINE e == entryPtr[t]
<1>1. /\ e \in allocated /\ e \in Entries
      /\ home[e] = hashArg[t] /\ hashArg[t] \in AllHash
  BY DEF DeleteMetadata, Step, PointersSound, TypeOK
<1>2. hashArg[t] \in Quiet => table[hashArg[t]] = e /\ refArg[t] \in live[e]
  BY DEF DeleteMetadata, Step, ProgressSound, Busy
<1>3. TypeOK'
  BY <1>1, CountArithmetic
     DEF TypeOK, DeleteMetadata, Step, locals, RemovePcs
<1>4. TableSound'
  BY DEF TableSound, DeleteMetadata
<1>5. FreshCells'
  BY <1>1 DEF FreshCells, TypeOK, DeleteMetadata
<1>6. KeysHandedOut'
  BY <1>1 DEF KeysHandedOut, TypeOK, DeleteMetadata
<1>7. PointersSound'
  BY DEF TypeOK, PointersSound, DeleteMetadata, Step, locals
<1>8. Alone'
  BY DEF TypeOK, Alone, DeleteMetadata, Step, Busy, Quiet, locals
<1>9. ProgressSound'
  BY <1>1, <1>2
     DEF TypeOK, TableSound, ProgressSound, Alone, DeleteMetadata, Step, Busy, Quiet, locals
<1>10. EmptyEntryInHand'
  BY <1>1, <1>2
     DEF TypeOK, TableSound, Alone, EmptyEntryInHand, DeleteMetadata, Step, Busy, WorkingOn, Quiet, locals
<1>11. CountExact'
  <2>1. IsFiniteSet(live[e]) /\ Cardinality(live[e]) \in 0..index[e]
    BY <1>1, LiveCardinality
  <2>2. refArg[t] \in live[e] =>
            Cardinality(live[e] \ {refArg[t]}) = Cardinality(live[e]) - 1
    BY <2>1, FS_RemoveElement
  <2>3. refArg[t] \in live[e] => Cardinality(live[e]) # 0
    BY <1>1, LiveCardinality
  <2>4. home[e] \in Quiet => Decremented(count[e]) = Cardinality(live[e] \ {refArg[t]})
    BY <1>1, <1>2, <2>1, <2>2, <2>3 DEF CountExact, Decremented
  <2>5. /\ live' = [live EXCEPT ![e] = live[e] \ {refArg[t]}]
        /\ count' = [count EXCEPT ![e] = Decremented(count[e])]
        /\ UNCHANGED <<allocated, home, contended>>
    BY DEF DeleteMetadata
  <2>. QED  BY <1>1, <2>4, <2>5 DEF TypeOK, CountExact, Quiet
<1>12. NothingLost'
  BY <1>1, <1>2 DEF TypeOK, NothingLost, DeleteMetadata, Quiet
<1>. QED
  BY <1>3, <1>4, <1>5, <1>6, <1>7, <1>8, <1>9, <1>10, <1>11, <1>12

\* The entry deleted from the table is empty, on a quiet hash.
LEMMA DeleteMapEntryKeeps ==
    ASSUME IInv, NEW t \in Threads, DeleteMapEntry(t)
    PROVE  IInv'
<1>. USE DEF IInv
<1>1. hashArg[t] \in AllHash
  BY DEF TypeOK
<1>2. hashArg[t] \in Quiet => live[table[hashArg[t]]] = {}
  BY DEF DeleteMapEntry, Step, ProgressSound, Busy
<1>3. TypeOK'
  BY DEF TypeOK, DeleteMapEntry, Step, heap, locals
<1>4. TableSound' /\ FreshCells' /\ KeysHandedOut'
  BY <1>1 DEF TypeOK, TableSound, FreshCells, KeysHandedOut, DeleteMapEntry, heap
<1>5. PointersSound' /\ Alone'
  BY DEF TypeOK, PointersSound, Alone, DeleteMapEntry, Step, Busy, Quiet, heap, locals
<1>6. ProgressSound'
  BY <1>1 DEF TypeOK, Alone, ProgressSound, DeleteMapEntry, Step, Busy, Quiet, heap, locals
<1>7. EmptyEntryInHand'
  BY <1>1 DEF TypeOK, EmptyEntryInHand, DeleteMapEntry, Step, Busy, WorkingOn, Quiet, heap, locals
<1>8. CountExact'
  BY DEF CountExact, DeleteMapEntry, Quiet, heap
<1>9. NothingLost'
  BY <1>1, <1>2 DEF TypeOK, NothingLost, DeleteMapEntry, Quiet, heap
<1>. QED  BY <1>3, <1>4, <1>5, <1>6, <1>7, <1>8, <1>9

-----------------------------------------------------------------------------
(* The theorems.                                                            *)

LEMMA InitEstablishesIInv == Init => IInv
<1>. SUFFICES ASSUME Init PROVE IInv
  OBVIOUS
<1>1. TypeOK
  BY StoreAssumption DEF Init, TypeOK, AllHash
<1>2. TableSound /\ FreshCells /\ KeysHandedOut /\ CountExact /\ NothingLost
  BY DEF Init, TableSound, FreshCells, KeysHandedOut, CountExact, NothingLost
<1>3. PointersSound /\ Alone /\ ProgressSound
  BY DEF Init, PointersSound, Alone, ProgressSound, Busy
<1>4. EmptyEntryInHand
  BY DEF Init, EmptyEntryInHand, Quiet
<1>. QED  BY <1>1, <1>2, <1>3, <1>4 DEF IInv

LEMMA NextKeepsIInv == IInv /\ [Next]_vars => IInv'
<1>. SUFFICES ASSUME IInv, [Next]_vars PROVE IInv'
  OBVIOUS
<1>1. ASSUME NEW t \in Threads, Begin(t) PROVE IInv'
  BY <1>1, BeginStoreKeeps, BeginRemoveKeeps DEF Begin
<1>2. ASSUME NEW t \in Threads, StoreStep(t) PROVE IInv'
  BY <1>2, IsContentHashUniqueKeeps, CheckMapEntryKeeps, CreateMapEntryKeeps,
     LookupMapEntryKeeps, RetrieveRecentKeeps, CreateMetadataKeeps DEF StoreStep
<1>3. ASSUME NEW t \in Threads, RemoveStep(t) PROVE IInv'
  BY <1>3, FindMetadataKeeps, DeleteMetadataKeeps, TestEmptyKeeps,
     DeleteMapEntryKeeps DEF RemoveStep
<1>4. CASE UNCHANGED vars
  BY <1>4 DEF IInv, TypeOK, TableSound, FreshCells, KeysHandedOut, PointersSound,
     Alone, ProgressSound, EmptyEntryInHand, CountExact, NothingLost,
     Busy, WorkingOn, Quiet, vars, heap, locals
<1>. QED  BY <1>1, <1>2, <1>3, <1>4 DEF Next

\* The inductive invariant holds in every reachable state.
THEOREM InductiveInvariant == Spec => []IInv
BY InitEstablishesIInv, NextKeepsIInv, PTL DEF Spec

\* Every variable keeps its type: in particular no reference exceeds the
\* IndexCounter's bound and no count its width.
THEOREM TypeCorrectness == Spec => []TypeOK
<1>1. IInv => TypeOK
  BY DEF IInv
<1>. QED  BY <1>1, InductiveInvariant, PTL

\* ReferenceCount is exact on every hash that requests take turns on.
THEOREM CountIsExact == Spec => []CountExact
<1>1. IInv => CountExact
  BY DEF IInv
<1>. QED  BY <1>1, InductiveInvariant, PTL

\* No metadata becomes unreachable on a hash that requests take turns on.
THEOREM NothingIsLost == Spec => []NothingLost
<1>1. IInv => NothingLost
  BY DEF IInv
<1>. QED  BY <1>1, InductiveInvariant, PTL

\* RetrieveRecent never enters its endless loop on such a hash.
THEOREM RetrieveRecentTerminates == Spec => []LoopTerminates
<1>1. IInv => LoopTerminates
  BY DEF IInv, LoopTerminates, ProgressSound, Busy
<1>. QED  BY <1>1, InductiveInvariant, PTL

\* Removals leave no empty MapEntry behind on such a hash.
THEOREM NoEmptyEntryStays == Spec => []NoEmptyEntry
<1>1. IInv => NoEmptyEntry
  BY DEF IInv, NoEmptyEntry, EmptyEntryInHand
<1>. QED  BY <1>1, InductiveInvariant, PTL

\* A store never fails with ENODATA on such a hash.
THEOREM StoresSucceed == Spec => StoreSucceeds
<1>1. ASSUME IInv, [Next]_vars, NEW t \in Threads, pc[t] = "lookup", pc'[t] = "idle"
      PROVE  hashArg[t] \notin Quiet
  <2>1. CASE UNCHANGED vars
    BY <1>1, <2>1 DEF vars
  <2>2. CASE Next
    <3>1. PICK u \in Threads : Begin(u) \/ StoreStep(u) \/ RemoveStep(u)
      BY <2>2 DEF Next
    <3>2. LookupMapEntry(t)
      BY <1>1, <3>1 DEF IInv, TypeOK, Begin, StoreStep, RemoveStep, Step, BeginStore,
         BeginRemove, IsContentHashUnique, CheckMapEntry, CreateMapEntry, LookupMapEntry,
         RetrieveRecent, CreateMetadata, FindMetadata, DeleteMetadata, TestEmpty, DeleteMapEntry
    <3>3. table[hashArg[t]] = NoEntry
      BY <1>1, <3>2 DEF IInv, TypeOK, LookupMapEntry, Step
    <3>. QED  BY <1>1, <3>3 DEF IInv, ProgressSound, Busy
  <2>. QED  BY <1>1, <2>1, <2>2
<1>2. IInv /\ [Next]_vars =>
          [\A t \in Threads :
              pc[t] = "lookup" /\ pc'[t] = "idle" => hashArg[t] \notin Quiet]_vars
  BY <1>1
<1>. QED  BY <1>2, InductiveInvariant, PTL DEF Spec, StoreSucceeds

\* References grow, whatever runs at the same time.
THEOREM ReferencesAreFresh == Spec => RefsNeverReused
<1>1. ASSUME IInv, [Next]_vars, NEW e \in Entries
      PROVE  /\ \A r \in live'[e] \ live[e] : r > index[e]
             /\ index[e] \in 0..index'[e]
  <2>1. index[e] \in 0..MaxIndex
    BY <1>1 DEF IInv, TypeOK
  <2>2. CASE UNCHANGED <<live, index>>
    BY <2>1, <2>2
  <2>3. ASSUME NEW t \in Threads, CreateMetadata(t)
        PROVE  /\ \A r \in live'[e] \ live[e] : r > index[e]
               /\ index[e] \in 0..index'[e]
    BY <1>1, <2>1, <2>3 DEF IInv, TypeOK, CreateMetadata
  <2>4. ASSUME NEW t \in Threads, DeleteMetadata(t)
        PROVE  live'[e] \subseteq live[e] /\ UNCHANGED index
    BY <1>1, <2>4 DEF IInv, TypeOK, DeleteMetadata
  <2>5. UNCHANGED <<live, index>> \/ \E t \in Threads : CreateMetadata(t) \/ DeleteMetadata(t)
    BY <1>1 DEF Next, vars, heap, Begin, StoreStep, RemoveStep, BeginStore, BeginRemove,
       IsContentHashUnique, CheckMapEntry, CreateMapEntry, LookupMapEntry,
       RetrieveRecent, FindMetadata, TestEmpty, DeleteMapEntry
  <2>. QED  BY <2>1, <2>2, <2>3, <2>4, <2>5
<1>2. IInv /\ [Next]_vars =>
          [\A e \in Entries :
              /\ \A r \in live'[e] \ live[e] : r > index[e]
              /\ index[e] \in 0..index'[e]]_vars
  BY <1>1
<1>. QED  BY <1>2, InductiveInvariant, PTL DEF Spec, RefsNeverReused
=============================================================================
