---------------------------- MODULE MetadataStore ----------------------------
(***************************************************************************)
(* regularFileMetadataHash: the table from a content hash to a MapEntry,   *)
(* the MapEntry objects themselves, and the two call sequences that change *)
(* them, as concurrent FUSE requests run them:                             *)
(*                                                                         *)
(*   store(h)      what Release does with the hash of a closed file        *)
(*                 (IsContentHashUnique, CreateRegularFileMapEntry,        *)
(*                 LookupRegularFileEntry, RetrieveRecent,                 *)
(*                 CreateRegularFileMetadata)                              *)
(*   remove(h, r)  RemoveRegularFileMetadata                               *)
(*                                                                         *)
(* metadataMutex is taken and dropped inside each of those functions, so   *)
(* an action is one critical section and other requests run between two.   *)
(* A MapEntry is a heap object: a request that looked one up keeps its     *)
(* pointer whatever happens to the table afterwards.                       *)
(***************************************************************************)
EXTENDS Integers, FiniteSets

CONSTANTS
    Hash,       \* content hashes of non-empty files
    NoHash,     \* the zero [64]byte: the hash of a file nothing was written to
    Entries,    \* addresses at which a MapEntry can be allocated
    NoEntry,    \* the nil *MapEntry, and a missing key of the table
    Threads,    \* the FUSE requests being served at once
    MaxIndex,   \* bound on IndexCounter (a uint64 in the code)
    CountMax    \* largest ReferenceCount before it wraps (2^32 - 1 in the code)

ASSUME StoreAssumption ==
    /\ NoHash \notin Hash
    /\ NoEntry \notin Entries
    /\ MaxIndex \in Nat
    /\ CountMax \in Nat
    /\ MaxIndex <= CountMax
    /\ IsFiniteSet(Threads)
    /\ IsFiniteSet(Entries)

AllHash == Hash \cup {NoHash}
Refs == 1..MaxIndex

VARIABLES
    table,      \* regularFileMetadataHash: hash -> address of a MapEntry, or NoEntry
    allocated,  \* the addresses allocated so far
    live,       \* EntryList of each MapEntry: the references it holds metadata for
    index,      \* IndexCounter of each MapEntry
    count,      \* ReferenceCount of each MapEntry
    pc,         \* what each request does next
    hashArg,    \* the content hash each request works on
    refArg,     \* the reference number each removal was given
    entryPtr,   \* the *MapEntry each request holds
    home,       \* history: the hash each MapEntry was created for
    contended   \* history: hashes two requests have worked on at the same time

heap == <<allocated, live, index, count, home>>
locals == <<hashArg, refArg, entryPtr>>
vars == <<table, heap, pc, locals, contended>>

StorePcs == {"unique", "check", "create", "lookup", "recent", "alloc", "spin"}
RemovePcs == {"find", "dec", "test", "delete"}

TypeOK ==
    /\ table \in [AllHash -> Entries \cup {NoEntry}]
    /\ allocated \in SUBSET Entries
    /\ live \in [Entries -> SUBSET Refs]
    /\ index \in [Entries -> 0..MaxIndex]
    /\ count \in [Entries -> 0..CountMax]
    /\ pc \in [Threads -> {"idle"} \cup StorePcs \cup RemovePcs]
    /\ hashArg \in [Threads -> AllHash]
    /\ refArg \in [Threads -> 0..MaxIndex]
    /\ entryPtr \in [Threads -> Entries \cup {NoEntry}]
    /\ home \in [Entries -> AllHash]
    /\ contended \in SUBSET AllHash

Init ==
    /\ table = [h \in AllHash |-> NoEntry]
    /\ allocated = {}
    /\ live = [e \in Entries |-> {}]
    /\ index = [e \in Entries |-> 0]
    /\ count = [e \in Entries |-> 0]
    /\ pc = [t \in Threads |-> "idle"]
    /\ hashArg = [t \in Threads |-> NoHash]
    /\ refArg = [t \in Threads |-> 0]
    /\ entryPtr = [t \in Threads |-> NoEntry]
    /\ home = [e \in Entries |-> NoHash]
    /\ contended = {}

-----------------------------------------------------------------------------
(* Helpers.                                                                 *)

\* uint32 arithmetic of ReferenceCount++ and ReferenceCount--.
Incremented(c) == IF c = CountMax THEN 0 ELSE c + 1
\* mutant of Decremented: a signed counter.
DecrementedSigned(c) == c - 1
Decremented(c) == IF c = 0 THEN CountMax ELSE c - 1

Busy(t) == pc[t] # "idle"
WorkingOn(h) == {t \in Threads : Busy(t) /\ hashArg[t] = h}

\* mutants of Unique: without EmptyFileIdentifier; with the test inverted.
UniqueEvenEmpty(h) == table[h] = NoEntry
UniqueInverted(h) == h = NoHash \/ table[h] # NoEntry

\* EmptyFileIdentifier, then presence in the table.
Unique(h) == h = NoHash \/ table[h] = NoEntry

\* RetrieveRegularFileMapEntryAndMetadataFromHashAndRef returns fs.OK.
Found(h, r) ==
    /\ h # NoHash
    /\ r # 0
    /\ table[h] # NoEntry
    /\ r \in live[table[h]]

\* A request in RetrieveRecent's endless loop keeps its read lock, and
\* metadataMutex.Lock() never returns again.
WriteLockFree == \A t \in Threads : pc[t] # "spin"

Step(t, from, to) ==
    /\ pc[t] = from
    /\ pc' = [pc EXCEPT ![t] = to]

\* Bounds: there is an address or a reference left for every request.
Room(h) ==
    IF table[h] = NoEntry
    THEN Cardinality(allocated) + Cardinality(Threads) <= Cardinality(Entries)
    ELSE index[table[h]] + Cardinality(Threads) <= MaxIndex

-----------------------------------------------------------------------------
(* store(h): the metadata half of Release.                                  *)

\* Release has the final hash of a written file.
BeginStore(t, h) ==
    /\ Room(h)
    /\ Step(t, "idle", "unique")
    /\ hashArg' = [hashArg EXCEPT ![t] = h]
    /\ contended' = IF WorkingOn(h) = {} THEN contended ELSE contended \cup {h}
    /\ UNCHANGED <<table, heap, refArg, entryPtr>>

\* isUnique decides whether a MapEntry is created.
IsContentHashUnique(t) ==
    /\ Step(t, "unique", IF Unique(hashArg[t]) THEN "check" ELSE "lookup")
    /\ UNCHANGED <<table, heap, locals, contended>>

\* CreateRegularFileMapEntry under RLock: an entry that exists is returned.
CheckMapEntry(t) ==
    /\ Step(t, "check", IF table[hashArg[t]] = NoEntry THEN "create" ELSE "lookup")
    /\ UNCHANGED <<table, heap, locals, contended>>

\* CreateRegularFileMapEntry under Lock: the check is not made again.
CreateMapEntry(t) ==
    /\ Step(t, "create", "lookup")
    /\ WriteLockFree
    /\ \E e \in Entries \ allocated :
          /\ allocated' = allocated \cup {e}
          /\ table' = [table EXCEPT ![hashArg[t]] = e]
          /\ home' = [home EXCEPT ![e] = hashArg[t]]
    /\ UNCHANGED <<live, index, count, locals, contended>>

\* LookupRegularFileEntry; Release gives up with ENODATA on a miss.
LookupMapEntry(t) ==
    LET e == table[hashArg[t]] IN
    /\ Step(t, "lookup", IF e = NoEntry THEN "idle" ELSE "recent")
    /\ entryPtr' = [entryPtr EXCEPT ![t] = e]
    /\ UNCHANGED <<table, heap, hashArg, refArg, contended>>

\* mutant of RetrieveRecent: without the test for IndexCounter = 0.
RetrieveRecentUnguarded(t) ==
    LET e == entryPtr[t] IN
    /\ Step(t, "recent", IF live[e] # {} THEN "alloc" ELSE "spin")
    /\ UNCHANGED <<table, heap, locals, contended>>

\* RetrieveRecent: no metadata yet, the newest metadata, or, when references
\* were handed out and none is left, a uint64 loop that counts past zero.
RetrieveRecent(t) ==
    LET e == entryPtr[t] IN
    /\ Step(t, "recent", IF index[e] = 0 \/ live[e] # {} THEN "alloc" ELSE "spin")
    /\ UNCHANGED <<table, heap, locals, contended>>

\* mutant of CreateMetadata: ReferenceCount numbers the references.
CreateMetadataByCount(t) ==
    LET e == entryPtr[t] IN
    /\ Step(t, "alloc", "idle")
    /\ WriteLockFree
    /\ index[e] < MaxIndex
    /\ live' = [live EXCEPT ![e] = @ \cup {count[e] + 1}]
    /\ index' = [index EXCEPT ![e] = @ + 1]
    /\ count' = [count EXCEPT ![e] = Incremented(@)]
    /\ UNCHANGED <<table, allocated, home, locals, contended>>

\* CreateRegularFileMetadata, on the entry looked up earlier.
CreateMetadata(t) ==
    LET e == entryPtr[t] IN
    /\ Step(t, "alloc", "idle")
    /\ WriteLockFree
    /\ index[e] < MaxIndex
    /\ live' = [live EXCEPT ![e] = @ \cup {index[e] + 1}]
    /\ index' = [index EXCEPT ![e] = @ + 1]
    /\ count' = [count EXCEPT ![e] = Incremented(@)]
    /\ UNCHANGED <<table, allocated, home, locals, contended>>

-----------------------------------------------------------------------------
(* remove(h, r): RemoveRegularFileMetadata.                                 *)

\* A caller has a (hash, reference) pair, which another may have removed.
BeginRemove(t, h, r) ==
    /\ Step(t, "idle", "find")
    /\ hashArg' = [hashArg EXCEPT ![t] = h]
    /\ refArg' = [refArg EXCEPT ![t] = r]
    /\ contended' = IF WorkingOn(h) = {} THEN contended ELSE contended \cup {h}
    /\ UNCHANGED <<table, heap, entryPtr>>

\* The lookup under RLock.
FindMetadata(t) ==
    LET h == hashArg[t] IN
    /\ Step(t, "find", IF Found(h, refArg[t]) THEN "dec" ELSE "idle")
    /\ entryPtr' = [entryPtr EXCEPT ![t] = table[h]]
    /\ UNCHANGED <<table, heap, hashArg, refArg, contended>>

\* mutant of DeleteMetadata: ReferenceCount is not decremented.
DeleteMetadataUncounted(t) ==
    LET e == entryPtr[t] IN
    /\ Step(t, "dec", "test")
    /\ WriteLockFree
    /\ live' = [live EXCEPT ![e] = @ \ {refArg[t]}]
    /\ UNCHANGED <<table, allocated, index, count, home, locals, contended>>

\* delete(entry.EntryList, refNum) and entry.ReferenceCount--, under Lock.
DeleteMetadata(t) ==
    LET e == entryPtr[t] IN
    /\ Step(t, "dec", "test")
    /\ WriteLockFree
    /\ live' = [live EXCEPT ![e] = @ \ {refArg[t]}]
    /\ count' = [count EXCEPT ![e] = Decremented(@)]
    /\ UNCHANGED <<table, allocated, index, home, locals, contended>>

\* mutants of TestEmpty: compares with 1; never finds the entry empty.
TestEmptyOffByOne(t) ==
    /\ Step(t, "test", IF count[entryPtr[t]] = 1 THEN "delete" ELSE "idle")
    /\ UNCHANGED <<table, heap, locals, contended>>
TestEmptyNever(t) ==
    /\ Step(t, "test", "idle")
    /\ UNCHANGED <<table, heap, locals, contended>>

\* entry.ReferenceCount == 0, read with no lock held.
TestEmpty(t) ==
    /\ Step(t, "test", IF count[entryPtr[t]] = 0 THEN "delete" ELSE "idle")
    /\ UNCHANGED <<table, heap, locals, contended>>

\* delete(regularFileMetadataHash, contentHash): by hash, whatever is there.
DeleteMapEntry(t) ==
    /\ Step(t, "delete", "idle")
    /\ WriteLockFree
    /\ table' = [table EXCEPT ![hashArg[t]] = NoEntry]
    /\ UNCHANGED <<heap, locals, contended>>

-----------------------------------------------------------------------------
StoreStep(t) ==
    \/ IsContentHashUnique(t)
    \/ CheckMapEntry(t)
    \/ CreateMapEntry(t)
    \/ LookupMapEntry(t)
    \/ RetrieveRecent(t)
    \/ CreateMetadata(t)

RemoveStep(t) ==
    \/ FindMetadata(t)
    \/ DeleteMetadata(t)
    \/ TestEmpty(t)
    \/ DeleteMapEntry(t)

Begin(t) ==
    \/ \E h \in AllHash : BeginStore(t, h)
    \/ \E h \in AllHash, r \in Refs : BeginRemove(t, h, r)

Next == \E t \in Threads : Begin(t) \/ StoreStep(t) \/ RemoveStep(t)

Spec == Init /\ [][Next]_vars

\* A request once begun is run by its goroutine until it returns; nothing
\* makes a client send another one.
FairSpec == Spec /\ \A t \in Threads : WF_vars(StoreStep(t) \/ RemoveStep(t))
-----------------------------------------------------------------------------
(* What the store promises on a content hash that no two requests work on   *)
(* at the same time, whatever happens to the other hashes meanwhile.        *)

Quiet == AllHash \ contended

\* ReferenceCount is the number of references whose metadata is present, so
\* it reaches zero exactly when the last one is removed.
CountExact ==
    \A e \in allocated : home[e] \in Quiet => count[e] = Cardinality(live[e])

\* Metadata that was created and not removed is found through the table:
\* neither CreateRegularFileMapEntry's second critical section nor the last
\* one of RemoveRegularFileMetadata drops an entry that is in use.
NothingLost ==
    \A e \in allocated :
        home[e] \in Quiet /\ live[e] # {} => table[home[e]] = e

\* RetrieveRecent's loop finds a reference: outside the loop's own run, an
\* entry that handed references out has one left when a request looks at it.
LoopTerminates == \A t \in Threads : pc[t] = "spin" => hashArg[t] \notin Quiet

\* When no request is working on a hash its entry, if any, holds metadata:
\* removals leave no empty MapEntry behind for the next duplicate to trust.
NoEmptyEntry ==
    \A h \in Quiet :
        WorkingOn(h) = {} /\ table[h] # NoEntry => live[table[h]] # {}

\* Release's LookupRegularFileEntry finds the entry that IsContentHashUnique
\* saw or that CreateRegularFileMapEntry returned: no ENODATA.
StoreSucceeds ==
    [][\A t \in Threads :
          pc[t] = "lookup" /\ pc'[t] = "idle" => hashArg[t] \notin Quiet]_vars

\* Whatever runs at the same time, a reference CreateRegularFileMetadata
\* returns is larger than every one this MapEntry returned before, removed
\* ones included: a stale reference never names newer metadata.
RefsNeverReused ==
    [][\A e \in Entries :
          /\ \A r \in live'[e] \ live[e] : r > index[e]
          /\ index[e] \in 0..index'[e]]_vars

\* As long as requests keep to different hashes, each one returns.
RequestsReturn ==
    [](contended = {}) => \A t \in Threads : Busy(t) ~> ~Busy(t)

-----------------------------------------------------------------------------
(* The inductive invariant: what makes the promises above hold.             *)

\* The table names allocated entries, each under the hash it was made for.
TableSound ==
    \A h \in AllHash :
        table[h] # NoEntry => table[h] \in allocated /\ home[table[h]] = h

\* An address not yet allocated holds the zero MapEntry.
FreshCells ==
    \A e \in Entries \ allocated : live[e] = {} /\ index[e] = 0 /\ count[e] = 0

\* EntryList holds references that were handed out.
KeysHandedOut == \A e \in Entries : live[e] \subseteq 1..index[e]

\* A request that uses its pointer holds an entry of the hash it works on.
PointersSound ==
    \A t \in Threads :
        pc[t] \in {"recent", "alloc", "spin", "dec", "test"} =>
            entryPtr[t] \in allocated /\ home[entryPtr[t]] = hashArg[t]

\* One request at a time works on a quiet hash.
Alone ==
    \A t, u \in Threads :
        /\ Busy(t) /\ Busy(u)
        /\ hashArg[t] = hashArg[u]
        /\ hashArg[t] \in Quiet
        => t = u

\* What that request has established, at each point of its run.
ProgressSound ==
    \A t \in Threads :
        LET e == table[hashArg[t]] IN
        Busy(t) /\ hashArg[t] \in Quiet =>
            /\ pc[t] = "create" => e = NoEntry
            /\ pc[t] \in {"lookup", "recent", "alloc", "dec", "test", "delete"}
                    => e # NoEntry
            /\ pc[t] \in {"recent", "alloc", "dec", "test"} => entryPtr[t] = e
            /\ pc[t] = "dec" => refArg[t] \in live[e]
            /\ pc[t] = "delete" => live[e] = {}
            /\ pc[t] # "spin"

\* An entry without metadata has just been created, or is about to be
\* deleted, by a request still at work.
EmptyEntryInHand ==
    \A h \in Quiet :
        table[h] # NoEntry /\ live[table[h]] = {} =>
            \E t \in WorkingOn(h) :
                \/ /\ pc[t] \in {"lookup", "recent", "alloc"}
                   /\ index[table[h]] = 0
                \/ pc[t] \in {"test", "delete"}

IInv ==
    /\ TypeOK
    /\ TableSound
    /\ FreshCells
    /\ KeysHandedOut
    /\ PointersSound
    /\ Alone
    /\ ProgressSound
    /\ EmptyEntryInHand
    /\ CountExact
    /\ NothingLost

-----------------------------------------------------------------------------
(* What the repository says of the store under concurrent requests.         *)

\* technical_manual.md:247, locks around each function keep the hashmaps
\* safe: metadata present in a MapEntry stays reachable by its hash.
EveryReferenceReachable ==
    \A e \in allocated : live[e] # {} => table[home[e]] = e
=============================================================================
