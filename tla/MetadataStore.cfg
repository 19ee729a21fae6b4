\* Two requests over two hashes and the zero hash.
CONSTANTS
    Hash <- MCHashes
    NoHash = NoHash
    Entries <- MCEntries
    NoEntry = NoEntry
    Threads = {t1, t2}
    MaxIndex = 3
    CountMax = 7
SPECIFICATION FairSpec
CONSTRAINT FewStores
ACTION_CONSTRAINT LowestFirst
INVARIANTS TypeOK CountExact NothingLost LoopTerminates NoEmptyEntry
PROPERTIES StoreSucceeds RefsNeverReused RequestsReturn
\* RetrieveRecent's endless loop really stops everyone.
CHECK_DEADLOCK FALSE
