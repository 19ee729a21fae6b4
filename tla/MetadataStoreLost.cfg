\* Two requests on one content hash.
CONSTANTS
    Hash = {h1}
    NoHash = NoHash
    Entries = {e1, e2, e3}
    NoEntry = NoEntry
    Threads = {t1, t2}
    MaxIndex = 3
    CountMax = 7
SPECIFICATION Spec
INVARIANTS EveryReferenceReachable
CHECK_DEADLOCK FALSE
