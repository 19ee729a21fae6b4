\* One client at a time, two rounds of saves and one restart at any point.
CONSTANTS
    Hash <- MCOneWrite
    NoHash <- MCNoHash
    Entries <- MCEntriesFew
    NoEntry = NoEntry
    Threads = {t1}
    MaxIndex = 4
    CountMax = 7
    Path = {p1, p2}
    NoPath = NoPath
    Gone = Gone
    Inode <- MCInode
    NoFile = NoFile
    Chunk = {a, b}
    NoChunk = NoChunk
    MaxWrites = 1
    NoInfo = NoInfo
    NoBuffer = NoBuffer
    NoMeta = NoMeta
    MaxRounds = 1
    MaxRestarts = 1
    Workload = {"duplicate", "unlink", "lookup"}
SPECIFICATION PersistenceSpec
VIEW PersistenceView
SYMMETRY Symmetric
ACTION_CONSTRAINT Useful
CONSTRAINT FewClosed
INVARIANTS ContentsSurvive MetadataSurvives CountsSurvive NoCrash NodesExist
PROPERTY ExitKeepsEverything
\* Clients may stop sending requests, and the bounds stop them.
CHECK_DEADLOCK FALSE
