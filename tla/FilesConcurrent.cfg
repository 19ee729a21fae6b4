\* Two clients write files once, look them up and remove them.
CONSTANTS
    Hash <- MCHash
    NoHash <- MCNoHash
    Entries <- MCEntriesFew
    NoEntry = NoEntry
    Threads = {t1, t2}
    MaxIndex = 4
    CountMax = 7
    Path = {p1, p2}
    NoPath = NoPath
    Gone = Gone
    Inode <- MCInode
    NoFile = NoFile
    Chunk = {a, b}
    NoChunk = NoChunk
    MaxWrites = 1
    NoInfo = NoInfo
    NoBuffer = NoBuffer
    NoMeta = NoMeta
    Workload = {"duplicate", "unlink", "lookup"}
SPECIFICATION FilesSpec
VIEW View
SYMMETRY Symmetric
ACTION_CONSTRAINT LowestFirst
CONSTRAINT FewOverlaps
INVARIANTS ReadsBack NodeHasMetadata CountsFiles DuplicatesShareInode NoLinkLeftBehind NoCrash
\* Clients may stop sending requests, and the bounds stop them.
CHECK_DEADLOCK FALSE
