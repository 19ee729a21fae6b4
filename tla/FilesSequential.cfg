\* One request at a time, with hard links and files of two writes.
CONSTANTS
    Hash <- MCHash
    NoHash <- MCNoHash
    Entries <- MCEntries
    NoEntry = NoEntry
    Threads = {t1}
    MaxIndex = 4
    CountMax = 7
    Path = {p1, p2, p3}
    NoPath = NoPath
    Gone = Gone
    Inode <- MCInode
    NoFile = NoFile
    Chunk = {a, b}
    NoChunk = NoChunk
    MaxWrites = 2
    NoInfo = NoInfo
    NoBuffer = NoBuffer
    NoMeta = NoMeta
    Workload = {"duplicate", "unlink", "link", "lookup"}
SPECIFICATION FilesSpec
VIEW View
SYMMETRY Symmetric
ACTION_CONSTRAINT LowestFirst
CONSTRAINT FewReleases
INVARIANTS ReadsBack
PROPERTIES
    ImplementsFileStore
\* Clients may stop sending requests, and the bounds stop them.
CHECK_DEADLOCK FALSE
