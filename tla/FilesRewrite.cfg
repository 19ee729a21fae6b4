\* One request at a time; files are opened again to be written.
CONSTANTS
    Hash <- MCHash
    NoHash <- MCNoHash
    Entries <- MCEntries
    NoEntry = NoEntry
    Threads = {t1}
    MaxIndex = 4
    CountMax = 7
    Path = {p1, p2}
    NoPath = NoPath
    Gone = Gone
    Inode <- MCInode
    NoFile = NoFile
    Chunk = {a, b}
    NoChunk = NoChunk
    MaxWrites = 1
    NoInfo = NoInfo
    NoBuffer = NoBuffer
    NoMeta = NoMeta
    Workload = {"duplicate", "rewrite"}
SPECIFICATION FilesSpec
VIEW View
SYMMETRY Symmetric
ACTION_CONSTRAINT LowestFirst
CONSTRAINT FewReleases
INVARIANTS ChangesStayPrivate
\* Clients may stop sending requests, and the bounds stop them.
CHECK_DEADLOCK FALSE
