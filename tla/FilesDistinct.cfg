\* Two clients do anything to files whose content is never written twice.
CONSTANTS
    Hash <- MCHash
    NoHash <- MCNoHash
    Entries <- MCEntriesFew
    NoEntry = NoEntry
    Threads = {t1, t2}
    MaxIndex = 3
    CountMax = 7
    Path = {p1, p2}
    NoPath = NoPath
    Gone = Gone
    Inode <- MCInodeFew
    NoFile = NoFile
    Chunk = {a, b}
    NoChunk = NoChunk
    MaxWrites = 1
    NoInfo = NoInfo
    NoBuffer = NoBuffer
    NoMeta = NoMeta
    Workload = {"rewrite", "truncate", "unlink", "unlinkOpen", "rename"}
SPECIFICATION FilesSpec
VIEW View
SYMMETRY Symmetric
ACTION_CONSTRAINT NoEmptyFiles
CONSTRAINT TwoReleases
INVARIANTS FilesTypeOK Undisturbed
PROPERTIES
    ImplementsFileStore
\* Clients may stop sending requests, and the bounds stop them.
CHECK_DEADLOCK FALSE
