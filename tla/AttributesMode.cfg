\* One file request and one setter, two users, on two paths.
CONSTANTS
    Hash <- MCHash
    NoHash <- MCNoHash
    Entries <- MCEntries
    NoEntry = NoEntry
    Threads = {t1}
    MaxIndex = 4
    CountMax = 7
    Path = {p1, p2}
    NoPath = NoPath
    Gone = Gone
    Inode <- MCInode
    NoFile = NoFile
    Chunk = {a}
    NoChunk = NoChunk
    MaxWrites = 1
    NoInfo = NoInfo
    NoBuffer = NoBuffer
    NoMeta = NoMeta
    Workload = {"duplicate", "rewrite", "unlink"}
    User <- MCUser
    Account <- MCAccount
    Admin = 3
    Umask <- MCUmask
    Mode <- MCMode
    MaxCalls = 2
    NoSetter = NoSetter
    Value = {x}
    NoValue = NoValue
SPECIFICATION AttributesSpec
VIEW View
SYMMETRY Symmetric
ACTION_CONSTRAINT LowestFirst
CONSTRAINT FewReleases
INVARIANTS ModeKept
\* Clients may stop sending requests, and the bounds stop them.
CHECK_DEADLOCK FALSE
