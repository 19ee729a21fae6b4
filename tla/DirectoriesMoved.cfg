\* One client: metadata after a directory has moved, against node.go:1078.
CONSTANTS
    Top = {d, e}
    Sub = {x}
    Inode = {i1, i2, i3}
    NoInode = NoInode
    User = {u1, u2}
    Server = Server
    Blank = Blank
    NoMeta = NoMeta
    NoInfo = NoInfo
    NoNode = NoNode
    Threads = {t1}
    MaxRequests = 5
    MaxSaves = 0
    MaxCrashes = 0
SPECIFICATION Spec
VIEW View
SYMMETRY Symmetric
ACTION_CONSTRAINT NoVainSaves
CONSTRAINT FewRequests
INVARIANT EveryDirectoryHasMetadata
\* Clients may stop sending requests, and the bounds stop them.
CHECK_DEADLOCK FALSE
