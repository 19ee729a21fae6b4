\* Two clients at once, two directories with one subdirectory each, and a crash.
CONSTANTS
    Top = {d, e}
    Sub = {x}
    Inode = {i1, i2, i3}
    NoInode = NoInode
    User = {u1, u2}
    Server = Server
    Blank = Blank
    NoMeta = NoMeta
    NoInfo = NoInfo
    NoNode = NoNode
    Threads = {t1, t2}
    MaxRequests = 5
    MaxSaves = 2
    MaxCrashes = 1
SPECIFICATION Spec
VIEW View
SYMMETRY Symmetric
ACTION_CONSTRAINT NoVainSaves
CONSTRAINT FewRequests
INVARIANTS DirTypeOK OwnersKept NodesAreKnown NothingLeft DirectoriesDistinct NoPanic
\* Clients may stop sending requests, and the bounds stop them.
CHECK_DEADLOCK FALSE
