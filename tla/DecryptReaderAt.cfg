SPECIFICATION Spec
CONSTANTS
    ChunkSize = 4
    Overhead = 1
    MaxInt64 = 255
    Callers = {c1, c2}
    Bufs = {b1, b2, b3, b4}
    NoBuf = NoBuf
    MsgLen = 9
    Files <- MCFiles
    Sizes <- MCSizes
    Requests <- MCRequests
    Base = 4
    CtrBytes = 4
    IndexBytes = 3
SYMMETRY Symmetric
INVARIANTS
    TypeOK
    OpenedIsGenuine
    CacheCoherent
    NoRace
    ReadsMessage
    Contract
    Advances
    IntactReads
    SizesInvert
    NoncesCount
CHECK_DEADLOCK FALSE
