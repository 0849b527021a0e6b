SPECIFICATION Spec
CONSTANTS
    ChunkSize = 3
    Overhead = 2
    MaxLen = 10
    MaxWrite = 7
INVARIANTS
    TypeOK
    NothingLost
    NeverPanics
    DstIsPrefix
    NonceUnique
PROPERTIES
    ImplementsAbstract
CHECK_DEADLOCK FALSE
