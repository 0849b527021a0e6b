SPECIFICATION Spec
CONSTANTS
    ChunkSize = 2
    Overhead = 1
    MaxLen = 5
    MaxWrite = 3
    MaxRead = 2
INVARIANTS
    ReadBackIsPrefix
    EOFMeansClosed
PROPERTIES
    ClosedIsReadable
CHECK_DEADLOCK FALSE
