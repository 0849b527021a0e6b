SPECIFICATION Spec
CONSTANTS
    ChunkSize = 3
    Overhead = 1
    Lens = {0, 1, 3, 4, 6, 7}
    MaxChunks = 4
    Files <- MCFiles
    Quirks = {"fails", "unexpectedEOF", "emptyReads"}
    MaxRead = 2
INVARIANTS
    TypeOK
    OnlyMessageLeaves
    EOFMeansComplete
PROPERTIES
    ReadsToTheEnd
CHECK_DEADLOCK FALSE
