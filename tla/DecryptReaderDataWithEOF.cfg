SPECIFICATION Spec
CONSTANTS
    ChunkSize = 3
    Overhead = 1
    Lens = {0, 1, 3, 4, 6, 7}
    MaxChunks = 1
    Files <- PlainFiles
    Quirks = {"dataWithEOF"}
    MaxRead = 2
INVARIANTS
    EOFMeansComplete
CHECK_DEADLOCK FALSE
