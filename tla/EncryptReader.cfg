SPECIFICATION Spec
CONSTANTS
    ChunkSize = 3
    Overhead = 2
    MaxLen = 10
    MaxRead = 4
INVARIANTS
    OnlyCiphertextLeaves
PROPERTIES
    ImplementsAbstract
    ReadsToTheEnd
CHECK_DEADLOCK FALSE
