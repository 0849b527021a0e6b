SPECIFICATION Spec
CONSTANTS
    Infos = 8
    Direct = 4
    Widths <- WidthBytes
    MaxInt64 = 2047
    MaxInt = 2047
    maxDepth = 3
    NotUTF8 = {63}
    Alphabet <- AlphabetBytes
    MaxLen = 5
    Types <- AllTypes
INVARIANTS
    RoundTrips
    OneEncoding
    VerifiedAlike
CHECK_DEADLOCK FALSE
