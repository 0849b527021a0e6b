SPECIFICATION Spec
CONSTANT MaxEdits = 2
INVARIANTS
    RoundTrips
    OneDocument
    SameKeys
    OneText
CHECK_DEADLOCK FALSE
