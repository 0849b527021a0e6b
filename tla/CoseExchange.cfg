SPECIFICATION Spec
CONSTANTS
    MLKeys = {a, b}
    EdKeys = {x, y}
    WeakKeys = {b, y}
    XHPKEKeys = {r, s}
    Domains = {app, other}
    Messages = {m, n}
    Nothing = Nothing
    Null = Null
    MaxInt64 = 3
    Times <- FirstAndLast
    Drifts = {2, 3}
    MaxMessages = 2
SYMMETRY Symmetric
INVARIANTS
    VerifiedWasSigned
    OpenedWasSealed
    
    SealedOpens
CHECK_DEADLOCK FALSE
