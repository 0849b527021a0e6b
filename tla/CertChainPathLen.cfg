SPECIFICATION Spec
CONSTANTS
    XDSAKeys = {k1, k2}
    XHPKEKeys = {h1}
    Names = {A, B}
    NoName = NoName
    Oids = {x, std}
    ReservedOids = {std}
    Second = 2
    Certs <- MCCerts
    Templates <- MCTemplates
    Moments = {0, 2, 3, 4, 6}
    MaxChain = 4
SYMMETRY Symmetric
INVARIANT
    PathLenLimits
CHECK_DEADLOCK FALSE
