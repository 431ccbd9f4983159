\* Two exchanges of one code, nothing fails.
SPECIFICATION Spec
CONSTANTS
    Users = {u1}
    Requests = {r1, r2}
    Pairs = {k1, k2}
    Codes = {c1}
    None = None
    CodeTTL = 2
    AccessTTL = 4
    IdleTTL = 4
    RefreshTTL = 4
    Connections = {TRUE}
    RedisFaults = FALSE
SYMMETRY Interchangeable
INVARIANT AuthCodeSingleUse
