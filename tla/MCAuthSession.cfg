\* One user, two requests at once, two token pairs, one code, pods with and
\* without Redis, failing Redis commands.
SPECIFICATION Spec
CONSTANTS
    Users = {u1}
    Requests = {r1, r2}
    Pairs = {k1, k2}
    Codes = {c1}
    None = None
    CodeTTL = 2
    AccessTTL = 2
    IdleTTL = 2
    RefreshTTL = 4
    Connections <- BothConnections
    RedisFaults = TRUE
SYMMETRY Interchangeable
INVARIANTS
    TypeOK
    DeadSessionRefused
    BlacklistCovers
    SpentCodeRefused
    LockedOutRefused
PROPERTIES
    LoggedOutRefused
    SessionOnlyFromLogin
