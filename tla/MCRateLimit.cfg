\* Three requests in flight, two of them allowed in a window of five ticks,
\* and a pipeline that may come two ticks after its clock was read.
SPECIFICATION Spec
CONSTANTS
    Requests = {r1, r2, r3}
    Window = 5
    Limit = 2
    Slack = 1
    Lag = 2
    RedisFaults = TRUE
SYMMETRY Interchangeable
INVARIANTS
    TypeOK
    AdmittedBound
PROPERTY
    RefusedForCause
