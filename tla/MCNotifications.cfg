\* Two streams and a short command on a pod whose pool has two connections;
\* three messages to two users, and everything may break at any time.
SPECIFICATION Spec
CONSTANTS
    Users = {u1, u2}
    Pods = {p1}
    Streams = {s1, s2}
    Calls = {c1}
    PoolSize = 2
    MaxPublished <- FewMessages
    None = None
INVARIANTS
    TypeOK
    
PROPERTIES
    FeedSpec
    MessageIsTold
    LeftStreamEnds
