\* Two users, one department, a user and a group transaction beside each other.
SPECIFICATION Spec
CONSTANTS
    Users = {u1, u2}
    Groups = {g1}
    UserTxs = {t1}
    GroupTxs = {s1}
    Patches <- GroupPatches
    Seeds <- GroupSeeds
    None = None
SYMMETRY Interchangeable
INVARIANTS
    TypeOK
    HeldRowsMatch
PROPERTIES
    AdminsFallWithTheirGroup
    UnlistedLoginGetsNothing
    RevocationSpec
