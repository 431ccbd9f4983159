\* One user with two transactions on its row, beside one on its department.
SPECIFICATION AuditSpec
CONSTANTS
    Users = {u1}
    Groups = {g1}
    UserTxs = {t1, t2}
    GroupTxs = {s1}
    Patches <- GroupPatches
    Seeds <- GroupSeeds
    None = None
    Moments = {m1, m2, m3, m4, m5, m6}
    MaxRecords = 2
SYMMETRY Interchangeable
VIEW UpToReadings
INVARIANTS
    AuditTypeOK
    TrailTellsRow
    OldValueWasTold
