\* Two users and two transactions on their rows; the departments stand still.
SPECIFICATION Spec
CONSTANTS
    Users = {u1, u2}
    Groups = {g1}
    UserTxs = {t1, t2}
    GroupTxs = {}
    Patches <- UserPatches
    Seeds <- UserSeeds
    None = None
SYMMETRY Interchangeable
INVARIANTS
    FormerAdminRefused
PROPERTIES
    AdminsNeverGrow
    RejectionSticks
