\* One department that leaves the whitelist while a user logs in.
SPECIFICATION Spec
CONSTANTS
    Users = {u1, u2}
    Groups = {g1}
    UserTxs = {t1}
    GroupTxs = {s1}
    Patches = {}
    Seeds <- GroupSeeds
    None = None
PROPERTY GrantFollowsWhitelist
