\* One employee, so that two callbacks at once want the same row of users;
\* two login attempts, and everything fails.  No symmetry: the last property
\* is a liveness property.
SPECIFICATION FairSpec
CONSTANTS
    Users = {u1}
    States = {s1, s2}
    Callbacks = {c1, c2}
    None = None
    Faults = {"redis", "db", "idp", "pod"}
INVARIANTS
    TypeOK
    CodeHasUser
    SpentStateRefused
PROPERTIES
    LoginKeepsDecision
    RevocationSpec
    EveryCallbackEnds
