\* Two first logins of one employee, and nothing fails by itself.
SPECIFICATION Spec
CONSTANTS
    Users = {u1}
    States = {s1, s2}
    Callbacks = {c1, c2}
    None = None
    Faults = {}
INVARIANT
    FailuresRedirect
