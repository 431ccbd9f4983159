\* Two users, three requests at once, room for four copies.
SPECIFICATION Spec
CONSTANTS
    Users = {u1, u2}
    Requests = {r1, r2, r3}
    Dashboards = {d1, d2, d3, d4}
    None = None
SYMMETRY Interchangeable
INVARIANTS
    TypeOK
    SecondCopyRefused
    AnswersAgree
PROPERTY
    RegistrySpec
