\* Five rows on pages of two: a walk of three pages, with everything inserted
\* and deleted at any moment.
SPECIFICATION Spec
CONSTANTS
    Rows = {r1, r2, r3, r4, r5}
    Size = 2
SYMMETRY Interchangeable
INVARIANTS
    TypeOK
    RepeatsOnlyForInsert
    PagesCoverRows
PROPERTY
    MissesOnlyForDelete
