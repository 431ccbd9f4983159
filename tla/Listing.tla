------------------------------- MODULE Listing -------------------------------
(* The listings of users and departments: CRUDBase.get_paginated answers a  *)
(* page with two SELECTs, a count and the page itself, and at READ COMMITTED *)
(* each of them sees what is committed at its own moment.  A client walks   *)
(* through the pages with one request after the other, while rows are       *)
(* inserted and deleted.                                                    *)
(*                                                                          *)
(* created_at is now() of the inserting transaction, the moment it began:   *)
(* a row may appear below rows that were committed before it.  No           *)
(* transaction of the program inserts two rows, so the stamps differ.       *)
EXTENDS Integers, FiniteSets

CONSTANTS
    Rows,   \* the rows that are ever inserted
    Size    \* Query(size): rows of a page

ASSUME SizeAssumption == Size \in Nat \ {0}

ASSUME FiniteAssumption == IsFiniteSet(Rows)

VARIABLES
    table,   \* the rows of users, or of user_groups
    reader,  \* the client's walk and its request
    answer,  \* the last page it was told
    seen,    \* history: the rows told in this walk
    stayed,  \* history: the rows that were there all the time
    came,    \* history: a row has appeared since the walk began
    went     \* history: a row has been deleted since the walk began

vars == <<table, reader, answer, seen, stayed, came, went>>

-----------------------------------------------------------------------------
(* State.                                                                    *)

\* "writing": its transaction has begun and not committed.
Row == [pc : {"absent", "writing", "live", "deleted"}, created : Nat]

\* `moved': a transaction has committed since the count.
Reader == [pc : {"idle", "count", "select"}, page : Nat \ {0}, total : Nat,
           moved : BOOLEAN]

Resting == [pc |-> "idle", page |-> 1, total |-> 0, moved |-> FALSE]

\* data, and PaginationMeta's page and pages; `still' when nothing moved
\* between the two SELECTs, `twice' when it tells a row for the second time.
Answer == [data : SUBSET Rows, page : Nat, pages : Nat, still : BOOLEAN,
           twice : BOOLEAN, last : BOOLEAN]

NoAnswer == [data |-> {}, page |-> 0, pages |-> 0, still |-> FALSE,
             twice |-> FALSE, last |-> FALSE]

\* deleted_at IS NULL
Live == {r \in Rows : table[r].pc = "live"}

\* The components have their types, no page is larger than it may be, and what
\* has been told or has stayed belongs to the walk.
TypeOK ==
    /\ table \in [Rows -> Row]
    /\ reader \in Reader
    /\ answer \in Answer
    /\ Cardinality(answer.data) <= Size
    /\ seen \subseteq Rows
    /\ stayed \subseteq Live
    /\ came \in BOOLEAN /\ went \in BOOLEAN

Init ==
    /\ table = [r \in Rows |-> [pc |-> "absent", created |-> 0]]
    /\ reader = Resting
    /\ answer = NoAnswer
    /\ seen = {} /\ stayed = {} /\ came = FALSE /\ went = FALSE

-----------------------------------------------------------------------------
(* Transactions that insert and delete.                                      *)

\* BEGIN: now() is fixed.
Begin(r) ==
    /\ table[r].pc = "absent"
    /\ table' = [table EXCEPT ![r] =
           [pc |-> "writing",
            created |-> Cardinality({x \in Rows : table[x].pc # "absent"}) + 1]]
    /\ UNCHANGED <<reader, answer, seen, stayed, came, went>>

\* COMMIT of an INSERT.
Insert(r) ==
    /\ table[r].pc = "writing"
    /\ table' = [table EXCEPT ![r].pc = "live"]
    /\ reader' = [reader EXCEPT !.moved = TRUE]
    /\ came' = TRUE
    /\ UNCHANGED <<answer, seen, stayed, went>>

\* COMMIT of CRUDBase.remove.
Delete(r) ==
    /\ table[r].pc = "live"
    /\ table' = [table EXCEPT ![r].pc = "deleted"]
    /\ reader' = [reader EXCEPT !.moved = TRUE]
    /\ stayed' = stayed \ {r}
    /\ went' = TRUE
    /\ UNCHANGED <<answer, seen, came>>

-----------------------------------------------------------------------------
(* CRUDBase.get_paginated.                                                   *)

\* The client asks for page 1.
Walk ==
    /\ reader.pc = "idle"
    /\ reader' = [Resting EXCEPT !.pc = "count"]
    /\ answer' = NoAnswer
    /\ seen' = {} /\ stayed' = Live /\ came' = FALSE /\ went' = FALSE
    /\ UNCHANGED table

\* SELECT count(*)
Count ==
    /\ reader.pc = "count"
    /\ reader' = [reader EXCEPT !.pc = "select", !.total = Cardinality(Live),
                                !.moved = FALSE]
    /\ UNCHANGED <<table, answer, seen, stayed, came, went>>

\* The mutant of Pages of services/user_group.py 52.
PagesOneMore(total) == (total \div Size) + 1

\* math.ceil(total / size)
Pages(total) == (total + Size - 1) \div Size

\* How many rows ORDER BY created_at DESC puts before this one.
Before(r) == {x \in Live : table[x].created > table[r].created}

Rank(r) == Cardinality(Before(r))

\* The mutants of Page: one skips a page too many, one has a limit that is one
\* too large, one has none.
PageLater(page) ==
    {r \in Live : page * Size <= Rank(r) /\ Rank(r) < (page + 1) * Size}

PageLonger(page) ==
    {r \in Live : (page - 1) * Size <= Rank(r) /\ Rank(r) <= page * Size}

PageOpen(page) == {r \in Live : (page - 1) * Size <= Rank(r)}

\* OFFSET (page - 1) * size LIMIT size
Page(page) ==
    {r \in Live : (page - 1) * Size <= Rank(r) /\ Rank(r) < page * Size}

\* The page is told; the client asks for the next one as long as its pages are
\* full.
Select ==
    LET data == Page(reader.page)
        last == Cardinality(data) < Size IN
    /\ reader.pc = "select"
    /\ answer' = [data |-> data, page |-> reader.page,
                  pages |-> Pages(reader.total), still |-> ~reader.moved,
                  twice |-> data \cap seen # {}, last |-> last]
    /\ seen' = seen \cup data
    /\ reader' = IF last THEN Resting
                 ELSE [reader EXCEPT !.pc = "count", !.page = @ + 1]
    /\ UNCHANGED <<table, stayed, came, went>>

\* The client loses interest between two pages.
Stop ==
    /\ reader.pc = "count"
    /\ reader' = Resting
    /\ answer' = NoAnswer
    /\ UNCHANGED <<table, seen, stayed, came, went>>

-----------------------------------------------------------------------------
Next ==
    \/ \E r \in Rows : Begin(r) \/ Insert(r) \/ Delete(r)
    \/ Walk \/ Count \/ Select \/ Stop

Spec == Init /\ [][Next]_vars

-----------------------------------------------------------------------------
(* Properties.                                                               *)

\* crud/base.py 64-117: a walk that went on to a page that is not full has told
\* every row that was there all the time, unless a row was deleted meanwhile;
\* inserts, late ones too, push no row out of the walk's sight.
MissesOnlyForDelete ==
    [][reader.pc = "select" /\ answer'.last /\ ~went => stayed \subseteq seen']_vars

\* crud/base.py 64-117: a walk tells a row twice only if a row has appeared
\* since it began.
RepeatsOnlyForInsert == answer.twice => came

\* schemas/base.py 49-53: unless something is committed between count and page,
\* `pages' is the number of the last page that has rows.
PagesCoverRows ==
    answer.still => (answer.data # {} <=> answer.page <= answer.pages)

=============================================================================
