------------------------------ MODULE AuditTrail ------------------------------
(* The audit trail of the users table: app/core/audit.py beside every       *)
(* transaction of Directory.  The before_flush hook looks at the objects of *)
(* one session and adds a row of audit_logs for what the session has        *)
(* changed on them; the row is committed, or rolled back, with the change.  *)
(*                                                                          *)
(* audit_logs keeps no order of its own: an id is a uuid4, and created_at   *)
(* is now(), the moment at which the transaction began, as is the           *)
(* updated_at of the rows that it updates.  Moments stand for such readings *)
(* of the database's clock, a new one for every transaction.                *)
(*                                                                          *)
(* Of a record the columns that Directory knows are kept, and employee_id   *)
(* of a new user; a record that tells none of them, as that of a login      *)
(* which only moves last_login_at, is left out.  user_groups is not         *)
(* auditable.                                                               *)
EXTENDS Directory, Naturals

CONSTANTS
    Moments,     \* readings of the clock; one that nothing holds is used again
    MaxRecords   \* bound: how many rows audit_logs may grow to

ASSUME MaxRecordsAssumption == MaxRecords \in Nat

ASSUME KeepAssumption == "keep" \notin Groups \cup {None}

ASSUME MomentAssumption == None \notin Moments

ASSUME SlotAssumption == UserTxs \cap GroupTxs = {}

VARIABLES
    audit_logs,  \* the committed rows of audit_logs about users
    updated_at,  \* of each user; None: not since the start
    began,       \* when each transaction began; None: it has not
    start        \* history: the rows of users at the start

auditVars == <<user, group, utx, gtx, audit_logs, updated_at, began, start>>

------------------------------------------------------------------------------
(* Records.                                                                   *)

\* Every column of a user but deleted_at, created_at and updated_at.
Columns == {"role", "active", "dept"}

\* old_data and new_data; "keep": the column is not mentioned.
Data == [role : Roles \cup {"keep"}, active : {"on", "off", "keep"},
         dept : Groups \cup {None, "keep"}]

Untold == [role |-> "keep", active |-> "keep", dept |-> "keep"]

\* created_at, target_id, action, employee_id in new_data, old_data, new_data.
AuditLog ==
    [at : Moments, target : Users \cup {None},
     action : {"INSERT", "UPDATE"}, employee : Users \cup {None},
     old : Data, new : Data]

\* The mutant of Changed that takes every assignment for a change.
Assigned(want, seen) == want # "keep"

\* attr.history.has_changes(): the value set differs from the loaded one.
Changed(want, seen) == want # "keep" /\ want # seen

Diff(want, seen, values) ==
    [role   |-> IF Changed(want.role, seen.role)
                THEN values.role ELSE "keep",
     active |-> IF Changed(want.active, seen.active)
                THEN values.active ELSE "keep",
     dept   |-> IF Changed(want.dept, seen.dept)
                THEN values.dept ELSE "keep"]

\* _serialize_object
Serialized(row) ==
    [role |-> row.role, active |-> row.active, dept |-> row.dept]

\* A new object has no id before the flush, so target_id is "None".
InsertRecord(tx, at, old) ==
    [at |-> at, target |-> None, action |-> "INSERT", employee |-> tx.target,
     old |-> old, new |-> Serialized(Written(tx.want, NoRow, NoRow))]

UpdateRecord(tx, at, old) ==
    [at |-> at, target |-> tx.target, action |-> "UPDATE", employee |-> None,
     old |-> old, new |-> Diff(tx.want, tx.seen, tx.want)]

\* The mutant of AuditRecord that serializes old_data of a new object as well.
RecordWithOld(tx, at) ==
    IF tx.seen.role = "none" THEN InsertRecord(tx, at, Serialized(tx.seen))
    ELSE UpdateRecord(tx, at, Diff(tx.want, tx.seen, tx.seen))

\* The mutant of AuditRecord that looks at the object after the flush.
RecordOfRefreshed(tx, at) ==
    IF tx.seen.role = "none" THEN InsertRecord(tx, at, Untold)
    ELSE UpdateRecord(tx, at, Diff(tx.want, tx.seen, tx.want))

\* The hook on a session whose one object was loaded as `seen'.
AuditRecord(tx, at) ==
    IF tx.seen.role = "none" THEN InsertRecord(tx, at, Untold)
    ELSE UpdateRecord(tx, at, Diff(tx.want, tx.seen, tx.seen))

------------------------------------------------------------------------------
(* The transactions of Directory with the hook and the clock.                 *)

AuditTypeOK ==
    /\ TypeOK
    /\ audit_logs \subseteq AuditLog
    /\ updated_at \in [Users -> Moments \cup {None}]
    /\ began \in [UserTxs \cup GroupTxs -> Moments \cup {None}]
    /\ start \in [Users -> Row]

AuditInit ==
    /\ Init
    /\ audit_logs = {}
    /\ updated_at = [u \in Users |-> None]
    /\ began = [t \in UserTxs \cup GroupTxs |-> None]
    /\ start = user

\* The readings in the tables, and those of the transactions in flight.
Stamps == {r.at : r \in audit_logs} \cup {updated_at[u] : u \in Users}

Taken == Stamps \cup {began[t] : t \in UserTxs \cup GroupTxs}

\* Transaction t begins now.
Starts(t, now) == now \notin Taken /\ began' = [began EXCEPT ![t] = now]

\* What remains of t after a step to pc.
Stays(t, pc) ==
    began' = [began EXCEPT ![t] = IF pc \in {"idle", "refused"} THEN None ELSE @]

\* The first statement of a session, and BEGIN with it; a refusal ends it.
Begins(t) ==
    /\ Authorize(t) \/ FindUser(t)
    /\ IF utx'[t].pc = "refused" THEN Stays(t, "refused")
       ELSE \E now \in Moments : Starts(t, now)
    /\ UNCHANGED <<audit_logs, updated_at, start>>

Reads(t) ==
    /\ Load(t)
    /\ Stays(t, utx'[t].pc)
    /\ UNCHANGED <<audit_logs, updated_at, start>>

\* The row's UPDATE sets updated_at.  A login always has one: it assigns
\* last_login_at.  What leaves every column as it was loaded has none.
Updates(tx) == tx.op = "login" \/ ~Clean(tx.want, tx.seen)

\* A flush of the object, and its commit.  If the hook finds nothing, as for
\* a soft delete, there is no record.
Flushes(t) ==
    LET u == utx[t].target
        record == AuditRecord(utx[t], began[t]) IN
    /\ Write(t) \/ Insert(t)
    /\ Stays(t, "idle")
    /\ updated_at' = IF utx'[t].pc = "idle" /\ Updates(utx[t])
                     THEN [updated_at EXCEPT ![u] = began[t]] ELSE updated_at
    /\ IF utx'[t].pc = "idle" /\ record.new # Untold
       THEN /\ Cardinality(audit_logs) < MaxRecords
            /\ audit_logs' = audit_logs \cup {record}
       ELSE UNCHANGED audit_logs
    /\ UNCHANGED start

Ends(t) ==
    /\ Abort(t)
    /\ Stays(t, "idle")
    /\ UNCHANGED <<audit_logs, updated_at, start>>

GroupBegins(t) ==
    /\ \E op \in {"create", "regroup", "drop"}, actor \in Users, g \in Groups,
          want \in {"on", "off", "keep"}, rename \in BOOLEAN :
              SubmitGroup(t, op, actor, g, want, rename)
    /\ \E now \in Moments : Starts(t, now)
    /\ UNCHANGED <<audit_logs, updated_at, start>>

GroupGoesOn(t) ==
    /\ \/ LoadGroup(t) \/ Create(t) \/ Regroup(t) \/ Drop(t)
       \/ Sync(t) \/ Lock(t) \/ AbortGroup(t)
    /\ Stays(t, gtx'[t].pc)
    /\ UNCHANGED <<audit_logs, updated_at, start>>

\* The bulk UPDATE has no objects: the hook finds nothing.  It sets the rows'
\* updated_at as any UPDATE does.
Bypasses(t) ==
    /\ CommitGroup(t)
    /\ updated_at' = [u \in Users |-> IF u \in gtx[t].rows THEN began[t]
                                      ELSE updated_at[u]]
    /\ Stays(t, "idle")
    /\ UNCHANGED <<audit_logs, start>>

\* The steps that do nothing in the database, or read another table.
Passes ==
    /\ \/ \E t \in UserTxs, op \in UserOps, actor \in Users, target \in Users :
              \E want \in Wanted(op) : Submit(t, op, actor, target, want)
       \/ \E t \in UserTxs, u \in Users, dept, name \in Groups \cup {None} :
              StartLogin(t, u, dept, name)
       \/ \E t \in UserTxs : LookUpGroup(t) \/ Refused(t)
    /\ UNCHANGED <<audit_logs, updated_at, began, start>>

AuditNext ==
    \/ Passes
    \/ \E t \in UserTxs : Begins(t) \/ Reads(t) \/ Flushes(t) \/ Ends(t)
    \/ \E t \in GroupTxs : GroupBegins(t) \/ GroupGoesOn(t) \/ Bypasses(t)

AuditSpec == AuditInit /\ [][AuditNext]_auditVars

------------------------------------------------------------------------------
(* Properties.                                                                *)

\* Record r is about u, which an INSERT says in its data only.
About(r, u) == u \in {r.target, r.employee}

\* models/base.py 33-43, audit.py 58-105: the record of a row's last UPDATE is
\* the one with the row's updated_at for its created_at, and it tells of each
\* column it mentions what is in the row, however stale the object was that
\* was flushed.  A record with another created_at need not, be it the newest.
TrailTellsRow ==
    \A r \in audit_logs, u \in Users :
        About(r, u) /\ r.at = updated_at[u] =>
            \A c \in Columns : r.new[c] \in {"keep", user[u][c]}

\* What u's column c was at the start, or became by a record in `logs'.
Told(logs, u, c) ==
    {start[u][c] : x \in {start[u].role} \ {"none"}}
        \cup {r.new[c] : r \in {x \in logs : About(x, u)}}

\* audit.py 60-105: the trail of a user has no gap.  Every old value in it,
\* and what is in the row, is what the row was at the start or the new value
\* of another record, in whatever order the records are read.  Roles are left
\* out: the bulk UPDATE changes them unheard.
OldValueWasTold ==
    \A u \in Users, c \in Columns \ {"role"} :
        /\ user[u].role # "none" => user[u][c] \in Told(audit_logs, u, c)
        /\ \A r \in audit_logs : About(r, u) =>
               r.old[c] \in {"keep"} \cup Told(audit_logs \ {r}, u, c)

==============================================================================
