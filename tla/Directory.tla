------------------------------ MODULE Directory ------------------------------
(* The users and user_groups tables and everything that writes them:        *)
(* app/services/{user,user_group}.py behind app/api/v1/endpoints/           *)
(* {users,user_groups}.py, and sso_sync_user of app/services/auth/service.py*)
(*                                                                          *)
(* Each request has one database session and one transaction, READ          *)
(* COMMITTED: every SELECT sees what is committed when it runs, an object   *)
(* once loaded is not refreshed by a later SELECT, and a flush writes only  *)
(* the columns whose value differs from the loaded one.  A transaction that *)
(* writes one row reads, then writes and commits: no other transaction sees *)
(* the row in between, so the two are one action.  A group transaction      *)
(* writes many rows and holds their locks until it commits.                 *)
EXTENDS FiniteSets

CONSTANTS
    Users,     \* employee ids: rows of users, there or not yet there
    Groups,    \* department codes: rows of user_groups, there or not yet
    UserTxs,   \* slots for requests that write one row of users
    GroupTxs,  \* slots for requests that write user_groups
    Patches,   \* the [role, active] bodies of PATCH /users/{id}/role
    Seeds,     \* [role, active, dept] of the users there may be at the start
    None       \* no department, no user, no group

ASSUME NoneAssumption == None \notin Users \cup Groups

Roles == {"required", "requested", "user", "admin", "superadmin"}

AdminRoles == {"admin", "superadmin"}

ASSUME PatchAssumption ==
    Patches \subseteq
        [role : Roles \cup {"keep"}, active : {"on", "off", "keep"}]

ASSUME SeedAssumption ==
    Seeds \subseteq
        [role : Roles, active : {"on", "off"}, dept : Groups \cup {None}]

VARIABLES
    user,      \* the committed rows of users
    group,     \* the committed rows of user_groups
    utx,       \* user transactions; `late' is history
    gtx        \* group transactions

vars == <<user, group, utx, gtx>>

------------------------------------------------------------------------------
(* State.                                                                     *)

\* role "none": there is no such row; gone "yes": deleted_at is set.
Row == [role : Roles \cup {"none"}, active : {"on", "off"},
        dept : Groups \cup {None}, gone : {"no", "yes"}]

\* The values a request sets; "keep" leaves a column alone.
Want == [role : Roles \cup {"keep"}, active : {"on", "off", "keep"},
         dept : Groups \cup {None, "keep"}, gone : {"yes", "keep"}]

Set(role, active, dept, gone) ==
    [role |-> role, active |-> active, dept |-> dept, gone |-> gone]

Nothing == Set("keep", "keep", "keep", "keep")

NoRow == Set("none", "on", None, "no")

NoGroup == [row |-> "none", white |-> "off"]

GroupRow == {NoGroup} \cup [row : {"live", "deleted"}, white : {"on", "off"}]

UserOps == {"approve", "reject", "update", "delete", "request"}

\* `me' is the actor's role as read; `seen' the target's row as loaded;
\* `late' says of an administrator's request that its actor has not been an
\* active administrator since it came in, and of a login that the department
\* `key' it is looked up under has not been on the whitelist since.
UserTx == [op : UserOps \cup {"login", "none"},
           pc : {"idle", "auth", "load", "find", "lookup", "write", "refused"},
           actor : Users \cup {None}, me : Roles \cup {"none"},
           target : Users \cup {None}, key : Groups \cup {None},
           want : Want, seen : Row, late : BOOLEAN]

NoUserTx(pc) ==
    [op |-> "none", pc |-> pc, actor |-> None, me |-> "none",
     target |-> None, key |-> None, want |-> Nothing, seen |-> NoRow,
     late |-> FALSE]

IdleUser == NoUserTx("idle")

\* `seen' is `whitelisted' as loaded and `white' as written or refreshed;
\* `wrote' says that the row of user_groups is locked, `rows' are the rows of
\* users that the bulk UPDATE has chosen ("lock") or holds ("commit").
GroupTx == [op : {"create", "regroup", "drop", "none"},
            pc : {"idle", "load", "flush", "sync", "lock", "commit"},
            group : Groups \cup {None}, want : {"on", "off", "keep"},
            rename : BOOLEAN, seen : {"on", "off"}, white : {"on", "off"},
            wrote : BOOLEAN, rows : SUBSET Users]

IdleGroup == [op |-> "none", pc |-> "idle", group |-> None, want |-> "keep",
              rename |-> FALSE, seen |-> "off", white |-> "off",
              wrote |-> FALSE, rows |-> {}]

\* A transaction in flight names the rows that it is about.
NamesUser(tx) ==
    /\ tx.pc \in {"idle", "refused"} <=> tx.op = "none"
    /\ tx.pc \in {"auth", "load"} => tx.op \in UserOps
    /\ tx.pc \in {"find", "lookup"} => tx.op = "login"
    /\ tx.op # "none" => tx.target \in Users
    /\ tx.op \in UserOps => tx.actor \in Users

NamesGroup(tx) ==
    /\ tx.pc # "idle" => tx.group \in Groups
    /\ tx.op = "create" => tx.want # "keep"
    /\ tx.pc \notin {"lock", "commit"} => tx.rows = {}

\* The four components have their types.
TypeOK ==
    /\ user \in [Users -> Row]
    /\ group \in [Groups -> GroupRow]
    /\ utx \in [UserTxs -> UserTx]
    /\ gtx \in [GroupTxs -> GroupTx]
    /\ \A t \in UserTxs : NamesUser(utx[t])
    /\ \A t \in GroupTxs : NamesGroup(gtx[t])

Init ==
    /\ user \in [Users -> {NoRow} \cup
           {Set(s.role, s.active, s.dept, "no") : s \in Seeds}]
    /\ group \in [Groups -> {NoGroup} \cup
           [row : {"live"}, white : {"on", "off"}]]
    /\ utx = [t \in UserTxs |-> IdleUser]
    /\ gtx = [t \in GroupTxs |-> IdleGroup]

------------------------------------------------------------------------------
(* Helpers.                                                                   *)

\* crud/base.py get: the row is there and not deleted.
Present(row) == row.role # "none" /\ row.gone = "no"

\* get_current_user, get_current_active_user and, except for a permission
\* request, requires_role(ADMIN): the role itself, not the role or more.
Authorized(op, row) ==
    /\ Present(row)
    /\ row.role \notin {"required", "requested"}
    /\ row.active = "on"
    /\ op # "request" => row.role = "admin"

\* sso_sync_user reads deleted groups as well.
Whitelisted(g) == g # None /\ group[g].row # "none" /\ group[g].white = "on"

\* The rows that an uncommitted bulk UPDATE holds.
Locked(u) == \E t \in GroupTxs : gtx[t].pc = "commit" /\ u \in gtx[t].rows

GroupLocked(g) == \E t \in GroupTxs : gtx[t].wrote /\ gtx[t].group = g

\* The mutant of Column that writes every column of the object.
ColumnAlways(want, seen, now) == IF want = "keep" THEN seen ELSE want

\* The mutant of Column that writes the fields a request left unset.
ColumnUnset(want, seen, now) == want

\* A column after a flush: written only if its value differs from the loaded
\* one, else as it now is in the database.
Column(want, seen, now) ==
    IF want # "keep" /\ want # seen THEN want ELSE now

Written(want, seen, now) ==
    [role   |-> Column(want.role, seen.role, now.role),
     active |-> Column(want.active, seen.active, now.active),
     dept   |-> Column(want.dept, seen.dept, now.dept),
     gone   |-> Column(want.gone, seen.gone, now.gone)]

\* Nothing to flush: no UPDATE, so no wait for a lock.
Clean(want, seen) == Written(want, seen, seen) = seen

\* The mutant of Rejects that looks at the target's old role only.
RejectsOldOnly(op, me, want, seen) ==
    \/ ~Present(seen)
    \/ op = "approve" /\ seen.role # "requested"
    \/ op = "request" /\ seen.role # "required"
    \/ /\ op = "update" /\ want.role # "keep"
       /\ seen.role \in AdminRoles
       /\ me # "superadmin"

\* What the services refuse once the target is loaded.
Rejects(op, me, want, seen) ==
    \/ ~Present(seen)
    \/ op = "approve" /\ seen.role # "requested"
    \/ op = "request" /\ seen.role # "required"
    \/ /\ op = "update" /\ want.role # "keep"
       /\ seen.role \in AdminRoles \/ want.role \in AdminRoles
       /\ me # "superadmin"

\* What each operation sets.
Wanted(op) ==
    CASE op = "approve" -> {Set("user", "on", "keep", "keep")}
      [] op = "reject"  -> {Set("keep", "off", "keep", "keep")}
      [] op = "delete"  -> {Set("keep", "keep", "keep", "yes")}
      [] op = "request" -> {Set("requested", "keep", "keep", "keep")}
      [] op = "update"  -> {Set(p.role, p.active, "keep", "keep") :
                                p \in Patches}

\* `late' of transaction t when the tables are about to be as in the
\* arguments.
StillLate(t, rows, groups) ==
    /\ utx[t].late
    /\ utx[t].op \in UserOps => ~Authorized(utx[t].op, rows[utx[t].actor])
    /\ utx[t].op = "login" /\ utx[t].key # None =>
           LET g == groups[utx[t].key] IN
           g.row = "none" \/ g.white # "on"

Begin(t, tx) == utx[t].pc = "idle" /\ utx' = [utx EXCEPT ![t] = tx]

\* 403, 404 or 500: nothing is written.
Refuse(t) == utx' = [utx EXCEPT ![t] = NoUserTx("refused")]

\* Transaction t ends, with the tables as in the arguments.
Commit(t, rows) ==
    /\ user' = rows
    /\ utx' = [x \in UserTxs |->
           IF x = t THEN IdleUser
           ELSE [utx[x] EXCEPT !.late = StillLate(x, rows, group)]]

------------------------------------------------------------------------------
(* Requests about one user: approve, reject, update, delete, and the          *)
(* permission request of a user for itself.                                   *)

Submit(t, op, actor, target, want) ==
    /\ user[actor].role # "none"
    /\ op = "request" => target = actor
    /\ Begin(t, [op |-> op, pc |-> "auth", actor |-> actor, me |-> "none",
                 target |-> target, key |-> None, want |-> want,
                 seen |-> NoRow, late |-> ~Authorized(op, user[actor])])
    /\ UNCHANGED <<user, group, gtx>>

\* The mutant of Authorize that lets every role in.
AuthorizeAny(t) ==
    LET me == user[utx[t].actor] IN
    /\ utx[t].pc = "auth"
    /\ utx' = [utx EXCEPT ![t].pc = "load", ![t].me = me.role,
                ![t].seen = IF utx[t].actor = utx[t].target THEN me ELSE @]
    /\ UNCHANGED <<user, group, gtx>>

\* The actor's row; it stays in the session's identity map, which matters
\* when the actor is the target.
Authorize(t) ==
    LET me == user[utx[t].actor] IN
    /\ utx[t].pc = "auth"
    /\ IF Authorized(utx[t].op, me)
       THEN utx' = [utx EXCEPT ![t].pc = "load", ![t].me = me.role,
                ![t].seen = IF utx[t].actor = utx[t].target THEN me ELSE @]
       ELSE Refuse(t)
    /\ UNCHANGED <<user, group, gtx>>

\* crud_user.get and the checks of the service.  An actor that is its own
\* target is found in the identity map as it was loaded before.
Load(t) ==
    LET tx == utx[t]
        seen == IF tx.target = tx.actor THEN tx.seen ELSE user[tx.target] IN
    /\ tx.pc = "load"
    /\ IF \/ ~Present(user[tx.target])
          \/ Rejects(tx.op, tx.me, tx.want, seen)
       THEN Refuse(t)
       ELSE utx' = [utx EXCEPT ![t].pc = "write", ![t].seen = seen]
    /\ UNCHANGED <<user, group, gtx>>

\* Flush, waiting for the row's lock, and commit.
Write(t) ==
    LET tx == utx[t]
        u == tx.target IN
    /\ tx.pc = "write"
    /\ tx.seen.role # "none"
    /\ Locked(u) => Clean(tx.want, tx.seen) /\ tx.op # "login"
    /\ Commit(t, [user EXCEPT ![u] = Written(tx.want, tx.seen, user[u])])
    /\ UNCHANGED <<group, gtx>>

\* The response to a refusal.
Refused(t) ==
    /\ utx[t].pc = "refused"
    /\ utx' = [utx EXCEPT ![t] = IdleUser]
    /\ UNCHANGED <<user, group, gtx>>

------------------------------------------------------------------------------
(* A login: sso_sync_user finds or creates the row.                           *)

\* `department_code or department': without a code the name is looked up, and
\* may be the code of a group; the row keeps what the claims say.
GroupKey(dept, name) == IF dept # None THEN dept ELSE name

StartLogin(t, u, dept, name) ==
    /\ Begin(t, [op |-> "login", pc |-> "find", actor |-> None, me |-> "none",
                 target |-> u, key |-> GroupKey(dept, name),
                 want |-> Set("keep", "keep", dept, "keep"), seen |-> NoRow,
                 late |-> ~Whitelisted(GroupKey(dept, name))])
    /\ UNCHANGED <<user, group, gtx>>

\* By employee_id, deleted rows included.
FindUser(t) ==
    /\ utx[t].pc = "find"
    /\ utx' = [utx EXCEPT ![t].pc = "lookup",
                          ![t].seen = user[utx[t].target]]
    /\ UNCHANGED <<user, group, gtx>>

\* The role a login sets: a new user gets one, a user that was still waiting
\* is lifted, and nothing else changes a role.
LoginRole(seen, listed) ==
    CASE seen.role = "none" -> IF listed THEN "user" ELSE "required"
      [] seen.role = "required" /\ listed -> "user"
      [] OTHER -> "keep"

\* The mutant of LookUpGroup that takes any known department for a listed one.
LookUpAnyGroup(t) ==
    LET key == utx[t].key
        known == key # None /\ group[key].row # "none" IN
    /\ utx[t].pc = "lookup"
    /\ utx' = [utx EXCEPT ![t].pc = "write",
                          ![t].want.role = LoginRole(utx[t].seen, known)]
    /\ UNCHANGED <<user, group, gtx>>

LookUpGroup(t) ==
    LET listed == Whitelisted(utx[t].key) IN
    /\ utx[t].pc = "lookup"
    /\ utx' = [utx EXCEPT ![t].pc = "write",
                          ![t].want.role = LoginRole(utx[t].seen, listed)]
    /\ UNCHANGED <<user, group, gtx>>

\* INSERT; a row that appeared since FindUser breaks the unique key and the
\* transaction is rolled back.
Insert(t) ==
    LET tx == utx[t]
        u == tx.target IN
    /\ tx.pc = "write"
    /\ tx.seen.role = "none"
    /\ IF user[u].role = "none"
       THEN Commit(t, [user EXCEPT ![u] = Written(tx.want, NoRow, NoRow)])
       ELSE Refuse(t) /\ UNCHANGED user
    /\ UNCHANGED <<group, gtx>>

------------------------------------------------------------------------------
(* Requests about a group: create, update and delete, and the bulk UPDATE of  *)
(* its members' roles.                                                        *)

BeginGroup(t, tx) == gtx[t].pc = "idle" /\ gtx' = [gtx EXCEPT ![t] = tx]

GotoGroup(t, pc) == gtx' = [gtx EXCEPT ![t].pc = pc]

EndGroup(t) == gtx' = [gtx EXCEPT ![t] = IdleGroup]

\* The actor's row is read; nothing later looks at the actor again.
SubmitGroup(t, op, actor, g, want, rename) ==
    /\ Authorized(op, user[actor])
    /\ op = "create" => want # "keep"
    /\ op # "regroup" => ~rename
    /\ op = "drop" => want = "keep"
    /\ BeginGroup(t, [op |-> op, group |-> g, want |-> want, rename |-> rename,
                      pc |-> IF op = "create" THEN "flush" ELSE "load",
                      seen |-> "off", white |-> "off", wrote |-> FALSE,
                      rows |-> {}])
    /\ UNCHANGED <<user, group, utx>>

\* crud_user_group.get.
LoadGroup(t) ==
    LET g == group[gtx[t].group] IN
    /\ gtx[t].pc = "load"
    /\ IF g.row = "live"
       THEN gtx' = [gtx EXCEPT ![t].pc = "flush", ![t].seen = g.white]
       ELSE EndGroup(t)
    /\ UNCHANGED <<user, group, utx>>

\* INSERT: `code' is unique, deleted rows count.
Create(t) ==
    LET tx == gtx[t] IN
    /\ tx.pc = "flush" /\ tx.op = "create"
    /\ ~GroupLocked(tx.group)
    /\ IF group[tx.group].row = "none"
       THEN gtx' = [gtx EXCEPT ![t].wrote = TRUE, ![t].white = tx.want,
                    ![t].pc = IF tx.want = "on" THEN "sync" ELSE "commit"]
       ELSE EndGroup(t)
    /\ UNCHANGED <<user, group, utx>>

\* UPDATE of the columns that differ from the loaded ones, if any, and the
\* refresh: `whitelisted' is then what this transaction wrote or else what is
\* committed now, and that is compared with the loaded value.
Regroup(t) ==
    LET tx == gtx[t]
        dirty == tx.rename \/ (tx.want # "keep" /\ tx.want # tx.seen)
        white == Column(tx.want, tx.seen, group[tx.group].white) IN
    /\ tx.pc = "flush" /\ tx.op = "regroup"
    /\ dirty => ~GroupLocked(tx.group)
    /\ gtx' = [gtx EXCEPT ![t].wrote = dirty, ![t].white = white,
                   ![t].pc = IF white = tx.seen THEN "commit" ELSE "sync"]
    /\ UNCHANGED <<user, group, utx>>

\* delete_group: deleted_at and commit; members keep their roles.
Drop(t) ==
    LET tx == gtx[t] IN
    /\ tx.pc = "flush" /\ tx.op = "drop"
    /\ ~GroupLocked(tx.group)
    /\ group' = [group EXCEPT ![tx.group].row = "deleted"]
    /\ EndGroup(t)
    /\ UNCHANGED <<user, utx>>

\* The mutant of Matches that takes administrators of every rank.
MatchesAll(tx, row) ==
    /\ row.dept = tx.group
    /\ row.role \in IF tx.white = "on" THEN {"required"}
                    ELSE {"user", "admin", "superadmin"}

\* WHERE of the bulk UPDATE: deleted and inactive users match too.
Matches(tx, row) ==
    /\ row.role # "none"
    /\ row.dept = tx.group
    /\ row.role \in IF tx.white = "on" THEN {"required"} ELSE {"user", "admin"}

\* The rows of the statement's snapshot.
Sync(t) ==
    /\ gtx[t].pc = "sync"
    /\ gtx' = [gtx EXCEPT ![t].pc = "lock",
                   ![t].rows = {u \in Users : Matches(gtx[t], user[u])}]
    /\ UNCHANGED <<user, group, utx>>

\* The mutant of Lock that does not look at the rows again.
LockUnchecked(t) ==
    /\ gtx[t].pc = "lock"
    /\ \A u \in gtx[t].rows : ~Locked(u)
    /\ GotoGroup(t, "commit")
    /\ UNCHANGED <<user, group, utx>>

\* Each row is locked when its holder is gone, and read again: READ COMMITTED
\* updates it only if it still matches.
Lock(t) ==
    LET tx == gtx[t] IN
    /\ tx.pc = "lock"
    /\ \A u \in tx.rows : ~Locked(u)
    /\ gtx' = [gtx EXCEPT ![t].pc = "commit",
                   ![t].rows = {u \in tx.rows : Matches(tx, user[u])}]
    /\ UNCHANGED <<user, group, utx>>

CommitGroup(t) ==
    LET tx == gtx[t]
        role == IF tx.white = "on" THEN "user" ELSE "required"
        rows == [u \in Users |-> IF u \in tx.rows
                                 THEN [user[u] EXCEPT !.role = role]
                                 ELSE user[u]]
        now == group[tx.group]
        groups == IF tx.wrote
                  THEN [group EXCEPT ![tx.group] =
                            [row |-> IF now.row = "none" THEN "live"
                                     ELSE now.row,
                             white |-> tx.white]]
                  ELSE group IN
    /\ tx.pc = "commit"
    /\ user' = rows
    /\ group' = groups
    /\ utx' = [x \in UserTxs |->
           [utx[x] EXCEPT !.late = StillLate(x, rows, groups)]]
    /\ EndGroup(t)

------------------------------------------------------------------------------
(* A request whose pod or connection dies is rolled back.                     *)

Abort(t) ==
    /\ utx[t].pc \notin {"idle", "refused"}
    /\ utx' = [utx EXCEPT ![t] = IdleUser]
    /\ UNCHANGED <<user, group, gtx>>

AbortGroup(t) ==
    /\ gtx[t].pc # "idle"
    /\ EndGroup(t)
    /\ UNCHANGED <<user, group, utx>>

UserStep(t) ==
    \/ Authorize(t) \/ Load(t) \/ Write(t) \/ Refused(t)
    \/ FindUser(t) \/ LookUpGroup(t) \/ Insert(t)

GroupStep(t) ==
    \/ LoadGroup(t) \/ Create(t) \/ Regroup(t) \/ Drop(t)
    \/ Sync(t) \/ Lock(t) \/ CommitGroup(t)

Next ==
    \/ \E t \in UserTxs, op \in UserOps, actor \in Users, target \in Users :
           \E want \in Wanted(op) : Submit(t, op, actor, target, want)
    \/ \E t \in UserTxs, u \in Users, dept, name \in Groups \cup {None} :
           StartLogin(t, u, dept, name)
    \/ \E t \in GroupTxs, op \in {"create", "regroup", "drop"},
          actor \in Users, g \in Groups, want \in {"on", "off", "keep"},
          rename \in BOOLEAN : SubmitGroup(t, op, actor, g, want, rename)
    \/ \E t \in UserTxs : UserStep(t) \/ Abort(t)
    \/ \E t \in GroupTxs : GroupStep(t) \/ AbortGroup(t)

Spec == Init /\ [][Next]_vars

------------------------------------------------------------------------------
(* Properties.                                                                *)

IsAdmin(row) == row.role \in AdminRoles

\* services/user.py 81-88 with endpoints/users.py 167: nobody becomes an
\* administrator, because only an ADMIN gets in and only a SUPERADMIN may
\* appoint one; no stale snapshot gets around it.  That is what the code does
\* and not what was meant: services/user.py 72, endpoints/users.py 161 and
\* main.py 101 have a SUPERADMIN appoint administrators, and
\* tests/test_users.py 73-84 has an ADMIN do it.
AdminsNeverGrow ==
    [][\A u \in Users : IsAdmin(user'[u]) => IsAdmin(user[u])]_vars

FallsWithItsGroup(u) ==
    /\ user[u].role = "admin"
    /\ user'[u].role = "required"
    /\ \E t \in GroupTxs :
           /\ gtx[t].pc = "commit"
           /\ gtx[t].white = "off"
           /\ gtx[t].group = user[u].dept

\* services/user_group.py 91-130: a SUPERADMIN keeps that role whatever
\* happens, and an ADMIN loses its role only with its own department, to the
\* bulk UPDATE that takes the department off the whitelist.
AdminsFallWithTheirGroup ==
    [][\A u \in Users :
         IsAdmin(user[u]) /\ user'[u].role # user[u].role =>
             FallsWithItsGroup(u)]_vars

\* services/user.py 123-134: a rejected account comes back only by a request
\* that had seen it rejected; one that loaded the row before the rejection
\* does not undo it, whatever it writes after it.
RejectionSticks ==
    [][\A u \in Users :
         /\ user[u].role # "none"
         /\ user[u].active = "off"
         /\ user'[u].active = "on"
         => \E t \in UserTxs :
                /\ utx[t].pc = "write" /\ utx[t].target = u
                /\ utx[t].seen.active = "off"
                /\ utx[t].op \in {"approve", "update"}]_vars

\* deps.py 63-103: a request of someone who was no active administrator when
\* it came in, and did not become one while it ran, gets no further than the
\* role check.
FormerAdminRefused ==
    \A t \in UserTxs :
        utx[t].op \in UserOps /\ utx[t].late =>
            utx[t].pc = "auth"

EndsUnlisted(t) ==
    /\ utx[t].op = "login"
    /\ utx[t].pc = "write"
    /\ utx[t].late
    /\ utx'[t].pc = "idle"

LiftsTarget(t) ==
    user'[utx[t].target].role \notin {user[utx[t].target].role, "required"}

\* service.py 28-38 and 60: a login that came in when its department was off
\* the whitelist, and which stayed off, makes nobody a USER.
UnlistedLoginGetsNothing ==
    [][\A t \in UserTxs : EndsUnlisted(t) => ~LiftsTarget(t)]_vars

\* services/user_group.py 91-130 on READ COMMITTED: a row that a bulk UPDATE
\* holds still has the role its WHERE asked for, and nobody else holds it.
HeldRowsMatch ==
    \A t \in GroupTxs : gtx[t].pc = "commit" =>
        \A u \in gtx[t].rows :
            /\ Matches(gtx[t], user[u])
            /\ \A x \in GroupTxs \ {t} :
                   gtx[x].pc = "commit" => u \notin gtx[x].rows

\* docs/login_architecture.md 542, services/user_group.py 5: a login makes its
\* user a USER by the department's place on the whitelist, and members follow
\* when that changes.  The whitelist is read before the row is written, and a
\* department that leaves it in between misses the user.
GrantFollowsWhitelist ==
    [][\A t \in UserTxs :
         /\ utx[t].op = "login" /\ utx[t].pc = "write" /\ utx'[t].pc = "idle"
         /\ user[utx[t].target].role # "user"
         /\ user'[utx[t].target].role = "user"
         => Whitelisted(utx[t].key)]_vars

------------------------------------------------------------------------------
(* Two checks and the rights they ask for.  Revocation is what each of them   *)
(* promises; `late' is what it calls lapsed.                                  *)

\* Behind the checks of deps.py.
PastAuth(t) == utx[t].op \in UserOps /\ utx[t].pc # "auth"

\* Behind the look at the whitelist, about to make its user a USER.
Lifts(t) ==
    utx[t].op = "login" /\ utx[t].pc = "write" /\ utx[t].want.role = "user"

Callers == INSTANCE Revocation WITH
    Rights <- UserOps \X Users, Requests <- UserTxs, None <- <<>>,
    valid <- {c \in UserOps \X Users : Authorized(c[1], user[c[2]])},
    needs <- [t \in UserTxs |->
        IF utx[t].op \in UserOps THEN <<utx[t].op, utx[t].actor>> ELSE <<>>],
    lapsed <- {t \in UserTxs : utx[t].op \in UserOps /\ utx[t].late},
    honoured <- {t \in UserTxs : PastAuth(t)}

Departments == INSTANCE Revocation WITH
    Rights <- Groups, Requests <- UserTxs,
    valid <- {g \in Groups : Whitelisted(g)},
    needs <- [t \in UserTxs |->
        IF utx[t].op = "login" THEN utx[t].key ELSE None],
    lapsed <- {t \in UserTxs :
        utx[t].op = "login" /\ utx[t].key # None /\ utx[t].late},
    honoured <- {t \in UserTxs : Lifts(t)}

\* deps.py 63-103, service.py 28-38: a request gets past the role check only
\* if its caller was allowed to make it, and a login lifts its user only if
\* its department was on the whitelist, at some moment since it came in.
RevocationSpec ==
    /\ Callers!RevocationSpec
    /\ Departments!RevocationSpec

==============================================================================
