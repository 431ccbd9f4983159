------------------------------ MODULE SsoLogin ------------------------------
(* A login through the identity provider: login_via_sso and sso_callback of *)
(* app/api/v1/endpoints/auth.py, the health check of                        *)
(* app/services/auth/oidc/hmg_provider.py, sso_sync_user and                *)
(* generate_auth_code of app/services/auth/service.py, and the commit or    *)
(* rollback of get_db in app/core/database.py.                              *)
(*                                                                          *)
(* One action per await.  Roles and departments are those of Directory; a   *)
(* row of users is here only whether it is there, whether it is active, and *)
(* whether the profile in it is the identity provider's.                    *)
CONSTANTS
    Users,      \* employees
    States,     \* `state' values, one per call of login_via_sso
    Callbacks,  \* slots for requests to the callback endpoint
    None,       \* no user, no state
    Faults      \* what may fail: a subset of {"redis", "db", "idp", "pod"}

ASSUME NoneAssumption == None \notin Users \cup States

ASSUME FaultAssumption == Faults \subseteq {"redis", "db", "idp", "pod"}

VARIABLES
    user,       \* the committed rows of users
    login,      \* calls of login_via_sso, with sso_state:{state} in Redis
    cb          \* callbacks; `late' is history

vars == <<user, login, cb>>

-----------------------------------------------------------------------------
(* State.                                                                    *)

Row == [there : BOOLEAN, active : BOOLEAN, profile : {"old", "new"}]

\* `key' is sso_state:{state}; `used' is history: a callback deleted it.
Login == [pc : {"new", "check", "retry", "store", "out", "failed"},
          key : BOOLEAN, used : BOOLEAN]

NoLogin == [pc |-> "new", key |-> FALSE, used |-> FALSE]

\* What was already true of a callback when it arrived:
\*   "off"    its user has been deactivated since
\*   "spent"  its state had been used
Late == {"off", "spent"}

\* `seen' is the row as selected, `pend' the uncommitted write, `broken' a
\* session whose flush failed, `code' the key auth_code:{code}, and `out' the
\* answer: a code, AUTH_FAILED, INVALID_STATE or an internal error.
Callback == [pc : {"idle", "get", "del", "idp", "find", "flush", "code",
                   "commit", "done"},
             state : States \cup {None}, user : Users \cup {None},
             seen : Row, pend : {"none", "insert", "update"},
             broken : BOOLEAN, code : BOOLEAN,
             out : {"none", "code", "failed", "invalid", "error"},
             late : SUBSET Late]

NoRow == [there |-> FALSE, active |-> TRUE, profile |-> "old"]

Slot(pc, s, u, late) ==
    [pc |-> pc, state |-> s, user |-> u, seen |-> NoRow, pend |-> "none",
     broken |-> FALSE, code |-> FALSE, out |-> "none", late |-> late]

Idle == Slot("idle", None, None, {})

\* The three components have their types; a transaction with a write open is
\* about to store its code or to commit, and only a running request has one.
TypeOK ==
    /\ user \in [Users -> Row]
    /\ login \in [States -> Login]
    /\ cb \in [Callbacks -> Callback]
    /\ \A r \in Callbacks : cb[r].pend # "none" => cb[r].pc \in {"code", "commit"}

Init ==
    /\ user \in [Users -> {NoRow} \cup
           [there : {TRUE}, active : BOOLEAN, profile : {"old"}]]
    /\ login = [s \in States |-> NoLogin]
    /\ cb = [r \in Callbacks |-> Idle]

-----------------------------------------------------------------------------
(* GET /auth/{provider}/login.                                               *)

LoginGoto(s, from, pc) ==
    /\ login[s].pc = from
    /\ login' = [login EXCEPT ![s].pc = pc]
    /\ UNCHANGED <<user, cb>>

StartLogin(s) == LoginGoto(s, "new", "check")

\* The answer to the health check: fine, a duplicate state (4000), or
\* anything else, which is 500, 502 or 503.
HealthCheck(s) == \E pc \in {"store", "retry", "failed"} :
                      LoginGoto(s, "check", pc)

\* Once more, with a state of its own that nobody keeps.
Retry(s) == \E pc \in {"store", "failed"} : LoginGoto(s, "retry", pc)

\* SET sso_state:{state} EX 600; without Redis the URL goes out all the same.
Store(s) ==
    /\ login[s].pc = "store"
    /\ \/ login' = [login EXCEPT ![s].pc = "out", ![s].key = TRUE]
       \/ "redis" \in Faults /\ login' = [login EXCEPT ![s].pc = "out"]
       \/ "redis" \in Faults /\ login' = [login EXCEPT ![s].pc = "failed"]
    /\ UNCHANGED <<user, cb>>

\* Ten minutes are over.
Expire(s) ==
    /\ login[s].key
    /\ login' = [login EXCEPT ![s].key = FALSE]
    /\ UNCHANGED <<user, cb>>

\* A slot whose login failed, or whose key is gone and that no callback holds,
\* stands for the next call and its new uuid.
Reuse(s) ==
    /\ login[s].pc \in {"out", "failed"}
    /\ ~login[s].key
    /\ \A r \in Callbacks : cb[r].state # s
    /\ login' = [login EXCEPT ![s] = NoLogin]
    /\ UNCHANGED <<user, cb>>

-----------------------------------------------------------------------------
(* GET /auth/{provider}/callback.                                            *)

At(r, pc) == cb[r].pc = pc

Goto(r, pc) == cb' = [cb EXCEPT ![r].pc = pc]

\* The response is decided before the commit, unless it is an error.
Answer(r, pc, out) == cb' = [cb EXCEPT ![r].pc = pc, ![r].out = out]

\* except Exception: the redirect with AUTH_FAILED, and get_db commits.
Swallow(r) == Answer(r, "commit", "failed")

\* The browser comes back, perhaps twice, as whoever logged in.
Arrive(r, s, u) ==
    /\ At(r, "idle")
    /\ login[s].pc = "out"
    /\ cb' = [cb EXCEPT ![r] = Slot("get", s, u,
                  (IF ~user[u].active THEN {"off"} ELSE {})
                      \cup (IF login[s].used THEN {"spent"} ELSE {}))]
    /\ UNCHANGED <<user, login>>

GetState(r) ==
    /\ At(r, "get")
    /\ IF login[cb[r].state].key THEN Goto(r, "del")
                                 ELSE Answer(r, "done", "invalid")
    /\ UNCHANGED <<user, login>>

\* The mutant of DeleteState that leaves the key to its expiry.
KeepState(r) ==
    /\ At(r, "del")
    /\ login' = [login EXCEPT ![cb[r].state].used = TRUE]
    /\ Goto(r, "idp")
    /\ UNCHANGED user

DeleteState(r) ==
    /\ At(r, "del")
    /\ login' = [login EXCEPT ![cb[r].state].key = FALSE,
                              ![cb[r].state].used = TRUE]
    /\ Goto(r, "idp")
    /\ UNCHANGED user

\* Token exchange, signature, nonce and profile; any of them may be refused.
Exchange(r) ==
    /\ At(r, "idp")
    /\ Goto(r, "find") \/ ("idp" \in Faults /\ Swallow(r))
    /\ UNCHANGED <<user, login>>

\* By employee_id.
FindUser(r) ==
    /\ At(r, "find")
    /\ \/ cb' = [cb EXCEPT ![r].pc = "flush", ![r].seen = user[cb[r].user]]
       \/ "db" \in Faults /\ Swallow(r)
    /\ UNCHANGED <<user, login>>

\* A row that another callback has written and not committed.
RowLocked(u) == \E r \in Callbacks : cb[r].user = u /\ cb[r].pend # "none"

\* The mutant of Flush that forgets is_active.
FlushAnyone(r) ==
    LET u == cb[r].user
        write == IF cb[r].seen.there THEN "update" ELSE "insert" IN
    /\ At(r, "flush")
    /\ ~RowLocked(u)
    /\ IF write = "insert" /\ user[u].there
       THEN cb' = [cb EXCEPT ![r].pc = "commit", ![r].out = "failed",
                             ![r].broken = TRUE]
       ELSE cb' = [cb EXCEPT ![r].pend = write, ![r].pc = "code"]
    /\ UNCHANGED <<user, login>>

\* The mutant of Flush for a table whose employee_id need not be unique.
FlushTwin(r) ==
    LET write == IF cb[r].seen.there THEN "update" ELSE "insert" IN
    /\ At(r, "flush")
    /\ ~RowLocked(cb[r].user)
    /\ cb' = [cb EXCEPT ![r].pend = write,
                 ![r].pc = IF cb[r].seen.active THEN "code" ELSE "commit",
                 ![r].out = IF cb[r].seen.active THEN "none" ELSE "failed"]
    /\ UNCHANGED <<user, login>>

\* INSERT or UPDATE, behind the lock of another one.  A row that appeared
\* since FindUser breaks the unique key, and the session with it.  The
\* profile of a deactivated user is written before it is refused.
Flush(r) ==
    LET u == cb[r].user
        write == IF cb[r].seen.there THEN "update" ELSE "insert" IN
    /\ At(r, "flush")
    /\ ~RowLocked(u)
    /\ IF write = "insert" /\ user[u].there
       THEN cb' = [cb EXCEPT ![r].pc = "commit", ![r].out = "failed",
                             ![r].broken = TRUE]
       ELSE cb' = [cb EXCEPT ![r].pend = write,
                   ![r].pc = IF cb[r].seen.active THEN "code" ELSE "commit",
                   ![r].out = IF cb[r].seen.active THEN "none" ELSE "failed"]
    /\ UNCHANGED <<user, login>>

\* SET auth_code:{code}; when it raises, the key may have been stored.
GenerateCode(r) ==
    /\ At(r, "code")
    /\ \/ cb' = [cb EXCEPT ![r].pc = "commit", ![r].code = TRUE,
                           ![r].out = "code"]
       \/ /\ "redis" \in Faults
          /\ \E stored \in BOOLEAN :
                 cb' = [cb EXCEPT ![r].pc = "commit", ![r].code = stored,
                                  ![r].out = "failed"]
    /\ UNCHANGED <<user, login>>

\* What a committed write leaves in the table.
Stored(r) ==
    LET u == cb[r].user IN
    CASE cb[r].pend = "none"   -> user
      [] cb[r].pend = "insert" ->
             [user EXCEPT ![u] = [there |-> TRUE, active |-> TRUE,
                                  profile |-> "new"]]
      [] cb[r].pend = "update" -> [user EXCEPT ![u].profile = "new"]

\* The mutant of Close that leaves the transaction open.
CloseLeaking(r, out) == cb' = [cb EXCEPT ![r].pc = "done", ![r].out = out]

\* The session is closed and its locks are gone.
Close(r, out) ==
    cb' = [cb EXCEPT ![r].pc = "done", ![r].out = out, ![r].pend = "none",
                     ![r].broken = FALSE]

\* The mutant of Commit that answers before it commits.
CommitAfter(r) ==
    /\ At(r, "commit")
    /\ \/ /\ ~cb[r].broken
          /\ user' = Stored(r)
          /\ Close(r, cb[r].out)
       \/ /\ cb[r].broken \/ "db" \in Faults
          /\ Close(r, cb[r].out)
          /\ UNCHANGED user
    /\ UNCHANGED login

\* get_db after the endpoint returned: a broken session cannot commit.
Commit(r) ==
    /\ At(r, "commit")
    /\ \/ /\ ~cb[r].broken
          /\ user' = Stored(r)
          /\ Close(r, cb[r].out)
       \/ /\ cb[r].broken \/ "db" \in Faults
          /\ Close(r, "error")
          /\ UNCHANGED user
    /\ UNCHANGED login

\* get_redis() has nothing to give, or a command outside the try block raises
\* (if the DELETE did go through, that is this step after Expire).
RedisError(r) ==
    /\ "redis" \in Faults
    /\ cb[r].pc \in {"get", "del"}
    /\ Answer(r, "done", "error")
    /\ UNCHANGED <<user, login>>

\* The flush fails on the database's side.
FlushError(r) ==
    /\ "db" \in Faults
    /\ At(r, "flush")
    /\ cb' = [cb EXCEPT ![r].pc = "commit", ![r].out = "failed",
                        ![r].broken = TRUE]
    /\ UNCHANGED <<user, login>>

\* The response is out.
Leave(r) ==
    /\ At(r, "done")
    /\ cb' = [cb EXCEPT ![r] = Idle]
    /\ UNCHANGED <<user, login>>

\* The pod dies: the database rolls back, Redis keeps what it has.
Crash(r) ==
    /\ "pod" \in Faults
    /\ cb[r].pc \notin {"idle", "done"}
    /\ cb' = [cb EXCEPT ![r] = Idle]
    /\ UNCHANGED <<user, login>>

-----------------------------------------------------------------------------
(* An administrator deactivates or reinstates a user.                        *)

SetActive(u) ==
    /\ user[u].there
    /\ ~RowLocked(u)
    /\ user' = [user EXCEPT ![u].active = ~@]
    /\ cb' = [r \in Callbacks |->
           IF cb[r].user = u /\ ~user[u].active
           THEN [cb[r] EXCEPT !.late = @ \ {"off"}] ELSE cb[r]]
    /\ UNCHANGED login

LoginStep(s) ==
    \/ StartLogin(s) \/ HealthCheck(s) \/ Retry(s) \/ Store(s)
    \/ Expire(s) \/ Reuse(s)

CallbackStep(r) ==
    \/ GetState(r) \/ DeleteState(r) \/ Exchange(r) \/ FindUser(r)
    \/ Flush(r) \/ GenerateCode(r) \/ Commit(r)

Next ==
    \/ \E s \in States : LoginStep(s)
    \/ \E r \in Callbacks, s \in States, u \in Users : Arrive(r, s, u)
    \/ \E r \in Callbacks : \/ CallbackStep(r) \/ RedisError(r)
                            \/ FlushError(r) \/ Leave(r) \/ Crash(r)
    \/ \E u \in Users : SetActive(u)

Spec == Init /\ [][Next]_vars

\* Every await of a callback comes back: the call of the identity provider has
\* a timeout (hmg_provider.py 76), Redis and the database answer or the
\* connection breaks, which RedisError, FlushError and Commit are.  The
\* database hands a row lock on in the order it was asked for.
Fairness ==
    \A r \in Callbacks :
        /\ WF_vars(CallbackStep(r))
        /\ SF_vars(Flush(r))

FairSpec == Spec /\ Fairness

-----------------------------------------------------------------------------
(* Properties.                                                               *)

\* auth.py 111-116 and database.py 52-57: a code that reaches the browser is
\* the code of a user whose row is committed, whatever fails or races.
CodeHasUser ==
    \A r \in Callbacks :
        At(r, "done") /\ cb[r].out = "code" =>
            cb[r].code /\ user[cb[r].user].there

\* service.py 67-68: a user that was deactivated before it came back from the
\* identity provider, and not reinstated meanwhile, gets no code.
DeactivatedGetsNoCode ==
    \A r \in Callbacks : "off" \in cb[r].late => cb[r].out # "code"

\* auth.py 93-98, docs/05_qa/hmg_sso_verification_guide.md 36: a callback
\* that comes after another one has used its state is turned away.
SpentStateRefused ==
    \A r \in Callbacks :
        "spent" \in cb[r].late =>
            At(r, "get") \/ (At(r, "done") /\ cb[r].out \in {"invalid", "error"})

\* service.py 27-66: two logins race, or an administrator decides in between:
\* a login that is committed neither loses a row that others rely on nor
\* undoes the decision whether its user is active.
LoginKeepsDecision ==
    [][\A r \in Callbacks, u \in Users :
         /\ At(r, "commit") /\ cb'[r].pc = "done"
         /\ user[u].there
         => user'[u].there /\ user'[u].active = user[u].active]_vars

\* auth.py 79-121: every callback is answered, or lost with its pod; none
\* waits for ever on the row lock of another.
EveryCallbackEnds ==
    \A r \in Callbacks : ~At(r, "idle") ~> cb[r].pc \in {"idle", "done"}

\* docs/03_development/hmg_sso_auth.md 16: a failure sends the browser back to
\* the frontend with an error code.  Two first logins of one employee break
\* the unique key; the failed flush makes get_db's commit raise.
FailuresRedirect ==
    \A r \in Callbacks : cb[r].out # "error"

-----------------------------------------------------------------------------
(* Two checks and the rights they ask for.  Revocation is what each of them  *)
(* promises; `late' is what it calls lapsed.                                 *)

Runs(r) == cb[r].pc \notin {"idle", "done"}

\* Behind the GET of sso_state:{state}.
PastGet(r) == Runs(r) /\ cb[r].pc # "get"

\* Behind is_active: auth_code:{code} is in Redis.
HasCode(r) == Runs(r) /\ cb[r].code

Accounts == INSTANCE Revocation WITH
    Rights <- Users, Requests <- Callbacks,
    valid <- {u \in Users : user[u].active},
    needs <- [r \in Callbacks |-> IF Runs(r) THEN cb[r].user ELSE None],
    lapsed <- {r \in Callbacks : Runs(r) /\ "off" \in cb[r].late},
    honoured <- {r \in Callbacks : HasCode(r)}

Fresh == INSTANCE Revocation WITH
    Rights <- States, Requests <- Callbacks,
    valid <- {s \in States : ~login[s].used},
    needs <- [r \in Callbacks |-> IF Runs(r) THEN cb[r].state ELSE None],
    lapsed <- {r \in Callbacks : Runs(r) /\ "spent" \in cb[r].late},
    honoured <- {r \in Callbacks : PastGet(r)}

\* service.py 67-83, auth.py 93-98: a code is stored, whether or not it gets
\* to the browser, only for a user who was active at some moment since the
\* callback came, and a callback goes on only if its state was unused then.
RevocationSpec ==
    /\ Accounts!RevocationSpec
    /\ Fresh!RevocationSpec

=============================================================================
