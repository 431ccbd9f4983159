----------------------------- MODULE Dashboards -----------------------------
(* Personal Superset dashboards: app/api/v1/endpoints/superset.py, the      *)
(* calls of app/services/superset.py behind it and the table of             *)
(* app/models/user_dashboard.py.  The mapping is checked first and written  *)
(* after three calls to Superset, which nothing rolls back.                 *)
CONSTANTS
    Users,       \* authenticated users
    Requests,    \* slots for requests in flight
    Dashboards,  \* ids that Superset gives to dashboards it creates
    None         \* no user, no dashboard; as an answer, the master template

ASSUME NoneAssumption == None \notin Users \cup Dashboards

VARIABLES
    mapping,  \* user_dashboards: the dashboard of each user
    copy,     \* Superset: the user for whom each dashboard was created
    req       \* the requests in flight; `had' and `made' are history

vars == <<mapping, copy, req>>

-----------------------------------------------------------------------------
(* State.                                                                    *)

\* `had' is the user's dashboard when the request arrived, `made' the one
\* Superset created for the request, `got' the id in the answer.
Request == [op : {"none", "get", "customize"},
            pc : {"idle", "select", "token", "fetch", "post", "commit",
                  "ok", "error"},
            user : Users \cup {None}, had : Dashboards \cup {None},
            made : Dashboards \cup {None}, got : Dashboards \cup {None}]

Slot(op, pc, u, had) == [op |-> op, pc |-> pc, user |-> u, had |-> had,
                         made |-> None, got |-> None]

Idle == Slot("none", "idle", None, None)

\* The three components have their types; what a request made is a copy for
\* its user.
TypeOK ==
    /\ mapping \in [Users -> Dashboards \cup {None}]
    /\ copy \in [Dashboards -> Users \cup {None}]
    /\ req \in [Requests -> Request]
    /\ \A r \in Requests :
           req[r].made # None => copy[req[r].made] = req[r].user

Init ==
    /\ mapping = [u \in Users |-> None]
    /\ copy = [d \in Dashboards |-> None]
    /\ req = [r \in Requests |-> Idle]

-----------------------------------------------------------------------------
(* Both endpoints.                                                           *)

At(r, op, pc) == req[r].op = op /\ req[r].pc = pc

Goto(r, pc) == req' = [req EXCEPT ![r].pc = pc]

\* 400 or 500.
Fail(r) == Goto(r, "error")

Arrive(r, op, u) ==
    /\ req[r].pc = "idle"
    /\ req' = [req EXCEPT ![r] = Slot(op, "select", u, mapping[u])]
    /\ UNCHANGED <<mapping, copy>>

\* The mutant of Get that knows the master template only.
GetMaster(r) ==
    /\ At(r, "get", "select")
    /\ Goto(r, "ok")
    /\ UNCHANGED <<mapping, copy>>

\* GET /superset/dashboard
Get(r) ==
    /\ At(r, "get", "select")
    /\ req' = [req EXCEPT ![r].pc = "ok", ![r].got = mapping[req[r].user]]
    /\ UNCHANGED <<mapping, copy>>

-----------------------------------------------------------------------------
(* POST /superset/dashboard/customize                                        *)

\* The mutant of Check that leaves it to the primary key.
CheckNothing(r) ==
    /\ At(r, "customize", "select")
    /\ Goto(r, "token")
    /\ UNCHANGED <<mapping, copy>>

Check(r) ==
    /\ At(r, "customize", "select")
    /\ IF mapping[req[r].user] = None THEN Goto(r, "token") ELSE Fail(r)
    /\ UNCHANGED <<mapping, copy>>

\* _get_admin_token, then the template.
AskSuperset(r) ==
    /\ \/ req[r].pc = "token" /\ (Goto(r, "fetch") \/ Fail(r))
       \/ req[r].pc = "fetch" /\ (Goto(r, "post") \/ Fail(r))
    /\ UNCHANGED <<mapping, copy>>

\* The mutant of Post that believes an answer which created nothing.
PostUnmade(r) ==
    /\ req[r].pc = "post"
    /\ \E d \in Dashboards :
           /\ copy[d] = None
           /\ req' = [req EXCEPT ![r].pc = "commit", ![r].made = d]
    /\ UNCHANGED <<mapping, copy>>

\* Superset creates the copy; the answer arrives or is lost.
Post(r) ==
    /\ req[r].pc = "post"
    /\ \E d \in Dashboards :
           /\ copy[d] = None
           /\ copy' = [copy EXCEPT ![d] = req[r].user]
           /\ req' = [req EXCEPT ![r].pc = "commit", ![r].made = d]
    /\ UNCHANGED mapping

PostAnswerLost(r) ==
    /\ req[r].pc = "post"
    /\ \E d \in Dashboards :
           /\ copy[d] = None
           /\ copy' = [copy EXCEPT ![d] = req[r].user]
    /\ Fail(r)
    /\ UNCHANGED mapping

\* Superset refuses, or cannot be reached.
PostRefused(r) ==
    /\ req[r].pc = "post"
    /\ Fail(r)
    /\ UNCHANGED <<mapping, copy>>

\* The mutant of Commit for a table without the primary key.
CommitOver(r) ==
    /\ req[r].pc = "commit"
    /\ mapping' = [mapping EXCEPT ![req[r].user] = req[r].made]
    /\ req' = [req EXCEPT ![r].pc = "ok", ![r].got = req[r].made]
    /\ UNCHANGED copy

\* The mutant of Commit that takes a broken key for success.
CommitLoser(r) ==
    LET u == req[r].user IN
    /\ req[r].pc = "commit"
    /\ mapping' = [mapping EXCEPT ![u] = IF @ = None THEN req[r].made ELSE @]
    /\ req' = [req EXCEPT ![r].pc = "ok", ![r].got = req[r].made]
    /\ UNCHANGED copy

\* INSERT and COMMIT; user_id is the primary key, and the loser of a race
\* leaves its copy behind in Superset.  The connection may also go before or
\* after the database has committed.
Commit(r) ==
    LET u == req[r].user IN
    /\ req[r].pc = "commit"
    /\ \/ /\ mapping[u] = None
          /\ mapping' = [mapping EXCEPT ![u] = req[r].made]
          /\ req' = [req EXCEPT ![r].pc = "ok", ![r].got = req[r].made]
       \/ /\ mapping[u] = None
          /\ mapping' = [mapping EXCEPT ![u] = req[r].made]
          /\ Fail(r)
       \/ Fail(r) /\ UNCHANGED mapping
    /\ UNCHANGED copy

-----------------------------------------------------------------------------
(* The end of a request.                                                     *)

\* The answer is out, the client is gone, or the pod is.
Leave(r) ==
    /\ req[r].pc # "idle"
    /\ req' = [req EXCEPT ![r] = Idle]
    /\ UNCHANGED <<mapping, copy>>

Next ==
    \E r \in Requests :
        \/ \E op \in {"get", "customize"}, u \in Users : Arrive(r, op, u)
        \/ Get(r) \/ Check(r) \/ AskSuperset(r)
        \/ Post(r) \/ PostAnswerLost(r) \/ PostRefused(r)
        \/ Commit(r) \/ Leave(r)

Spec == Init /\ [][Next]_vars

-----------------------------------------------------------------------------
(* Properties.                                                               *)

\* superset.py 57-61 and 81-88, user_dashboard.py 19: whatever two requests of
\* a user do to each other, the dashboard that was mapped first stays, and it
\* is a copy made for this user.
FirstMappingStays ==
    [][\A u \in Users :
         /\ mapping[u] # None => mapping'[u] = mapping[u]
         /\ mapping'[u] # None => copy'[mapping'[u]] = u]_vars

\* superset.py 57-61: a request that arrives when its user has a dashboard
\* already makes no other one in Superset.
SecondCopyRefused ==
    \A r \in Requests :
        req[r].op = "customize" /\ req[r].had # None =>
            req[r].pc \in {"select", "error"}

\* superset.py 30-39 and 88-93: the id in an answer is, and stays, that of the
\* user's mapping; once a user has been told of its dashboard, a later GET
\* tells the same.
AnswersAgree ==
    \A r \in Requests :
        /\ req[r].got # None => req[r].got = mapping[req[r].user]
        /\ req[r].pc = "ok" /\ req[r].had # None => req[r].got = req[r].had

-----------------------------------------------------------------------------
(* The table as a register of its own: Registry is what it promises.         *)

R == INSTANCE Registry WITH
    Keys <- Users, Values <- Dashboards, Clients <- Requests,
    entry <- mapping, owner <- copy,
    told <- [r \in Requests |->
        IF req[r].pc = "ok" THEN <<req[r].user, req[r].got>> ELSE <<>>]

\* superset.py 30-93, user_dashboard.py 19: whatever requests check, make and
\* write beside each other, and wherever they fail, the table is a register
\* whose first entry stays, and every answer is its entry of that moment.
RegistrySpec == R!RegistrySpec

=============================================================================
