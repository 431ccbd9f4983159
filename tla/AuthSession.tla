---------------------------- MODULE AuthSession ----------------------------
(* Tokens, sessions and one-time codes of app/services/auth/service.py,    *)
(* app/core/security/{jwt,deps}.py and the /token, /refresh and /logout    *)
(* endpoints of app/api/v1/endpoints/auth.py.                              *)
(*                                                                         *)
(* A request is a coroutine: one action per await, so that the Redis and   *)
(* database commands of different requests (of one pod or of several)      *)
(* interleave freely.  Redis keys and token expiries are countdowns of     *)
(* ticks, Sec ticks to a second: a key exists, and a token is valid, while *)
(* its countdown is positive.  Time needs no bound that way.               *)
EXTENDS Integers, FiniteSets

CONSTANTS
    Users,        \* rows of the users table
    Requests,     \* request slots: how many requests can be in flight
    Pairs,        \* slots for issued token pairs (access + refresh)
    Codes,        \* slots for one-time authorization codes
    None,         \* no user, no pair, no code
    CodeTTL,      \* AUTH_CODE_EXPIRE_SECONDS, in ticks
    AccessTTL,    \* JWT_ACCESS_TOKEN_EXPIRE_MINUTES, in ticks
    IdleTTL,      \* SESSION_IDLE_TIMEOUT_MINUTES, in ticks
    RefreshTTL,   \* JWT_REFRESH_TOKEN_EXPIRE_DAYS, in ticks
    Connections,  \* what get_redis() may say on the pods: connected, or not
    RedisFaults   \* whether a Redis command may fail

Sec == 2          \* ticks in a second: half-second resolution

ASSUME NoneAssumption ==
    None \notin Users \cup Requests \cup Pairs \cup Codes

ASSUME TTLAssumption ==
    \A ttl \in {CodeTTL, AccessTTL, IdleTTL, RefreshTTL} :
        ttl \in Nat /\ ttl >= Sec /\ ttl % Sec = 0

ASSUME ConnectionAssumption ==
    Connections \subseteq BOOLEAN /\ RedisFaults \in BOOLEAN

VARIABLES
    frac,     \* position of the clock inside the current second
    account,  \* users.is_active and users.deleted_at
    code,     \* auth_code:{code} in Redis; `used' is history
    session,  \* session:{user_id} in Redis: ticks left
    pair,     \* token pairs; `bl' is bl:{jti} in Redis, `out' is history
    req       \* the requests in flight; `late' is history

vars == <<frac, account, code, session, pair, req>>

-----------------------------------------------------------------------------
(* State.                                                                  *)

Account == {"active", "inactive", "deleted"}

NoPair == [user |-> None, acc |-> 0, ref |-> 0, bl |-> 0,
           issued |-> FALSE, out |-> FALSE]

NoCode == [user |-> None, left |-> 0, used |-> FALSE]

\* `late' records what was already true of a request when it arrived:
\*   "shut"   its user has had no session since
\*   "off"    its user has not been an active account since
\*   "barred" its access token was logged out
\*   "spent"  its one-time code was redeemed
Late == {"shut", "off", "barred", "spent"}

Idle == [op |-> "none", pc |-> "idle", conn |-> FALSE, user |-> None,
         pair |-> None, code |-> None, ttl |-> 0, late |-> {}]

PairState == [user : Users \cup {None}, acc : 0..AccessTTL,
              ref : 0..RefreshTTL, bl : 0..AccessTTL,
              issued : BOOLEAN, out : BOOLEAN]

CodeState == [user : Users \cup {None}, left : 0..CodeTTL, used : BOOLEAN]

Ops == {"none", "exchange", "refresh", "call", "logout"}

Pcs == {"idle", "get_code", "del_code", "load", "activate", "blacklist",
        "exists", "expire", "revoke", "set_bl", "drop", "ok"}

\* `ttl' is the local variable of a logout.
ReqState == [op : Ops, pc : Pcs, conn : BOOLEAN, user : Users \cup {None},
             pair : Pairs \cup {None}, code : Codes \cup {None},
             ttl : 0..AccessTTL, late : SUBSET Late]

\* The six components have their types.
TypeOK ==
    /\ frac \in 0..(Sec - 1)
    /\ account \in [Users -> Account]
    /\ code \in [Codes -> CodeState]
    /\ session \in [Users -> 0..IdleTTL]
    /\ pair \in [Pairs -> PairState]
    /\ req \in [Requests -> ReqState]

Init ==
    /\ frac = 0
    /\ account \in [Users -> {"active", "inactive"}]
    /\ code = [c \in Codes |-> NoCode]
    /\ session = [u \in Users |-> 0]
    /\ pair = [k \in Pairs |-> NoPair]
    /\ req = [r \in Requests |-> Idle]

-----------------------------------------------------------------------------
(* Helpers.                                                                *)

At(r, op, pc) == req[r].op \in op /\ req[r].pc = pc

Goto(r, pc) == req' = [req EXCEPT ![r].pc = pc]

\* A logout goes on with its local variable.
Onward(r, pc, ttl) == req' = [req EXCEPT ![r].pc = pc, ![r].ttl = ttl]

\* 400, 401, 403 or 500: the request is over.
Refuse(r) == req' = [req EXCEPT ![r] = Idle]

GotoIf(r, cond, pc) == IF cond THEN Goto(r, pc) ELSE Refuse(r)

Less(n) == IF n > 0 THEN n - 1 ELSE 0

\* A slot no request refers to.
Unused(field, x) == \A r \in Requests : req[r][field] # x

\* int((exp - now).total_seconds()): the whole seconds left.
WholeSeconds(ticks) == ticks - (ticks % Sec)

\* The mutant of Minted that rounds exp up to the next second.
MintedLong(u, issued) ==
    [user |-> u, acc |-> AccessTTL + frac, ref |-> RefreshTTL + frac,
     bl |-> 0, issued |-> issued, out |-> FALSE]

\* A pair as create_tokens encodes it: PyJWT writes exp in whole seconds, so
\* the part of a second that has gone by is lost.
Minted(u, issued) ==
    [user |-> u, acc |-> AccessTTL - frac, ref |-> RefreshTTL - frac,
     bl |-> 0, issued |-> issued, out |-> FALSE]

\* What is already true of a request of user u when it arrives; a request
\* on a pod without Redis makes no promise about sessions and tokens.
Off(u) == IF account[u] # "active" THEN {"off"} ELSE {}

LateCall(k, conn) ==
    Off(pair[k].user)
        \cup (IF conn /\ session[pair[k].user] = 0 THEN {"shut"} ELSE {})
        \cup (IF conn /\ pair[k].out THEN {"barred"} ELSE {})

\* Bearer token or cookie of a request: any pair a client was given.
Held == {k \in Pairs : pair[k].issued}

\* A request that its first lines refuse changes nothing and is left out.
Arrive(r, op, pc, conn, u, k, c, late) ==
    /\ req[r].pc = "idle"
    /\ req' = [req EXCEPT ![r] =
           [op |-> op, pc |-> pc, conn |-> conn, user |-> u,
            pair |-> k, code |-> c, ttl |-> 0, late |-> late]]

-----------------------------------------------------------------------------
(* POST /auth/token: a one-time code becomes a token pair and a session.   *)

\* Without Redis exchange_auth_code answers None and the endpoint 400.
StartExchange(r, c) ==
    LET u == code[c].user IN
    /\ u # None
    /\ TRUE \in Connections
    /\ Arrive(r, "exchange", "get_code", TRUE, u, None, c,
              Off(u) \cup (IF code[c].used THEN {"spent"} ELSE {}))
    /\ UNCHANGED <<frac, account, code, session, pair>>

GetCode(r) ==
    /\ At(r, {"exchange"}, "get_code")
    /\ GotoIf(r, code[req[r].code].left > 0, "del_code")
    /\ UNCHANGED <<frac, account, code, session, pair>>

\* The mutant of DeleteCode that answers before it deletes.
KeepCode(r) ==
    /\ At(r, {"exchange"}, "del_code")
    /\ code' = [code EXCEPT ![req[r].code].used = TRUE]
    /\ Goto(r, "load")
    /\ UNCHANGED <<frac, account, session, pair>>

\* A second command: another request may have read the key in between.
DeleteCode(r) ==
    /\ At(r, {"exchange"}, "del_code")
    /\ code' = [code EXCEPT ![req[r].code].left = 0,
                            ![req[r].code].used = TRUE]
    /\ Goto(r, "load")
    /\ UNCHANGED <<frac, account, session, pair>>

\* crud_user.get and create_tokens; the pair reaches the client with the
\* response, after activate_session.
LoadExchange(r) ==
    LET u == req[r].user IN
    /\ At(r, {"exchange"}, "load")
    /\ \/ /\ account[u] # "active"
          /\ Refuse(r)
          /\ UNCHANGED pair
       \/ /\ account[u] = "active"
          /\ \E k \in Pairs :
               /\ pair[k] = NoPair
               /\ pair' = [pair EXCEPT ![k] = Minted(u, FALSE)]
               /\ req' = [req EXCEPT ![r].pc = "activate", ![r].pair = k]
    /\ UNCHANGED <<frac, account, code, session>>

\* SET session:{user_id} EX, then the response with the pair.
Activate(r) ==
    LET u == req[r].user IN
    /\ At(r, {"exchange"}, "activate")
    /\ session' = [session EXCEPT ![u] = IdleTTL]
    /\ pair' = [pair EXCEPT ![req[r].pair].issued = TRUE]
    /\ req' = [x \in Requests |->
           [req[x] EXCEPT !.pc = IF x = r THEN "ok" ELSE @,
                          !.late = IF req[x].user = u THEN @ \ {"shut"} ELSE @]]
    /\ UNCHANGED <<frac, account, code>>

-----------------------------------------------------------------------------
(* POST /auth/refresh: no Redis command, so no session and no blacklist.   *)

StartRefresh(r, k) ==
    LET u == pair[k].user IN
    /\ k \in Held
    /\ pair[k].ref > 0
    /\ Arrive(r, "refresh", "load", TRUE, u, None, None, Off(u))
    /\ UNCHANGED <<frac, account, code, session, pair>>

\* The mutant of LoadRefresh that forgets is_active and deleted_at.
LoadRefreshUnchecked(r) ==
    /\ At(r, {"refresh"}, "load")
    /\ \E k \in Pairs :
         /\ pair[k] = NoPair
         /\ pair' = [pair EXCEPT ![k] = Minted(req[r].user, TRUE)]
    /\ Goto(r, "ok")
    /\ UNCHANGED <<frac, account, code, session>>

\* The mutant of LoadRefresh that also sets the session key.
LoadRefreshReviving(r) ==
    LET u == req[r].user IN
    /\ At(r, {"refresh"}, "load")
    /\ account[u] = "active"
    /\ \E k \in Pairs :
         /\ pair[k] = NoPair
         /\ pair' = [pair EXCEPT ![k] = Minted(u, TRUE)]
    /\ session' = [session EXCEPT ![u] = IdleTTL]
    /\ Goto(r, "ok")
    /\ UNCHANGED <<frac, account, code>>

LoadRefresh(r) ==
    LET u == req[r].user IN
    /\ At(r, {"refresh"}, "load")
    /\ \/ /\ account[u] # "active"
          /\ Refuse(r)
          /\ UNCHANGED pair
       \/ /\ account[u] = "active"
          /\ \E k \in Pairs :
               /\ pair[k] = NoPair
               /\ pair' = [pair EXCEPT ![k] = Minted(u, TRUE)]
          /\ Goto(r, "ok")
    /\ UNCHANGED <<frac, account, code, session>>

-----------------------------------------------------------------------------
(* get_current_user and get_current_active_user, before every protected    *)
(* endpoint: "call" stands for any of them, "logout" for POST /auth/logout.*)

\* decode_access_token; without Redis both Redis checks are skipped.
StartCall(r, op, k, conn) ==
    /\ k \in Held
    /\ pair[k].acc > 0
    /\ Arrive(r, op, IF conn THEN "blacklist" ELSE "load", conn,
              pair[k].user, k, None, LateCall(k, conn))
    /\ UNCHANGED <<frac, account, code, session, pair>>

CheckBlacklist(r) ==
    /\ At(r, {"call", "logout"}, "blacklist")
    /\ GotoIf(r, pair[req[r].pair].bl = 0, "exists")
    /\ UNCHANGED <<frac, account, code, session, pair>>

TouchExists(r) ==
    /\ At(r, {"call", "logout"}, "exists")
    /\ GotoIf(r, session[req[r].user] > 0, "expire")
    /\ UNCHANGED <<frac, account, code, session, pair>>

\* The mutant of TouchExpire that sets the key instead of its expiry.
TouchSet(r) ==
    /\ At(r, {"call", "logout"}, "expire")
    /\ session' = [session EXCEPT ![req[r].user] = IdleTTL]
    /\ Goto(r, "load")
    /\ UNCHANGED <<frac, account, code, pair>>

\* EXPIRE does nothing when the key went away since EXISTS; the request goes
\* on either way.
TouchExpire(r) ==
    /\ At(r, {"call", "logout"}, "expire")
    /\ session' = [session EXCEPT ![req[r].user] =
                       IF @ > 0 THEN IdleTTL ELSE 0]
    /\ Goto(r, "load")
    /\ UNCHANGED <<frac, account, code, pair>>

\* crud_user.get finds no deleted user; only protected endpoints other than
\* logout ask for is_active.
LoadUser(r) ==
    LET a == account[req[r].user] IN
    /\ \/ /\ At(r, {"call"}, "load")
          /\ GotoIf(r, a = "active", "ok")
       \/ /\ At(r, {"logout"}, "load")
          /\ GotoIf(r, a # "deleted", "revoke")
    /\ UNCHANGED <<frac, account, code, session, pair>>

-----------------------------------------------------------------------------
(* POST /auth/logout, after get_current_user.                              *)

\* The token is decoded again.  When it has expired meanwhile the exception
\* is swallowed, and without Redis there is nothing to do: 200 either way.
SkipRevoke(r) ==
    /\ At(r, {"logout"}, "revoke")
    /\ pair[req[r].pair].acc = 0 \/ ~req[r].conn
    /\ Goto(r, "ok")
    /\ UNCHANGED <<frac, account, code, session, pair>>

\* The mutant of ReadExpiry that leaves the last second but one out.
ReadExpiryShort(r) ==
    LET ttl == WholeSeconds(Less(pair[req[r].pair].acc)) IN
    /\ At(r, {"logout"}, "revoke")
    /\ pair[req[r].pair].acc > 0 /\ req[r].conn
    /\ \/ /\ ttl > 0
          /\ Onward(r, "set_bl", ttl)
          /\ UNCHANGED pair
       \/ /\ ttl = 0
          /\ Goto(r, "drop")
          /\ pair' = [pair EXCEPT ![req[r].pair].out = TRUE]
    /\ UNCHANGED <<frac, account, code, session>>

\* The clock is read: the token's life left, in whole seconds.  A token
\* without a whole second left is not blacklisted.
ReadExpiry(r) ==
    LET ttl == WholeSeconds(pair[req[r].pair].acc) IN
    /\ At(r, {"logout"}, "revoke")
    /\ pair[req[r].pair].acc > 0 /\ req[r].conn
    /\ \/ /\ ttl > 0
          /\ Onward(r, "set_bl", ttl)
          /\ UNCHANGED pair
       \/ /\ ttl = 0
          /\ Goto(r, "drop")
          /\ pair' = [pair EXCEPT ![req[r].pair].out = TRUE]
    /\ UNCHANGED <<frac, account, code, session>>

\* SET bl:{jti} EX ttl, some time after the clock was read: the key may
\* outlive the token by that time.
Revoke(r) ==
    /\ At(r, {"logout"}, "set_bl")
    /\ pair' = [pair EXCEPT ![req[r].pair].bl = req[r].ttl,
                            ![req[r].pair].out = TRUE]
    /\ Onward(r, "drop", 0)
    /\ UNCHANGED <<frac, account, code, session>>

\* DELETE session:{user_id}: the user's session on every device.
DropSession(r) ==
    /\ At(r, {"logout"}, "drop")
    /\ session' = [session EXCEPT ![req[r].user] = 0]
    /\ Goto(r, "ok")
    /\ UNCHANGED <<frac, account, code, pair>>

-----------------------------------------------------------------------------
(* Failures and the end of a request.                                      *)

\* A token pair that never reached a client is as good as none.
LosePair(r) == IF req[r].pc = "activate"
               THEN [pair EXCEPT ![req[r].pair] = NoPair] ELSE pair

\* The mutant of RedisError in which a logout whose SET failed goes on to
\* DELETE.
RedisErrorGoesOn(r) ==
    /\ RedisFaults
    /\ req[r].conn
    /\ req[r].pc \in {"get_code", "del_code", "activate", "blacklist",
                      "exists", "expire", "set_bl", "drop"}
    /\ \/ /\ req[r].pc \notin {"set_bl", "drop"}
          /\ Refuse(r)
       \/ /\ req[r].pc \in {"set_bl", "drop"}
          /\ Onward(r, IF req[r].pc = "set_bl" THEN "drop" ELSE "ok", 0)
    /\ pair' = LosePair(r)
    /\ UNCHANGED <<frac, account, code, session>>

\* A Redis command raises: 500, except in logout, which swallows it and
\* answers 200 with what was left to do undone.
RedisError(r) ==
    /\ RedisFaults
    /\ req[r].conn
    /\ req[r].pc \in {"get_code", "del_code", "activate", "blacklist",
                      "exists", "expire", "set_bl", "drop"}
    /\ \/ /\ req[r].pc \notin {"set_bl", "drop"}
          /\ Refuse(r)
       \/ /\ req[r].pc \in {"set_bl", "drop"}
          /\ Onward(r, "ok", 0)
    /\ pair' = LosePair(r)
    /\ UNCHANGED <<frac, account, code, session>>

\* The response is out, or the pod goes down with the request half done.
Leave(r) ==
    /\ req[r].pc # "idle"
    /\ pair' = LosePair(r)
    /\ req' = [req EXCEPT ![r] = Idle]
    /\ UNCHANGED <<frac, account, code, session>>

-----------------------------------------------------------------------------
(* The rest of the system.                                                 *)

\* generate_auth_code stores a code for the user of a login.  sso_sync_user
\* found it active some steps earlier, and does not look at deleted_at.
IssueCode(u, c) ==
    /\ code[c].left = 0
    /\ Unused("code", c)
    /\ code' = [code EXCEPT ![c] =
                    [user |-> u, left |-> CodeTTL, used |-> FALSE]]
    /\ UNCHANGED <<frac, account, session, pair, req>>

\* A client drops its tokens (delete_cookie, or it forgets them).
Discard(k) ==
    /\ k \in Held
    /\ Unused("pair", k)
    /\ pair' = [pair EXCEPT ![k] = NoPair]
    /\ UNCHANGED <<frac, account, code, session, req>>

\* An administrator rejects or updates, reinstates, or deletes a user.
SetAccount(u, a) ==
    /\ account[u] # "deleted"
    /\ account[u] # a
    /\ account' = [account EXCEPT ![u] = a]
    /\ req' = [x \in Requests |->
           IF a = "active" /\ req[x].user = u
           THEN [req[x] EXCEPT !.late = @ \ {"off"}] ELSE req[x]]
    /\ UNCHANGED <<frac, code, session, pair>>

\* Half a second passes between two commands.
Tick ==
    /\ frac' = (frac + 1) % Sec
    /\ session' = [u \in Users |-> Less(session[u])]
    /\ code' = [c \in Codes |-> [code[c] EXCEPT !.left = Less(@)]]
    /\ pair' = [k \in Pairs |-> [pair[k] EXCEPT !.acc = Less(@),
                                 !.ref = Less(@), !.bl = Less(@)]]
    /\ UNCHANGED <<account, req>>

RequestStep(r) ==
    \/ \E c \in Codes : StartExchange(r, c)
    \/ GetCode(r) \/ DeleteCode(r) \/ LoadExchange(r) \/ Activate(r)
    \/ \E k \in Pairs : StartRefresh(r, k)
    \/ LoadRefresh(r)
    \/ \E k \in Pairs, op \in {"call", "logout"}, conn \in Connections :
           StartCall(r, op, k, conn)
    \/ CheckBlacklist(r) \/ TouchExists(r) \/ TouchExpire(r) \/ LoadUser(r)
    \/ SkipRevoke(r) \/ ReadExpiry(r) \/ Revoke(r) \/ DropSession(r)
    \/ RedisError(r) \/ Leave(r)

Next ==
    \/ \E r \in Requests : RequestStep(r)
    \/ \E u \in Users, c \in Codes : IssueCode(u, c)
    \/ \E k \in Pairs : Discard(k)
    \/ \E u \in Users, a \in Account : SetAccount(u, a)
    \/ Tick

Spec == Init /\ [][Next]_vars

-----------------------------------------------------------------------------
(* Properties.                                                             *)

\* The steps of a request that lie behind its checks.
Accepted == {"load", "revoke", "set_bl", "drop", "ok"}

\* deps.py 58-61: a request of a pod that has Redis, which arrived when its
\* user had no session (idle for IdleTTL, or logged out on any device) and
\* was not joined by a new login, is refused.  No interleaving of EXISTS and
\* EXPIRE with a logout or an expiry brings a session back.
DeadSessionRefused ==
    \A r \in Requests :
        "shut" \in req[r].late => req[r].pc \notin {"expire"} \cup Accepted

\* deps.py 53, service.py 124-127: a request that arrives with an access
\* token after the logout of that token passes the blacklist only inside the
\* last second of the token, which int() cuts off the key's lifetime.
LoggedOutRefused ==
    [][\A r \in Requests :
         /\ At(r, {"call", "logout"}, "blacklist")
         /\ req'[r].pc = "exists"
         /\ "barred" \in req[r].late
         => pair[req[r].pair].acc < Sec]_vars

\* service.py 118-129, auth.py 244: whatever time lies between the clock
\* reading and the SET, the blacklist covers all but the last second of a
\* token that was logged out, and wherever an error that auth.py swallows
\* cuts a logout short, the user's session is not dropped for a token that
\* would still be good once the user has a session again.
BlacklistCovers ==
    /\ \A k \in Pairs : pair[k].out => pair[k].acc - pair[k].bl < Sec
    /\ \A r \in Requests : req[r].pc = "drop" => pair[req[r].pair].out

\* service.py 84-88: an exchange that arrives after another one has redeemed
\* its code gets no tokens.
SpentCodeRefused ==
    \A r \in Requests :
        "spent" \in req[r].late => req[r].pc = "get_code"

\* auth.py 140 and 192, deps.py 68-84, crud/base.py 57-60: a request that
\* arrived when its user was deactivated or deleted, and who was not
\* reinstated while it ran, gets neither tokens nor an answer; only the
\* logout of a deactivated user goes through.
LockedOutRefused ==
    \A r \in Requests :
        "off" \in req[r].late =>
            /\ req[r].pc # "activate"
            /\ req[r].pc = "ok" => req[r].op = "logout"

\* docs/login_architecture.md 313, docs/03_development/hmg_sso_auth.md 82: a
\* one-time code gives tokens once.  GET and DELETE are two commands, so the
\* code in service.py 84-86 does not keep this.
AuthCodeSingleUse ==
    \A r1, r2 \in Requests :
        /\ r1 # r2
        /\ req[r1].pc \in {"activate", "ok"} /\ req[r1].op = "exchange"
        /\ req[r2].pc \in {"activate", "ok"} /\ req[r2].op = "exchange"
        => req[r1].code # req[r2].code

\* service.py 99-116: a session key appears only when a one-time code is
\* exchanged; every other step can only keep it, extend it or remove it.
SessionOnlyFromLogin ==
    [][\A u \in Users :
         session[u] = 0 /\ session'[u] > 0
         => \E r \in Requests :
                /\ At(r, {"exchange"}, "activate")
                /\ req[r].user = u]_vars

-----------------------------------------------------------------------------
(* Three checks and the rights they ask for.  Revocation is what each of   *)
(* them promises; `late' is what it calls lapsed.                          *)

\* Behind EXISTS, on a pod that has Redis.
PastExists(r) ==
    /\ req[r].op \in {"call", "logout"} /\ req[r].conn
    /\ req[r].pc \in {"expire"} \cup Accepted

\* Behind the SELECT of the user and what is asked of the row.
PastRow(r) == req[r].op # "logout" /\ req[r].pc \in {"activate", "ok"}

\* Behind the GET of the code.
PastGet(r) == req[r].code # None /\ req[r].pc # "get_code"

Sessions == INSTANCE Revocation WITH
    Rights <- Users,
    valid <- {u \in Users : session[u] > 0},
    needs <- [r \in Requests |->
        IF req[r].op \in {"call", "logout"} /\ req[r].conn THEN req[r].user
        ELSE None],
    lapsed <- {r \in Requests : "shut" \in req[r].late},
    honoured <- {r \in Requests : PastExists(r)}

Accounts == INSTANCE Revocation WITH
    Rights <- Users,
    valid <- {u \in Users : account[u] = "active"},
    needs <- [r \in Requests |->
        IF req[r].op \in {"exchange", "refresh", "call"} THEN req[r].user
        ELSE None],
    lapsed <- {r \in Requests :
        req[r].op # "logout" /\ "off" \in req[r].late},
    honoured <- {r \in Requests : PastRow(r)}

Unspent == INSTANCE Revocation WITH
    Rights <- Codes,
    valid <- {c \in Codes : ~code[c].used},
    needs <- [r \in Requests |-> req[r].code],
    lapsed <- {r \in Requests : "spent" \in req[r].late},
    honoured <- {r \in Requests : PastGet(r)}

\* deps.py 51-84, auth.py 140 and 192, service.py 84-88: a call goes on only
\* if its user had a session, and a request is served only if its account was
\* active, at some moment since the request came in; the same for an exchange
\* and its code, which no exchange had redeemed then.
RevocationSpec ==
    /\ Sessions!RevocationSpec
    /\ Accounts!RevocationSpec
    /\ Unspent!RevocationSpec

=============================================================================
