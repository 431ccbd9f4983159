# Formal model of the FastAPI boilerplate

TLA+ modules, TLC configurations and TLAPS proofs for the concurrent core of
`src/app`: sessions and tokens, the SSO login, users and departments with their
audit trail, the rate limiter, the personal Superset dashboards, the notification
streams with the Redis pool under them, and the listings. The models follow the
code await by await; what they leave out is said at the end.

Everything that runs concurrently here is a *request*: a coroutine of one of
several pods (uvicorn processes) that share one PostgreSQL database and one
Redis. A request loses control at every `await`, so between two commands to
Redis, to the database or to another service any other request may take any
number of steps. Hence the shape of all modules: **one slot per request in
flight, one action per await**, with the code between two awaits in one action.

## 1. The system

### Components, their state and their operations

| Component | Source | State | Operations |
|---|---|---|---|
| Sessions and tokens | `services/auth/service.py`, `core/security/{jwt,deps}.py`, `endpoints/auth.py` | Redis `auth_code:{code}`, `session:{user_id}`, `bl:{jti}`; JWT pairs in cookies | exchange a code, refresh, any authenticated request, logout |
| SSO login | `endpoints/auth.py`, `services/auth/oidc/*`, `services/auth/service.py` | Redis `sso_state:{state}`; rows of `users` | login URL with health check and one retry, callback, user synchronisation, code |
| Users, roles, departments | `services/user.py`, `services/user_group.py`, `crud/*`, `endpoints/{users,user_groups}.py` | tables `users`, `user_groups` | approve, reject, update, delete, request permission; create, update, delete a group; bulk synchronisation of members |
| Audit trail | `core/audit.py`, `models/{audit_log,base}.py` | table `audit_logs` | a `before_flush` hook of every session |
| Rate limiter | `utils/rate_limit.py` | Redis sorted set `rl:{ip}` | one MULTI pipeline per request |
| Superset dashboards | `endpoints/superset.py`, `services/superset.py`, `models/user_dashboard.py` | table `user_dashboards`; copies inside Superset | get, customize |
| Notifications | `endpoints/notifications.py`, `services/notification/{sse,factory}.py` | Redis publish/subscribe, nothing stored | stream, send |
| Redis pool | `core/redis.py` | one global client per pod, 20 connections | init, close, `get_redis` |
| Job queue and worker | `core/arq.py`, `core/worker.py` | a lazily made global pool | enqueue (called by nothing), a sample task |
| Response cache | `utils/cache.py` | Redis `{prefix}:{path}:{hash}` | a decorator (used by nothing) |
| Listings | `crud/base.py`, `crud/user.py`, `schemas/base.py` | none | count, page |
| Probes, logging, exception handlers, HMG cryptography, configuration, mock identity provider | `main.py`, `utils/*`, `services/auth/sso/*`, `core/config.py`, `tests/mock_sso` | none | |

### How they interact

* A browser asks for the **login** URL. The pod checks the identity provider,
  stores `sso_state:{state}` in Redis and answers with the URL. The browser
  comes back to the **callback** with a state and a code of the identity
  provider; the callback takes the state out of Redis, exchanges the code,
  writes the row of **users** (reading **user_groups** for the whitelist),
  stores a one-time code in Redis and redirects. `get_db` commits after the
  endpoint has returned, *after* the one-time code was stored.
* The frontend **exchanges** the one-time code for a token pair and the key
  `session:{user_id}`. Every later request passes the blacklist, the session
  key (`EXISTS`, then `EXPIRE`) and the row of its user, each with an await of
  its own. **Refresh** looks only at the refresh token and the row.
* Administrators write rows of **users**; a change of a department's
  `whitelisted` runs a bulk UPDATE over its members. Logins write the same rows.
* The **audit** hook runs inside the flush of each of these transactions.
* The **rate limiter** is in front of every request. Without Redis, or when its
  pipeline fails, it lets the request pass.
* A **notification stream** keeps one of the 20 Redis connections of its pod for as
  long as it lasts; every other Redis command of the pod, the rate limiter's and the
  session's included, needs one of the same 20 for a moment, and raises when there
  is none. `send` publishes from any pod; Redis passes a message on to whoever is
  subscribed then, and forgets it.
* A pod whose Redis does not answer at its start has none for the rest of its
  life (`core/redis.py:38`): such a pod checks neither blacklist nor session.

### What is hard here

1. *Read, await, write.* Every check of the code is a read whose value is used
   after an await: codes and states (GET, then DELETE), sessions (EXISTS, then
   EXPIRE), roles (SELECT, then UPDATE), the whitelist (SELECT, then INSERT or
   UPDATE), the dashboard mapping (SELECT, three HTTP calls, INSERT).
2. *READ COMMITTED with an identity map.* An object is as it was loaded; a
   second SELECT of the same row does not refresh it; a flush writes the columns
   that differ from the *loaded* object, whatever is in the row by now.
3. *Effects that are not rolled back.* Redis keys and Superset copies outlive
   the database transaction of the request that made them.
4. *Swallowed errors.* The callback, the logout and the rate limiter go on
   after an exception, with whatever was done before it.
5. *Time.* Keys expire between two commands; expiries are whole seconds; the
   rate limiter reads its clock before its pipeline runs, and a logout before its
   `SET`; `now()` in PostgreSQL is the moment at which the transaction *began*, so
   no timestamp says in which order rows were written.
6. *Delivery without storage.* A message published before a subscription is in force,
   or while its connection is lost, is gone, and nobody is told; and a connection
   whose peer has gone silent is never found out, since nothing sets a socket timeout.
7. *Several reads for one answer.* A listing is two SELECTs of two moments, and a walk
   through its pages is one request after the other.

### What makes each component correct

* Sessions: nobody gets in without a session, with a logged-out token, with a
  spent code or with an account that is locked; only a login starts a session.
* SSO login: a code that a browser holds belongs to a committed, active user; a
  state is used once; a callback ends.
* Users: only those who may appoint do; a decision of an administrator is not
  undone by a stale write; membership of the whitelist decides what a login gets.
* Audit trail: the record of a row's last UPDATE tells what is in the row, and no old
  value in the trail comes from nowhere.
* Rate limiter: no more than the limit in a window, and no refusal without cause.
* Dashboards: one mapping per user, and every answer agrees with it.
* Notifications: a stream tells an unbroken stretch of its own user's messages; what
  is published while it listens arrives, or the stream ends, or its connection has
  gone silent; it ends when its browser has left.
* Redis pool: no more connections than it has, and a stream gives its own back.
* Listings: a walk through the pages misses only after a deletion and repeats only
  after an insertion; `pages` is the number of the last page that has rows.

## 2. The modules

| Module | Models | Proofs |
|---|---|---|
| `AuthSession` | sessions, tokens, codes, blacklist | `AuthSessionProofs` |
| `Directory` | users, departments, roles | `DirectoryProofs` |
| `AuditTrail` | the hook, composed with `Directory` | `AuditTrailProofs` |
| `SsoLogin` | login URL and callback | `SsoLoginProofs` |
| `RateLimit` | the sliding window of one client | `RateLimitProofs` |
| `Dashboards` | personal dashboards | `DashboardsProofs` |
| `Revocation` | what a check promises about a right that can be taken away (abstract) | |
| `Registry` | what the table of dashboards promises (abstract) | |
| `Feed` | what the notification streams promise (abstract) | |
| `Notifications` | streams, `send` and the Redis pool; implements `Feed` | `NotificationsProofs` |
| `Listing` | pages of users and departments | `ListingProofs` |

`MC*.tla` hold the definitions the `.cfg` files refer to. Properties stand at the
end of each module, and beside some definitions stands a mutant of it, a
plausible bug that breaks one of the properties: no specification uses a mutant.

**Revocation** is an abstract specification of a check, without the awaits it is made
of: rights are granted and revoked at any time, a request names the right it needs when
it arrives, and is honoured only if that right has been in force at some moment since.
Seven checks of three modules implement it, each with a refinement mapping of its own:

| Module | Instance | Right | The check |
|---|---|---|---|
| `AuthSession` | `Sessions` | a session of the user | `EXISTS`, `EXPIRE` and what follows, on a pod with Redis (`deps.py` 58-61) |
| | `Accounts` | an active account | the SELECT of exchange, refresh and call (`auth.py` 140 and 192, `deps.py` 68-84) |
| | `Unspent` | a code nobody has redeemed | the GET of the exchange (`service.py` 84) |
| `SsoLogin` | `Accounts` | an active account | `is_active` after the flush (`service.py` 67) |
| | `Fresh` | a state nobody has used | the GET of the callback (`auth.py` 93) |
| `Directory` | `Callers` | an operation together with someone allowed to call it | the role check (`deps.py` 63-103) |
| | `Departments` | a department on the whitelist | the SELECT of a login (`service.py` 34-38) |

The mapping sends what a module keeps as `late` to `lapsed`. So the refinement also
says that `late`, which is history and no state of the program, means what its comment
claims: in `Revocation` a request lapses when it arrives without its right, and stops
being lapsed at the moment the right is granted and at no other.

**Registry** is a table with one entry per key, whose entries are made first and entered
later, by clients who may never hear of it: the first entry stays, and an answer is the
entry of its moment. `Dashboards` implements it with `mapping` as the entries, `copy`
as their owners, and the answers of the requests that stand at `ok`.

**AuthSession.** `code`, `session` and `pair[k].bl` are the Redis keys, `pair[k].acc`
and `.ref` the lives of the two tokens, `account` is the row of the user, `req` the
requests. The program counter of a request names the await it stands before:
`blacklist`, `exists`, `expire`, `load` for `get_current_user`; `get_code`, `del_code`,
`load`, `activate` for the exchange; `set_bl`, `drop` for the logout, and `revoke` the
reading of the clock before them: `ReadExpiry` computes the local variable `ttl`,
`Revoke` is the `SET` that uses it some time later. Keys and tokens are countdowns of
half-second ticks, so time needs no bound, and what `int()` and PyJWT cut off an expiry
(`WholeSeconds`, `Minted`) is visible. `conn` says whether the pod of a request has
Redis. `late` is history: what was already true when the request arrived, and has been
true since.

**Directory.** `user` and `group` are the committed rows, `utx` and `gtx` the
transactions. `seen` is the row as loaded, `want` what the request sets, and `Column`
what a flush writes of it. `key` is what a login is looked up under: `department_code or
department`, so a user without a code is lifted by a listed department's code that its
claims carry as a name, while the row's `dept` stays empty and no bulk UPDATE ever finds
it (`GroupKey`). A transaction on one row flushes and commits in one action, since
nobody sees the row in between. A bulk UPDATE takes its snapshot (`Sync`), waits for the
locks and looks at each row again (`Lock`), and holds the rows until `CommitGroup`.

**AuditTrail** extends Directory. Each action of Directory appears in `AuditNext`
with what the hook and the clock do in it. `audit_logs` is a *set* of records: the
table keeps no order. `began` is the reading of `now()` of each transaction in flight,
taken by its first statement (`Begins`, `GroupBegins`); a flush stamps its record
(`at`, the `created_at`) and its row (`updated_at`) with that reading, and so does the
bulk UPDATE its rows, without a record (`Bypasses`). `Flushes` makes the record
out of `seen` and `want`: of an UPDATE the columns whose history has changes, with
both values; of an INSERT every column, with `target` None, since the id is only made
inside the flush, so that its user is known by `employee_id` in the data. A reading is
one of `Moments`, a new one for each transaction; readings are compared for being the
same and never for which is earlier. That no two transactions begin in the same
microsecond is an abstraction. `start` is history.

**SsoLogin.** `login` holds the calls of the login endpoint with their state keys,
`cb` the callbacks, `user` the committed rows. `pend` is the uncommitted write of a
callback, `broken` a session whose flush failed, `code` the one-time code in
Redis, `out` the answer.

**RateLimit.** `log` is the sorted set, each member kept as its age in ticks, `ttl`
the expiry of its key. `ReadClock` and `Pipeline` are two steps, so pipelines reach
Redis in another order than the clock was read. `dispatch` takes an exception of the
endpoint for one of Redis: `EndpointRaises` sends the request through the endpoint
again, where no exception is caught any more.

**Dashboards.** `mapping` is `user_dashboards`, `copy` what Superset has. A request
goes through `select`, `token`, `fetch`, `post` and `commit`; a POST may create the
copy and lose its answer, a COMMIT may succeed and lose its answer.

**Feed** is an abstract specification without Redis, pods or connections: `published`
counts the messages of each user, `joined` says whom a stream listens to and since
which message, `heard` what it has been told. `Hear` can only tell the next one.

**Notifications.** `client` is `_redis_pool` of each pod, set once by `init_redis`;
`stream` holds the `GET /stream` requests with the connection they keep (`conn`:
live, broken so that the next read raises, mute so that no read ever tells, closed by
the library but not given back),
`call` the short commands in flight, PUBLISH among them, and `queue` what Redis has
passed on and a stream has not read. `subscribe` is the steps `Subscribe` (the command
is sent), `InForce` (Redis runs it), `Deliver` or `StreamFails` in the loop, `Cancel`
when the browser has left, and `Unsubscribe` and `Close`, the two lines of the
`finally` block: when the first raises the second is not reached. `broke` is history.
The refinement mapping is the identity on `published`, `joined` and `heard`, which
are history there: everything else, breaking connections and dying pods included, must
be a stutter of `Feed`.

**Listing.** `table` holds the rows with their `created_at`, the moment the inserting
transaction *began* (`Begin`), so that `Insert` may commit a row below older ones.
That no two stamps are equal is an abstraction: no transaction of the program inserts
two rows, and the clock of PostgreSQL counts microseconds. `reader` walks through the
pages, each with a `Count` and a `Select`; `answer` is the last page it was told;
`seen`, `stayed`, `came` and `went` are the history of the walk.

## 3. The runs

| Run | Question | Distinct states |
|---|---|---|
| `auth_session` | do interleavings, expiries, pods without Redis and failing commands revive a session, a token, a code or an account? | 5.1 million |
| `directory` | who gains or loses a role when a login or an administrator runs beside a change of the department, and do the rows a bulk UPDATE holds match its WHERE, and do role check and whitelist keep `Revocation`? | 789 thousand |
| `directory_users` | two transactions with stale objects: does anybody become an administrator, is a rejection undone, does a demoted administrator get further? | 5.7 million |
| `audit_trail` | two transactions on one row and the bulk UPDATE, begun and committed in any order: which record tells what is in the row, and has the trail a gap? | 1.2 million |
| `sso_login` | everything fails anywhere: what does a code guarantee, and does every callback end, and do state and account keep `Revocation`? | 123 thousand |
| `rate_limit` | pipelines out of order: how many readings pass in a window, and is every refusal caused? | 124 thousand |
| `dashboards` | three requests and lost answers: which mapping stays, which id is told, and is the table a `Registry`? | 45 thousand |
| `notifications` | Redis, connections, pods and browsers come and go: is what a stream tells unbroken, does it tell everything or end, does the pool last? | 379 thousand |
| `listing` | rows come and go under a walk through the pages: what can it miss or repeat? | 247 thousand |

All of these hold. The remaining three runs each check one sentence of the
documentation that the code does not keep:

| Run | The sentence | What happens |
|---|---|---|
| `auth_code_single_use` | the code is "1회용", for one use (`docs/login_architecture.md:313`) | two exchanges both read the code before either deletes it; both get a token pair |
| `login_follows_whitelist` | a department's place on the whitelist gives the role (`docs/login_architecture.md:542`), and members follow when it changes (`services/user_group.py:5`) | a login reads that its department is listed; the department is taken off and the bulk UPDATE commits, finding nobody to demote; the login then makes its user a USER, who stays one until somebody acts again |
| `sso_failure_redirects` | a failed login redirects with an error code (`docs/03_development/hmg_sso_auth.md:16`) | of two first logins of one employee the second breaks the unique key; the exception is swallowed, the commit of the failed session raises, and the browser gets a 500 |

A fourth disagreement needs no violation: `AdminsNeverGrow` *holds*, which says that
nobody ever becomes an administrator. `tests/test_users.py:73-84` has an ADMIN make
another user ADMIN (with a PATCH of `/users/{id}`, a path that takes none any more);
`endpoints/users.py:161`, `services/user.py:72` and `main.py:101` say that a SUPERADMIN
may appoint, and `docs/login_architecture.md:259` that a SUPERADMIN may call
everything. The endpoint lets in callers whose role is ADMIN (`endpoints/users.py:167`),
and the service then asks for SUPERADMIN (`services/user.py:87`): no request passes both.

What holds is often weaker than the documentation, and the properties say exactly
how weak. A spent code is refused to exchanges that *arrive after* the DELETE
(`SpentCodeRefused`). A logged-out token gets in during its last second, because
the key lives for whole seconds (`LoggedOutRefused`, `BlacklistCovers`); the key may
outlive the token, by the time between the reading of the clock and the `SET`; and a
logout whose Redis command fails answers 200 with the rest undone, of which only this
is certain, that it never drops a session and leaves the token good (`BlacklistCovers`).
A window can let through the limit in any stretch shorter than it *by the lag* between
clock and pipeline (`AdmittedBound`); requests that pass because Redis failed are not
counted in it. A row of `users` is told by the record whose `created_at` is the row's
`updated_at` (`TrailTellsRow`), which need not be the newest: a transaction that began
first and committed last leaves the trail's newest record telling what is in the row no
more. A bulk UPDATE leaves no record at all, so roles have gaps and the other columns
none (`OldValueWasTold`). A stream may tell nothing from some point on, but then it ends,
unless its connection has gone mute: then it sends heartbeats, and the browser cannot
tell (`MessageIsTold`). The pool loses a connection only to a stream whose connection
had been lost (`SlotLostForCause`), not to browsers that come and go.

### Bounds, and why they are enough

* `auth_session`: one user, two requests, two pairs, one code. Every property is
  about one request against what at most one other can do to its key, row or token
  between two awaits; users share no keys. The lives are one second (two ticks) and
  two for the refresh token, so each key can expire between any two commands, a `SET`
  can come when its token is over, and a refresh token can outlive session and access
  token. An access token of two seconds would let `int()` cut a second off a life of
  more than one; that takes several times the states, and is left to the proof. Two pairs
  let one be logged out while the other is in use.
* `directory`, `directory_users`: two users (one may act on itself or on the other).
  In `directory` a transaction on a row runs beside one on its department; in
  `directory_users` two transactions on rows run beside each other and the
  departments stand still. Every property compares one transaction with what at most
  one other did meanwhile; the proofs have neither bound. Two transactions on one
  department beside each other are beyond a run: what they do to each other, an update
  that sets nothing and synchronises by the other one's status, is only in the proofs.
* `audit_trail`: one user, at the start an administrator of the one department or not
  there yet; two transactions on its row, one group transaction, at most `MaxRecords` = 2
  records (a guard of `Flushes`). Two records are what the chain property compares; the
  trail of another user is independent. `Moments` has six readings, which is every one
  that two records, a row and three transactions can hold, so no step waits for one.
  Only which readings are the same matters, so the `VIEW` looks at a state without
  their names: for each reading what carries it, from which the state can be put
  together again but for the names. The proof has none of these bounds.
* `sso_login`: one employee, so that two callbacks want the same row, and two
  states. `Reuse` makes a finished login call available again, so the number of
  logins is not bounded.
* `rate_limit`: three requests, limit two, a window of five ticks, a lag of up to
  two. The lag must be shorter than the window (`WindowAssumption`); ages stop at
  `Window + Lag`, where no request can tell them apart any more.
* `dashboards`: two users, three requests, four copies: two requests of one user
  can race, retry after a lost answer, and race again.
* `notifications`: a pod with two connections, two streams and one short command, so
  that streams can use the pool up, or leave no room for a command; two messages to one
  user and one to another (`MaxPublished`), so that a message can be told, one left over
  and one another's. Each connection can be lost either way, by itself or with Redis,
  and a mute one may be reset later or never. Each stream slot is used once. One pod: a
  pod's pool is its own, and a message has the same way through Redis from whichever pod
  it comes; the proof is for any number of pods, streams and messages.
* `listing`: five rows and pages of two: a walk has up to three pages, and a row can be
  deleted behind it while another is inserted ahead of it. Each row is inserted at
  most once; the proof is for any finite set of rows and any size of a page.

Symmetry is used for sets of model values which the specifications treat alike,
and never with a liveness property.

### Fairness

`SsoLogin` has the liveness property `EveryCallbackEnds`, under `FairSpec`: weak
fairness of each callback's next step and strong fairness of `Flush`. A coroutine
that is ready is run again by the event loop, and its awaits come back: the call to
the identity provider has a timeout, Redis and the database answer or break the
connection. `Flush` is enabled only while no other transaction holds the row;
PostgreSQL queues those who wait, so one that waits again and again gets its turn.

`Notifications` has `MessageIsTold` and `LeftStreamEnds`, under weak fairness of
`Obliged(s)`, what the task of stream `s` does by itself once it is subscribed or told to
stop: deliver, fail, be cancelled, unsubscribe, close. The event loop runs it, a
browser that stays reads what it is sent, and `get_message` has a timeout of 15
seconds after which it looks again. On a *broken* connection it then raises. On a *mute*
one, whose peer is gone without a FIN or RST, it times out again and the loop sends a
heartbeat (`sse.py:75-82`), for ever: `redis.py:28-32` sets no socket timeout, keepalive or
health check. So `Obliged` leaves `Deliver` on a mute connection out, `SilenceBreaks` is not
fair, and `MessageIsTold` has its third case. A browser that leaves is another matter:
the cancellation cuts the wait, and `unsubscribe` waits for no answer, so `LeftStreamEnds`
holds of mute connections as well. That publishing is bounded takes nothing away:
every message still has to arrive.

No fairness is assumed of arrivals, browsers, callers, failures or recoveries of
Redis, pods, administrators or the clock.

## 4. The proofs

`TLAPS` proves the following for every value of the constants that satisfies the
assumptions named below.

**AuthSession** (assumptions `NoneAssumption`, `TTLAssumption`: lives are whole
seconds and at least one, `ConnectionAssumption`). All seven properties of the run
`auth_session`. `DeadSessionRefused`, for instance, is not inductive: a request that
is marked `shut` must never stand before `EXPIRE`, which holds because it stood
before `EXISTS` when there was no session, and because every step that creates the
session takes the mark away. `Inductive` therefore joins to the types: what each
program counter implies for user, pair and code (`Bound`), that a pair on its way
to a client belongs to one request (`PairsOnTheWay`, `Owned`), and for each mark
where its bearer may stand and what is true of session, account, blacklist or code
meanwhile (`ShutOut`, `SwitchedOff`, `Barred`, `Spent`). `BlacklistCovers` needs to know
of a logout before its `SET` that the `ttl` in its hands still covers its token, which
has only become older since the clock was read, and of one before its `DELETE` that its
token is out (`InOrder`).

`ChecksSeeRevocations`, in this module and in the next two that have it, proves that the
checks implement `Revocation`. All three proofs go the same way. What a step does to a
request is one of four shapes: it is over (with others, in `Quiet`), it keeps its marks
and passes no check (`Keeps`, `Waits`), it passes its check and nothing else happens, or
it comes (`StepShapes`, one case per action). `LapsedTruth` and `LateTruthAfter` say,
from the inductive invariant, that a marked request has not passed its check and that
its right is not in force; so a step that grants the right must have taken the mark
away. The first two shapes are then a `Change` of `Revocation`, the third an `Honour`,
the fourth an `Arrive` (`SessionsStep`, `AccountsStep` and so on). The invariants had to
be made stronger for it: a mark `shut` is only ever on a pod with Redis, a mark `spent`
only while the code is used, and a callback that has stored its code is not marked
`off`. In `AuthSession` the refinement is not a property of the run: three
mappings over its 41 million steps cost more than the run may take. With a refresh
token of one second instead of two and everything else as in the run, 2.8 million
states, TLC agrees.

**Directory** (`NoneAssumption`, `PatchAssumption`, `SeedAssumption`). All its
properties. `Inductive` says of each transaction that it is `Sound`: it was let in
as ADMIN, it asks what its operation asks, it has passed the service's checks, an
administrator's row still has the role that was loaded, and `late` tells the truth;
and that rows held by a bulk UPDATE match. `AdminsNeverGrow` and
`AdminsFallWithTheirGroup` need the fourth part: a login or an approval writes a role
only if it differs from the loaded one, and it must not have been loaded before
its target became what it is. `ChecksSeeRevocations` as above, for the role check and
for the whitelist.

**AuditTrail** (also `KeepAssumption`: no department is called like the mark for a
column that is not set; `MomentAssumption`, `SlotAssumption`: None is no reading of the
clock, and no slot is of both kinds; `MaxRecordsAssumption`). `AuditImplementsDirectory`:
the hook is no more than an observer, so every theorem about Directory holds with it.
`AuditInductive` adds three things to the invariant of Directory. A transaction that has
used the database has a reading of the clock (`Dated`), which no row, no record and no
other transaction has (`Unlike`); so a flush cannot give its row the stamp of somebody
else's record, and a bulk UPDATE gives it a stamp without a record: that keeps
`TrailTellsRow`. And every column but the role of the object which a transaction has in
hand was told (`SeenTold`): it was when the object was loaded, because the row was, which
is one half of `OldValueWasTold`; no step takes a record away; and what a flush writes
into the row it tells. The old value of a new record is that object's, and a record does
not need itself to have its old value told, because its new value differs.

**Dashboards** (`NoneAssumption`). All its properties, from `Inductive`: the tables
only grow (`Grown`), and what a request has seen or made of its user's row stays
true in grown tables. `TableIsRegistry`: the detailed specification implements
`Registry`. A POST is `Make` whether or not its answer arrives, a COMMIT is `Enter`
whether or not its answer arrives, and the loser of a race is a stutter.

**SsoLogin** (`NoneAssumption`, for `ChecksSeeRevocations` only). All its safety
properties. `Inductive` says of each callback that it is `Sound` (its login is out; an
open write is what the row is not yet, or already is; what made it late is still true,
and known to it before it flushes), that no two open transactions have written one
row (`Exclusive`), and that a used state has no key (`Logins`). `ChecksSeeRevocations` as
above, for account and state; it implies `DeactivatedGetsNoCode` and that no code is stored
for such a user either. `StepOfOne` carries all
of it over a step of one callback, so that each action needs one look at one slot.

**RateLimit** (`WindowAssumption`). `TypeOK`, `AdmittedBound` and `RefusedForCause`, for
any limit, window and lag. `AdmittedBound` is not inductive: it needs `Kept`, that a
reading which was let through and is younger than the window is still a member of the
sorted set, because nothing prunes it and the key outlives it. Whichever reading of a
stretch is let through last is therefore counted together with all the others.

**Notifications** (`PoolAssumption`, `NoneAssumption`, `FiniteAssumption`).
`StreamsAreFeeds`: the specification implements `FeedSpec`; `StreamsAreGapless`: what a
stream was told has no gaps, on connections that break or go mute alike. Both rest on
`Unbroken`: what was told and what is on its way are consecutive messages of the
stream's user from its subscription on, and while the subscription is in force they
reach to the newest. That is what a stream which went on after an error would break.
`Fits` says what a request's connection may be at each point, which gives
`SlotsLostForCause`. That no pool is overdrawn is a count of finite sets: a step takes
at most one connection, and only a free one.

**Listing** (`SizeAssumption`, `FiniteAssumption`). All its properties. The ranks of the
live rows are exactly the numbers below their count, which gives `PagesCover` and the
size of a page. `Inductive` says how far a walk has come: without an insertion what it
has told lies behind its next offset, without a deletion what it has not told lies
ahead, since ranks only fall, or only rise.

What stays with TLC is liveness (`EveryCallbackEnds`, `MessageIsTold`,
`LeftStreamEnds`), which is out of the prover's reach, and the three runs that end in a
violation.

## 5. What the models do not say

* *Divergences noticed and not made into a run.* A refresh has no Redis command, so
  it does not reset the idle timeout of the session, which
  `docs/login_architecture.md:466` draws. The README promises a diff of every change
  of every table; the trail does not tell the bulk UPDATE, soft deletes,
  `user_groups`, nor the id of a new user (the default of the column is applied
  in the flush, after the hook has looked, so its `target_id` is "None"; the comment at
  `audit.py:110` says the id is there). Read in the order of `created_at` the trail may
  contradict itself and the row, since that is when a transaction began.
  `logout` answers 200 after a Redis error it has swallowed (`auth.py:244`).
  The whitelist is asked for `department_code or department` (`service.py:32`), the bulk
  UPDATE for `department_code` only (`user_group.py:103`). The documents give `sso_state`
  300 seconds and the code 600. `/healthz/ready` answers 200 when it says "unready".
  `custom-1-{template}` is the slug for every user. A user in PERMISSION_REQUIRED is
  to ask for permission (`endpoints/users.py:41`), and `get_current_active_user`
  refuses exactly that role (`deps.py:79`). The `finally` block of a stream is said to
  return its resources (`docs/03_development/utils_report.md:130`); when `unsubscribe`
  raises, `close` is skipped and the connection is lost to the pool. A pool that is
  used up turns the rate limit off, since `dispatch` takes every exception for
  a failing Redis; it also takes the endpoint's own exceptions for one and calls the
  endpoint again (`EndpointRaises`). A stream whose connection has gone mute keeps
  sending heartbeats, which `sse.py:81` means to keep the connection to the browser
  alive. `GET /user-groups/{id}/users` can never answer what
  `endpoints/user_groups.py:42` promises: `services/user_group.py:51` builds a
  `PaginatedResponse` without its required `data` and `meta`. `crud/user.py:81` takes a
  page of a SELECT without ORDER BY. A client that trusts `meta.pages` may stop too
  early when a row is inserted between count and page; `PagesCoverRows` holds only
  when nothing is committed in between.
* *Not modelled.* The job queue: `core/arq.py` makes its pool on first use, and nothing
  enqueues. The response cache: no function is decorated with `@cached`. The answers of
  the probes, configuration, the mock identity provider, logging and exception
  handlers: no state. Signatures, encryption, JSON and wording are left out: a step
  that needs them succeeds or fails. The identity provider, Superset, PostgreSQL and
  Redis are external and modelled by how the code uses them: single-command atomicity,
  MULTI, publish and subscribe, key expiry, READ COMMITTED, unique keys and row locks.
  The pool of database connections, which a request keeps while it waits for Superset,
  has no module. `SupersetService.sync_user`, the e-mail, SMS and push providers and
  `utils/sse.py` are called by nothing. Of the listings, `get_paginated_by_dept` (above)
  and the two lists by role, one SELECT each, are left out; of the audit trail, the
  hook on `user_dashboards`, whose one record has no id.
* *The join of the modules.* `SsoLogin`, `AuthSession` and `Directory` share the
  table of users and the one-time codes. Each is closed by the most general
  behaviour of the others: `AuthSession` lets accounts change at any time
  (`SetAccount`) and codes appear at any time (`IssueCode`), `SsoLogin` lets an
  administrator act at any time (`SetActive`). That covers every joint behaviour
  seen from one of them, and says nothing about a property across them.

## 6. The plan

Done: the six modules of the core with all their safety properties proved,
`Notifications` with its pool and its refinement of `Feed`, `Listing`, and the
refinements of `Revocation` and `Registry`. Left:

1. *Two changes of one department beside each other.* `Directory` allows them and the
   proofs cover them; a run with two group transactions needs a smaller instance of the
   rest, and would show whether an update that set nothing synchronises by a status which
   the row no longer has (`user_group.py:80`).
2. *Abstract specifications.* What the limiter promises (a window over true times) and
   what a directory promises (serial decisions), each with a refinement mapping from the
   detailed module, as a property of a run and as a theorem.
3. *Composition.* Login, exchange and session in one module over one table of users:
   a deactivation that arrives anywhere between the callback and the first request.
   And the pool beside them: what a request does when its `EXISTS` finds no connection.
4. *The database pool.* Requests that keep a connection during calls to Superset, and
   those who wait for one.
