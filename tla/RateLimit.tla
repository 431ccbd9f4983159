----------------------------- MODULE RateLimit -----------------------------
(* The sliding window of app/utils/rate_limit.py for one client address: a  *)
(* sorted set rl:{ip} in Redis that every request of the client, on any     *)
(* pod, prunes, extends and counts in one MULTI pipeline.                   *)
(*                                                                          *)
(* The clock is read before the pipeline runs, so pipelines run out of the  *)
(* order of their readings.  A reading is kept as its age in ticks; a tick  *)
(* is the resolution of time.time(), and two requests with one reading are  *)
(* one member of the sorted set.                                            *)
EXTENDS Integers, FiniteSets

CONSTANTS
    Requests,    \* slots for requests in flight
    Window,      \* RATE_LIMIT_WINDOW_SECONDS, in ticks
    Limit,       \* RATE_LIMIT_MAX_REQUESTS
    Slack,       \* the extra second of the key's expiry, in ticks
    Lag,         \* ticks that may pass between reading and pipeline
    RedisFaults  \* whether the pipeline may fail, or a pod have no Redis

ASSUME WindowAssumption ==
    /\ Window \in Nat /\ Limit \in Nat /\ Slack \in Nat /\ Lag \in Nat
    /\ Slack > 0
    /\ Lag < Window

ASSUME FaultAssumption == RedisFaults \in BOOLEAN

VARIABLES
    log,     \* rl:{ip}: the ages of its members
    ttl,     \* what is left until the key expires
    req,     \* the requests in flight
    passed,  \* history: the readings that were let through, by age
    heard    \* history: all readings that reached Redis, by age

vars == <<log, ttl, req, passed, heard>>

-----------------------------------------------------------------------------
(* State.                                                                    *)

\* From this age on a member is outside the window of every request that may
\* still come; older ones need not be told apart.
Stale == Window + Lag

\* "serve": in the endpoint, within the try; "again": in it without a limit.
Request ==
    [pc : {"idle", "pipeline", "serve", "again", "refused"}, age : 0..Lag]

Idle == [pc |-> "idle", age |-> 0]

\* The five components have their types, and the key is there while it has
\* members and not longer.
TypeOK ==
    /\ log \subseteq 0..Stale
    /\ ttl \in 0..(Window + Slack)
    /\ req \in [Requests -> Request]
    /\ passed \subseteq 0..Stale
    /\ heard \subseteq 0..Stale
    /\ log = {} <=> ttl = 0

Init ==
    /\ log = {}
    /\ ttl = 0
    /\ req = [r \in Requests |-> Idle]
    /\ passed = {}
    /\ heard = {}

-----------------------------------------------------------------------------
(* RateLimitMiddleware.dispatch.                                             *)

Answer(r, pc) == req' = [req EXCEPT ![r] = [pc |-> pc, age |-> 0]]

\* now = time.time()
ReadClock(r) ==
    /\ req[r].pc = "idle"
    /\ Answer(r, "pipeline")
    /\ UNCHANGED <<log, ttl, passed, heard>>

\* ZREMRANGEBYSCORE 0 (now - window): what is in the window of this reading.
Pruned(age) == {a \in log : a < age + Window}

\* The mutant of Count that forgets to prune.
CountAll(age) == log \cup {age}

\* ... and ZADD.
Count(age) == Pruned(age) \cup {age}

\* The mutant of Exceeds that counts before it adds.
ExceedsBefore(age) == Cardinality(Pruned(age)) > Limit

\* ZCARD > RATE_LIMIT_MAX_REQUESTS
Exceeds(age) == Cardinality(Count(age)) > Limit

\* The mutant of Record that leaves the key without an expiry.
RecordForever(age) ==
    /\ log' = Count(age)
    /\ heard' = heard \cup {age}
    /\ UNCHANGED ttl

\* The four commands, EXPIRE the last.
Record(age) ==
    /\ log' = Count(age)
    /\ ttl' = Window + Slack
    /\ heard' = heard \cup {age}

\* A refused request has been counted as well.
Pipeline(r) ==
    LET age == req[r].age IN
    /\ req[r].pc = "pipeline"
    /\ Record(age)
    /\ IF Exceeds(age)
       THEN Answer(r, "refused") /\ UNCHANGED passed
       ELSE Answer(r, "serve") /\ passed' = passed \cup {age}

\* No Redis, or the pipeline raises, before or after Redis has run it: the
\* request goes through without a limit.
PassUnlimited(r) ==
    /\ RedisFaults
    /\ req[r].pc = "pipeline"
    /\ Answer(r, "again")
    /\ \/ UNCHANGED <<log, ttl, heard>>
       \/ Record(req[r].age)
    /\ UNCHANGED passed

\* What the endpoint raises is caught with what the pipeline raises, and the
\* endpoint is called once more.
EndpointRaises(r) ==
    /\ req[r].pc = "serve"
    /\ Answer(r, "again")
    /\ UNCHANGED <<log, ttl, passed, heard>>

\* The endpoint's answer or, without a try around it, its exception; or 429.
Respond(r) ==
    /\ req[r].pc \in {"serve", "again", "refused"}
    /\ Answer(r, "idle")
    /\ UNCHANGED <<log, ttl, passed, heard>>

-----------------------------------------------------------------------------
(* Time.                                                                     *)

Older(ages, top) == {IF a < top THEN a + 1 ELSE top : a \in ages}

\* A tick passes, if no request has been waiting for Lag ticks already; the
\* key may expire.
Tick ==
    /\ \A r \in Requests : req[r].pc = "pipeline" => req[r].age < Lag
    /\ ttl' = IF ttl > 0 THEN ttl - 1 ELSE 0
    /\ log' = IF ttl > 1 THEN Older(log, Stale) ELSE {}
    /\ req' = [r \in Requests |->
           IF req[r].pc = "pipeline" THEN [req[r] EXCEPT !.age = @ + 1]
           ELSE req[r]]
    /\ passed' = Older(passed, Stale) \ {Stale}
    /\ heard' = Older(heard, Stale) \ {Stale}

Next ==
    \/ \E r \in Requests : ReadClock(r) \/ Pipeline(r) \/ PassUnlimited(r)
                               \/ EndpointRaises(r) \/ Respond(r)
    \/ Tick

Spec == Init /\ [][Next]_vars

-----------------------------------------------------------------------------
(* Properties.                                                               *)

Between(ages, first, last) == {a \in ages : first <= a /\ a < last}

\* rate_limit.py 58-73: of the readings in any stretch of time that is shorter
\* than the window by the lag, no more than the limit were let through, in
\* whatever order their pipelines ran and whatever expired in between.
AdmittedBound ==
    \A first \in 0..Stale :
        Cardinality(Between(passed, first, first + Window - Lag)) <= Limit

\* rate_limit.py 61-73: only readings of the last window, and of the lag
\* before it, make a request fail; a client that stays below the limit is
\* never refused, however long it has been going on.
RefusedForCause ==
    [][\A r \in Requests :
         req[r].pc = "pipeline" /\ req'[r].pc = "refused"
         => Cardinality(heard') > Limit]_vars

=============================================================================
