---------------------------- MODULE Notifications ----------------------------
(* The notification streams of services/notification and the connection     *)
(* pool of core/redis.py under them: pods that start with or without Redis, *)
(* GET /notifications/stream, POST /notifications/test-send, and the short  *)
(* commands of everybody else, which share the pool of their pod.           *)
(*                                                                          *)
(* A stream keeps one connection of the pool from SUBSCRIBE to the end of   *)
(* its `finally' block.  The Redis client is modelled as the code meets it: *)
(* get_connection raises when the pool is used up or Redis does not answer, *)
(* get_message raises on a broken connection and leaves it disconnected,    *)
(* and the next command on it connects again.  redis.py sets no socket      *)
(* timeout, keepalive or health check, so on a connection that has gone     *)
(* silent without a FIN or RST get_message times out again and again.       *)
(* Heartbeats, which a timeout and the confirmation of a subscription       *)
(* cause, tell nobody anything.                                             *)
EXTENDS Naturals, Sequences, FiniteSets

CONSTANTS
    Users,         \* recipients, current_user.id
    Pods,          \* processes of the API, each with a pool of its own
    Streams,       \* GET /stream requests; each is made once
    Calls,         \* slots for short commands in flight
    PoolSize,      \* max_connections
    MaxPublished,  \* bound on the messages of each user
    None

ASSUME PoolAssumption == PoolSize \in Nat /\ MaxPublished \in [Users -> Nat]

ASSUME NoneAssumption ==
    /\ None \notin Users
    /\ None \notin Pods
    /\ None \notin [user : Users, from : Nat]

ASSUME FiniteAssumption == IsFiniteSet(Streams) /\ IsFiniteSet(Calls)

VARIABLES
    up,         \* whether the Redis server answers
    client,     \* _redis_pool of a pod: "down" when the pod itself is
    stream,     \* the GET /stream requests
    call,       \* the short commands in flight
    queue,      \* messages on their way to a stream's connection
    published,  \* PUBLISH commands that Redis has run, by user
    joined,     \* the subscriptions that have been in force
    heard       \* what a stream has yielded

vars == <<up, client, stream, call, queue, published, joined, heard>>

-----------------------------------------------------------------------------
(* State.                                                                    *)

\* "open": the response is there, its generator has not been entered;
\* "closing" is the finally block, "release" its second line.
\* conn "live": in use; "broken": the peer is gone and the next read raises;
\* "mute": the peer is gone and no read ever tells; "closed": the library has
\* disconnected it, and it is still the stream's.
\* `broke' is history: the connection has been lost at least once.
Stream == [pc : {"idle", "open", "streaming", "closing", "release", "ended"},
           user : Users \cup {None}, at : Pods \cup {None},
           conn : {"none", "live", "broken", "mute", "closed"},
           gone : BOOLEAN, broke : BOOLEAN]

NoStream == [pc |-> "idle", user |-> None, at |-> None, conn |-> "none",
             gone |-> FALSE, broke |-> FALSE]

\* A short command: PUBLISH to a user, or any other command.
Call == [at : Pods \cup {None}, to : Users \cup {None}]

NoCall == [at |-> None, to |-> None]

Message == [to : Users, no : Nat]

\* The connections of a pod that are in use: its streams' and its commands'.
Holders(p) == {s \in Streams : stream[s].at = p /\ stream[s].conn # "none"}

Pending(p) == {c \in Calls : call[c].at = p}

InUse(p) == Cardinality(Holders(p)) + Cardinality(Pending(p))

\* The components have their types, only pods with a client have streams and
\* commands, and no pool is overdrawn.
TypeOK ==
    /\ up \in BOOLEAN
    /\ client \in [Pods -> {"down", "without", "with"}]
    /\ stream \in [Streams -> Stream]
    /\ call \in [Calls -> Call]
    /\ queue \in [Streams -> Seq(Message)]
    /\ published \in [Users -> Nat]
    /\ joined \in [Streams -> [user : Users, from : Nat] \cup {None}]
    /\ heard \in [Streams -> Seq(Message)]
    /\ \A s \in Streams :
           stream[s].at = None \/ client[stream[s].at] = "with"
    /\ \A c \in Calls : call[c].at = None \/ client[call[c].at] = "with"
    /\ \A p \in Pods : InUse(p) <= PoolSize

Init ==
    /\ up = TRUE
    /\ client = [p \in Pods |-> "down"]
    /\ stream = [s \in Streams |-> NoStream]
    /\ call = [c \in Calls |-> NoCall]
    /\ queue = [s \in Streams |-> <<>>]
    /\ published = [u \in Users |-> 0]
    /\ joined = [s \in Streams |-> None]
    /\ heard = [s \in Streams |-> <<>>]

-----------------------------------------------------------------------------
(* init_redis, close_redis, and what may happen to Redis.                    *)

\* lifespan: a PING decides whether the pod has Redis for the rest of its life.
Start(p) ==
    /\ client[p] = "down"
    /\ client' = [client EXCEPT ![p] = IF up THEN "with" ELSE "without"]
    /\ UNCHANGED <<up, stream, call, queue, published, joined, heard>>

\* A request that is over and holds nothing.
Over == [NoStream EXCEPT !.pc = "ended"]

\* The mutant of Stop that leaves its commands' connections open.
StopLeaving(p) ==
    /\ client[p] # "down"
    /\ client' = [client EXCEPT ![p] = "down"]
    /\ stream' = [s \in Streams |->
           IF stream[s].at = p THEN Over ELSE stream[s]]
    /\ queue' = [s \in Streams |->
           IF stream[s].at = p THEN <<>> ELSE queue[s]]
    /\ UNCHANGED <<up, call, published, joined, heard>>

\* The process is killed, or it is told to stop and closes its pool when the
\* requests are done: either way nothing of it is left.
Stop(p) ==
    /\ client[p] # "down"
    /\ client' = [client EXCEPT ![p] = "down"]
    /\ stream' = [s \in Streams |->
           IF stream[s].at = p THEN Over ELSE stream[s]]
    /\ queue' = [s \in Streams |->
           IF stream[s].at = p THEN <<>> ELSE queue[s]]
    /\ call' = [c \in Calls |-> IF call[c].at = p THEN NoCall ELSE call[c]]
    /\ UNCHANGED <<up, published, joined, heard>>

\* A connection in use is lost: it is reset or closed ("broken"), or nothing
\* comes any more ("mute").
Lost(r, how) ==
    IF r.conn = "live" THEN [r EXCEPT !.conn = how, !.broke = TRUE] ELSE r

\* Redis goes away, and every connection with it; what had arrived is there.
RedisFails ==
    /\ up
    /\ up' = FALSE
    /\ \E silent \in SUBSET Streams :
           stream' = [s \in Streams |->
               Lost(stream[s], IF s \in silent THEN "mute" ELSE "broken")]
    /\ UNCHANGED <<client, call, queue, published, joined, heard>>

RedisReturns ==
    /\ ~up
    /\ up' = TRUE
    /\ UNCHANGED <<client, stream, call, queue, published, joined, heard>>

\* One connection is lost: the network, or Redis closes it because its reader
\* is too slow.
ConnectionBreaks(s) ==
    /\ stream[s].conn = "live"
    /\ \E how \in {"broken", "mute"} :
           stream' = [stream EXCEPT ![s] = Lost(@, how)]
    /\ UNCHANGED <<up, client, call, queue, published, joined, heard>>

\* A reset arrives after all, perhaps when the network is back.
SilenceBreaks(s) ==
    /\ stream[s].conn = "mute"
    /\ stream' = [stream EXCEPT ![s] = [@ EXCEPT !.conn = "broken"]]
    /\ UNCHANGED <<up, client, call, queue, published, joined, heard>>

-----------------------------------------------------------------------------
(* GET /notifications/stream, SSENotificationProvider.subscribe.             *)

\* Without a client the answer is an error and no stream.
Open(s, u, p) ==
    /\ stream[s].pc = "idle"
    /\ client[p] = "with"
    /\ stream' = [stream EXCEPT
           ![s] = [@ EXCEPT !.pc = "open", !.user = u, !.at = p]]
    /\ UNCHANGED <<up, client, call, queue, published, joined, heard>>

Free(p) == up /\ InUse(p) < PoolSize

\* pubsub.subscribe takes a connection and sends SUBSCRIBE without waiting for
\* the confirmation; what it raises goes to the finally block.
Subscribe(s) ==
    /\ stream[s].pc = "open"
    /\ stream' = [stream EXCEPT ![s] =
           IF Free(@.at) THEN [@ EXCEPT !.pc = "streaming", !.conn = "live"]
           ELSE [@ EXCEPT !.pc = "closing"]]
    /\ UNCHANGED <<up, client, call, queue, published, joined, heard>>

\* Redis runs the SUBSCRIBE: messages are for this stream from now on.
InForce(s) ==
    /\ stream[s].pc = "streaming" /\ stream[s].conn = "live"
    /\ joined[s] = None
    /\ joined' = [joined EXCEPT
           ![s] = [user |-> stream[s].user,
                   from |-> published[stream[s].user]]]
    /\ UNCHANGED <<up, client, stream, call, queue, published, heard>>

\* get_message returns a message and the generator yields it; on a mute
\* connection that may be one which had arrived.
Deliver(s) ==
    /\ stream[s].pc = "streaming"
    /\ queue[s] # <<>>
    /\ heard' = [heard EXCEPT ![s] = Append(@, Head(queue[s]))]
    /\ queue' = [queue EXCEPT ![s] = Tail(@)]
    /\ UNCHANGED <<up, client, stream, call, published, joined>>

\* The mutant of StreamFails without the break: the loop goes on, and the next
\* get_message connects and subscribes again.
StreamGoesOn(s) ==
    /\ stream[s].pc = "streaming" /\ stream[s].conn = "broken"
    /\ up
    /\ stream' = [stream EXCEPT ![s] = [@ EXCEPT !.conn = "live"]]
    /\ queue' = [queue EXCEPT ![s] = <<>>]
    /\ UNCHANGED <<up, client, call, published, joined, heard>>

\* The mutant of StreamFails that logs the error and goes on with the broken
\* connection.
StreamIgnores(s) ==
    /\ stream[s].pc = "streaming" /\ stream[s].conn = "broken"
    /\ queue' = [queue EXCEPT ![s] = <<>>]
    /\ UNCHANGED <<up, client, stream, call, published, joined, heard>>

\* get_message raises, perhaps before everything that arrived has been read;
\* the code logs it and leaves the loop.
StreamFails(s) ==
    /\ stream[s].pc = "streaming" /\ stream[s].conn = "broken"
    /\ stream' = [stream EXCEPT
           ![s] = [@ EXCEPT !.pc = "closing", !.conn = "closed"]]
    /\ queue' = [queue EXCEPT ![s] = <<>>]
    /\ UNCHANGED <<up, client, call, published, joined, heard>>

\* The browser closes the connection.
Leave(s) ==
    /\ stream[s].pc \in {"open", "streaming"}
    /\ ~stream[s].gone
    /\ stream' = [stream EXCEPT ![s] = [@ EXCEPT !.gone = TRUE]]
    /\ UNCHANGED <<up, client, call, queue, published, joined, heard>>

\* The mutant of Cancel without the finally block.
CancelAtOnce(s) ==
    /\ stream[s].pc \in {"open", "streaming"} /\ stream[s].gone
    /\ stream' = [stream EXCEPT ![s] = [@ EXCEPT !.pc = "ended"]]
    /\ queue' = [queue EXCEPT ![s] = <<>>]
    /\ UNCHANGED <<up, client, call, published, joined, heard>>

\* The mutant of Cancel whose loop catches the cancellation as well.
CancelCaught(s) ==
    /\ stream[s].pc \in {"open", "streaming"} /\ stream[s].gone
    /\ stream' = [stream EXCEPT ![s] = [@ EXCEPT !.gone = FALSE]]
    /\ UNCHANGED <<up, client, call, queue, published, joined, heard>>

\* The server notices and cancels the generator at its await.
Cancel(s) ==
    /\ stream[s].pc \in {"open", "streaming"} /\ stream[s].gone
    /\ stream' = [stream EXCEPT ![s] = [@ EXCEPT !.pc = "closing"]]
    /\ queue' = [queue EXCEPT ![s] = <<>>]
    /\ UNCHANGED <<up, client, call, published, joined, heard>>

\* Whether unsubscribe can send its command: on the connection it has, on the
\* same one connected again, or on one from the pool.
CanSend(r) ==
    CASE r.conn \in {"live", "broken", "mute"} -> TRUE
      [] r.conn = "closed" -> up
      [] r.conn = "none"   -> Free(r.at)

\* Whether it can fail: a broken connection, no Redis, no connection, or the
\* cancellation of a stream whose browser has left, which cuts every wait.  On
\* a mute connection the command is sent, and no answer is waited for.
CanRaise(r) ==
    CASE r.conn \in {"live", "mute"} -> FALSE
      [] r.conn = "broken" -> TRUE
      [] r.conn = "closed" -> ~up \/ r.gone
      [] r.conn = "none"   -> ~Free(r.at) \/ r.gone

\* finally: await pubsub.unsubscribe(channel); if it raises, the generator is
\* over and pubsub.close() is not reached.
Unsubscribe(s) ==
    LET r == stream[s] IN
    /\ r.pc = "closing"
    /\ \/ /\ CanSend(r)
          /\ stream' = [stream EXCEPT ![s] = [r EXCEPT !.pc = "release",
                 !.conn = IF r.conn \in {"broken", "mute"} THEN @ ELSE "live"]]
       \/ /\ CanRaise(r)
          /\ stream' = [stream EXCEPT ![s] =
                 IF r.conn = "none" THEN Over
                 ELSE [r EXCEPT !.pc = "ended", !.conn = "closed"]]
    /\ UNCHANGED <<up, client, call, queue, published, joined, heard>>

\* finally: await pubsub.close() gives the connection back.
Close(s) ==
    /\ stream[s].pc = "release"
    /\ stream' = [stream EXCEPT ![s] = Over]
    /\ UNCHANGED <<up, client, call, queue, published, joined, heard>>

-----------------------------------------------------------------------------
(* Short commands, send among them.                                          *)

\* A command takes a connection while it waits for its answer; when it gets
\* none, its caller carries on without Redis.
Ask(c, p, to) ==
    /\ call[c] = NoCall
    /\ client[p] = "with" /\ Free(p)
    /\ call' = [call EXCEPT ![c] = [at |-> p, to |-> to]]
    /\ UNCHANGED <<up, client, stream, queue, published, joined, heard>>

\* The streams that Redis has a subscription for.
Subscribers(u) ==
    {s \in Streams : /\ stream[s].pc = "streaming" /\ stream[s].conn = "live"
                     /\ joined[s] # None /\ joined[s].user = u}

\* PUBLISH: every subscription in force gets the message, in order; nobody
\* else ever does.
RunPublish(u) ==
    LET message == [to |-> u, no |-> published[u] + 1] IN
    /\ published[u] < MaxPublished[u]
    /\ published' = [published EXCEPT ![u] = @ + 1]
    /\ queue' = [s \in Streams |->
           IF s \in Subscribers(u) THEN Append(queue[s], message)
           ELSE queue[s]]

\* Redis runs the command and answers, or the command fails, before or after
\* Redis has run it; the connection goes back to the pool.
Answer(c) ==
    LET u == call[c].to IN
    /\ call[c] # NoCall
    /\ call' = [call EXCEPT ![c] = NoCall]
    /\ \/ u # None /\ up /\ RunPublish(u)
       \/ UNCHANGED <<queue, published>>
    /\ UNCHANGED <<up, client, stream, joined, heard>>

-----------------------------------------------------------------------------
\* What the task of a stream does by itself once it has a connection.
Work(s) ==
    Deliver(s) \/ StreamFails(s) \/ Cancel(s) \/ Unsubscribe(s) \/ Close(s)

Next ==
    \/ \E p \in Pods : Start(p) \/ Stop(p)
    \/ RedisFails \/ RedisReturns
    \/ \E s \in Streams, u \in Users, p \in Pods : Open(s, u, p)
    \/ \E s \in Streams :
           \/ ConnectionBreaks(s) \/ SilenceBreaks(s)
           \/ Subscribe(s) \/ InForce(s) \/ Leave(s) \/ Work(s)
    \/ \E c \in Calls, p \in Pods, to \in Users \cup {None} : Ask(c, p, to)
    \/ \E c \in Calls : Answer(c)

\* What of it must go on: nothing obliges a mute connection to hand on what is
\* on its way, or ever to be found out.
Obliged(s) == Work(s) /\ ~(stream[s].conn = "mute" /\ Deliver(s))

\* The event loop of a pod runs what can go on, and a browser that stays reads
\* what it is sent; nothing obliges browsers to stay, callers, Redis or pods.
Fairness == \A s \in Streams : WF_vars(Obliged(s))

Spec == Init /\ [][Next]_vars /\ Fairness

-----------------------------------------------------------------------------
(* Properties.                                                               *)

F == INSTANCE Feed WITH published <- published, joined <- joined, heard <- heard

\* docs/03_development/utils_report.md 127-130, sse.py 67-92: whatever pod a
\* stream is on and wherever its messages are published, and although Redis
\* forgets what it has passed on, a stream is told an unbroken stretch of its
\* own user's messages, in order: a failure ends the stream before it could
\* leave one out.
FeedSpec == F!FeedSpec

Numbers == UNION {1..MaxPublished[u] : u \in Users}

\* The subscriptions that the n-th message of their user has come after.
Owed(n) == {j \in [user : Users, from : 0..(n - 1)] : n <= published[j.user]}

\* sse.py 67-89: a message that is published while the subscription is in
\* force reaches the browser, or the stream ends and the browser can tell,
\* unless the connection to Redis has gone mute: then the browser is sent
\* heartbeats and cannot tell.
MessageIsTold ==
    \A s \in Streams, n \in Numbers :
        joined[s] \in Owed(n)
            ~> (\/ \E i \in DOMAIN heard[s] : heard[s][i].no = n
                \/ stream[s].pc = "ended"
                \/ stream[s].conn = "mute")

\* sse.py 89-92: the stream of a browser that has left comes to an end, with
\* or without Redis.
LeftStreamEnds ==
    \A s \in Streams : stream[s].gone ~> stream[s].pc = "ended"

\* sse.py 89-91, redis.py 31: a stream that is over keeps a connection of the
\* pool only if that connection had been lost; browsers that come and go never
\* use the pool up.
SlotLostForCause ==
    \A s \in Streams :
        stream[s].pc = "ended" /\ stream[s].conn # "none" => stream[s].broke

=============================================================================
