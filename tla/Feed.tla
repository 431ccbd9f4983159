-------------------------------- MODULE Feed --------------------------------
(* What the notification streams promise, without Redis, pods and           *)
(* connections: whoever listens to a user is told that user's messages, one *)
(* after the other from the moment the listening began, none left out, none *)
(* told twice and none of another user's.  A stream may stop being told at  *)
(* any point, and what was published before it listened is never told.      *)
EXTENDS Naturals, Sequences

CONSTANTS Users, Streams, None

VARIABLES
    published,  \* how many messages each user has been sent
    joined,     \* whom a stream listens to, and since which message
    heard       \* what a stream has been told

feedVars == <<published, joined, heard>>

Message == [to : Users, no : Nat]

FeedTypeOK ==
    /\ published \in [Users -> Nat]
    /\ joined \in [Streams -> [user : Users, from : Nat] \cup {None}]
    /\ heard \in [Streams -> Seq(Message)]

FeedInit ==
    /\ published = [u \in Users |-> 0]
    /\ joined = [s \in Streams |-> None]
    /\ heard = [s \in Streams |-> <<>>]

Publish(u) ==
    /\ published' = [published EXCEPT ![u] = @ + 1]
    /\ UNCHANGED <<joined, heard>>

Join(s, u) ==
    /\ joined[s] = None
    /\ joined' = [joined EXCEPT ![s] = [user |-> u, from |-> published[u]]]
    /\ UNCHANGED <<published, heard>>

\* The i-th message after a stream has joined.
Following(s, i) == [to |-> joined[s].user, no |-> joined[s].from + i]

Hear(s) ==
    LET next == Following(s, Len(heard[s]) + 1) IN
    /\ joined[s] # None
    /\ next.no <= published[next.to]
    /\ heard' = [heard EXCEPT ![s] = Append(@, next)]
    /\ UNCHANGED <<published, joined>>

FeedNext ==
    \/ \E u \in Users : Publish(u)
    \/ \E s \in Streams, u \in Users : Join(s, u)
    \/ \E s \in Streams : Hear(s)

FeedSpec == FeedInit /\ [][FeedNext]_feedVars

-----------------------------------------------------------------------------
\* The promise as a state predicate: what a stream was told is an unbroken
\* stretch of its user's messages.
Gapless ==
    \A s \in Streams : \A i \in 1..Len(heard[s]) :
        /\ joined[s] # None
        /\ heard[s][i] = Following(s, i)
        /\ heard[s][i].no <= published[joined[s].user]

=============================================================================
