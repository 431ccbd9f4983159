------------------------ MODULE NotificationsProofs ------------------------
(* Proofs about Notifications, for any users, pods, streams and calls and   *)
(* pools of any size.                                                       *)
(*                                                                          *)
(*   InductiveInvariant  what a request and its connection may look like,   *)
(*                       and which messages are on their way to it          *)
(*   TypeCorrect         the components keep their types, the pools hold    *)
(*   SlotsLostForCause   only a lost connection is not given back           *)
(*   StreamsAreFeeds     Notifications implements Feed                      *)
(*   StreamsAreGapless   what a stream was told is an unbroken stretch      *)
EXTENDS Notifications, FiniteSetTheorems, TLAPS

-----------------------------------------------------------------------------
(* The invariant.                                                            *)

\* A request that runs has a user and a pod; who has a connection has a pod,
\* and has subscribed;
\* a connection is broken, mute or closed only after it was lost, and a request
\* that is over has kept none or a closed one.
Fits(r) ==
    /\ r \in Stream
    /\ r.pc \notin {"idle", "ended"} => r.user \in Users /\ r.at \in Pods
    /\ r.conn # "none" => r.at \in Pods
    /\ r.pc \in {"idle", "open"} => r.conn = "none"
    /\ r.conn \in {"broken", "mute", "closed"} => r.broke
    /\ r.pc = "ended" => r.conn \in {"none", "closed"}

\* What a stream was told and what is on its way are consecutive messages of
\* its user from its subscription on, and while the subscription is in force
\* they reach to the newest one.
Unbroken(r, j, h, q, p) ==
    /\ r.pc \in {"idle", "open"} => j = None
    /\ j = None => h = <<>> /\ q = <<>>
    /\ j # None =>
        /\ \A i \in 1..Len(h) : h[i] = [to |-> j.user, no |-> j.from + i]
        /\ \A i \in 1..Len(q) :
               q[i] = [to |-> j.user, no |-> j.from + Len(h) + i]
        /\ j.from + Len(h) + Len(q) <= p[j.user]
        /\ r.pc = "streaming" /\ r.conn = "live" =>
               j.from + Len(h) + Len(q) = p[j.user]

Requests == \A s \in Streams : Fits(stream[s])

Segments ==
    \A s \in Streams :
        Unbroken(stream[s], joined[s], heard[s], queue[s], published)

Inductive == TypeOK /\ Requests /\ Segments

-----------------------------------------------------------------------------
(* The pool.                                                                 *)

LEMMA HoldersFinite ==
    ASSUME NEW p
    PROVE  /\ IsFiniteSet(Holders(p)) /\ IsFiniteSet(Pending(p))
           /\ IsFiniteSet(Holders(p)') /\ IsFiniteSet(Pending(p)')
<1>1. /\ Holders(p) \in SUBSET Streams /\ Pending(p) \in SUBSET Calls
      /\ Holders(p)' \in SUBSET Streams /\ Pending(p)' \in SUBSET Calls
  BY DEF Holders, Pending
<1>2. IsFiniteSet(Streams) /\ IsFiniteSet(Calls)
  BY FiniteAssumption
<1> QED BY <1>1, <1>2, FS_Subset

\* A set that grows by one element at most.
LEMMA OneMore ==
    ASSUME NEW S, NEW T, NEW x, IsFiniteSet(S), IsFiniteSet(T),
           T \subseteq S \cup {x}
    PROVE  /\ Cardinality(S) \in Nat /\ Cardinality(T) \in Nat
           /\ Cardinality(T) <= Cardinality(S) + 1
<1>1. /\ IsFiniteSet(S \cup {x})
      /\ Cardinality(S \cup {x}) =
             IF x \in S THEN Cardinality(S) ELSE Cardinality(S) + 1
  BY FS_AddElement
<1>2. Cardinality(T) <= Cardinality(S \cup {x})
  <2>1. T \in SUBSET (S \cup {x})
    OBVIOUS
  <2> QED BY <1>1, <2>1, FS_Subset
<1>3. Cardinality(S) \in Nat /\ Cardinality(T) \in Nat
  BY FS_CardinalityType
<1>4. CASE x \in S
  BY <1>1, <1>2, <1>3, <1>4
<1>5. CASE x \notin S
  BY <1>1, <1>2, <1>3, <1>5
<1> QED BY <1>4, <1>5

LEMMA NoMore ==
    ASSUME NEW S, NEW T, IsFiniteSet(S), T \subseteq S
    PROVE  /\ Cardinality(S) \in Nat /\ Cardinality(T) \in Nat
           /\ Cardinality(T) <= Cardinality(S)
<1>1. T \in SUBSET S
  OBVIOUS
<1>2. IsFiniteSet(T) /\ Cardinality(T) <= Cardinality(S)
  BY <1>1, FS_Subset
<1> QED BY <1>2, FS_CardinalityType

\* Nobody takes a connection of this pod.
LEMMA PoolShrinks ==
    ASSUME NEW p, InUse(p) <= PoolSize,
           Holders(p)' \subseteq Holders(p), Pending(p)' \subseteq Pending(p)
    PROVE  InUse(p)' <= PoolSize
<1>1. /\ Cardinality(Holders(p)) \in Nat /\ Cardinality(Holders(p)') \in Nat
      /\ Cardinality(Holders(p)') <= Cardinality(Holders(p))
  BY HoldersFinite, NoMore
<1>2. /\ Cardinality(Pending(p)) \in Nat /\ Cardinality(Pending(p)') \in Nat
      /\ Cardinality(Pending(p)') <= Cardinality(Pending(p))
  BY HoldersFinite, NoMore
<1>3. InUse(p) = Cardinality(Holders(p)) + Cardinality(Pending(p))
  BY DEF InUse
<1>4. InUse(p)' = Cardinality(Holders(p)') + Cardinality(Pending(p)')
  BY DEF InUse
<1> QED BY <1>1, <1>2, <1>3, <1>4, PoolAssumption

\* One stream takes a free connection, or one command does.
LEMMA PoolGrows ==
    ASSUME NEW p, InUse(p) < PoolSize,
           \/ /\ \E s : Holders(p)' \subseteq Holders(p) \cup {s}
              /\ Pending(p)' \subseteq Pending(p)
           \/ /\ Holders(p)' \subseteq Holders(p)
              /\ \E c : Pending(p)' \subseteq Pending(p) \cup {c}
    PROVE  InUse(p)' <= PoolSize
<1>1. InUse(p) = Cardinality(Holders(p)) + Cardinality(Pending(p))
  BY DEF InUse
<1>2. InUse(p)' = Cardinality(Holders(p)') + Cardinality(Pending(p)')
  BY DEF InUse
<1>3. CASE /\ \E s : Holders(p)' \subseteq Holders(p) \cup {s}
           /\ Pending(p)' \subseteq Pending(p)
  <2>1. PICK s : Holders(p)' \subseteq Holders(p) \cup {s}
    BY <1>3
  <2>2. /\ Cardinality(Holders(p)) \in Nat /\ Cardinality(Holders(p)') \in Nat
        /\ Cardinality(Holders(p)') <= Cardinality(Holders(p)) + 1
    BY <2>1, HoldersFinite, OneMore
  <2>3. /\ Cardinality(Pending(p)) \in Nat /\ Cardinality(Pending(p)') \in Nat
        /\ Cardinality(Pending(p)') <= Cardinality(Pending(p))
    BY <1>3, HoldersFinite, NoMore
  <2> QED BY <1>1, <1>2, <2>2, <2>3, PoolAssumption
<1>4. CASE /\ Holders(p)' \subseteq Holders(p)
           /\ \E c : Pending(p)' \subseteq Pending(p) \cup {c}
  <2>1. PICK c : Pending(p)' \subseteq Pending(p) \cup {c}
    BY <1>4
  <2>2. /\ Cardinality(Holders(p)) \in Nat /\ Cardinality(Holders(p)') \in Nat
        /\ Cardinality(Holders(p)') <= Cardinality(Holders(p))
    BY <1>4, HoldersFinite, NoMore
  <2>3. /\ Cardinality(Pending(p)) \in Nat /\ Cardinality(Pending(p)') \in Nat
        /\ Cardinality(Pending(p)') <= Cardinality(Pending(p)) + 1
    BY <2>1, HoldersFinite, OneMore
  <2> QED BY <1>1, <1>2, <2>2, <2>3, PoolAssumption
<1> QED BY <1>3, <1>4

-----------------------------------------------------------------------------
(* The steps.                                                                *)

SequencesTyped ==
    /\ queue \in [Streams -> Seq(Message)]
    /\ published \in [Users -> Nat]
    /\ joined \in [Streams -> [user : Users, from : Nat] \cup {None}]
    /\ heard \in [Streams -> Seq(Message)]

\* One stream becomes r, which holds a connection only if it held it before
\* or the pool has a free one.
LEMMA StreamBecomes ==
    ASSUME Inductive, NEW s \in Streams, NEW r, Fits(r),
           stream' = [stream EXCEPT ![s] = r],
           r.at = None \/ client[r.at] = "with",
           \/ r.conn = "none"
           \/ stream[s].conn # "none" /\ r.at = stream[s].at
           \/ Free(r.at),
           UNCHANGED <<up, client, call>>, SequencesTyped'
    PROVE  TypeOK' /\ Requests'
<1>1. stream' \in [Streams -> Stream]
  BY DEF Inductive, TypeOK, Fits
<1>2. \A x \in Streams :
          stream'[x].at = None \/ client'[stream'[x].at] = "with"
  BY DEF Inductive, TypeOK
<1>3. Requests'
  BY DEF Inductive, TypeOK, Requests
<1>4. ASSUME NEW p \in Pods PROVE InUse(p)' <= PoolSize
  <2>1. Pending(p)' = Pending(p)
    BY DEF Pending
  <2>2. Holders(p)' \subseteq Holders(p) \cup {s}
    BY <1>1 DEF Holders, Inductive, TypeOK
  <2>3. InUse(p) <= PoolSize
    BY DEF Inductive, TypeOK
  <2>4. CASE Holders(p)' \subseteq Holders(p)
    BY <2>1, <2>3, <2>4, PoolShrinks
  <2>5. CASE ~(Holders(p)' \subseteq Holders(p))
    <3>1. s \in Holders(p)' /\ s \notin Holders(p)
      BY <2>2, <2>5
    <3>2. r.at = p /\ r.conn # "none"
      BY <3>1 DEF Holders, Inductive, TypeOK
    <3>3. ~(stream[s].conn # "none" /\ r.at = stream[s].at)
      BY <3>1, <3>2 DEF Holders
    <3>4. InUse(p) < PoolSize
      BY <3>2, <3>3 DEF Free
    <3> QED BY <2>1, <2>2, <3>4, PoolGrows
  <2> QED BY <2>4, <2>5
<1> QED
  BY <1>1, <1>2, <1>3, <1>4
     DEF TypeOK, SequencesTyped, Inductive

\* Nothing is published, subscribed, sent or told, and one stream becomes r.
LEMMA StreamOnly ==
    ASSUME Inductive, NEW s \in Streams, NEW r, Fits(r),
           stream' = [stream EXCEPT ![s] = r],
           r.at = None \/ client[r.at] = "with",
           \/ r.conn = "none"
           \/ stream[s].conn # "none" /\ r.at = stream[s].at
           \/ Free(r.at),
           Unbroken(r, joined[s], heard[s], queue[s], published),
           UNCHANGED <<up, client, call, queue, published, joined, heard>>
    PROVE  Inductive'
<1>1. SequencesTyped'
  BY DEF SequencesTyped, Inductive, TypeOK
<1>2. TypeOK' /\ Requests'
  BY <1>1, StreamBecomes
<1>3. Segments'
  BY DEF Segments, Inductive, TypeOK
<1> QED BY <1>2, <1>3 DEF Inductive

\* Leaving out what was on its way leaves what was told unbroken.
LEMMA DropQueue ==
    ASSUME NEW r, NEW q, NEW j \in [user : Users, from : Nat] \cup {None},
           NEW h \in Seq(Message), NEW w \in Seq(Message),
           NEW p \in [Users -> Nat], Unbroken(r, j, h, w, p),
           q.pc \notin {"idle", "open", "streaming"}
    PROVE  Unbroken(q, j, h, <<>>, p)
<1>1. Len(<<>>) = 0 /\ Len(w) \in Nat /\ Len(h) \in Nat
  OBVIOUS
<1>2. CASE j = None
  BY <1>2 DEF Unbroken
<1>3. CASE j # None
  <2>1. j.from + Len(h) + Len(w) <= p[j.user] /\ j.from \in Nat
    BY <1>3 DEF Unbroken
  <2>2. j.from + Len(h) + 0 <= p[j.user]
    <3>1. p[j.user] \in Nat
      BY <1>3
    <3> QED BY <1>1, <2>1, <3>1
  <2>3. \A i \in 1..Len(<<>>) :
            <<>>[i] = [to |-> j.user, no |-> j.from + Len(h) + i]
    BY <1>1
  <2>4. \A i \in 1..Len(h) : h[i] = [to |-> j.user, no |-> j.from + i]
    BY <1>3 DEF Unbroken
  <2> QED BY <1>1, <1>3, <2>2, <2>3, <2>4 DEF Unbroken
<1> QED BY <1>2, <1>3

\* One stream becomes r, and what was on its way to it is left out.
LEMMA StreamDrops ==
    ASSUME Inductive, NEW s \in Streams, NEW r, Fits(r),
           stream' = [stream EXCEPT ![s] = r],
           r.at = None \/ client[r.at] = "with",
           \/ r.conn = "none"
           \/ stream[s].conn # "none" /\ r.at = stream[s].at,
           r.pc \notin {"idle", "open", "streaming"},
           queue' = [queue EXCEPT ![s] = <<>>],
           UNCHANGED <<up, client, call, published, joined, heard>>
    PROVE  Inductive'
<1>1. SequencesTyped'
  BY DEF SequencesTyped, Inductive, TypeOK
<1>2. TypeOK' /\ Requests'
  BY <1>1, StreamBecomes
<1>3. Unbroken(r, joined[s], heard[s], <<>>, published)
  <2>1. Unbroken(stream[s], joined[s], heard[s], queue[s], published)
    BY DEF Inductive, Segments
  <2>2. /\ joined[s] \in [user : Users, from : Nat] \cup {None}
        /\ heard[s] \in Seq(Message) /\ queue[s] \in Seq(Message)
        /\ published \in [Users -> Nat]
    BY DEF Inductive, TypeOK
  <2> QED BY <2>1, <2>2, DropQueue
<1>4. Segments'
  BY <1>3 DEF Segments, Inductive, TypeOK
<1> QED BY <1>2, <1>4 DEF Inductive

\* What the invariant says of one stream.
LEMMA OfOne ==
    ASSUME Inductive, NEW s \in Streams
    PROVE  /\ Fits(stream[s])
           /\ Unbroken(stream[s], joined[s], heard[s], queue[s], published)
           /\ stream[s].at = None \/ client[stream[s].at] = "with"
BY DEF Inductive, Requests, Segments, TypeOK

LEMMA StartKeeps ==
    ASSUME Inductive, NEW p \in Pods, Start(p)
    PROVE  Inductive'
<1>1. \A x \in Pods : Holders(x)' = Holders(x) /\ Pending(x)' = Pending(x)
  BY DEF Start, Holders, Pending
<1>2. \A x \in Pods : InUse(x)' <= PoolSize
  BY <1>1 DEF InUse, Inductive, TypeOK
<1>3. client' \in [Pods -> {"down", "without", "with"}]
  BY DEF Start, Inductive, TypeOK
<1>4. \A s \in Streams :
          stream'[s].at = None \/ client'[stream'[s].at] = "with"
  <2> SUFFICES ASSUME NEW s \in Streams, stream[s].at # None
               PROVE  client'[stream[s].at] = "with"
    BY DEF Start
  <2>1. client[stream[s].at] = "with" /\ stream[s].at \in Pods
    BY DEF Inductive, TypeOK, Stream
  <2> QED BY <2>1 DEF Start, Inductive, TypeOK
<1>5. \A c \in Calls : call'[c].at = None \/ client'[call'[c].at] = "with"
  <2> SUFFICES ASSUME NEW c \in Calls, call[c].at # None
               PROVE  client'[call[c].at] = "with"
    BY DEF Start
  <2>1. client[call[c].at] = "with" /\ call[c].at \in Pods
    BY DEF Inductive, TypeOK, Call
  <2> QED BY <2>1 DEF Start, Inductive, TypeOK
<1>6. TypeOK'
  BY <1>2, <1>3, <1>4, <1>5 DEF Start, Inductive, TypeOK
<1> QED BY <1>6 DEF Start, Inductive, Requests, Segments

LEMMA OverFits == Fits(Over) /\ Over.at = None /\ Over.conn = "none"
BY DEF Fits, Over, NoStream, Stream

LEMMA StopKeeps ==
    ASSUME Inductive, NEW p \in Pods, Stop(p)
    PROVE  Inductive'
<1>1. \A s \in Streams :
          stream'[s] = IF stream[s].at = p THEN Over ELSE stream[s]
  BY DEF Stop
<1>2. \A x \in Pods :
          Holders(x)' \subseteq Holders(x) /\ Pending(x)' \subseteq Pending(x)
  <2> SUFFICES ASSUME NEW x \in Pods
               PROVE  /\ Holders(x)' \subseteq Holders(x)
                      /\ Pending(x)' \subseteq Pending(x)
    OBVIOUS
  <2>1. Holders(x)' \subseteq Holders(x)
    BY <1>1, OverFits DEF Holders
  <2>2. \A c \in Calls :
            call'[c] = IF call[c].at = p THEN NoCall ELSE call[c]
    BY DEF Stop
  <2>3. Pending(x)' \subseteq Pending(x)
    BY <2>2, NoneAssumption DEF Pending, NoCall
  <2> QED BY <2>1, <2>3
<1>3. \A x \in Pods : InUse(x)' <= PoolSize
  BY <1>2, PoolShrinks DEF Inductive, TypeOK
<1>4. stream' \in [Streams -> Stream] /\ call' \in [Calls -> Call]
  BY <1>1, OverFits DEF Stop, Inductive, TypeOK, Fits, NoCall, Call
<1>5. \A s \in Streams :
          stream'[s].at = None \/ client'[stream'[s].at] = "with"
  BY <1>1, OverFits DEF Stop, Inductive, TypeOK, Stream
<1>6. \A c \in Calls : call'[c].at = None \/ client'[call'[c].at] = "with"
  BY DEF Stop, Inductive, TypeOK, Call, NoCall
<1>7. queue' \in [Streams -> Seq(Message)]
  BY DEF Stop, Inductive, TypeOK
<1>8. TypeOK'
  BY <1>3, <1>4, <1>5, <1>6, <1>7 DEF Stop, Inductive, TypeOK
<1>9. Requests'
  BY <1>1, OverFits DEF Inductive, Requests
<1>10. Segments'
  <2> SUFFICES ASSUME NEW s \in Streams
               PROVE  Unbroken(stream'[s], joined[s], heard[s], queue'[s],
                               published)
    BY DEF Stop, Segments
  <2>1. CASE stream[s].at = p
    <3>1. stream'[s].pc = "ended" /\ queue'[s] = <<>>
      BY <1>1, <2>1 DEF Stop, Over, NoStream
    <3>2. Unbroken(stream[s], joined[s], heard[s], queue[s], published)
      BY OfOne
    <3>3. /\ joined[s] \in [user : Users, from : Nat] \cup {None}
          /\ heard[s] \in Seq(Message) /\ queue[s] \in Seq(Message)
          /\ published \in [Users -> Nat]
      BY DEF Inductive, TypeOK
    <3>4. Unbroken(stream'[s], joined[s], heard[s], <<>>, published)
      BY <3>1, <3>2, <3>3, DropQueue
    <3> QED BY <3>1, <3>4
  <2>2. CASE stream[s].at # p
    <3>1. stream'[s] = stream[s] /\ queue'[s] = queue[s]
      BY <1>1, <2>2 DEF Stop
    <3> QED BY <3>1, OfOne
  <2> QED BY <2>1, <2>2
<1> QED BY <1>8, <1>9, <1>10 DEF Inductive

\* A connection that is lost is still its stream's.
LEMMA LostFits ==
    ASSUME NEW r, Fits(r), NEW how \in {"broken", "mute"}
    PROVE  /\ Fits(Lost(r, how))
           /\ Lost(r, how).at = r.at /\ Lost(r, how).pc = r.pc
           /\ Lost(r, how).conn = "none" <=> r.conn = "none"
           /\ Lost(r, how).conn # "live"
BY DEF Fits, Lost, Stream

LEMMA RedisFailsKeeps ==
    ASSUME Inductive, RedisFails
    PROVE  Inductive'
<1>1. PICK silent \in SUBSET Streams :
          stream' = [s \in Streams |->
              Lost(stream[s], IF s \in silent THEN "mute" ELSE "broken")]
  BY DEF RedisFails
<1> DEFINE how(s) == IF s \in silent THEN "mute" ELSE "broken"
<1>2. \A s \in Streams :
          /\ stream'[s] = Lost(stream[s], how(s)) /\ Fits(stream'[s])
          /\ stream'[s].at = stream[s].at /\ stream'[s].pc = stream[s].pc
          /\ stream'[s].conn = "none" <=> stream[s].conn = "none"
          /\ stream'[s].conn # "live"
  <2> SUFFICES ASSUME NEW s \in Streams
               PROVE  /\ stream'[s] = Lost(stream[s], how(s))
                      /\ Fits(stream'[s])
                      /\ stream'[s].at = stream[s].at
                      /\ stream'[s].pc = stream[s].pc
                      /\ stream'[s].conn = "none" <=> stream[s].conn = "none"
                      /\ stream'[s].conn # "live"
    OBVIOUS
  <2>1. stream'[s] = Lost(stream[s], how(s)) /\ how(s) \in {"broken", "mute"}
    BY <1>1
  <2> HIDE DEF how
  <2> QED BY <2>1, OfOne, LostFits
<1> HIDE DEF how
<1>3. stream' \in [Streams -> Stream]
  <2>1. \A s \in Streams : stream'[s] \in Stream
    BY <1>2 DEF Fits
  <2> QED BY <1>1, <2>1
<1>4. \A x \in Pods : Holders(x)' = Holders(x) /\ Pending(x)' = Pending(x)
  BY <1>2 DEF RedisFails, Holders, Pending
<1>5. \A x \in Pods : InUse(x)' <= PoolSize
  BY <1>4 DEF InUse, Inductive, TypeOK
<1>6. \A s \in Streams :
          stream'[s].at = None \/ client'[stream'[s].at] = "with"
  BY <1>2, OfOne DEF RedisFails
<1>7. TypeOK'
  BY <1>3, <1>5, <1>6 DEF RedisFails, Inductive, TypeOK
<1>8. Requests'
  BY <1>2 DEF Requests
<1>9. Segments'
  <2> SUFFICES ASSUME NEW s \in Streams
               PROVE  Unbroken(stream'[s], joined[s], heard[s], queue[s],
                               published)
    BY DEF RedisFails, Segments
  <2> QED BY <1>2, OfOne DEF Unbroken
<1> QED BY <1>7, <1>8, <1>9 DEF Inductive

LEMMA RedisReturnsKeeps ==
    ASSUME Inductive, RedisReturns
    PROVE  Inductive'
<1>1. \A x \in Pods : InUse(x)' = InUse(x)
  BY DEF RedisReturns, InUse, Holders, Pending
<1>2. TypeOK'
  BY <1>1 DEF RedisReturns, Inductive, TypeOK
<1> QED BY <1>2 DEF RedisReturns, Inductive, Requests, Segments

LEMMA ConnectionBreaksKeeps ==
    ASSUME Inductive, NEW s \in Streams, ConnectionBreaks(s)
    PROVE  Inductive'
<1>1. PICK how \in {"broken", "mute"} :
          stream' = [stream EXCEPT ![s] = Lost(stream[s], how)]
  BY DEF ConnectionBreaks, Inductive, TypeOK
<1> DEFINE r == Lost(stream[s], how)
<1>2. /\ stream' = [stream EXCEPT ![s] = r]
      /\ UNCHANGED <<up, client, call, queue, published, joined, heard>>
      /\ stream[s].conn # "none"
  BY <1>1 DEF ConnectionBreaks
<1>3. Fits(r) /\ r.at = stream[s].at /\ r.pc = stream[s].pc /\ r.conn # "live"
  BY OfOne, LostFits
<1>4. Unbroken(r, joined[s], heard[s], queue[s], published)
  BY <1>3, OfOne DEF Unbroken
<1> HIDE DEF r
<1> QED BY <1>2, <1>3, <1>4, OfOne, StreamOnly

LEMMA SilenceBreaksKeeps ==
    ASSUME Inductive, NEW s \in Streams, SilenceBreaks(s)
    PROVE  Inductive'
<1> DEFINE r == [stream[s] EXCEPT !.conn = "broken"]
<1>1. /\ stream' = [stream EXCEPT ![s] = r]
      /\ UNCHANGED <<up, client, call, queue, published, joined, heard>>
      /\ stream[s].conn = "mute"
  BY DEF SilenceBreaks, Inductive, TypeOK
<1>2. Fits(r) /\ r.at = stream[s].at /\ r.pc = stream[s].pc /\ r.conn # "live"
  BY <1>1, OfOne DEF Fits, Stream
<1>3. Unbroken(r, joined[s], heard[s], queue[s], published)
  BY <1>2, OfOne DEF Unbroken
<1> HIDE DEF r
<1> QED BY <1>1, <1>2, <1>3, OfOne, StreamOnly

LEMMA OpenKeeps ==
    ASSUME Inductive, NEW s \in Streams, NEW u \in Users, NEW p \in Pods,
           Open(s, u, p)
    PROVE  Inductive'
<1> DEFINE r == [stream[s] EXCEPT !.pc = "open", !.user = u, !.at = p]
<1>1. /\ stream' = [stream EXCEPT ![s] = r]
      /\ UNCHANGED <<up, client, call, queue, published, joined, heard>>
      /\ stream[s].pc = "idle" /\ client[p] = "with"
  BY DEF Open, Inductive, TypeOK
<1>2. Fits(stream[s])
  BY OfOne
<1>3. r.at = p /\ r.conn = stream[s].conn /\ r.pc = "open"
  BY <1>2 DEF Fits, Stream
<1>4. Fits(r)
  BY <1>1, <1>2 DEF Fits, Stream
<1>5. r.conn = "none"
  BY <1>1, <1>2, <1>3 DEF Fits
<1>6. Unbroken(r, joined[s], heard[s], queue[s], published)
  BY <1>1, <1>3, OfOne DEF Unbroken
<1> HIDE DEF r
<1> QED BY <1>1, <1>3, <1>4, <1>5, <1>6, OfOne, StreamOnly

LEMMA SubscribeKeeps ==
    ASSUME Inductive, NEW s \in Streams, Subscribe(s)
    PROVE  Inductive'
<1> DEFINE r == IF Free(stream[s].at)
                THEN [stream[s] EXCEPT !.pc = "streaming", !.conn = "live"]
                ELSE [stream[s] EXCEPT !.pc = "closing"]
<1>1. /\ stream' = [stream EXCEPT ![s] = r]
      /\ UNCHANGED <<up, client, call, queue, published, joined, heard>>
      /\ stream[s].pc = "open"
  BY DEF Subscribe, Inductive, TypeOK
<1>2. Fits(stream[s]) /\ stream[s].conn = "none"
  BY <1>1, OfOne DEF Fits
<1>3. r.at = stream[s].at /\ (r.conn = "none" \/ Free(r.at))
  BY <1>2 DEF Fits, Stream
<1>4. Fits(r)
  BY <1>1, <1>2 DEF Fits, Stream
<1>5. r.pc # "idle" /\ r.pc # "open"
  BY <1>2 DEF Fits, Stream
<1>6. Unbroken(r, joined[s], heard[s], queue[s], published)
  BY <1>1, <1>5, OfOne DEF Unbroken
<1> HIDE DEF r
<1> QED BY <1>1, <1>3, <1>4, <1>6, OfOne, StreamOnly

LEMMA StreamFailsKeeps ==
    ASSUME Inductive, NEW s \in Streams, StreamFails(s)
    PROVE  Inductive'
<1> DEFINE r == [stream[s] EXCEPT !.pc = "closing", !.conn = "closed"]
<1>1. /\ stream' = [stream EXCEPT ![s] = r]
      /\ queue' = [queue EXCEPT ![s] = <<>>]
      /\ UNCHANGED <<up, client, call, published, joined, heard>>
      /\ stream[s].pc = "streaming" /\ stream[s].conn = "broken"
  BY DEF StreamFails, Inductive, TypeOK
<1>2. Fits(r) /\ r.at = stream[s].at /\ r.pc = "closing"
  BY <1>1, OfOne DEF Fits, Stream
<1> HIDE DEF r
<1> QED BY <1>1, <1>2, OfOne, StreamDrops

LEMMA LeaveKeeps ==
    ASSUME Inductive, NEW s \in Streams, Leave(s)
    PROVE  Inductive'
<1> DEFINE r == [stream[s] EXCEPT !.gone = TRUE]
<1>1. /\ stream' = [stream EXCEPT ![s] = r]
      /\ UNCHANGED <<up, client, call, queue, published, joined, heard>>
  BY DEF Leave, Inductive, TypeOK
<1>2. /\ Fits(r) /\ r.at = stream[s].at /\ r.pc = stream[s].pc
      /\ r.conn = stream[s].conn
  BY OfOne DEF Fits, Stream
<1>3. Unbroken(r, joined[s], heard[s], queue[s], published)
  BY <1>2, OfOne DEF Unbroken
<1>4. r.conn = "none" \/ stream[s].conn # "none"
  BY <1>2
<1> HIDE DEF r
<1> QED BY <1>1, <1>2, <1>3, <1>4, OfOne, StreamOnly

LEMMA CancelKeeps ==
    ASSUME Inductive, NEW s \in Streams, Cancel(s)
    PROVE  Inductive'
<1> DEFINE r == [stream[s] EXCEPT !.pc = "closing"]
<1>1. /\ stream' = [stream EXCEPT ![s] = r]
      /\ queue' = [queue EXCEPT ![s] = <<>>]
      /\ UNCHANGED <<up, client, call, published, joined, heard>>
      /\ stream[s].pc \in {"open", "streaming"}
  BY DEF Cancel, Inductive, TypeOK
<1>2. /\ Fits(r) /\ r.at = stream[s].at /\ r.pc = "closing"
      /\ r.conn = stream[s].conn
  BY <1>1, OfOne DEF Fits, Stream
<1>3. r.conn = "none" \/ stream[s].conn # "none"
  BY <1>2
<1> HIDE DEF r
<1> QED BY <1>1, <1>2, <1>3, OfOne, StreamDrops

LEMMA UnsubscribeKeeps ==
    ASSUME Inductive, NEW s \in Streams, Unsubscribe(s)
    PROVE  Inductive'
<1>1. /\ stream[s].pc = "closing"
      /\ UNCHANGED <<up, client, call, queue, published, joined, heard>>
  BY DEF Unsubscribe
<1>2. /\ Fits(stream[s]) /\ stream[s].at \in Pods
      /\ Unbroken(stream[s], joined[s], heard[s], queue[s], published)
  BY <1>1, OfOne DEF Fits
<1>3. ASSUME CanSend(stream[s]),
             stream' = [stream EXCEPT ![s] = [stream[s] EXCEPT
                 !.pc = "release",
                 !.conn = IF stream[s].conn \in {"broken", "mute"}
                          THEN stream[s].conn ELSE "live"]]
      PROVE  Inductive'
  <2> DEFINE r == [stream[s] EXCEPT !.pc = "release",
                      !.conn = IF stream[s].conn \in {"broken", "mute"}
                               THEN stream[s].conn ELSE "live"]
  <2>1. Fits(r) /\ r.at = stream[s].at /\ r.pc = "release"
    BY <1>1, <1>2 DEF Fits, Stream
  <2>2. stream[s].conn # "none" \/ Free(r.at)
    BY <1>2, <1>3, <2>1 DEF CanSend, Fits, Stream
  <2>3. Unbroken(r, joined[s], heard[s], queue[s], published)
    BY <1>2, <2>1 DEF Unbroken
  <2>4. stream' = [stream EXCEPT ![s] = r]
    BY <1>3
  <2> HIDE DEF r
  <2> QED BY <1>1, <2>1, <2>2, <2>3, <2>4, OfOne, StreamOnly
<1>4. ASSUME CanRaise(stream[s]), stream[s].conn = "none",
             stream' = [stream EXCEPT ![s] = Over]
      PROVE  Inductive'
  <2>1. Over.pc = "ended"
    BY DEF Over, NoStream
  <2>2. Unbroken(Over, joined[s], heard[s], queue[s], published)
    BY <1>2, <2>1 DEF Unbroken
  <2> QED BY <1>1, <1>4, <2>2, OverFits, StreamOnly
<1>5. ASSUME CanRaise(stream[s]), stream[s].conn # "none",
             stream' = [stream EXCEPT ![s] =
                 [stream[s] EXCEPT !.pc = "ended", !.conn = "closed"]]
      PROVE  Inductive'
  <2> DEFINE r == [stream[s] EXCEPT !.pc = "ended", !.conn = "closed"]
  <2>1. stream[s].broke
    BY <1>2, <1>5 DEF CanRaise, Fits, Stream
  <2>2. Fits(r) /\ r.at = stream[s].at /\ r.pc = "ended"
    BY <1>2, <2>1 DEF Fits, Stream
  <2>3. Unbroken(r, joined[s], heard[s], queue[s], published)
    BY <1>2, <2>2 DEF Unbroken
  <2>4. stream' = [stream EXCEPT ![s] = r]
    BY <1>5
  <2> HIDE DEF r
  <2> QED BY <1>1, <1>5, <2>2, <2>3, <2>4, OfOne, StreamOnly
<1> QED BY <1>3, <1>4, <1>5 DEF Unsubscribe, Inductive, TypeOK

LEMMA CloseKeeps ==
    ASSUME Inductive, NEW s \in Streams, Close(s)
    PROVE  Inductive'
<1>1. /\ stream' = [stream EXCEPT ![s] = Over]
      /\ UNCHANGED <<up, client, call, queue, published, joined, heard>>
      /\ stream[s].pc = "release"
  BY DEF Close
<1>2. Over.pc = "ended"
  BY DEF Over, NoStream
<1>3. Unbroken(Over, joined[s], heard[s], queue[s], published)
  BY <1>1, <1>2, OfOne DEF Unbroken
<1> QED BY <1>1, <1>3, OverFits, StreamOnly

\* Streams and commands stay as they are.
LEMMA SequencesOnly ==
    ASSUME Inductive, SequencesTyped', UNCHANGED <<up, client, stream, call>>
    PROVE  TypeOK' /\ Requests'
<1>1. \A p \in Pods : InUse(p)' = InUse(p)
  BY DEF InUse, Holders, Pending
<1> QED BY <1>1 DEF Inductive, TypeOK, SequencesTyped, Requests

LEMMA InForceKeeps ==
    ASSUME Inductive, NEW s \in Streams, InForce(s)
    PROVE  Inductive'
<1> DEFINE u == stream[s].user
           j == [user |-> u, from |-> published[u]]
<1>1. /\ stream[s].pc = "streaming" /\ joined[s] = None
      /\ joined' = [joined EXCEPT ![s] = j]
      /\ UNCHANGED <<up, client, stream, call, queue, published, heard>>
  BY DEF InForce
<1>2. u \in Users /\ published[u] \in Nat
  BY <1>1, OfOne DEF Fits, Inductive, TypeOK
<1>3. SequencesTyped'
  BY <1>1, <1>2 DEF SequencesTyped, Inductive, TypeOK
<1>4. TypeOK' /\ Requests'
  BY <1>1, <1>3, SequencesOnly
<1>5. heard[s] = <<>> /\ queue[s] = <<>>
  BY <1>1, OfOne DEF Unbroken
<1>6. Unbroken(stream[s], j, heard[s], queue[s], published)
  BY <1>1, <1>2, <1>5 DEF Unbroken
<1>7. Segments'
  <2> SUFFICES ASSUME NEW x \in Streams
               PROVE  Unbroken(stream[x], joined'[x], heard[x], queue[x],
                               published)
    BY <1>1 DEF Segments
  <2>1. CASE x = s
    BY <1>1, <1>6, <2>1 DEF Inductive, TypeOK
  <2>2. CASE x # s
    BY <1>1, <2>2, OfOne DEF Inductive, TypeOK
  <2> QED BY <2>1, <2>2
<1> QED BY <1>4, <1>7 DEF Inductive

LEMMA Regroup ==
    \A a, b, c \in Nat :
        /\ a + b + 1 = a + (b + 1)
        /\ a + b + (c + 1) = a + (b + 1) + c
OBVIOUS

\* The first message on its way is the next one to be told.
LEMMA TakeNext ==
    ASSUME NEW r, NEW j \in [user : Users, from : Nat] \cup {None},
           NEW h \in Seq(Message), NEW q \in Seq(Message), q # <<>>,
           NEW p \in [Users -> Nat], Unbroken(r, j, h, q, p)
    PROVE  /\ j # None
           /\ Head(q) = [to |-> j.user, no |-> j.from + (Len(h) + 1)]
           /\ j.from + (Len(h) + 1) <= p[j.user]
           /\ Head(q) \in Message
           /\ Unbroken(r, j, Append(h, Head(q)), Tail(q), p)
<1>1. j # None /\ j \in [user : Users, from : Nat]
  BY DEF Unbroken
<1>2. /\ j.from \in Nat /\ p[j.user] \in Nat
      /\ Len(h) \in Nat /\ Len(q) \in Nat /\ Len(q) >= 1
  BY <1>1
<1>3. /\ \A i \in 1..Len(h) : h[i] = [to |-> j.user, no |-> j.from + i]
      /\ \A i \in 1..Len(q) :
             q[i] = [to |-> j.user, no |-> j.from + Len(h) + i]
      /\ j.from + Len(h) + Len(q) <= p[j.user]
      /\ r.pc = "streaming" /\ r.conn = "live" =>
             j.from + Len(h) + Len(q) = p[j.user]
  BY <1>1 DEF Unbroken
<1>4. Head(q) = q[1] /\ Head(q) \in Message
  OBVIOUS
<1>5. Head(q) = [to |-> j.user, no |-> j.from + (Len(h) + 1)]
  <2>1. q[1] = [to |-> j.user, no |-> j.from + Len(h) + 1]
    BY <1>2, <1>3
  <2>2. j.from + Len(h) + 1 = j.from + (Len(h) + 1)
    BY <1>2, Regroup
  <2> QED BY <1>4, <2>1, <2>2
<1>6. j.from + (Len(h) + 1) <= p[j.user]
  BY <1>2, <1>3
<1> DEFINE g == Append(h, Head(q))
           w == Tail(q)
<1>7. Len(g) = Len(h) + 1 /\ Len(w) = Len(q) - 1
  BY <1>4
<1>8. \A i \in 1..Len(g) : g[i] = [to |-> j.user, no |-> j.from + i]
  <2> SUFFICES ASSUME NEW i \in 1..Len(g)
               PROVE  g[i] = [to |-> j.user, no |-> j.from + i]
    OBVIOUS
  <2>1. CASE i = Len(h) + 1
    <3>1. g[i] = Head(q)
      BY <1>4, <2>1
    <3> QED BY <1>5, <2>1, <3>1
  <2>2. CASE i # Len(h) + 1
    <3>1. i \in 1..Len(h)
      BY <1>2, <1>7, <2>2
    <3>2. g[i] = h[i]
      BY <1>4, <3>1
    <3> QED BY <1>3, <3>1, <3>2
  <2> QED BY <2>1, <2>2
<1>9. \A i \in 1..Len(w) :
          w[i] = [to |-> j.user, no |-> j.from + Len(g) + i]
  <2> SUFFICES ASSUME NEW i \in 1..Len(w)
               PROVE  w[i] = [to |-> j.user, no |-> j.from + Len(g) + i]
    OBVIOUS
  <2>1. i \in Nat /\ i + 1 \in 1..Len(q) /\ w[i] = q[i + 1]
    BY <1>2, <1>7
  <2>2. q[i + 1] = [to |-> j.user, no |-> j.from + Len(h) + (i + 1)]
    BY <1>3, <2>1
  <2>3. j.from + Len(h) + (i + 1) = j.from + (Len(h) + 1) + i
    <3>1. i \in Nat
      BY <2>1
    <3>2. j.from \in Nat /\ Len(h) \in Nat
      BY <1>2
    <3>3. \A a, b, c \in Nat : a + b + (c + 1) = a + (b + 1) + c
      BY Regroup
    <3> HIDE DEF g, w
    <3> QED BY ONLY <3>1, <3>2, <3>3
  <2> QED BY <1>7, <2>1, <2>2, <2>3
<1>10. j.from + Len(g) + Len(w) = j.from + Len(h) + Len(q)
  <2>1. Len(w) \in Nat /\ Len(q) = Len(w) + 1
    BY <1>2, <1>7
  <2>2. \A a, b, c \in Nat : a + b + (c + 1) = a + (b + 1) + c
    BY Regroup
  <2>3. j.from \in Nat /\ Len(h) \in Nat
    BY <1>2
  <2>4. j.from + Len(h) + (Len(w) + 1) = j.from + (Len(h) + 1) + Len(w)
    <3> HIDE DEF w
    <3> QED BY ONLY <2>1, <2>2, <2>3
  <2> QED BY <1>7, <2>1, <2>4
<1>11. r.pc \notin {"idle", "open"}
  BY <1>1 DEF Unbroken
<1>12. Unbroken(r, j, g, w, p)
  <2> HIDE DEF g, w
  <2> QED BY <1>1, <1>3, <1>8, <1>9, <1>10, <1>11 DEF Unbroken
<1> QED BY <1>1, <1>4, <1>5, <1>6, <1>12

LEMMA DeliverKeeps ==
    ASSUME Inductive, NEW s \in Streams, Deliver(s)
    PROVE  Inductive'
<1>1. /\ queue[s] # <<>>
      /\ heard' = [heard EXCEPT ![s] = Append(heard[s], Head(queue[s]))]
      /\ queue' = [queue EXCEPT ![s] = Tail(queue[s])]
      /\ UNCHANGED <<up, client, stream, call, published, joined>>
  BY DEF Deliver, Inductive, TypeOK
<1>2. /\ joined[s] \in [user : Users, from : Nat] \cup {None}
      /\ heard[s] \in Seq(Message) /\ queue[s] \in Seq(Message)
      /\ published \in [Users -> Nat]
  BY DEF Inductive, TypeOK
<1>3. /\ Head(queue[s]) \in Message
      /\ Unbroken(stream[s], joined[s], Append(heard[s], Head(queue[s])),
                  Tail(queue[s]), published)
  BY <1>1, <1>2, OfOne, TakeNext
<1>4. SequencesTyped'
  BY <1>1, <1>2, <1>3 DEF SequencesTyped, Inductive, TypeOK
<1>5. TypeOK' /\ Requests'
  BY <1>1, <1>4, SequencesOnly
<1>6. Segments'
  <2> SUFFICES ASSUME NEW x \in Streams
               PROVE  Unbroken(stream[x], joined[x], heard'[x], queue'[x],
                               published)
    BY <1>1 DEF Segments
  <2>1. CASE x = s
    BY <1>1, <1>3, <2>1 DEF Inductive, TypeOK
  <2>2. CASE x # s
    BY <1>1, <2>2, OfOne DEF Inductive, TypeOK
  <2> QED BY <2>1, <2>2
<1> QED BY <1>5, <1>6 DEF Inductive

LEMMA AskKeeps ==
    ASSUME Inductive, NEW c \in Calls, NEW p \in Pods,
           NEW to \in Users \cup {None}, Ask(c, p, to)
    PROVE  Inductive'
<1>1. /\ call' = [call EXCEPT ![c] = [at |-> p, to |-> to]]
      /\ UNCHANGED <<up, client, stream, queue, published, joined, heard>>
      /\ client[p] = "with" /\ InUse(p) < PoolSize
  BY DEF Ask, Free
<1>2. call' \in [Calls -> Call]
  BY <1>1 DEF Call, Inductive, TypeOK
<1>3. \A x \in Calls : call'[x].at = None \/ client'[call'[x].at] = "with"
  BY <1>1 DEF Inductive, TypeOK
<1>4. ASSUME NEW x \in Pods PROVE InUse(x)' <= PoolSize
  <2>1. Holders(x)' = Holders(x)
    BY <1>1 DEF Holders
  <2>2. \A d \in Calls : call'[d] = IF d = c THEN [at |-> p, to |-> to]
                                    ELSE call[d]
    BY <1>1 DEF Inductive, TypeOK
  <2>3. CASE x = p
    <3>1. Pending(x)' \subseteq Pending(x) \cup {c}
      BY <2>2 DEF Pending
    <3> QED BY <1>1, <2>1, <2>3, <3>1, PoolGrows
  <2>4. CASE x # p
    <3>1. Pending(x)' \subseteq Pending(x)
      BY <2>2, <2>4 DEF Pending
    <3>2. InUse(x) <= PoolSize
      BY DEF Inductive, TypeOK
    <3> QED BY <2>1, <3>1, <3>2, PoolShrinks
  <2> QED BY <2>3, <2>4
<1>5. TypeOK'
  BY <1>1, <1>2, <1>3, <1>4 DEF Inductive, TypeOK
<1> QED BY <1>1, <1>5 DEF Inductive, Requests, Segments

\* One more message for everybody who listens, and nothing for the others.
LEMMA OneMoreMessage ==
    ASSUME NEW r, NEW j \in [user : Users, from : Nat] \cup {None},
           NEW h \in Seq(Message), NEW q \in Seq(Message),
           NEW p \in [Users -> Nat], Unbroken(r, j, h, q, p),
           NEW u \in Users
    PROVE  LET more == [p EXCEPT ![u] = p[u] + 1]
               message == [to |-> u, no |-> p[u] + 1]
               listens == /\ r.pc = "streaming" /\ r.conn = "live"
                          /\ j # None /\ j.user = u
           IN  /\ listens => Unbroken(r, j, h, Append(q, message), more)
               /\ ~listens => Unbroken(r, j, h, q, more)
<1> DEFINE more == [p EXCEPT ![u] = p[u] + 1]
           message == [to |-> u, no |-> p[u] + 1]
           listens == /\ r.pc = "streaming" /\ r.conn = "live"
                      /\ j # None /\ j.user = u
<1>1. /\ more \in [Users -> Nat] /\ message \in Message
      /\ \A v \in Users : more[v] = IF v = u THEN p[v] + 1 ELSE p[v]
      /\ Len(h) \in Nat /\ Len(q) \in Nat
  BY DEF Message
<1>2. j # None => /\ j.user \in Users /\ j.from \in Nat
                  /\ p[j.user] \in Nat /\ p[j.user] <= more[j.user]
  <2> SUFFICES ASSUME j # None
               PROVE  /\ j.user \in Users /\ j.from \in Nat
                      /\ p[j.user] \in Nat /\ p[j.user] <= more[j.user]
    OBVIOUS
  <2>1. j.user \in Users /\ j.from \in Nat
    OBVIOUS
  <2>2. p[j.user] \in Nat
    BY <2>1
  <2>3. p[j.user] <= more[j.user]
    BY <1>1, <2>1, <2>2
  <2> QED BY <2>1, <2>2, <2>3
<1>3. ASSUME listens
      PROVE  Unbroken(r, j, h, Append(q, message), more)
  <2> DEFINE w == Append(q, message)
  <2>1. Len(w) = Len(q) + 1
    BY <1>1
  <2>2. j.from + Len(h) + Len(q) = p[u]
    BY <1>3 DEF Unbroken
  <2>7. j.from + Len(h) + (Len(q) + 1) = p[u] + 1
    <3>1. j.from \in Nat /\ p[u] \in Nat /\ Len(h) \in Nat /\ Len(q) \in Nat
      BY <1>1, <1>2, <1>3
    <3>2. \A a, b, c \in Nat : a + b + (c + 1) = (a + b + c) + 1
      OBVIOUS
    <3>3. j.from + Len(h) + (Len(q) + 1) = (j.from + Len(h) + Len(q)) + 1
      BY ONLY <3>1, <3>2
    <3> QED BY <2>2, <3>3
  <2>3. \A i \in 1..Len(w) :
            w[i] = [to |-> j.user, no |-> j.from + Len(h) + i]
    <3> SUFFICES ASSUME NEW i \in 1..Len(w)
                 PROVE  w[i] = [to |-> j.user, no |-> j.from + Len(h) + i]
      OBVIOUS
    <3>1. CASE i = Len(q) + 1
      <4>1. w[i] = message
        BY <1>1, <3>1
      <4>2. j.from + Len(h) + i = p[u] + 1
        <5>1. j.from + Len(h) + (Len(q) + 1) = p[u] + 1
          BY <2>7
        <5> QED BY <3>1, <5>1
      <4> QED BY <1>3, <4>1, <4>2
    <3>2. CASE i # Len(q) + 1
      <4>1. i \in 1..Len(q)
        BY <1>1, <2>1, <3>2
      <4>2. w[i] = q[i]
        BY <1>1, <4>1
      <4>3. q[i] = [to |-> j.user, no |-> j.from + Len(h) + i]
        BY <1>3, <4>1 DEF Unbroken
      <4> QED BY <4>2, <4>3
    <3> QED BY <3>1, <3>2
  <2>4. j.from + Len(h) + Len(w) = more[u]
    <3>1. more[u] = p[u] + 1
      BY <1>1
    <3> QED BY <2>1, <2>7, <3>1
  <2>5. more[u] \in Nat
    BY <1>1
  <2>6. /\ r.pc \notin {"idle", "open"} /\ j # None /\ j.user = u
        /\ \A i \in 1..Len(h) : h[i] = [to |-> j.user, no |-> j.from + i]
    BY <1>3 DEF Unbroken
  <2>8. Unbroken(r, j, h, w, more)
    <3> HIDE DEF w, more
    <3>1. j.from + Len(h) + Len(w) <= more[u]
      BY <2>4, <2>5
    <3> QED BY <2>3, <2>4, <2>6, <3>1 DEF Unbroken
  <2> QED BY <2>8
<1>4. ASSUME ~listens
      PROVE  Unbroken(r, j, h, q, more)
  <2>1. CASE j = None
    BY <2>1 DEF Unbroken
  <2>2. CASE j # None
    <3>1. /\ \A i \in 1..Len(h) : h[i] = [to |-> j.user, no |-> j.from + i]
          /\ \A i \in 1..Len(q) :
                 q[i] = [to |-> j.user, no |-> j.from + Len(h) + i]
          /\ j.from + Len(h) + Len(q) <= p[j.user]
          /\ r.pc \notin {"idle", "open"}
      BY <2>2 DEF Unbroken
    <3>2. j.from + Len(h) + Len(q) <= more[j.user]
      <4>1. \A a, b, c, d, e \in Nat :
                a + b + c <= d /\ d <= e => a + b + c <= e
        OBVIOUS
      <4>2. more[j.user] \in Nat
        BY <1>1, <1>2, <2>2
      <4> QED BY <1>1, <1>2, <2>2, <3>1, <4>1, <4>2
    <3>3. r.pc = "streaming" /\ r.conn = "live" =>
              j.from + Len(h) + Len(q) = more[j.user]
      <4>1. SUFFICES ASSUME r.pc = "streaming", r.conn = "live"
                     PROVE  j.from + Len(h) + Len(q) = more[j.user]
        OBVIOUS
      <4>2. j.user # u
        BY <1>4, <2>2, <4>1
      <4>3. more[j.user] = p[j.user]
        BY <1>1, <1>2, <2>2, <4>2
      <4> QED BY <2>2, <4>1, <4>3 DEF Unbroken
    <3> HIDE DEF more
    <3> QED BY <2>2, <3>1, <3>2, <3>3 DEF Unbroken
  <2> QED BY <2>1, <2>2
<1> QED BY <1>3, <1>4

LEMMA RunPublishKeeps ==
    ASSUME Inductive, NEW u \in Users, RunPublish(u),
           UNCHANGED <<stream, joined, heard>>
    PROVE  SequencesTyped' /\ Segments'
<1> DEFINE message == [to |-> u, no |-> published[u] + 1]
<1>1. /\ published' = [published EXCEPT ![u] = published[u] + 1]
      /\ \A s \in Streams :
             queue'[s] = IF s \in Subscribers(u)
                         THEN Append(queue[s], message) ELSE queue[s]
      /\ queue' = [s \in Streams |-> queue'[s]]
  BY DEF RunPublish
<1>2. message \in Message /\ published \in [Users -> Nat]
  BY DEF Message, Inductive, TypeOK
<1>3. queue' \in [Streams -> Seq(Message)]
  <2>1. ASSUME NEW s \in Streams PROVE queue'[s] \in Seq(Message)
    <3>1. queue[s] \in Seq(Message)
      BY DEF Inductive, TypeOK
    <3>2. Append(queue[s], message) \in Seq(Message)
      BY <1>2, <3>1
    <3> QED BY <1>1, <3>1, <3>2
  <2> QED BY <1>1, <2>1
<1>4. SequencesTyped'
  BY <1>1, <1>2, <1>3 DEF SequencesTyped, Inductive, TypeOK
<1>5. Segments'
  <2> SUFFICES ASSUME NEW s \in Streams
               PROVE  Unbroken(stream[s], joined[s], heard[s], queue'[s],
                               published')
    BY DEF Segments
  <2>1. /\ joined[s] \in [user : Users, from : Nat] \cup {None}
        /\ heard[s] \in Seq(Message) /\ queue[s] \in Seq(Message)
    BY DEF Inductive, TypeOK
  <2>2. Unbroken(stream[s], joined[s], heard[s], queue[s], published)
    BY OfOne
  <2>3. CASE s \in Subscribers(u)
    <3>1. /\ stream[s].pc = "streaming" /\ stream[s].conn = "live"
          /\ joined[s] # None /\ joined[s].user = u
      BY <2>3 DEF Subscribers
    <3>2. queue'[s] = Append(queue[s], message)
      BY <1>1, <2>3
    <3>3. Unbroken(stream[s], joined[s], heard[s],
                   Append(queue[s], message),
                   [published EXCEPT ![u] = published[u] + 1])
      BY <1>2, <2>1, <2>2, <3>1, OneMoreMessage
    <3> QED BY <1>1, <3>2, <3>3
  <2>4. CASE s \notin Subscribers(u)
    <3>1. ~(/\ stream[s].pc = "streaming" /\ stream[s].conn = "live"
            /\ joined[s] # None /\ joined[s].user = u)
      BY <2>4 DEF Subscribers
    <3>2. queue'[s] = queue[s]
      BY <1>1, <2>4
    <3>3. Unbroken(stream[s], joined[s], heard[s], queue[s],
                   [published EXCEPT ![u] = published[u] + 1])
      BY <1>2, <2>1, <2>2, <3>1, OneMoreMessage
    <3> QED BY <1>1, <3>2, <3>3
  <2> QED BY <2>3, <2>4
<1> QED BY <1>4, <1>5

LEMMA AnswerKeeps ==
    ASSUME Inductive, NEW c \in Calls, Answer(c)
    PROVE  Inductive'
<1>1. /\ call' = [call EXCEPT ![c] = NoCall]
      /\ UNCHANGED <<up, client, stream, joined, heard>>
  BY DEF Answer
<1>2. SequencesTyped' /\ Segments'
  <2>1. CASE call[c].to # None /\ RunPublish(call[c].to)
    <3>1. call[c].to \in Users
      BY <2>1 DEF Inductive, TypeOK, Call
    <3> QED BY <1>1, <2>1, <3>1, RunPublishKeeps
  <2>2. CASE UNCHANGED <<queue, published>>
    BY <1>1, <2>2 DEF SequencesTyped, Segments, Inductive, TypeOK
  <2> QED BY <2>1, <2>2 DEF Answer
<1>3. \A d \in Calls : call'[d] = IF d = c THEN NoCall ELSE call[d]
  BY <1>1 DEF Inductive, TypeOK
<1>4. call' \in [Calls -> Call]
  BY <1>1 DEF NoCall, Call, Inductive, TypeOK
<1>5. \A d \in Calls : call'[d].at = None \/ client'[call'[d].at] = "with"
  BY <1>1, <1>3 DEF NoCall, Inductive, TypeOK
<1>6. ASSUME NEW x \in Pods PROVE InUse(x)' <= PoolSize
  <2>1. Holders(x)' = Holders(x)
    BY <1>1 DEF Holders
  <2>2. Pending(x)' \subseteq Pending(x)
    BY <1>3, NoneAssumption DEF Pending, NoCall
  <2>3. InUse(x) <= PoolSize
    BY DEF Inductive, TypeOK
  <2> QED BY <2>1, <2>2, <2>3, PoolShrinks
<1>7. TypeOK'
  BY <1>1, <1>2, <1>4, <1>5, <1>6 DEF SequencesTyped, Inductive, TypeOK
<1> QED BY <1>1, <1>2, <1>7 DEF Inductive, Requests

-----------------------------------------------------------------------------
(* The theorems.                                                             *)

LEMMA InitInductive == Init => Inductive
<1> SUFFICES ASSUME Init PROVE Inductive
  OBVIOUS
<1>1. \A s \in Streams : stream[s] = NoStream
  BY DEF Init
<1>2. NoStream \in Stream /\ NoCall \in Call
  BY DEF NoStream, Stream, NoCall, Call
<1>3. \A p \in Pods : Holders(p) = {} /\ Pending(p) = {}
  BY NoneAssumption DEF Init, Holders, Pending, NoStream, NoCall
<1>4. \A p \in Pods : InUse(p) = 0
  BY <1>3, FS_EmptySet DEF InUse
<1>5. TypeOK
  <2>1. \A p \in Pods : InUse(p) <= PoolSize
    BY <1>4, PoolAssumption
  <2>2. \A s \in Streams : stream[s].at = None
    BY <1>1 DEF NoStream
  <2>3. \A c \in Calls : call[c].at = None
    BY DEF Init, NoCall
  <2> QED BY <1>2, <2>1, <2>2, <2>3 DEF Init, TypeOK
<1>6. Requests
  BY <1>1, <1>2 DEF Requests, Fits, NoStream
<1>7. Segments
  BY DEF Init, Segments, Unbroken
<1> QED BY <1>5, <1>6, <1>7 DEF Inductive

LEMMA NextInductive == Inductive /\ [Next]_vars => Inductive'
<1> SUFFICES ASSUME Inductive, [Next]_vars PROVE Inductive'
  OBVIOUS
<1>1. CASE UNCHANGED vars
  <2>1. \A p \in Pods : InUse(p)' = InUse(p)
    BY <1>1 DEF vars, InUse, Holders, Pending
  <2> QED
    BY <1>1, <2>1 DEF vars, Inductive, TypeOK, Requests, Segments
<1>2. ASSUME NEW p \in Pods, Start(p) \/ Stop(p) PROVE Inductive'
  BY <1>2, StartKeeps, StopKeeps
<1>3. CASE RedisFails \/ RedisReturns
  BY <1>3, RedisFailsKeeps, RedisReturnsKeeps
<1>4. ASSUME NEW s \in Streams, NEW u \in Users, NEW p \in Pods, Open(s, u, p)
      PROVE  Inductive'
  BY <1>4, OpenKeeps
<1>5. ASSUME NEW s \in Streams,
             \/ ConnectionBreaks(s) \/ SilenceBreaks(s)
             \/ Subscribe(s) \/ InForce(s) \/ Leave(s)
      PROVE  Inductive'
  BY <1>5, ConnectionBreaksKeeps, SilenceBreaksKeeps, SubscribeKeeps,
     InForceKeeps, LeaveKeeps
<1>6. ASSUME NEW s \in Streams, Work(s) PROVE Inductive'
  BY <1>6, DeliverKeeps, StreamFailsKeeps, CancelKeeps, UnsubscribeKeeps,
     CloseKeeps DEF Work
<1>7. ASSUME NEW c \in Calls, NEW p \in Pods, NEW to \in Users \cup {None},
             Ask(c, p, to)
      PROVE  Inductive'
  BY <1>7, AskKeeps
<1>8. ASSUME NEW c \in Calls, Answer(c) PROVE Inductive'
  BY <1>8, AnswerKeeps
<1> QED
  BY <1>1, <1>2, <1>3, <1>4, <1>5, <1>6, <1>7, <1>8 DEF Next

\* services/notification/sse.py: what is on its way to a stream, what it was
\* told and what its connection may be.
THEOREM InductiveInvariant == Spec => []Inductive
BY InitInductive, NextInductive, PTL DEF Spec

\* core/redis.py 31: the components keep their types, and no pool is overdrawn
\* however streams and commands come, go and break.
THEOREM TypeCorrect == Spec => []TypeOK
<1>1. Inductive => TypeOK
  BY DEF Inductive
<1> QED BY <1>1, InductiveInvariant, PTL

\* sse.py 89-91: a stream gives its connection back unless that was lost.
THEOREM SlotsLostForCause == Spec => []SlotLostForCause
<1>1. Inductive => SlotLostForCause
  BY DEF Inductive, Requests, SlotLostForCause, Fits
<1> QED BY <1>1, InductiveInvariant, PTL

LEMMA StepIsFeedStep ==
    ASSUME Inductive, [Next]_vars
    PROVE  [F!FeedNext]_(F!feedVars)
<1>1. \/ UNCHANGED <<published, joined, heard>>
      \/ \E s \in Streams : InForce(s) \/ Deliver(s)
      \/ \E c \in Calls :
             Answer(c) /\ call[c].to # None /\ RunPublish(call[c].to)
  BY DEF Next, vars, Start, Stop, RedisFails, RedisReturns, Open,
         ConnectionBreaks, SilenceBreaks, Subscribe, Leave, Work,
         StreamFails, Cancel, Unsubscribe, Close, Ask, Answer
<1>2. CASE UNCHANGED <<published, joined, heard>>
  BY <1>2 DEF F!feedVars
<1>3. ASSUME NEW s \in Streams, InForce(s) PROVE F!FeedNext
  <2>1. stream[s].user \in Users
    BY <1>3, OfOne DEF InForce, Fits
  <2>2. F!Join(s, stream[s].user)
    BY <1>3 DEF InForce, F!Join
  <2> QED BY <2>1, <2>2 DEF F!FeedNext
<1>4. ASSUME NEW s \in Streams, Deliver(s) PROVE F!FeedNext
  <2>1. /\ joined[s] \in [user : Users, from : Nat] \cup {None}
        /\ heard[s] \in Seq(Message) /\ queue[s] \in Seq(Message)
        /\ published \in [Users -> Nat] /\ queue[s] # <<>>
    BY <1>4 DEF Inductive, TypeOK, Deliver
  <2>2. /\ joined[s] # None
        /\ Head(queue[s]) = [to |-> joined[s].user,
                             no |-> joined[s].from + (Len(heard[s]) + 1)]
        /\ joined[s].from + (Len(heard[s]) + 1) <= published[joined[s].user]
    <3>1. Unbroken(stream[s], joined[s], heard[s], queue[s], published)
      BY OfOne
    <3> QED BY <2>1, <3>1, TakeNext
  <2>3. F!Following(s, Len(heard[s]) + 1) = Head(queue[s])
    BY <2>2 DEF F!Following
  <2>4. F!Hear(s)
    <3> DEFINE next == F!Following(s, Len(heard[s]) + 1)
    <3>1. /\ next.no = joined[s].from + (Len(heard[s]) + 1)
          /\ next.to = joined[s].user
      BY DEF F!Following
    <3>2. heard' = [heard EXCEPT ![s] = Append(heard[s], next)]
      BY <1>4, <2>3 DEF Deliver
    <3>3. UNCHANGED <<published, joined>>
      BY <1>4 DEF Deliver
    <3> QED BY <2>2, <3>1, <3>2, <3>3 DEF F!Hear
  <2> QED BY <2>4 DEF F!FeedNext
<1>5. ASSUME NEW c \in Calls, Answer(c), call[c].to # None,
             RunPublish(call[c].to)
      PROVE  F!FeedNext
  <2>1. call[c].to \in Users
    BY <1>5 DEF Inductive, TypeOK, Call
  <2>2. F!Publish(call[c].to)
    BY <1>5 DEF Answer, RunPublish, F!Publish
  <2> QED BY <2>1, <2>2 DEF F!FeedNext
<1> QED BY <1>1, <1>2, <1>3, <1>4, <1>5

\* sse.py 55-92, utils_report.md 127-130: whatever breaks, a stream is told an
\* unbroken stretch of its own user's messages, in the order they were
\* published.
THEOREM StreamsAreFeeds == Spec => FeedSpec
<1>1. Init => F!FeedInit
  BY DEF Init, F!FeedInit
<1>2. Inductive /\ [Next]_vars => [F!FeedNext]_(F!feedVars)
  BY StepIsFeedStep
<1> QED
  BY <1>1, <1>2, InductiveInvariant, PTL DEF Spec, FeedSpec, F!FeedSpec

\* The same promise about the state, without a look at the steps.
THEOREM StreamsAreGapless == Spec => []F!Gapless
<1>1. ASSUME Inductive PROVE F!Gapless
  <2> SUFFICES ASSUME NEW s \in Streams, NEW i \in 1..Len(heard[s])
               PROVE  /\ joined[s] # None
                      /\ heard[s][i] = F!Following(s, i)
                      /\ heard[s][i].no <= published[joined[s].user]
    BY DEF F!Gapless
  <2>1. /\ joined[s] \in [user : Users, from : Nat] \cup {None}
        /\ heard[s] \in Seq(Message) /\ queue[s] \in Seq(Message)
        /\ published \in [Users -> Nat]
    BY <1>1 DEF Inductive, TypeOK
  <2>2. Unbroken(stream[s], joined[s], heard[s], queue[s], published)
    BY <1>1, OfOne
  <2>3. joined[s] # None
    BY <2>1, <2>2 DEF Unbroken
  <2>4. heard[s][i] = [to |-> joined[s].user, no |-> joined[s].from + i]
    BY <2>2, <2>3 DEF Unbroken
  <2>5. joined[s].from + i <= published[joined[s].user]
    <3>1. joined[s].from + Len(heard[s]) + Len(queue[s])
              <= published[joined[s].user]
      BY <2>2, <2>3 DEF Unbroken
    <3>2. /\ joined[s].from \in Nat /\ published[joined[s].user] \in Nat
          /\ Len(heard[s]) \in Nat /\ Len(queue[s]) \in Nat
          /\ i \in Nat /\ i <= Len(heard[s])
      BY <2>1, <2>3
    <3>3. \A a, b, c, d, e \in Nat : a + b + c <= d /\ e <= b => a + e <= d
      OBVIOUS
    <3> QED BY <3>1, <3>2, <3>3
  <2> QED BY <2>3, <2>4, <2>5 DEF F!Following
<1> QED BY <1>1, InductiveInvariant, PTL

=============================================================================
