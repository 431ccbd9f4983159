-------------------------- MODULE RateLimitProofs --------------------------
(* Proofs about RateLimit, for any limit, window, lag and requests.         *)
(*                                                                          *)
(*   InductiveInvariant   what the sorted set still has to know             *)
(*   TypeCorrect          types, and the key is there while it has members  *)
(*   AdmittedBounded      what any stretch of time can have let through     *)
(*   RefusalsHaveCause    a refusal has a cause inside the window           *)
(*                                                                          *)
(* A reading that was let through and is younger than the window is still a *)
(* member: nothing prunes it, and the key lives until it is older.  So the  *)
(* last reading of a stretch that is let through is counted together with   *)
(* all the others.                                                          *)
EXTENDS RateLimit, FiniteSetTheorems, TLAPS

-----------------------------------------------------------------------------
(* The invariant.                                                            *)

\* The young members keep the key alive, what was let through is a member
\* while it is young, and what is a member has been heard.
Kept ==
    /\ \A a \in log : a < Window => Window + Slack <= ttl + a
    /\ \A a \in passed : a < Window => a \in log
    /\ \A a \in log : a < Stale => a \in heard

Inductive ==
    /\ TypeOK
    /\ Kept
    /\ AdmittedBound

LEMMA Numbers ==
    /\ Window \in Nat /\ Limit \in Nat /\ Slack \in Nat /\ Lag \in Nat
    /\ 0 < Slack /\ Lag < Window /\ Stale \in Nat /\ Stale = Window + Lag
BY WindowAssumption DEF Stale

\* Sets of ages are finite.
LEMMA AgesFinite ==
    ASSUME NEW S, S \subseteq 0..Stale
    PROVE  IsFiniteSet(S) /\ Cardinality(S) \in Nat
<1>1. IsFiniteSet(0..Stale)
  BY Numbers, FS_Interval
<1>. QED
  BY <1>1, FS_Subset, FS_CardinalityType

LEMMA FewerAges ==
    ASSUME NEW S, NEW T, S \subseteq T, T \subseteq 0..Stale
    PROVE  Cardinality(S) <= Cardinality(T)
BY AgesFinite, FS_Subset

LEMMA Ages ==
    \A a \in 0..Stale : /\ a \in Nat
                        /\ a < Window => a < Stale
                        /\ a # Stale <=> a < Stale
                        /\ a - 1 \in Nat => a - 1 < Stale /\ (a - 1) + 1 = a
BY Numbers

-----------------------------------------------------------------------------
(* A pipeline.                                                               *)

LEMMA CountType ==
    ASSUME TypeOK, NEW age \in 0..Lag
    PROVE  /\ age \in 0..Stale /\ age <= Lag
           /\ Count(age) \subseteq 0..Stale
           /\ \A a \in log : a < age + Window => a \in Count(age)
           /\ \A a \in Count(age) : (a \in log /\ a < Stale) \/ a = age
<1>1. age \in Nat /\ age \in 0..Stale /\ age <= Lag
  BY Numbers
<1>2. \A a \in log : a \in 0..Stale
  BY DEF TypeOK
<1>3. \A a \in 0..Stale : a < age + Window => a < Stale
  BY <1>1, Numbers
<1>. QED
  BY <1>1, <1>2, <1>3 DEF Count, Pruned

\* What the four commands leave, whoever runs them.
LEMMA RecordKept ==
    ASSUME Inductive, NEW age \in 0..Lag, Record(age),
           passed' \subseteq passed \cup {age}
    PROVE  Kept' /\ log' \subseteq 0..Stale /\ heard' \subseteq 0..Stale
           /\ ttl' \in 0..(Window + Slack) /\ (log' = {} <=> ttl' = 0)
           /\ passed' \subseteq 0..Stale
<1>1. /\ log' = Count(age) /\ ttl' = Window + Slack
      /\ heard' = heard \cup {age}
  BY DEF Record
<1>2. TypeOK /\ Kept
  BY DEF Inductive
<1>3. age \in Count(age)
  BY DEF Count
<1>4. \A a \in log' : a \in Nat
  BY <1>1, <1>2, CountType, Numbers
<1>5. \A a \in passed' : a < Window => a \in log'
  <2>1. ASSUME NEW a \in passed, a < Window PROVE a \in Count(age)
    <3>1. a \in log /\ a \in Nat
      BY <1>2, <2>1, Numbers DEF Kept, TypeOK
    <3>2. a < age + Window
      BY <2>1, <3>1, Numbers
    <3>. QED
      BY <1>2, <3>1, <3>2, CountType
  <2>. QED
    BY <1>1, <1>3, <2>1
<1>6. \A a \in log' : a < Stale => a \in heard'
  BY <1>1, <1>2, CountType DEF Kept
<1>7. Kept'
  BY <1>1, <1>4, <1>5, <1>6, Numbers DEF Kept
<1>8. ttl' # 0 /\ log' # {}
  BY <1>1, <1>3, Numbers
<1>. QED
  BY <1>1, <1>2, <1>7, <1>8, CountType, Numbers DEF TypeOK

LEMMA AnswerType ==
    ASSUME TypeOK, NEW r \in Requests,
           NEW pc \in {"idle", "pipeline", "serve", "again", "refused"},
           Answer(r, pc)
    PROVE  req' \in [Requests -> Request]
<1>1. [pc |-> pc, age |-> 0] \in Request
  BY Numbers DEF Request
<1>. QED
  BY <1>1 DEF Answer, TypeOK

LEMMA AgeType ==
    ASSUME TypeOK, NEW r \in Requests PROVE req[r].age \in 0..Lag
BY DEF TypeOK, Request

\* A stretch that holds a reading of a request in flight is inside the window.
LEMMA Admits ==
    ASSUME Inductive, NEW age \in 0..Lag, ~Exceeds(age),
           NEW first \in 0..Stale, first <= age
    PROVE  Cardinality(Between(passed \cup {age}, first, first + Window - Lag))
               <= Limit
<1>. DEFINE S == Between(passed \cup {age}, first, first + Window - Lag)
<1>1. S \subseteq Count(age)
  <2>. SUFFICES ASSUME NEW a \in S PROVE a \in Count(age)
    OBVIOUS
  <2>1. a = age \/ a \in passed
    BY DEF Between
  <2>2. a < Window /\ a < age + Window /\ a \in Nat
    <3>1. a < first + Window - Lag /\ first <= Lag /\ a \in Nat
      BY <2>1, CountType, Numbers DEF Between, Inductive, TypeOK
    <3>2. first \in Nat /\ age \in Nat
      BY Numbers
    <3>. QED
      BY <3>1, <3>2, Numbers
  <2>3. CASE a = age
    BY <2>3 DEF Count
  <2>4. CASE a \in passed
    <3>1. a \in log
      BY <2>2, <2>4 DEF Inductive, Kept
    <3>. QED
      BY <2>2, <3>1, CountType DEF Inductive
  <2>. QED
    BY <2>1, <2>3, <2>4
<1>2. Count(age) \subseteq 0..Stale
  BY CountType DEF Inductive
<1>3. Cardinality(S) <= Cardinality(Count(age))
  BY <1>1, <1>2, FewerAges
<1>4. Cardinality(Count(age)) \in Nat /\ Cardinality(S) \in Nat
  BY <1>1, <1>2, AgesFinite
<1>. HIDE DEF S
<1>5. Cardinality(Count(age)) <= Limit
  BY <1>4, Numbers DEF Exceeds
<1>6. Cardinality(S) <= Limit
  BY <1>3, <1>4, <1>5, Numbers
<1>. QED
  BY <1>6 DEF S

LEMMA PipelineInductive ==
    ASSUME Inductive, NEW r \in Requests, Pipeline(r) PROVE Inductive'
<1>. DEFINE age == req[r].age
<1>1. age \in 0..Lag
  BY AgeType DEF Inductive
<1>2. Record(age) /\ (Answer(r, "refused") \/ Answer(r, "serve"))
      /\ passed' \subseteq passed \cup {age}
  BY DEF Pipeline
<1>3. \/ passed' = passed
      \/ passed' = passed \cup {age} /\ ~Exceeds(age)
  BY DEF Pipeline
<1>. HIDE DEF age
<1>4. Kept' /\ log' \subseteq 0..Stale /\ heard' \subseteq 0..Stale
      /\ ttl' \in 0..(Window + Slack) /\ (log' = {} <=> ttl' = 0)
      /\ passed' \subseteq 0..Stale
  BY <1>1, <1>2, RecordKept
<1>5. req' \in [Requests -> Request]
  BY <1>2, AnswerType DEF Inductive
<1>6. AdmittedBound'
  <2>1. CASE passed' = passed
    BY <2>1 DEF Inductive, AdmittedBound, Between
  <2>2. CASE passed' = passed \cup {age} /\ ~Exceeds(age)
    <3>. SUFFICES ASSUME NEW first \in 0..Stale
                  PROVE  Cardinality(Between(passed \cup {age}, first,
                                             first + Window - Lag)) <= Limit
      BY <2>2 DEF AdmittedBound, Between
    <3>1. CASE first <= age
      BY <1>1, <2>2, <3>1, Admits
    <3>2. CASE ~(first <= age)
      <4>1. Between(passed \cup {age}, first, first + Window - Lag)
                = Between(passed, first, first + Window - Lag)
        BY <3>2 DEF Between
      <4>. QED
        BY <4>1 DEF Inductive, AdmittedBound
    <3>. QED
      BY <3>1, <3>2
  <2>. QED
    BY <1>3, <2>1, <2>2
<1>. QED
  BY <1>4, <1>5, <1>6 DEF Inductive, TypeOK

LEMMA PassUnlimitedInductive ==
    ASSUME Inductive, NEW r \in Requests, PassUnlimited(r) PROVE Inductive'
<1>1. req' \in [Requests -> Request]
  BY AnswerType DEF PassUnlimited, Inductive
<1>2. passed' = passed
  BY DEF PassUnlimited
<1>3. AdmittedBound'
  BY <1>2 DEF Inductive, AdmittedBound, Between
<1>4. CASE UNCHANGED <<log, ttl, heard>>
  BY <1>1, <1>2, <1>3, <1>4 DEF Inductive, TypeOK, Kept
<1>5. CASE Record(req[r].age)
  <2>1. req[r].age \in 0..Lag
    BY AgeType DEF Inductive
  <2>2. passed' \subseteq passed \cup {req[r].age}
    BY <1>2
  <2>3. Kept' /\ log' \subseteq 0..Stale /\ heard' \subseteq 0..Stale
        /\ ttl' \in 0..(Window + Slack) /\ (log' = {} <=> ttl' = 0)
        /\ passed' \subseteq 0..Stale
    BY <1>5, <2>1, <2>2, RecordKept
  <2>. QED
    BY <1>1, <1>3, <2>3 DEF Inductive, TypeOK
<1>. QED
  BY <1>4, <1>5 DEF PassUnlimited

LEMMA AnswerInductive ==
    ASSUME Inductive, NEW r \in Requests,
           ReadClock(r) \/ EndpointRaises(r) \/ Respond(r)
    PROVE  Inductive'
<1>1. req' \in [Requests -> Request]
  BY AnswerType DEF ReadClock, EndpointRaises, Respond, Inductive
<1>2. UNCHANGED <<log, ttl, passed, heard>>
  BY DEF ReadClock, EndpointRaises, Respond
<1>. QED
  BY <1>1, <1>2 DEF Inductive, TypeOK, Kept, AdmittedBound, Between

-----------------------------------------------------------------------------
(* A tick.                                                                   *)

LEMMA OlderType ==
    ASSUME NEW ages, ages \subseteq 0..Stale
    PROVE  /\ Older(ages, Stale) \subseteq 0..Stale
           /\ \A b \in Older(ages, Stale) : b < Stale =>
                  b - 1 \in ages /\ b - 1 \in Nat
           /\ \A a \in ages : a < Stale => a + 1 \in Older(ages, Stale)
           /\ Older(ages, Stale) = {} <=> ages = {}
<1>1. \A a \in 0..Stale : a < Stale =>
          a \in Nat /\ a + 1 \in 0..Stale /\ (a + 1) - 1 = a
  BY Numbers
<1>2. ~(Stale < Stale) /\ Stale \in 0..Stale
  BY Numbers
<1>. QED
  BY <1>1, <1>2 DEF Older

LEMMA TickKept ==
    ASSUME Inductive, Tick PROVE Kept'
<1>1. /\ ttl' = IF ttl > 0 THEN ttl - 1 ELSE 0
      /\ log' = IF ttl > 1 THEN Older(log, Stale) ELSE {}
      /\ passed' = Older(passed, Stale) \ {Stale}
      /\ heard' = Older(heard, Stale) \ {Stale}
  BY DEF Tick
<1>2. log \subseteq 0..Stale /\ passed \subseteq 0..Stale
      /\ heard \subseteq 0..Stale /\ ttl \in Nat
  BY Numbers DEF Inductive, TypeOK
<1>3. ASSUME NEW a \in log', a < Window PROVE Window + Slack <= ttl' + a
  <2>1. ttl > 1 /\ a \in Older(log, Stale) /\ a < Stale /\ a \in Nat
    <3>1. ttl > 1 /\ a \in Older(log, Stale)
      BY <1>1, <1>3
    <3>2. a \in 0..Stale
      BY <1>2, <3>1, OlderType
    <3>. QED
      BY <1>3, <3>1, <3>2, Ages
  <2>2. a - 1 \in log /\ a - 1 \in Nat
    BY <1>2, <2>1, OlderType
  <2>3. a - 1 < Window
    BY <1>3, <2>1, Numbers
  <2>4. Window + Slack <= ttl + (a - 1)
    BY <2>2, <2>3 DEF Inductive, Kept
  <2>5. ttl' = ttl - 1
    BY <1>1, <1>2, <2>1
  <2>. QED
    BY <1>2, <2>1, <2>4, <2>5, Numbers
<1>4. ASSUME NEW a \in passed', a < Window PROVE a \in log'
  <2>1. a \in Older(passed, Stale) /\ a < Stale /\ a \in Nat
    <3>1. a \in Older(passed, Stale)
      BY <1>1, <1>4
    <3>2. a \in 0..Stale
      BY <1>2, <3>1, OlderType
    <3>. QED
      BY <1>4, <3>1, <3>2, Ages
  <2>2. a - 1 \in passed /\ a - 1 \in Nat
    BY <1>2, <2>1, OlderType
  <2>3. a - 1 < Window
    BY <1>4, <2>1, Numbers
  <2>4. a - 1 \in log
    BY <2>2, <2>3 DEF Inductive, Kept
  <2>5. Window + Slack <= ttl + (a - 1)
    BY <2>3, <2>4 DEF Inductive, Kept
  <2>6. ttl > 1
    BY <1>2, <1>4, <2>1, <2>5, Numbers
  <2>7. a - 1 < Stale /\ (a - 1) + 1 = a
    BY <2>1, Numbers
  <2>8. a \in Older(log, Stale)
    <3>1. (a - 1) + 1 \in Older(log, Stale)
      BY <1>2, <2>4, <2>7, OlderType
    <3>. QED
      BY <2>7, <3>1
  <2>. QED
    BY <1>1, <2>6, <2>8
<1>5. ASSUME NEW a \in log', a < Stale PROVE a \in heard'
  <2>1. a \in Older(log, Stale) /\ a \in Nat
    <3>1. a \in Older(log, Stale)
      BY <1>1, <1>5
    <3>2. a \in 0..Stale
      BY <1>2, <3>1, OlderType
    <3>. QED
      BY <3>1, <3>2, Ages
  <2>2. a - 1 \in log /\ a - 1 \in Nat
    BY <1>2, <1>5, <2>1, OlderType
  <2>3. a - 1 < Stale /\ (a - 1) + 1 = a /\ a # Stale
    BY <1>5, <2>1, Numbers
  <2>4. a - 1 \in heard
    BY <2>2, <2>3 DEF Inductive, Kept
  <2>5. a \in Older(heard, Stale)
    <3>1. (a - 1) + 1 \in Older(heard, Stale)
      BY <1>2, <2>3, <2>4, OlderType
    <3>. QED
      BY <2>3, <3>1
  <2>. QED
    BY <1>1, <2>3, <2>5
<1>. QED
  BY <1>3, <1>4, <1>5 DEF Kept

\* A stretch of what has grown older is a stretch of what was younger.
LEMMA TickBound ==
    ASSUME Inductive, Tick PROVE AdmittedBound'
<1>. SUFFICES ASSUME NEW first \in 0..Stale
              PROVE  Cardinality(Between(passed', first,
                                         first + Window - Lag)) <= Limit
  BY DEF AdmittedBound, Between
<1>. DEFINE S == Between(passed', first, first + Window - Lag)
            before == IF first = 0 THEN 0 ELSE first - 1
            T == Between(passed, before, before + Window - Lag)
            f == [a \in S |-> a - 1]
<1>1. passed \subseteq 0..Stale /\ first \in Nat /\ before \in 0..Stale
  BY Numbers DEF Inductive, TypeOK
<1>2. ASSUME NEW a \in S PROVE a \in Nat /\ a - 1 \in T
  <2>1. a \in Older(passed, Stale) /\ a # Stale
        /\ first <= a /\ a < first + Window - Lag
    BY DEF Between, Tick
  <2>2. a \in Nat /\ a < Stale
    <3>1. a \in 0..Stale
      BY <1>1, <2>1, OlderType
    <3>. QED
      BY <2>1, <3>1, Ages
  <2>3. a - 1 \in passed /\ a - 1 \in Nat
    BY <1>1, <2>1, <2>2, OlderType
  <2>4. before <= a - 1 /\ a - 1 < before + Window - Lag
    BY <1>1, <2>1, <2>2, <2>3, Numbers
  <2>. HIDE DEF before
  <2>. QED
    BY <2>2, <2>3, <2>4 DEF Between
<1>3. T \subseteq 0..Stale
  BY <1>1 DEF Between
<1>4. Cardinality(T) <= Limit
  BY <1>1 DEF Inductive, AdmittedBound
<1>. HIDE DEF S, T
<1>5. f \in Injection(S, T)
  <2>1. \A a, b \in Nat : a - 1 = b - 1 => a = b
    OBVIOUS
  <2>. QED
    BY <1>2, <2>1 DEF Injection, IsInjective
<1>6. IsFiniteSet(T) /\ Cardinality(T) \in Nat
  BY <1>3, AgesFinite
<1>7. Cardinality(S) <= Cardinality(T) /\ Cardinality(S) \in Nat
  BY <1>5, <1>6, FS_Injection, FS_CardinalityType
<1>8. Cardinality(S) <= Limit
  BY <1>4, <1>6, <1>7, Numbers
<1>. QED
  BY <1>8 DEF S

LEMMA TickType ==
    ASSUME Inductive, Tick PROVE TypeOK'
<1>1. TypeOK
  BY DEF Inductive
<1>2. log \subseteq 0..Stale /\ passed \subseteq 0..Stale
      /\ heard \subseteq 0..Stale /\ ttl \in 0..(Window + Slack)
  BY <1>1 DEF TypeOK
<1>3. /\ ttl' = IF ttl > 0 THEN ttl - 1 ELSE 0
      /\ log' = IF ttl > 1 THEN Older(log, Stale) ELSE {}
      /\ passed' = Older(passed, Stale) \ {Stale}
      /\ heard' = Older(heard, Stale) \ {Stale}
  BY DEF Tick
<1>4. ttl' \in 0..(Window + Slack) /\ (ttl' = 0 <=> ~(ttl > 1))
  BY <1>2, <1>3, Numbers
<1>5. ttl > 1 => log # {}
  BY <1>1, <1>2, Numbers DEF TypeOK
<1>6. log' = {} <=> ttl' = 0
  BY <1>2, <1>3, <1>4, <1>5, OlderType
<1>7. req' \in [Requests -> Request]
  <2>. SUFFICES ASSUME NEW r \in Requests
                PROVE  (IF req[r].pc = "pipeline"
                        THEN [req[r] EXCEPT !.age = req[r].age + 1]
                        ELSE req[r]) \in Request
    BY DEF Tick
  <2>1. req[r] \in Request
    BY <1>1 DEF TypeOK
  <2>2. req[r].pc = "pipeline" => req[r].age + 1 \in 0..Lag
    BY <2>1, Numbers DEF Tick, Request
  <2>. QED
    BY <2>1, <2>2 DEF Request
<1>. QED
  BY <1>2, <1>3, <1>4, <1>6, <1>7, OlderType DEF TypeOK

-----------------------------------------------------------------------------
(* The theorems.                                                             *)

LEMMA InductiveInit == Init => Inductive
<1>. SUFFICES ASSUME Init PROVE Inductive
  OBVIOUS
<1>1. Idle \in Request
  BY Numbers DEF Idle, Request
<1>2. TypeOK
  BY <1>1, Numbers DEF Init, TypeOK
<1>3. \A first \in 0..Stale :
          Between(passed, first, first + Window - Lag) = {}
  BY DEF Init, Between
<1>4. AdmittedBound
  BY <1>3, FS_EmptySet, Numbers DEF AdmittedBound
<1>. QED
  BY <1>2, <1>4 DEF Init, Inductive, Kept

LEMMA InductiveStep == Inductive /\ [Next]_vars => Inductive'
<1>1. Inductive /\ UNCHANGED vars => Inductive'
  BY DEF vars, Inductive, TypeOK, Kept, AdmittedBound, Between
<1>2. Inductive /\ Tick => Inductive'
  BY TickType, TickKept, TickBound DEF Inductive
<1>. QED
  BY <1>1, <1>2, PipelineInductive, PassUnlimitedInductive, AnswerInductive
     DEF Next

\* In every reachable state the sorted set knows what it has to know.
THEOREM InductiveInvariant == Spec => []Inductive
<1>. QED
  BY InductiveInit, InductiveStep, PTL DEF Spec

\* The five components keep their types (rate_limit.py 55-70).
THEOREM TypeCorrect == Spec => []TypeOK
<1>1. Inductive => TypeOK
  BY DEF Inductive
<1>. QED
  BY <1>1, InductiveInvariant, PTL

\* rate_limit.py 58-73: in no stretch of time shorter than the window by the
\* lag are more readings let through than the limit says, for every limit.
THEOREM AdmittedBounded == Spec => []AdmittedBound
<1>1. Inductive => AdmittedBound
  BY DEF Inductive
<1>. QED
  BY <1>1, InductiveInvariant, PTL

\* rate_limit.py 61-73: whoever is refused has been heard more often than the
\* limit says, within the window and the lag.
THEOREM RefusalsHaveCause == Spec => RefusedForCause
<1>1. ASSUME Inductive, [Next]_vars, NEW r \in Requests,
             req[r].pc = "pipeline", req'[r].pc = "refused"
      PROVE  Cardinality(heard') > Limit
  <2>1. ASSUME NEW x \in Requests, NEW pc, Answer(x, pc)
        PROVE  req'[r].pc = IF x = r THEN pc ELSE "pipeline"
    BY <1>1, <2>1 DEF Answer, Inductive, TypeOK
  <2>2. Pipeline(r) /\ Answer(r, "refused")
    <3>1. ASSUME NEW x \in Requests,
                 \/ ReadClock(x) \/ PassUnlimited(x)
                 \/ EndpointRaises(x) \/ Respond(x)
          PROVE  req'[r].pc # "refused"
      BY <1>1, <2>1, <3>1
         DEF ReadClock, PassUnlimited, EndpointRaises, Respond
    <3>2. Tick => req'[r].pc # "refused"
      BY <1>1 DEF Tick, Inductive, TypeOK, Request
    <3>3. ASSUME NEW x \in Requests, Pipeline(x)
          PROVE  x = r /\ Answer(r, "refused")
      BY <1>1, <2>1, <3>3 DEF Pipeline
    <3>. QED
      BY <1>1, <3>1, <3>2, <3>3 DEF Next, vars
  <2>. DEFINE age == req[r].age
  <2>3. age \in 0..Lag
    BY <1>1, AgeType DEF Inductive
  <2>4. Exceeds(age) /\ Record(age)
    BY <1>1, <2>2 DEF Pipeline, Answer, Inductive, TypeOK
  <2>. HIDE DEF age
  <2>5. Count(age) \subseteq heard' /\ Count(age) \subseteq 0..Stale
        /\ heard' \subseteq 0..Stale
    BY <1>1, <2>3, <2>4, CountType DEF Record, Inductive, Kept, TypeOK
  <2>6. Cardinality(Count(age)) <= Cardinality(heard')
        /\ Cardinality(Count(age)) \in Nat /\ Cardinality(heard') \in Nat
    BY <2>5, AgesFinite, FewerAges
  <2>7. Cardinality(Count(age)) > Limit
    BY <2>4 DEF Exceeds
  <2>. QED
    BY <2>6, <2>7, Numbers
<1>2. Inductive /\ [Next]_vars =>
      [\A r \in Requests :
         req[r].pc = "pipeline" /\ req'[r].pc = "refused"
         => Cardinality(heard') > Limit]_vars
  BY <1>1
<1>. QED
  BY <1>2, InductiveInvariant, PTL DEF Spec, RefusedForCause

=============================================================================
