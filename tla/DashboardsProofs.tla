-------------------------- MODULE DashboardsProofs --------------------------
(* Proofs about Dashboards, for any users, requests and dashboards.         *)
(*                                                                          *)
(*   InductiveInvariant    who made which copy, and what a request has seen *)
(*   TypeCorrect           the three components keep their types            *)
(*   SecondCopiesRefused   a user with a dashboard makes no other one       *)
(*   AnswersStayTrue       an answer agrees with the mapping for good       *)
(*   FirstMappingsLast     no race changes a mapping                        *)
(*   TableIsRegistry       the table implements Registry                    *)
EXTENDS Dashboards, TLAPS

-----------------------------------------------------------------------------
(* The invariant.                                                            *)

\* One request against the two tables: what it was told and what it found are
\* in the mapping, what it made is its user's copy, and past the check it is
\* a customize of a user who had no dashboard when it came.
Sound(q, mapped, copied) ==
    /\ q \in Request
    /\ q.pc # "idle" => q.user \in Users
    /\ q.pc \in {"token", "fetch", "post", "commit"} =>
           q.op = "customize" /\ q.had = None
    /\ q.pc = "commit" => q.made # None
    /\ q.made # None => q.pc # "idle" /\ copied[q.made] = q.user
    /\ q.had # None => q.pc # "idle" /\ q.had = mapped[q.user]
    /\ q.got # None => q.pc = "ok" /\ q.got = mapped[q.user]
    /\ q.op = "customize" /\ q.pc = "ok" => q.had = None
    /\ q.pc = "ok" /\ q.had # None => q.got = q.had

Tables(mapped, copied) ==
    /\ mapped \in [Users -> Dashboards \cup {None}]
    /\ copied \in [Dashboards -> Users \cup {None}]
    /\ \A u \in Users : mapped[u] # None => copied[mapped[u]] = u

Inductive ==
    /\ Tables(mapping, copy)
    /\ req \in [Requests -> Request]
    /\ \A r \in Requests : Sound(req[r], mapping, copy)

LEMMA IdleSound ==
    ASSUME NEW mapped, NEW copied PROVE Sound(Idle, mapped, copied)
BY DEF Sound, Idle, Slot, Request

\* Tables in which nothing was taken back.
Grown(mapped, copied) ==
    /\ Tables(mapped, copied)
    /\ \A u \in Users : mapping[u] # None => mapped[u] = mapping[u]
    /\ \A d \in Dashboards : copy[d] # None => copied[d] = copy[d]

\* What a request knows stays true in grown tables.  The one thing it may
\* have been told of a table that was still empty is nothing at all.
LEMMA SoundGrows ==
    ASSUME Tables(mapping, copy), NEW q, Sound(q, mapping, copy),
           NEW mapped, NEW copied, Grown(mapped, copied)
    PROVE  Sound(q, mapped, copied)
BY NoneAssumption DEF Grown, Sound, Request

LEMMA StepOfOne ==
    ASSUME Inductive, NEW r \in Requests, NEW q,
           NEW mapped, NEW copied, Grown(mapped, copied),
           Sound(q, mapped, copied),
           mapping' = mapped, copy' = copied,
           req' = [req EXCEPT ![r] = q]
    PROVE  Inductive'
<1>1. \A x \in Requests : Sound(req'[x], mapped, copied)
  BY SoundGrows DEF Inductive
<1>2. req' \in [Requests -> Request]
  BY DEF Inductive, Sound
<1>. QED
  BY <1>1, <1>2 DEF Inductive, Grown

LEMMA SameGrown ==
    ASSUME Inductive PROVE Grown(mapping, copy)
BY DEF Inductive, Grown

LEMMA GotoSound ==
    ASSUME Inductive, NEW r \in Requests, NEW pc, Goto(r, pc),
           Sound([req[r] EXCEPT !.pc = pc], mapping, copy),
           UNCHANGED <<mapping, copy>>
    PROVE  Inductive'
<1>. DEFINE q == [req[r] EXCEPT !.pc = pc]
<1>1. req' = [req EXCEPT ![r] = q]
  BY DEF Goto
<1>. QED
  BY <1>1, SameGrown, StepOfOne

\* A request that ends with an error knows no more than before.
LEMMA FailSound ==
    ASSUME NEW q, NEW mapped, NEW copied, Sound(q, mapped, copied),
           q.pc # "idle", q.got = None
    PROVE  Sound([q EXCEPT !.pc = "error"], mapped, copied)
BY DEF Sound, Request

LEMMA InductiveStep == Inductive /\ [Next]_vars => Inductive'
<1>. SUFFICES ASSUME Inductive, [Next]_vars PROVE Inductive'
  OBVIOUS
<1>1. CASE UNCHANGED vars
  BY <1>1 DEF vars, Inductive
<1>2. ASSUME NEW r \in Requests, NEW op \in {"get", "customize"},
             NEW u \in Users, Arrive(r, op, u)
      PROVE  Inductive'
  <2>1. Sound(Slot(op, "select", u, mapping[u]), mapping, copy)
    BY DEF Sound, Slot, Request, Inductive, Tables
  <2>. QED
    BY <1>2, <2>1, SameGrown, StepOfOne DEF Arrive
<1>3. ASSUME NEW r \in Requests, Get(r) PROVE Inductive'
  <2>. DEFINE q == [req[r] EXCEPT !.pc = "ok", !.got = mapping[req[r].user]]
  <2>1. Sound(q, mapping, copy)
    BY <1>3, NoneAssumption DEF Sound, Request, Inductive, Tables, Get, At
  <2>2. req' = [req EXCEPT ![r] = q]
    BY <1>3 DEF Get
  <2>3. mapping' = mapping /\ copy' = copy
    BY <1>3 DEF Get
  <2>. HIDE DEF q
  <2>. QED
    BY <2>1, <2>2, <2>3, SameGrown, StepOfOne
<1>4. ASSUME NEW r \in Requests, Check(r) PROVE Inductive'
  <2>1. Sound(req[r], mapping, copy) /\ req[r].pc = "select"
        /\ req[r].op = "customize" /\ req[r].got = None
    BY <1>4 DEF Check, At, Inductive, Sound
  <2>2. CASE mapping[req[r].user] = None
    <3>1. Sound([req[r] EXCEPT !.pc = "token"], mapping, copy)
      BY <2>1, <2>2 DEF Sound, Request
    <3>. QED
      BY <1>4, <2>2, <3>1, GotoSound DEF Check
  <2>3. CASE mapping[req[r].user] # None
    <3>1. Sound([req[r] EXCEPT !.pc = "error"], mapping, copy)
      BY <2>1, FailSound
    <3>. QED
      BY <1>4, <2>3, <3>1, GotoSound DEF Check, Fail
  <2>. QED
    BY <2>2, <2>3
<1>5. ASSUME NEW r \in Requests, AskSuperset(r) PROVE Inductive'
  <2>1. Sound(req[r], mapping, copy) /\ req[r].pc \in {"token", "fetch"}
        /\ req[r].got = None
    BY <1>5 DEF AskSuperset, Inductive, Sound
  <2>2. \A pc \in {"fetch", "post"} :
            Sound([req[r] EXCEPT !.pc = pc], mapping, copy)
    BY <2>1 DEF Sound, Request
  <2>3. Sound([req[r] EXCEPT !.pc = "error"], mapping, copy)
    BY <2>1, FailSound
  <2>4. \E pc \in {"fetch", "post", "error"} : Goto(r, pc)
    BY <1>5 DEF AskSuperset, Fail
  <2>. QED
    BY <1>5, <2>2, <2>3, <2>4, GotoSound DEF AskSuperset
<1>6. ASSUME NEW r \in Requests, Post(r) \/ PostAnswerLost(r)
      PROVE  Inductive'
  <2>1. PICK d \in Dashboards :
            /\ copy[d] = None
            /\ copy' = [copy EXCEPT ![d] = req[r].user]
            /\ \/ req' = [req EXCEPT ![r].pc = "commit", ![r].made = d]
               \/ Fail(r)
    BY <1>6 DEF Post, PostAnswerLost
  <2>2. Sound(req[r], mapping, copy) /\ req[r].pc = "post"
        /\ req[r].got = None /\ req[r].user \in Users
    BY <1>6 DEF Post, PostAnswerLost, Inductive, Sound
  <2>3. Grown(mapping, copy')
    BY <2>1, <2>2, NoneAssumption DEF Grown, Inductive, Tables
  <2>4. mapping' = mapping
    BY <1>6 DEF Post, PostAnswerLost
  <2>5. Sound(req[r], mapping, copy')
    BY <2>2, <2>3, SoundGrows DEF Inductive
  <2>6. CASE req' = [req EXCEPT ![r].pc = "commit", ![r].made = d]
    <3>. DEFINE q == [req[r] EXCEPT !.pc = "commit", !.made = d]
    <3>1. copy'[d] = req[r].user
      BY <2>1 DEF Inductive, Tables
    <3>2. Sound(q, mapping, copy')
      BY <2>2, <2>5, <3>1, NoneAssumption DEF Sound, Request
    <3>3. req' = [req EXCEPT ![r] = q]
      BY <2>6
    <3>. HIDE DEF q
    <3>. QED
      BY <2>3, <2>4, <3>2, <3>3, StepOfOne
  <2>7. CASE Fail(r)
    <3>. DEFINE q == [req[r] EXCEPT !.pc = "error"]
    <3>1. Sound(q, mapping, copy')
      BY <2>2, <2>5, FailSound
    <3>2. req' = [req EXCEPT ![r] = q]
      BY <2>7 DEF Fail, Goto
    <3>. HIDE DEF q
    <3>. QED
      BY <2>3, <2>4, <3>1, <3>2, StepOfOne
  <2>. QED
    BY <2>1, <2>6, <2>7
<1>7. ASSUME NEW r \in Requests, PostRefused(r) PROVE Inductive'
  <2>1. Sound(req[r], mapping, copy) /\ req[r].pc = "post"
        /\ req[r].got = None
    BY <1>7 DEF PostRefused, Inductive, Sound
  <2>. QED
    BY <1>7, <2>1, FailSound, GotoSound DEF PostRefused, Fail
<1>8. ASSUME NEW r \in Requests, Commit(r) PROVE Inductive'
  <2>. DEFINE u == req[r].user
              m == [mapping EXCEPT ![u] = req[r].made]
              ok == [req[r] EXCEPT !.pc = "ok", !.got = req[r].made]
              failed == [req[r] EXCEPT !.pc = "error"]
  <2>1. /\ Sound(req[r], mapping, copy) /\ req[r].pc = "commit"
        /\ req[r].got = None /\ u \in Users /\ req[r].op = "customize"
        /\ req[r].had = None /\ req[r].made \in Dashboards
        /\ copy[req[r].made] = u
    BY <1>8 DEF Commit, Inductive, Sound, Request
  <2>2. copy' = copy
    BY <1>8 DEF Commit
  <2>3. \/ mapping[u] = None /\ mapping' = m
           /\ (req' = [req EXCEPT ![r] = ok] \/ req' = [req EXCEPT ![r] = failed])
        \/ mapping' = mapping /\ req' = [req EXCEPT ![r] = failed]
    BY <1>8 DEF Commit, Fail, Goto
  <2>4. mapping[u] = None => Grown(m, copy)
    BY <2>1, NoneAssumption DEF Grown, Inductive, Tables
  <2>5. mapping[u] = None => Sound(req[r], m, copy)
    BY <2>1, <2>4, SoundGrows DEF Inductive
  <2>6. m[u] = req[r].made
    BY <2>1 DEF Inductive, Tables
  <2>7. mapping[u] = None => Sound(ok, m, copy)
    <3>. HIDE DEF m
    <3>. QED
      BY <2>1, <2>5, <2>6 DEF Sound, Request
  <2>8. mapping[u] = None => Sound(failed, m, copy)
    <3>. HIDE DEF m
    <3>. QED
      BY <2>1, <2>5, FailSound
  <2>9. Sound(failed, mapping, copy)
    BY <2>1, FailSound
  <2>. HIDE DEF ok, failed, m
  <2>. QED
    BY <2>2, <2>3, <2>4, <2>7, <2>8, <2>9, SameGrown, StepOfOne
<1>9. ASSUME NEW r \in Requests, Leave(r) PROVE Inductive'
  BY <1>9, IdleSound, SameGrown, StepOfOne DEF Leave
<1>. QED
  BY <1>1, <1>2, <1>3, <1>4, <1>5, <1>6, <1>7, <1>8, <1>9 DEF Next

\* Copies belong to the user they were made for, and whatever a request has
\* found, made or answered is still so.
THEOREM InductiveInvariant == Spec => []Inductive
<1>1. Init => Inductive
  BY IdleSound DEF Init, Inductive, Tables, Idle, Slot, Request
<1>2. Inductive /\ [Next]_vars => Inductive'
  BY InductiveStep
<1>. QED
  BY <1>1, <1>2, PTL DEF Spec

-----------------------------------------------------------------------------
(* The properties.                                                           *)

\* The components keep their types.
THEOREM TypeCorrect == Spec => []TypeOK
<1>1. Inductive => TypeOK
  BY DEF Inductive, Tables, Sound, TypeOK
<1>. QED
  BY <1>1, InductiveInvariant, PTL

\* superset.py 57-61: no second copy for a user who has a dashboard.
THEOREM SecondCopiesRefused == Spec => []SecondCopyRefused
<1>1. Inductive => SecondCopyRefused
  BY DEF Inductive, Sound, Request, SecondCopyRefused
<1>. QED
  BY <1>1, InductiveInvariant, PTL

\* superset.py 30-39 and 88-93: answers agree with the mapping.
THEOREM AnswersStayTrue == Spec => []AnswersAgree
<1>1. Inductive => AnswersAgree
  BY DEF Inductive, Sound, AnswersAgree
<1>. QED
  BY <1>1, InductiveInvariant, PTL

\* user_dashboard.py 19: the primary key decides every race, once.
THEOREM FirstMappingsLast == Spec => FirstMappingStays
<1>1. Inductive /\ Inductive' /\ [Next]_vars =>
          \A u \in Users :
              /\ mapping[u] # None => mapping'[u] = mapping[u]
              /\ mapping'[u] # None => copy'[mapping'[u]] = u
  <2>. SUFFICES ASSUME Inductive, Inductive', [Next]_vars, NEW u \in Users
                PROVE  /\ mapping[u] # None => mapping'[u] = mapping[u]
                       /\ mapping'[u] # None => copy'[mapping'[u]] = u
    OBVIOUS
  <2>1. UNCHANGED mapping \/ \E r \in Requests : Commit(r)
    BY DEF Next, vars, Arrive, Get, Check, AskSuperset, Post,
           PostAnswerLost, PostRefused, Leave
  <2>2. ASSUME NEW r \in Requests, Commit(r), mapping[u] # None
        PROVE  mapping'[u] = mapping[u]
    BY <2>2 DEF Commit, Inductive, Tables
  <2>3. mapping'[u] # None => copy'[mapping'[u]] = u
    BY DEF Inductive, Tables
  <2>. QED
    BY <2>1, <2>2, <2>3
<1>. QED
  BY <1>1, InductiveInvariant, PTL DEF Spec, FirstMappingStays

-----------------------------------------------------------------------------
(* Dashboards implements Registry.                                           *)

Answers ==
    [r \in Requests |->
        IF req[r].pc = "ok" THEN <<req[r].user, req[r].got>> ELSE <<>>]

\* A request moves on without an answer, or loses the one it had.
LEMMA NoAnswer ==
    ASSUME Inductive, NEW r \in Requests, NEW q, q.pc # "ok",
           req' = [req EXCEPT ![r] = q]
    PROVE  /\ Answers' = [Answers EXCEPT ![r] = <<>>]
           /\ req[r].pc # "ok" => Answers' = Answers
BY DEF Inductive, Answers

LEMMA AnswerGiven ==
    ASSUME Inductive, NEW r \in Requests, NEW q, q.pc = "ok",
           req' = [req EXCEPT ![r] = q]
    PROVE  Answers' = [Answers EXCEPT ![r] = <<q.user, q.got>>]
BY DEF Inductive, Answers

\* Steps that leave the tables alone and give no answer.
LEMMA SilentStep ==
    ASSUME Inductive, NEW r \in Requests, NEW q, q.pc # "ok",
           req' = [req EXCEPT ![r] = q], UNCHANGED <<mapping, copy>>
    PROVE  R!RegistryNext \/ UNCHANGED <<mapping, copy, Answers>>
<1>1. CASE req[r].pc = "ok"
  <2>1. R!Forget(r)
    BY NoAnswer DEF R!Forget, R!Nothing, Answers
  <2>. QED
    BY <2>1 DEF R!RegistryNext
<1>2. CASE req[r].pc # "ok"
  BY <1>2, NoAnswer
<1>. QED
  BY <1>1, <1>2

LEMMA RegistryStep ==
    ASSUME Inductive, Inductive', [Next]_vars
    PROVE  R!RegistryNext \/ UNCHANGED <<mapping, copy, Answers>>
<1>. DEFINE Refines == R!RegistryNext \/ UNCHANGED <<mapping, copy, Answers>>
<1>1. CASE UNCHANGED vars
  BY <1>1 DEF vars, Answers
<1>2. ASSUME NEW r \in Requests, NEW op \in {"get", "customize"},
             NEW u \in Users, Arrive(r, op, u)
      PROVE  Refines
  <2>1. Slot(op, "select", u, mapping[u]).pc # "ok"
    BY DEF Slot
  <2>. QED
    BY <1>2, <2>1, SilentStep DEF Arrive
<1>3. ASSUME NEW r \in Requests, Get(r) PROVE Refines
  <2>. DEFINE u == req[r].user
              q == [req[r] EXCEPT !.pc = "ok", !.got = mapping[u]]
  <2>1. req[r] \in Request /\ u \in Users
    BY <1>3 DEF Get, At, Inductive, Sound
  <2>2. q.pc = "ok" /\ q.user = u /\ q.got = mapping[u]
    BY <2>1 DEF Request
  <2>3. req' = [req EXCEPT ![r] = q]
    BY <1>3 DEF Get
  <2>. HIDE DEF q, u
  <2>4. UNCHANGED <<mapping, copy>>
    BY <1>3 DEF Get
  <2>5. Answers' = [Answers EXCEPT ![r] = <<u, mapping'[u]>>]
    <3>1. Answers' = [Answers EXCEPT ![r] = <<q.user, q.got>>]
      BY <2>2, <2>3, AnswerGiven
    <3>. QED
      BY <2>2, <2>4, <3>1
  <2>6. R!Ask(r, u)
    BY <2>4, <2>5 DEF R!Ask, R!Tell, Answers
  <2>. QED
    BY <2>1, <2>6 DEF R!RegistryNext
<1>4. ASSUME NEW r \in Requests, NEW pc, pc # "ok", Goto(r, pc),
             UNCHANGED <<mapping, copy>>
      PROVE  Refines
  <2>1. req[r] \in Request
    BY DEF Inductive
  <2>2. [req[r] EXCEPT !.pc = pc].pc # "ok"
    BY <1>4, <2>1 DEF Request
  <2>. QED
    BY <1>4, <2>2, SilentStep DEF Goto
<1>5. ASSUME NEW r \in Requests, Check(r) \/ AskSuperset(r) \/ PostRefused(r)
      PROVE  Refines
  BY <1>4, <1>5 DEF Check, AskSuperset, PostRefused, Fail
<1>6. ASSUME NEW r \in Requests, Post(r) \/ PostAnswerLost(r)
      PROVE  Refines
  <2>1. PICK d \in Dashboards :
            /\ copy[d] = None
            /\ copy' = [copy EXCEPT ![d] = req[r].user]
            /\ \/ req' = [req EXCEPT ![r].pc = "commit", ![r].made = d]
               \/ Fail(r)
    BY <1>6 DEF Post, PostAnswerLost
  <2>2. /\ req[r] \in Request /\ req[r].pc = "post"
        /\ req[r].user \in Users /\ UNCHANGED mapping
    BY <1>6 DEF Post, PostAnswerLost, Inductive, Sound
  <2>3. \E q : q.pc # "ok" /\ req' = [req EXCEPT ![r] = q]
    <3>1. /\ [req[r] EXCEPT !.pc = "commit", !.made = d].pc # "ok"
          /\ [req[r] EXCEPT !.pc = "error"].pc # "ok"
      BY <2>2 DEF Request
    <3>. QED
      BY <2>1, <3>1 DEF Fail, Goto
  <2>4. Answers' = Answers
    BY <2>2, <2>3, NoAnswer
  <2>5. R!Make(req[r].user, d)
    BY <2>1, <2>2, <2>4 DEF R!Make, Answers
  <2>. QED
    BY <2>2, <2>5 DEF R!RegistryNext
<1>7. ASSUME NEW r \in Requests, Commit(r) PROVE Refines
  <2>. PICK u \in Users, v \in Dashboards :
           u = req[r].user /\ v = req[r].made /\ copy[v] = u
    BY <1>7 DEF Commit, Inductive, Sound, Request
  <2>. DEFINE ok == [req[r] EXCEPT !.pc = "ok", !.got = v]
              failed == [req[r] EXCEPT !.pc = "error"]
  <2>1. req[r] \in Request /\ req[r].pc = "commit" /\ UNCHANGED copy
    BY <1>7 DEF Commit, Inductive, Sound
  <2>2. /\ ok.pc = "ok" /\ ok.user = u /\ ok.got = v
        /\ failed.pc # "ok"
    BY <2>1 DEF Request
  <2>3. \/ /\ mapping[u] = None /\ mapping' = [mapping EXCEPT ![u] = v]
           /\ req' = [req EXCEPT ![r] = ok] \/ req' = [req EXCEPT ![r] = failed]
        \/ mapping' = mapping /\ req' = [req EXCEPT ![r] = failed]
    BY <1>7 DEF Commit, Fail, Goto
  <2>. HIDE DEF ok, failed
  <2>4. CASE /\ mapping[u] = None /\ mapping' = [mapping EXCEPT ![u] = v]
             /\ req' = [req EXCEPT ![r] = ok]
    <3>1. mapping'[u] = v
      BY <2>1, <2>4 DEF Inductive, Tables
    <3>2. Answers' = [Answers EXCEPT ![r] = <<u, mapping'[u]>>]
      <4>1. Answers' = [Answers EXCEPT ![r] = <<ok.user, ok.got>>]
        BY <2>2, <2>4, AnswerGiven
      <4>. QED
        BY <2>2, <3>1, <4>1
    <3>3. R!Enter(u, v)
      BY <2>1, <2>4, <3>2 DEF R!Enter, R!Tell, Answers
    <3>. QED
      BY <3>3 DEF R!RegistryNext
  <2>5. CASE /\ mapping[u] = None /\ mapping' = [mapping EXCEPT ![u] = v]
             /\ req' = [req EXCEPT ![r] = failed]
    <3>1. Answers' = Answers
      BY <2>1, <2>2, <2>5, NoAnswer
    <3>2. R!Enter(u, v)
      BY <2>1, <2>5, <3>1 DEF R!Enter, Answers
    <3>. QED
      BY <3>2 DEF R!RegistryNext
  <2>6. CASE mapping' = mapping /\ req' = [req EXCEPT ![r] = failed]
    BY <2>1, <2>2, <2>6, SilentStep
  <2>. QED
    BY <2>3, <2>4, <2>5, <2>6
<1>8. ASSUME NEW r \in Requests, Leave(r) PROVE Refines
  <2>1. Idle.pc # "ok"
    BY DEF Idle, Slot
  <2>. QED
    BY <1>8, <2>1, SilentStep DEF Leave
<1>. QED
  BY <1>1, <1>2, <1>3, <1>5, <1>6, <1>7, <1>8 DEF Next

\* superset.py 30-93, user_dashboard.py 19: check, three calls and INSERT of
\* requests that race and fail are, for whoever asks, a register whose first
\* entry stays.
THEOREM TableIsRegistry == Spec => RegistrySpec
<1>1. Init => R!RegistryInit
  BY DEF Init, R!RegistryInit, R!Nothing, Idle, Slot
<1>2. Inductive /\ Inductive' /\ [Next]_vars =>
          [R!RegistryNext]_(R!registryVars)
  BY RegistryStep DEF R!registryVars, Answers
<1>. QED
  BY <1>1, <1>2, InductiveInvariant, PTL
  DEF Spec, RegistrySpec, R!RegistrySpec

=============================================================================
