--------------------------- MODULE SsoLoginProofs ---------------------------
(* Proofs about SsoLogin, for any users, states, callbacks and faults.      *)
(*                                                                          *)
(*   InductiveInvariant        what a callback knows, and who holds a row   *)
(*   TypeCorrect               the three components keep their types        *)
(*   CodesHaveUsers            a code in the browser belongs to a row       *)
(*   DeactivatedGetNoCodes     whoever was deactivated before gets no code  *)
(*   SpentStatesRefused        a used state lets nobody in                  *)
(*   LoginsKeepDecisions       no commit undoes an administrator's decision *)
(*   ChecksSeeRevocations      a code is issued as Revocation allows it     *)
EXTENDS SsoLogin, TLAPS

-----------------------------------------------------------------------------
(* The invariant.                                                            *)

\* One callback against the tables: its login is out for as long as it runs;
\* an open write is what the row is not yet, or already is; and what made it
\* late is still true, and known to it before it flushes.
Sound(q, rows, logins) ==
    /\ q \in Callback
    /\ q.pc # "idle" => q.user \in Users /\ q.state \in States
                        /\ logins[q.state].pc = "out"
    /\ q.pend # "none" => q.pc \in {"code", "commit"}
    /\ q.pend = "insert" => ~rows[q.user].there
    /\ q.pend = "update" \/ q.seen.there =>
           q.pc # "idle" /\ rows[q.user].there
    /\ q.pc = "code" => q.pend # "none" /\ "off" \notin q.late
    /\ q.code => q.pc \in {"commit", "done"} /\ "off" \notin q.late
    /\ q.out = "code" => /\ q.pc \in {"commit", "done"}
                         /\ q.code /\ "off" \notin q.late
                         /\ q.pc = "commit" => q.pend # "none"
                         /\ q.pc = "done" => rows[q.user].there
    /\ "off" \in q.late => /\ q.pc # "idle" /\ ~rows[q.user].active
                           /\ q.pc = "flush" => ~q.seen.active
    /\ "spent" \in q.late =>
           /\ logins[q.state].used
           /\ \/ q.pc = "get"
              \/ q.pc = "done" /\ q.out \in {"invalid", "error"}

\* A row that is not there is not deactivated either.
Rows(rows) ==
    /\ rows \in [Users -> Row]
    /\ \A u \in Users : ~rows[u].active => rows[u].there

\* A state that was used is out and has no key any more.
Logins(logins) ==
    /\ logins \in [States -> Login]
    /\ \A s \in States : logins[s].used => logins[s].pc = "out" /\ ~logins[s].key

\* No two open transactions have written one row.
Exclusive(slots) ==
    \A r, x \in Callbacks :
        r # x /\ slots[r].pend # "none" /\ slots[x].pend # "none"
        => slots[r].user # slots[x].user

Inductive ==
    /\ Rows(user)
    /\ Logins(login)
    /\ cb \in [Callbacks -> Callback]
    /\ Exclusive(cb)
    /\ \A r \in Callbacks : Sound(cb[r], user, login)

-----------------------------------------------------------------------------
(* Steps of one callback, of one login, and of the table.                    *)

LEMMA IdleSound ==
    ASSUME NEW rows, NEW logins PROVE Sound(Idle, rows, logins)
BY DEF Sound, Idle, Slot, Callback, NoRow, Row, Late

\* A callback that opens no second write on a row steps alone.
LEMMA StepOfOne ==
    ASSUME Inductive, NEW r \in Callbacks, NEW q,
           Sound(q, user, login),
           q.pend = "none"
               \/ (q.user = cb[r].user /\ (cb[r].pend # "none"
                                           \/ ~RowLocked(q.user))),
           cb' = [cb EXCEPT ![r] = q],
           UNCHANGED <<user, login>>
    PROVE  Inductive'
<1>1. \A x \in Callbacks : Sound(cb'[x], user, login)
  BY DEF Inductive
<1>2. cb' \in [Callbacks -> Callback]
  BY DEF Inductive, Sound
<1>3. Exclusive(cb)'
  BY DEF Inductive, Exclusive, RowLocked
<1>. QED
  BY <1>1, <1>2, <1>3 DEF Inductive

\* A step of the logins that keeps what callbacks rely on.
LEMMA StepOfLogins ==
    ASSUME Inductive, NEW logins, Logins(logins),
           \A r \in Callbacks : cb[r].pc # "idle" =>
               /\ logins[cb[r].state].pc = "out"
               /\ login[cb[r].state].used => logins[cb[r].state].used,
           login' = logins, UNCHANGED <<user, cb>>
    PROVE  Inductive'
<1>1. ASSUME NEW r \in Callbacks PROVE Sound(cb[r], user, logins)
  BY DEF Inductive, Sound
<1>. QED
  BY <1>1 DEF Inductive

LEMMA RunningLogin ==
    ASSUME Inductive, NEW r \in Callbacks, cb[r].pc # "idle"
    PROVE  /\ cb[r].user \in Users /\ cb[r].state \in States
           /\ login[cb[r].state].pc = "out"
           /\ login[cb[r].state] \in Login
           /\ user[cb[r].user] \in Row
BY DEF Inductive, Sound, Logins, Rows

\* Steps of one login that no callback has come from.
LEMMA LoginGotoInductive ==
    ASSUME Inductive, NEW s \in States, NEW from, from # "out",
           NEW pc \in {"check", "retry", "store", "failed"},
           LoginGoto(s, from, pc)
    PROVE  Inductive'
<1>. DEFINE logins == [login EXCEPT ![s].pc = pc]
<1>1. login \in [States -> Login] /\ login[s].pc # "out"
  BY DEF Inductive, Logins, LoginGoto
<1>2. Logins(logins)
  BY <1>1 DEF Inductive, Logins, Login
<1>3. ASSUME NEW r \in Callbacks, cb[r].pc # "idle"
      PROVE  logins[cb[r].state] = login[cb[r].state]
             /\ login[cb[r].state].pc = "out"
  BY <1>1, <1>3, RunningLogin
<1>4. login' = logins /\ UNCHANGED <<user, cb>>
  BY DEF LoginGoto
<1>. HIDE DEF logins
<1>. QED
  BY <1>2, <1>3, <1>4, StepOfLogins

LEMMA LoginInductive ==
    ASSUME Inductive, NEW s \in States, LoginStep(s) PROVE Inductive'
<1>1. CASE StartLogin(s) \/ HealthCheck(s) \/ Retry(s)
  BY <1>1, LoginGotoInductive DEF StartLogin, HealthCheck, Retry
<1>2. ASSUME Store(s) PROVE Inductive'
  <2>1. PICK l \in Login :
            /\ login' = [login EXCEPT ![s] = l]
            /\ ~l.used /\ login[s].pc # "out"
    BY <1>2 DEF Store, Inductive, Logins, Login
  <2>2. Logins([login EXCEPT ![s] = l])
    BY <2>1 DEF Inductive, Logins
  <2>3. \A r \in Callbacks : cb[r].pc # "idle" =>
            cb[r].state # s /\ cb[r].state \in States
            /\ login[cb[r].state].pc = "out"
    BY <2>1, RunningLogin
  <2>4. login \in [States -> Login] /\ UNCHANGED <<user, cb>>
    BY <1>2 DEF Store, Inductive, Logins
  <2>. QED
    BY <2>1, <2>2, <2>3, <2>4, StepOfLogins
<1>3. ASSUME Expire(s) PROVE Inductive'
  <2>1. Logins([login EXCEPT ![s].key = FALSE])
    BY DEF Inductive, Logins, Login
  <2>2. login \in [States -> Login] /\ UNCHANGED <<user, cb>>
        /\ login' = [login EXCEPT ![s].key = FALSE]
    BY <1>3 DEF Expire, Inductive, Logins
  <2>3. \A r \in Callbacks : cb[r].pc # "idle" =>
            /\ login'[cb[r].state].pc = "out"
            /\ login'[cb[r].state].used = login[cb[r].state].used
    BY <2>2, RunningLogin DEF Login
  <2>. QED
    BY <2>1, <2>2, <2>3, StepOfLogins
<1>4. ASSUME Reuse(s) PROVE Inductive'
  <2>1. Logins([login EXCEPT ![s] = NoLogin])
    BY DEF Inductive, Logins, Login, NoLogin
  <2>2. login \in [States -> Login] /\ UNCHANGED <<user, cb>>
        /\ login' = [login EXCEPT ![s] = NoLogin]
    BY <1>4 DEF Reuse, Inductive, Logins
  <2>3. \A r \in Callbacks : cb[r].pc # "idle" =>
            /\ login'[cb[r].state] = login[cb[r].state]
            /\ login[cb[r].state].pc = "out"
    BY <1>4, <2>2, RunningLogin DEF Reuse
  <2>. QED
    BY <2>1, <2>2, <2>3, StepOfLogins
<1>. QED
  BY <1>1, <1>2, <1>3, <1>4 DEF LoginStep

-----------------------------------------------------------------------------
(* The actions of a callback.                                                *)

LEMMA ArriveInductive ==
    ASSUME Inductive, NEW r \in Callbacks, NEW s \in States, NEW u \in Users,
           Arrive(r, s, u)
    PROVE  Inductive'
<1>. DEFINE late == (IF ~user[u].active THEN {"off"} ELSE {})
                        \cup (IF login[s].used THEN {"spent"} ELSE {})
            q == Slot("get", s, u, late)
<1>1. late \in SUBSET Late /\ ("off" \in late => ~user[u].active)
      /\ ("spent" \in late => login[s].used)
  BY DEF Late
<1>2. cb' = [cb EXCEPT ![r] = q] /\ login[s].pc = "out"
      /\ UNCHANGED <<user, login>>
  BY DEF Arrive
<1>. HIDE DEF late
<1>3. Sound(q, user, login) /\ q.pend = "none"
  BY <1>1, <1>2 DEF Sound, Slot, Callback, NoRow, Row
<1>. HIDE DEF q
<1>. QED
  BY <1>2, <1>3, StepOfOne

\* A callback that only moves on, with the answer it has or with another one.
LEMMA MoveInductive ==
    ASSUME Inductive, NEW r \in Callbacks, NEW pc, NEW out,
           Answer(r, pc, out), UNCHANGED <<user, login>>,
           Sound([cb[r] EXCEPT !.pc = pc, !.out = out], user, login)
    PROVE  Inductive'
<1>. DEFINE q == [cb[r] EXCEPT !.pc = pc, !.out = out]
<1>1. cb' = [cb EXCEPT ![r] = q]
  BY DEF Answer
<1>2. q.user = cb[r].user /\ q.pend = cb[r].pend
  BY DEF Inductive, Callback
<1>3. Sound(q, user, login)
  OBVIOUS
<1>. HIDE DEF q
<1>. QED
  BY <1>1, <1>2, <1>3, StepOfOne

LEMMA SwallowInductive ==
    ASSUME Inductive, NEW r \in Callbacks, cb[r].pc \in {"idp", "find"},
           Swallow(r), UNCHANGED <<user, login>>
    PROVE  Inductive'
<1>1. Sound(cb[r], user, login)
  BY DEF Inductive
<1>2. Sound([cb[r] EXCEPT !.pc = "commit", !.out = "failed"], user, login)
  BY <1>1 DEF Sound, Callback
<1>. QED
  BY <1>2, MoveInductive DEF Swallow

LEMMA GotoIsMove ==
    ASSUME Inductive, NEW r \in Callbacks, NEW pc, Goto(r, pc)
    PROVE  Answer(r, pc, cb[r].out)
BY DEF Inductive, Callback, Goto, Answer

LEMMA GetStateInductive ==
    ASSUME Inductive, NEW r \in Callbacks, GetState(r) PROVE Inductive'
<1>1. Sound(cb[r], user, login) /\ cb[r].pc = "get"
      /\ UNCHANGED <<user, login>>
  BY DEF GetState, At, Inductive
<1>2. CASE login[cb[r].state].key
  <2>1. "spent" \notin cb[r].late
    BY <1>1, <1>2 DEF Sound, Inductive, Logins
  <2>2. Sound([cb[r] EXCEPT !.pc = "del", !.out = cb[r].out], user, login)
    BY <1>1, <2>1 DEF Sound, Callback
  <2>3. Answer(r, "del", cb[r].out)
    BY <1>2, GotoIsMove DEF GetState
  <2>. QED
    BY <1>1, <2>2, <2>3, MoveInductive
<1>3. CASE ~login[cb[r].state].key
  <2>1. Sound([cb[r] EXCEPT !.pc = "done", !.out = "invalid"], user, login)
    BY <1>1 DEF Sound, Callback
  <2>. QED
    BY <1>1, <1>3, <2>1, MoveInductive DEF GetState
<1>. QED
  BY <1>2, <1>3

\* The one step that changes a login and a callback.
LEMMA DeleteStateInductive ==
    ASSUME Inductive, NEW r \in Callbacks, DeleteState(r) PROVE Inductive'
<1>. DEFINE s == cb[r].state
            logins == [login EXCEPT ![s].key = FALSE, ![s].used = TRUE]
<1>1. Sound(cb[r], user, login) /\ cb[r].pc = "del" /\ s \in States
      /\ login[s].pc = "out"
  BY DEF DeleteState, At, Inductive, Sound
<1>2. login' = logins /\ user' = user /\ cb' = [cb EXCEPT ![r].pc = "idp"]
  BY DEF DeleteState, Goto
<1>3. Logins(logins)
  <2>1. login \in [States -> Login] /\ login[s] \in Login
    BY <1>1 DEF Inductive, Logins
  <2>2. /\ [login[s] EXCEPT !.key = FALSE, !.used = TRUE] \in Login
        /\ [login[s] EXCEPT !.key = FALSE, !.used = TRUE].pc = "out"
        /\ ~[login[s] EXCEPT !.key = FALSE, !.used = TRUE].key
    BY <1>1, <2>1 DEF Login
  <2>3. logins = [login EXCEPT ![s] =
                      [login[s] EXCEPT !.key = FALSE, !.used = TRUE]]
    BY <1>1, <2>1 DEF Login
  <2>. HIDE DEF logins
  <2>. QED
    BY <1>1, <2>1, <2>2, <2>3 DEF Inductive, Logins
<1>4. \A x \in States : /\ logins[x].pc = login[x].pc
                        /\ login[x].used => logins[x].used
  BY <1>1 DEF Inductive, Logins, Login
<1>. HIDE DEF logins
<1>5. ASSUME NEW x \in Callbacks PROVE Sound(cb[x], user, logins)
  BY <1>4 DEF Inductive, Sound
<1>6. Sound([cb[r] EXCEPT !.pc = "idp"], user, logins)
  BY <1>1, <1>5 DEF Sound, Callback
<1>7. \A x \in Callbacks : Sound(cb'[x], user, logins)
  BY <1>2, <1>5, <1>6 DEF Inductive
<1>8. cb' \in [Callbacks -> Callback]
  BY <1>2 DEF Inductive, Callback
<1>9. Exclusive(cb)'
  BY <1>2 DEF Inductive, Exclusive, Callback
<1>. QED
  BY <1>2, <1>3, <1>7, <1>8, <1>9 DEF Inductive

LEMMA ExchangeInductive ==
    ASSUME Inductive, NEW r \in Callbacks, Exchange(r) PROVE Inductive'
<1>1. Sound(cb[r], user, login) /\ cb[r].pc = "idp"
      /\ UNCHANGED <<user, login>>
  BY DEF Exchange, At, Inductive
<1>2. CASE Goto(r, "find")
  <2>1. Sound([cb[r] EXCEPT !.pc = "find", !.out = cb[r].out], user, login)
    BY <1>1 DEF Sound, Callback
  <2>. QED
    BY <1>1, <1>2, <2>1, GotoIsMove, MoveInductive
<1>. QED
  BY <1>1, <1>2, SwallowInductive DEF Exchange

LEMMA FindUserInductive ==
    ASSUME Inductive, NEW r \in Callbacks, FindUser(r) PROVE Inductive'
<1>1. Sound(cb[r], user, login) /\ cb[r].pc = "find"
      /\ UNCHANGED <<user, login>> /\ cb[r].user \in Users
      /\ user[cb[r].user] \in Row
  BY RunningLogin DEF FindUser, At, Inductive
<1>. DEFINE q == [cb[r] EXCEPT !.pc = "flush", !.seen = user[cb[r].user]]
<1>2. CASE cb' = [cb EXCEPT ![r].pc = "flush", ![r].seen = user[cb[r].user]]
  <2>1. cb' = [cb EXCEPT ![r] = q]
    BY <1>2
  <2>2. Sound(q, user, login) /\ q.pend = "none"
    BY <1>1 DEF Sound, Callback
  <2>. HIDE DEF q
  <2>. QED
    BY <1>1, <2>1, <2>2, StepOfOne
<1>. QED
  BY <1>1, <1>2, SwallowInductive DEF FindUser

\* A session that breaks while it flushes has written nothing.
LEMMA BreakInductive ==
    ASSUME Inductive, NEW r \in Callbacks, cb[r].pc = "flush",
           cb' = [cb EXCEPT ![r].pc = "commit", ![r].out = "failed",
                            ![r].broken = TRUE],
           UNCHANGED <<user, login>>
    PROVE  Inductive'
<1>. DEFINE q == [cb[r] EXCEPT !.pc = "commit", !.out = "failed",
                               !.broken = TRUE]
<1>1. Sound(cb[r], user, login)
  BY DEF Inductive
<1>2. Sound(q, user, login) /\ q.pend = "none"
  BY <1>1 DEF Sound, Callback
<1>3. cb' = [cb EXCEPT ![r] = q]
  OBVIOUS
<1>. HIDE DEF q
<1>. QED
  BY <1>2, <1>3, StepOfOne

LEMMA FlushInductive ==
    ASSUME Inductive, NEW r \in Callbacks, Flush(r) PROVE Inductive'
<1>. DEFINE u == cb[r].user
            write == IF cb[r].seen.there THEN "update" ELSE "insert"
            pc == IF cb[r].seen.active THEN "code" ELSE "commit"
            out == IF cb[r].seen.active THEN "none" ELSE "failed"
            q == [cb[r] EXCEPT !.pend = write, !.pc = pc, !.out = out]
<1>1. Sound(cb[r], user, login) /\ cb[r].pc = "flush" /\ ~RowLocked(u)
      /\ UNCHANGED <<user, login>>
  BY DEF Flush, At, Inductive
<1>2. CASE write = "insert" /\ user[u].there
  BY <1>1, <1>2, BreakInductive DEF Flush
<1>3. CASE ~(write = "insert" /\ user[u].there)
  <2>1. cb' = [cb EXCEPT ![r] = q]
    BY <1>3 DEF Flush
  <2>2. /\ write = "insert" => ~user[u].there
        /\ write = "update" => user[u].there
        /\ write \in {"insert", "update"}
    BY <1>1, <1>3 DEF Sound
  <2>3. q \in Callback /\ q.user = u /\ q.pend = write
    BY <1>1 DEF Sound, Callback
  <2>4. Sound(q, user, login)
    BY <1>1, <2>2, <2>3 DEF Sound, Callback
  <2>. HIDE DEF q
  <2>. QED
    BY <1>1, <2>1, <2>3, <2>4, StepOfOne
<1>. QED
  BY <1>2, <1>3

LEMMA GenerateCodeInductive ==
    ASSUME Inductive, NEW r \in Callbacks, GenerateCode(r) PROVE Inductive'
<1>1. Sound(cb[r], user, login) /\ cb[r].pc = "code"
      /\ UNCHANGED <<user, login>>
  BY DEF GenerateCode, At, Inductive
<1>2. PICK code \in BOOLEAN, out \in {"code", "failed"} :
          /\ out = "code" => code
          /\ cb' = [cb EXCEPT ![r].pc = "commit", ![r].code = code,
                              ![r].out = out]
  BY DEF GenerateCode
<1>. DEFINE q == [cb[r] EXCEPT !.pc = "commit", !.code = code, !.out = out]
<1>3. cb' = [cb EXCEPT ![r] = q]
  BY <1>2
<1>4. Sound(q, user, login) /\ q.user = cb[r].user /\ cb[r].pend # "none"
  BY <1>1, <1>2 DEF Sound, Callback
<1>. HIDE DEF q
<1>. QED
  BY <1>1, <1>3, <1>4, StepOfOne

-----------------------------------------------------------------------------
(* Commit: a row comes into being, or gets a profile.                        *)

\* What a commit leaves in the table: every row that was there is there, and
\* as active as it was.
LEMMA StoredKeeps ==
    ASSUME Inductive, NEW r \in Callbacks, cb[r].pc = "commit"
    PROVE  /\ Rows(Stored(r))
           /\ \A u \in Users : user[u].there =>
                  Stored(r)[u].there /\ Stored(r)[u].active = user[u].active
           /\ \A u \in Users : u # cb[r].user => Stored(r)[u] = user[u]
           /\ cb[r].pend = "none" => Stored(r) = user
           /\ cb[r].pend # "none" => Stored(r)[cb[r].user].there
<1>1. Sound(cb[r], user, login) /\ cb[r].user \in Users
  BY RunningLogin DEF Inductive
<1>2. CASE cb[r].pend = "none"
  BY <1>2 DEF Stored, Inductive
<1>3. CASE cb[r].pend = "insert"
  <2>1. Stored(r) = [user EXCEPT ![cb[r].user] =
                         [there |-> TRUE, active |-> TRUE, profile |-> "new"]]
    BY <1>3 DEF Stored
  <2>2. ~user[cb[r].user].there /\ user \in [Users -> Row]
        /\ \A u \in Users : ~user[u].active => user[u].there
    BY <1>1, <1>3 DEF Sound, Inductive, Rows
  <2>3. \A u \in Users :
            Stored(r)[u] = IF u = cb[r].user
                           THEN [there |-> TRUE, active |-> TRUE,
                                 profile |-> "new"]
                           ELSE user[u]
    BY <1>1, <2>1, <2>2
  <2>4. Stored(r) \in [Users -> Row]
    <3>1. [there |-> TRUE, active |-> TRUE, profile |-> "new"] \in Row
      BY DEF Row
    <3>. QED
      BY <2>1, <2>2, <3>1
  <2>. QED
    BY <1>1, <1>3, <2>2, <2>3, <2>4 DEF Rows
<1>4. CASE cb[r].pend = "update"
  <2>1. Stored(r) = [user EXCEPT ![cb[r].user].profile = "new"]
    BY <1>4 DEF Stored
  <2>. QED
    BY <1>1, <1>4, <2>1 DEF Sound, Inductive, Rows, Row
<1>. QED
  BY <1>1, <1>2, <1>3, <1>4 DEF Sound, Callback

LEMMA CommitInductive ==
    ASSUME Inductive, NEW r \in Callbacks, Commit(r) PROVE Inductive'
<1>1. Sound(cb[r], user, login) /\ cb[r].pc = "commit" /\ login' = login
  BY DEF Commit, At, Inductive
<1>2. CASE Close(r, "error") /\ UNCHANGED user
  <2>. DEFINE q == [cb[r] EXCEPT !.pc = "done", !.out = "error",
                                 !.pend = "none", !.broken = FALSE]
  <2>1. cb' = [cb EXCEPT ![r] = q]
    BY <1>2 DEF Close
  <2>2. Sound(q, user, login) /\ q.pend = "none"
    BY <1>1 DEF Sound, Callback
  <2>. HIDE DEF q
  <2>. QED
    BY <1>1, <1>2, <2>1, <2>2, StepOfOne
<1>3. CASE user' = Stored(r) /\ Close(r, cb[r].out)
  <2>. DEFINE q == [cb[r] EXCEPT !.pc = "done", !.out = cb[r].out,
                                 !.pend = "none", !.broken = FALSE]
  <2>1. cb' = [cb EXCEPT ![r] = q]
    BY <1>3 DEF Close
  <2>2. Sound(q, Stored(r), login) /\ q.pend = "none" /\ q \in Callback
    <3>1. q \in Callback /\ q.pend = "none" /\ q.pc = "done"
          /\ q.out = cb[r].out /\ q.user = cb[r].user
          /\ q.state = cb[r].state /\ q.late = cb[r].late
          /\ q.seen = cb[r].seen /\ q.code = cb[r].code
      BY <1>1 DEF Sound, Callback
    <3>. HIDE DEF q
    <3>2. cb[r].user \in Users
          /\ (cb[r].pend # "none" => Stored(r)[cb[r].user].there)
          /\ (user[cb[r].user].there =>
                  Stored(r)[cb[r].user].there
                  /\ Stored(r)[cb[r].user].active = user[cb[r].user].active)
          /\ (~user[cb[r].user].active => user[cb[r].user].there)
      BY <1>1, RunningLogin, StoredKeeps DEF Inductive, Rows
    <3>. QED
      BY <1>1, <3>1, <3>2 DEF Sound
  <2>3. ASSUME NEW x \in Callbacks, x # r
        PROVE  Sound(cb[x], Stored(r), login)
    <3>1. Sound(cb[x], user, login)
      BY DEF Inductive
    <3>2. cb[x].pc = "idle" \/ cb[x].user \in Users
      BY <3>1 DEF Sound
    <3>3. \A u \in Users :
              /\ user[u].there => Stored(r)[u].there
                     /\ Stored(r)[u].active = user[u].active
              /\ ~user[u].active => user[u].there
              /\ u # cb[r].user => Stored(r)[u] = user[u]
      BY <1>1, StoredKeeps DEF Inductive, Rows
    <3>4. cb[x].pend = "insert" => ~Stored(r)[cb[x].user].there
      BY <1>1, <2>3, <3>1, <3>2, <3>3, StoredKeeps
         DEF Sound, Inductive, Exclusive
    <3>. QED
      BY <3>1, <3>2, <3>3, <3>4 DEF Sound
  <2>4. \A x \in Callbacks : Sound(cb'[x], Stored(r), login)
    BY <2>1, <2>2, <2>3 DEF Inductive
  <2>5. cb' \in [Callbacks -> Callback] /\ Exclusive(cb)'
    BY <2>1, <2>2 DEF Inductive, Exclusive
  <2>. HIDE DEF q
  <2>6. Rows(Stored(r))
    BY <1>1, StoredKeeps
  <2>. QED
    BY <1>1, <1>3, <2>4, <2>5, <2>6 DEF Inductive
<1>. QED
  BY <1>2, <1>3 DEF Commit

-----------------------------------------------------------------------------
(* The rest.                                                                 *)

LEMMA RedisErrorInductive ==
    ASSUME Inductive, NEW r \in Callbacks, RedisError(r) PROVE Inductive'
<1>1. Sound(cb[r], user, login) /\ cb[r].pc \in {"get", "del"}
  BY DEF RedisError, Inductive
<1>2. Sound([cb[r] EXCEPT !.pc = "done", !.out = "error"], user, login)
  BY <1>1 DEF Sound, Callback
<1>. QED
  BY <1>2, MoveInductive DEF RedisError

LEMMA ResetInductive ==
    ASSUME Inductive, NEW r \in Callbacks,
           cb' = [cb EXCEPT ![r] = Idle], UNCHANGED <<user, login>>
    PROVE  Inductive'
<1>1. Idle.pend = "none"
  BY DEF Idle, Slot
<1>. QED
  BY <1>1, IdleSound, StepOfOne

\* A deactivation makes nobody late who has come before; a reinstatement takes
\* the mark away from everybody who bears it.
LEMMA SetActiveInductive ==
    ASSUME Inductive, NEW u \in Users, SetActive(u) PROVE Inductive'
<1>1. user[u].there /\ ~RowLocked(u) /\ login' = login
      /\ user' = [user EXCEPT ![u].active = ~@]
  BY DEF SetActive
<1>2. user \in [Users -> Row]
  BY DEF Inductive, Rows
<1>3. /\ Rows(user')
      /\ \A v \in Users : user'[v].there = user[v].there
      /\ \A v \in Users : v # u => user'[v] = user[v]
      /\ user'[u].active = ~user[u].active
  BY <1>1, <1>2 DEF Inductive, Rows, Row
<1>4. ASSUME NEW r \in Callbacks
      PROVE  /\ Sound(cb'[r], user', login)
             /\ cb'[r].pend = cb[r].pend /\ cb'[r].user = cb[r].user
  <2>1. Sound(cb[r], user, login)
    BY DEF Inductive
  <2>2. CASE cb[r].user = u /\ ~user[u].active
    <3>1. cb'[r] = [cb[r] EXCEPT !.late = cb[r].late \ {"off"}]
      BY <2>2 DEF SetActive
    <3>2. /\ cb'[r] \in Callback
          /\ cb'[r].pc = cb[r].pc /\ cb'[r].user = cb[r].user
          /\ cb'[r].state = cb[r].state /\ cb'[r].seen = cb[r].seen
          /\ cb'[r].pend = cb[r].pend /\ cb'[r].out = cb[r].out
          /\ cb'[r].code = cb[r].code
          /\ cb'[r].late = cb[r].late \ {"off"}
      BY <2>1, <3>1 DEF Sound, Callback
    <3>. QED
      BY <1>3, <2>1, <2>2, <3>2 DEF Sound
  <2>3. CASE ~(cb[r].user = u /\ ~user[u].active)
    <3>1. cb'[r] = cb[r]
      BY <2>3 DEF SetActive
    <3>. QED
      BY <1>3, <2>1, <2>3, <3>1 DEF Sound
  <2>. QED
    BY <2>2, <2>3
<1>5. DOMAIN cb' = Callbacks /\ \A r \in Callbacks : cb'[r] \in Callback
  BY <1>4 DEF SetActive, Sound
<1>6. cb' \in [Callbacks -> Callback]
  <2>1. cb' = [r \in Callbacks |-> cb'[r]]
    BY DEF SetActive
  <2>. QED
    BY <1>5, <2>1
<1>7. Exclusive(cb)'
  BY <1>4 DEF Inductive, Exclusive
<1>. QED
  BY <1>1, <1>3, <1>4, <1>6, <1>7 DEF Inductive

LEMMA InductiveInit == Init => Inductive
<1>. SUFFICES ASSUME Init PROVE Inductive
  OBVIOUS
<1>1. Rows(user)
  <2>. DEFINE start == {NoRow} \cup
                  [there : {TRUE}, active : BOOLEAN, profile : {"old"}]
  <2>1. \A x \in start : x \in Row /\ (~x.active => x.there)
    <3>1. NoRow \in Row /\ NoRow.active
      BY DEF Row, NoRow
    <3>2. ASSUME NEW x \in [there : {TRUE}, active : BOOLEAN,
                             profile : {"old"}]
          PROVE  x \in Row /\ x.there
      BY DEF Row
    <3>. QED
      BY <3>1, <3>2
  <2>2. user \in [Users -> start]
    BY DEF Init
  <2>. HIDE DEF start
  <2>. QED
    BY <2>1, <2>2 DEF Rows
<1>2. Logins(login)
  BY DEF Init, Logins, Login, NoLogin
<1>3. \A r \in Callbacks : cb[r] = Idle /\ Sound(cb[r], user, login)
  BY IdleSound DEF Init
<1>4. cb \in [Callbacks -> Callback]
  BY <1>3 DEF Init, Sound
<1>5. Exclusive(cb)
  BY <1>3 DEF Exclusive, Idle, Slot
<1>. QED
  BY <1>1, <1>2, <1>3, <1>4, <1>5 DEF Inductive

LEMMA InductiveStep == Inductive /\ [Next]_vars => Inductive'
<1>. SUFFICES ASSUME Inductive, [Next]_vars PROVE Inductive'
  OBVIOUS
<1>1. CASE UNCHANGED vars
  BY <1>1 DEF vars, Inductive, Exclusive
<1>2. ASSUME NEW r \in Callbacks, CallbackStep(r) PROVE Inductive'
  BY <1>2, GetStateInductive, DeleteStateInductive, ExchangeInductive,
     FindUserInductive, FlushInductive, GenerateCodeInductive,
     CommitInductive DEF CallbackStep
<1>3. ASSUME NEW r \in Callbacks, FlushError(r) PROVE Inductive'
  BY <1>3, BreakInductive DEF FlushError, At
<1>4. ASSUME NEW r \in Callbacks, Leave(r) \/ Crash(r) PROVE Inductive'
  BY <1>4, ResetInductive DEF Leave, Crash
<1>. QED
  BY <1>1, <1>2, <1>3, <1>4, LoginInductive, ArriveInductive,
     RedisErrorInductive, SetActiveInductive DEF Next

\* Every reachable state of the login is one in which callbacks know what is
\* true, and no row has two open writes.
THEOREM InductiveInvariant == Spec => []Inductive
<1>. QED
  BY InductiveInit, InductiveStep, PTL DEF Spec

-----------------------------------------------------------------------------
(* What follows.                                                             *)

\* The three components keep their types (auth.py 39-121).
THEOREM TypeCorrect == Spec => []TypeOK
<1>1. Inductive => TypeOK
  BY DEF Inductive, TypeOK, Sound, Rows, Logins
<1>. QED
  BY <1>1, InductiveInvariant, PTL

\* auth.py 111-116, database.py 52-57: a code that reaches the browser belongs
\* to a committed row, whatever fails and races, for any number of callbacks.
THEOREM CodesHaveUsers == Spec => []CodeHasUser
<1>1. Inductive => CodeHasUser
  BY DEF Inductive, CodeHasUser, Sound, At
<1>. QED
  BY <1>1, InductiveInvariant, PTL

\* service.py 67-68: nobody who was deactivated before the callback came, and
\* was not reinstated, gets a code.
THEOREM DeactivatedGetNoCodes == Spec => []DeactivatedGetsNoCode
<1>1. Inductive => DeactivatedGetsNoCode
  BY DEF Inductive, DeactivatedGetsNoCode, Sound
<1>. QED
  BY <1>1, InductiveInvariant, PTL

\* auth.py 93-98: a callback that comes after its state was used is turned
\* away.
THEOREM SpentStatesRefused == Spec => []SpentStateRefused
<1>1. Inductive => SpentStateRefused
  BY DEF Inductive, SpentStateRefused, Sound, At
<1>. QED
  BY <1>1, InductiveInvariant, PTL

\* Only an administrator changes whether somebody is active, and nobody's row
\* goes away.
LEMMA TableStep ==
    ASSUME Inductive, [Next]_vars
    PROVE  \/ \E u \in Users : SetActive(u)
           \/ \A u \in Users : user[u].there =>
                  user'[u].there /\ user'[u].active = user[u].active
<1>1. ASSUME NEW r \in Callbacks, Commit(r)
      PROVE  \A u \in Users : user[u].there =>
                 user'[u].there /\ user'[u].active = user[u].active
  BY <1>1, StoredKeeps DEF Commit, At
<1>2. ASSUME NEW s \in States, LoginStep(s) PROVE user' = user
  BY <1>2 DEF LoginStep, StartLogin, HealthCheck, Retry, LoginGoto, Store,
     Expire, Reuse
<1>3. ASSUME NEW r \in Callbacks,
             \/ GetState(r) \/ DeleteState(r) \/ Exchange(r) \/ FindUser(r)
             \/ Flush(r) \/ GenerateCode(r) \/ RedisError(r)
             \/ FlushError(r) \/ Leave(r) \/ Crash(r)
      PROVE  user' = user
  BY <1>3 DEF GetState, DeleteState, Exchange, FindUser, Flush, GenerateCode,
     RedisError, FlushError, Leave, Crash
<1>4. ASSUME NEW r \in Callbacks, NEW s \in States, NEW u \in Users,
             Arrive(r, s, u)
      PROVE  user' = user
  BY <1>4 DEF Arrive
<1>5. UNCHANGED vars => user' = user
  BY DEF vars
<1>. QED
  BY <1>1, <1>2, <1>3, <1>4, <1>5 DEF Next, CallbackStep

\* service.py 27-66: a login that is committed takes no row away from others
\* and leaves the administrator's decision about its user alone.
THEOREM LoginsKeepDecisions == Spec => LoginKeepsDecision
<1>1. ASSUME Inductive, [Next]_vars, NEW r \in Callbacks, NEW u \in Users,
             At(r, "commit"), cb'[r].pc = "done", user[u].there
      PROVE  user'[u].there /\ user'[u].active = user[u].active
  <2>1. ASSUME NEW v \in Users, SetActive(v) PROVE cb'[r].pc = cb[r].pc
    BY <1>1, <2>1 DEF SetActive, Inductive, Callback
  <2>. QED
    BY <1>1, <2>1, TableStep DEF At
<1>2. Inductive /\ [Next]_vars =>
      [\A r \in Callbacks, u \in Users :
         /\ At(r, "commit") /\ cb'[r].pc = "done"
         /\ user[u].there
         => user'[u].there /\ user'[u].active = user[u].active]_vars
  BY <1>1
<1>. QED
  BY <1>2, InductiveInvariant, PTL DEF Spec, LoginKeepsDecision

-----------------------------------------------------------------------------
(* SsoLogin implements Revocation, twice.                                    *)

\* The step leaves callback x what it was, or takes a mark from it that the
\* reinstatement of its user has made untrue.
Keeps(x) ==
    /\ Runs(x)' <=> Runs(x)
    /\ Runs(x) =>
           /\ cb'[x].state = cb[x].state /\ cb'[x].user = cb[x].user
           /\ \/ cb'[x].late = cb[x].late
              \/ /\ cb'[x].late = cb[x].late \ {"off"}
                 /\ user'[cb[x].user].active

\* The step takes callback x past no check.
Waits(x) == (PastGet(x)' <=> PastGet(x)) /\ (HasCode(x)' <=> HasCode(x))

\* Some callbacks are answered or lost, and no other one passes a check.
Quiet(over) ==
    /\ \A x \in over : ~Runs(x)'
    /\ \A x \in Callbacks \ over : Keeps(x) /\ Waits(x)

\* Callback r passes its next check, and nothing else happens.
Passes(r) ==
    /\ UNCHANGED <<user, login>>
    /\ Runs(r)
    /\ \A x \in Callbacks : Keeps(x) /\ (Runs(x) => cb'[x].late = cb[x].late)
    /\ \A x \in Callbacks \ {r} : Waits(x)
    /\ PastGet(r) => PastGet(r)'
    /\ HasCode(r) => HasCode(r)'

\* Callback r comes in, and what it calls late is what is so.
Comes(r) ==
    /\ UNCHANGED <<user, login>>
    /\ ~Runs(r) /\ Runs(r)' /\ ~PastGet(r)' /\ ~HasCode(r)'
    /\ \A x \in Callbacks \ {r} : cb'[x] = cb[x]
    /\ cb'[r].user \in Users /\ cb'[r].state \in States
    /\ "off" \in cb'[r].late <=> ~user[cb'[r].user].active
    /\ "spent" \in cb'[r].late <=> login[cb'[r].state].used

\* Steps of one callback that is what it was but for the answer it will give.
LEMMA StepIsQuiet ==
    ASSUME Inductive, NEW r \in Callbacks, NEW q,
           cb' = [cb EXCEPT ![r] = q],
           cb[r].pc \notin {"idle", "get", "done"},
           q.pc \notin {"idle", "get", "done"},
           q.state = cb[r].state, q.user = cb[r].user, q.late = cb[r].late,
           q.code = cb[r].code
    PROVE  Quiet({})
<1>1. cb'[r] = q /\ \A x \in Callbacks \ {r} : cb'[x] = cb[x]
  BY DEF Inductive
<1>. QED
  BY <1>1 DEF Quiet, Keeps, Waits, PastGet, HasCode, Runs

LEMMA EndIsQuiet ==
    ASSUME Inductive, NEW r \in Callbacks, NEW q,
           cb' = [cb EXCEPT ![r] = q], q.pc \in {"idle", "done"}
    PROVE  Quiet({r})
<1>1. cb'[r] = q /\ \A x \in Callbacks \ {r} : cb'[x] = cb[x]
  BY DEF Inductive
<1>. QED
  BY <1>1 DEF Quiet, Keeps, Waits, PastGet, HasCode, Runs

LEMMA SameIsQuiet ==
    ASSUME UNCHANGED cb PROVE Quiet({})
BY DEF Quiet, Keeps, Waits, PastGet, HasCode, Runs

\* Every step is one of the three.
LEMMA StepShapes ==
    ASSUME Inductive, Inductive', [Next]_vars
    PROVE  \/ \E over \in SUBSET Callbacks : Quiet(over)
           \/ \E r \in Callbacks : Passes(r) \/ Comes(r)
<1>. DEFINE Shape == \/ \E over \in SUBSET Callbacks : Quiet(over)
                     \/ \E r \in Callbacks : Passes(r) \/ Comes(r)
<1>q. ASSUME NEW r \in Callbacks PROVE cb[r] \in Callback
  BY DEF Inductive
<1>end. ASSUME NEW r \in Callbacks, NEW q, cb' = [cb EXCEPT ![r] = q],
               q.pc \in {"idle", "done"}
        PROVE  Shape
  BY <1>end, EndIsQuiet
<1>commit. ASSUME NEW r \in Callbacks, Swallow(r),
                  cb[r].pc \in {"idp", "find"}
           PROVE  Shape
  <2>. DEFINE q == [cb[r] EXCEPT !.pc = "commit", !.out = "failed"]
  <2>1. /\ q.pc = "commit" /\ q.state = cb[r].state /\ q.user = cb[r].user
        /\ q.late = cb[r].late /\ q.code = cb[r].code
        /\ cb' = [cb EXCEPT ![r] = q]
    BY <1>commit, <1>q DEF Swallow, Answer, Callback
  <2>. HIDE DEF q
  <2>. QED
    BY <1>commit, <2>1, StepIsQuiet
<1>break. ASSUME NEW r \in Callbacks, cb[r].pc = "flush",
                 cb' = [cb EXCEPT ![r].pc = "commit", ![r].out = "failed",
                                  ![r].broken = TRUE]
          PROVE  Shape
  <2>. DEFINE q == [cb[r] EXCEPT !.pc = "commit", !.out = "failed",
                                 !.broken = TRUE]
  <2>1. /\ q.pc = "commit" /\ q.state = cb[r].state /\ q.user = cb[r].user
        /\ q.late = cb[r].late /\ q.code = cb[r].code
        /\ cb' = [cb EXCEPT ![r] = q]
    BY <1>break, <1>q DEF Callback
  <2>. HIDE DEF q
  <2>. QED
    BY <1>break, <2>1, StepIsQuiet
<1>goto. ASSUME NEW r \in Callbacks, NEW pc \in {"del", "idp", "find"},
                Goto(r, pc)
         PROVE  /\ \A x \in Callbacks \ {r} : cb'[x] = cb[x]
                /\ cb'[r].pc = pc /\ cb'[r].state = cb[r].state
                /\ cb'[r].user = cb[r].user /\ cb'[r].late = cb[r].late
                /\ cb'[r].code = cb[r].code
  BY <1>goto, <1>q DEF Goto, Callback, Inductive
<1>1. ASSUME NEW r \in Callbacks, NEW s \in States, NEW u \in Users,
             Arrive(r, s, u)
      PROVE  Shape
  <2>. DEFINE late == (IF ~user[u].active THEN {"off"} ELSE {})
                          \cup (IF login[s].used THEN {"spent"} ELSE {})
  <2>1. /\ cb[r].pc = "idle" /\ UNCHANGED <<user, login>>
        /\ \A x \in Callbacks \ {r} : cb'[x] = cb[x]
        /\ cb'[r] = Slot("get", s, u, late)
    BY <1>1 DEF Arrive, At, Inductive
  <2>2. /\ "off" \in late <=> ~user[u].active
        /\ "spent" \in late <=> login[s].used
    OBVIOUS
  <2>. HIDE DEF late
  <2>3. Comes(r)
    BY <2>1, <2>2 DEF Slot, Comes, Runs, PastGet, HasCode
  <2>. QED
    BY <2>3
<1>2. ASSUME NEW r \in Callbacks, GetState(r) PROVE Shape
  <2>1. CASE Goto(r, "del")
    <3>1. cb[r].pc = "get" /\ UNCHANGED <<user, login>>
      BY <1>2 DEF GetState, At
    <3>2. Passes(r)
      BY <1>goto, <2>1, <3>1 DEF Passes, Keeps, Waits, Runs, PastGet, HasCode
    <3>. QED
      BY <3>2
  <2>2. CASE Answer(r, "done", "invalid")
    <3>1. cb' = [cb EXCEPT ![r] = [cb[r] EXCEPT !.pc = "done",
                                                !.out = "invalid"]]
          /\ [cb[r] EXCEPT !.pc = "done", !.out = "invalid"].pc = "done"
      BY <1>q, <2>2 DEF Answer, Callback
    <3>. QED
      BY <3>1, <1>end
  <2>. QED
    BY <1>2, <2>1, <2>2 DEF GetState
<1>3. ASSUME NEW r \in Callbacks, NEW pc \in {"idp", "find"}, Goto(r, pc),
             cb[r].pc \in {"del", "idp"}
      PROVE  Shape
  <2>1. Quiet({})
    BY <1>3, <1>goto DEF Quiet, Keeps, Waits, Runs, PastGet, HasCode
  <2>. QED
    BY <2>1
<1>4. ASSUME NEW r \in Callbacks, FindUser(r) PROVE Shape
  <2>1. CASE cb' = [cb EXCEPT ![r].pc = "flush", ![r].seen = user[cb[r].user]]
    <3>. DEFINE q == [cb[r] EXCEPT !.pc = "flush", !.seen = user[cb[r].user]]
    <3>1. /\ q.pc = "flush" /\ q.state = cb[r].state /\ q.user = cb[r].user
          /\ q.late = cb[r].late /\ q.code = cb[r].code
          /\ cb' = [cb EXCEPT ![r] = q]
      BY <1>q, <2>1 DEF Callback
    <3>. HIDE DEF q
    <3>. QED
      BY <1>4, <3>1, StepIsQuiet DEF FindUser, At
  <2>. QED
    BY <1>4, <1>commit, <2>1 DEF FindUser, At
<1>5. ASSUME NEW r \in Callbacks, Flush(r) PROVE Shape
  <2>1. ASSUME NEW write, NEW pc \in {"code", "commit"}, NEW out,
               cb' = [cb EXCEPT ![r].pend = write, ![r].pc = pc,
                                ![r].out = out]
        PROVE  Shape
    <3>. DEFINE q == [cb[r] EXCEPT !.pend = write, !.pc = pc, !.out = out]
    <3>1. /\ q.pc = pc /\ q.state = cb[r].state /\ q.user = cb[r].user
          /\ q.late = cb[r].late /\ q.code = cb[r].code
          /\ cb' = [cb EXCEPT ![r] = q]
      BY <1>q, <2>1 DEF Callback
    <3>. HIDE DEF q
    <3>. QED
      BY <1>5, <2>1, <3>1, StepIsQuiet DEF Flush, At
  <2>. QED
    BY <1>5, <1>break, <2>1 DEF Flush, At
<1>6. ASSUME NEW r \in Callbacks, GenerateCode(r) PROVE Shape
  <2>1. PICK code \in BOOLEAN, out \in {"code", "failed"} :
            cb' = [cb EXCEPT ![r].pc = "commit", ![r].code = code,
                             ![r].out = out]
    BY <1>6 DEF GenerateCode
  <2>2. /\ cb'[r].pc = "commit" /\ cb'[r].state = cb[r].state
        /\ cb'[r].user = cb[r].user /\ cb'[r].late = cb[r].late
        /\ \A x \in Callbacks \ {r} : cb'[x] = cb[x]
    BY <1>q, <2>1 DEF Callback, Inductive
  <2>3. cb[r].pc = "code" /\ ~cb[r].code /\ UNCHANGED <<user, login>>
    BY <1>6 DEF GenerateCode, At, Inductive, Sound
  <2>4. Passes(r)
    BY <2>2, <2>3 DEF Passes, Keeps, Waits, Runs, PastGet, HasCode
  <2>. QED
    BY <2>4
<1>7. ASSUME NEW r \in Callbacks, NEW out, Close(r, out) PROVE Shape
  <2>. DEFINE q == [cb[r] EXCEPT !.pc = "done", !.out = out, !.pend = "none",
                                 !.broken = FALSE]
  <2>1. cb' = [cb EXCEPT ![r] = q] /\ q.pc = "done"
    BY <1>7, <1>q DEF Close, Callback
  <2>. HIDE DEF q
  <2>. QED
    BY <2>1, <1>end
<1>8. ASSUME NEW r \in Callbacks, RedisError(r) PROVE Shape
  <2>1. cb' = [cb EXCEPT ![r] = [cb[r] EXCEPT !.pc = "done", !.out = "error"]]
        /\ [cb[r] EXCEPT !.pc = "done", !.out = "error"].pc = "done"
    BY <1>8, <1>q DEF RedisError, Answer, Callback
  <2>. QED
    BY <2>1, <1>end
<1>9. ASSUME NEW r \in Callbacks, Leave(r) \/ Crash(r) PROVE Shape
  <2>1. cb' = [cb EXCEPT ![r] = Idle] /\ Idle.pc = "idle"
    BY <1>9 DEF Leave, Crash, Idle, Slot
  <2>. QED
    BY <2>1, <1>end
<1>10. ASSUME NEW u \in Users, SetActive(u) PROVE Shape
  <2>1. ASSUME NEW x \in Callbacks
        PROVE  /\ cb'[x].pc = cb[x].pc /\ cb'[x].state = cb[x].state
               /\ cb'[x].user = cb[x].user /\ cb'[x].code = cb[x].code
               /\ \/ cb'[x].late = cb[x].late
                  \/ /\ cb'[x].late = cb[x].late \ {"off"}
                     /\ cb[x].user = u /\ ~user[u].active
    BY <1>10, <1>q DEF SetActive, Callback
  <2>2. user'[u].active = ~user[u].active
    BY <1>10 DEF SetActive, Inductive, Rows, Row
  <2>3. Quiet({})
    BY <2>1, <2>2 DEF Quiet, Keeps, Waits, Runs, PastGet, HasCode
  <2>. QED
    BY <2>3
<1>11. ASSUME UNCHANGED cb PROVE Shape
  BY <1>11, SameIsQuiet
<1>12. ASSUME NEW r \in Callbacks, CallbackStep(r) PROVE Shape
  BY <1>2, <1>3, <1>4, <1>5, <1>6, <1>7, <1>12, <1>commit
  DEF CallbackStep, DeleteState, Exchange, Commit, At
<1>13. ASSUME NEW r \in Callbacks, FlushError(r) PROVE Shape
  BY <1>13, <1>break DEF FlushError, At
<1>14. ASSUME NEW s \in States, LoginStep(s) PROVE UNCHANGED cb
  BY <1>14 DEF LoginStep, StartLogin, HealthCheck, Retry, Store, Expire,
               Reuse, LoginGoto
<1>. QED
  BY <1>1, <1>8, <1>9, <1>10, <1>11, <1>12, <1>13, <1>14 DEF Next, vars

\* What Revocation asks of a callback that is lapsed, before a step and after.
LEMMA LateTruth ==
    ASSUME Inductive, NEW r \in Callbacks, Runs(r)
    PROVE  /\ cb[r].user \in Users /\ cb[r].state \in States
           /\ "off" \in cb[r].late => ~user[cb[r].user].active /\ ~HasCode(r)
           /\ "spent" \in cb[r].late => login[cb[r].state].used /\ ~PastGet(r)
BY DEF Inductive, Sound, Runs, HasCode, PastGet

LEMMA LateTruthAfter ==
    ASSUME Inductive', NEW r \in Callbacks, Runs(r)'
    PROVE  /\ "off" \in cb'[r].late =>
                  ~user'[cb'[r].user].active /\ ~HasCode(r)'
           /\ "spent" \in cb'[r].late =>
                  login'[cb'[r].state].used /\ ~PastGet(r)'
BY DEF Inductive, Sound, Runs, HasCode, PastGet

\* The users.
LEMMA AccountsChange ==
    ASSUME Inductive, Inductive', NEW over \in SUBSET Callbacks,
           \A x \in over : ~Runs(x)',
           \A x \in Callbacks \ over : Keeps(x) /\ (HasCode(x)' <=> HasCode(x))
    PROVE  Accounts!Change(over)
<1>. DEFINE Needs(x) == IF Runs(x) THEN cb[x].user ELSE None
<1>1. \A x \in Callbacks : Needs(x)' = IF x \in over THEN None ELSE Needs(x)
  BY DEF Keeps
<1>2. ASSUME NEW x \in Callbacks
      PROVE  Runs(x)' /\ "off" \in cb'[x].late <=>
                 /\ x \notin over /\ Runs(x) /\ "off" \in cb[x].late
                 /\ Needs(x) \notin {u \in Users : user'[u].active}
  <2>1. CASE x \notin over
    <3>1. Keeps(x)
      BY <2>1
    <3>2. Runs(x) /\ "off" \in cb'[x].late => ~user'[cb[x].user].active
      BY <3>1, LateTruthAfter DEF Keeps
    <3>3. Runs(x) => Needs(x) = cb[x].user /\ Needs(x) \in Users
      BY LateTruth
    <3>. QED
      BY <2>1, <3>1, <3>2, <3>3 DEF Keeps
  <2>. QED
    BY <2>1
<1>3. \A x \in Callbacks : HasCode(x)' <=> x \notin over /\ HasCode(x)
  BY DEF HasCode
<1>. QED
  BY <1>1, <1>2, <1>3 DEF Accounts!Change

LEMMA AccountsStep ==
    ASSUME Inductive, Inductive', [Next]_vars
    PROVE  Accounts!RevocationNext
<1>1. ASSUME NEW over \in SUBSET Callbacks, Quiet(over)
      PROVE  Accounts!RevocationNext
  BY <1>1, AccountsChange DEF Quiet, Waits, Accounts!RevocationNext
<1>2. ASSUME NEW r \in Callbacks, Passes(r)
      PROVE  Accounts!RevocationNext
  <2>1. CASE HasCode(r)' <=> HasCode(r)
    <3>1. Accounts!Change({})
      BY <1>2, <2>1, AccountsChange DEF Passes, Waits
    <3>. QED
      BY <3>1 DEF Accounts!RevocationNext
  <2>2. CASE HasCode(r)' /\ ~HasCode(r)
    <3>1. Runs(r) /\ cb[r].user # None
      BY <1>2, LateTruth, NoneAssumption DEF Passes
    <3>2. "off" \notin cb[r].late
      BY <1>2, <2>2, LateTruthAfter DEF Passes, Keeps
    <3>3. Accounts!Honour(r)
      BY <1>2, <2>2, <3>1, <3>2 DEF Accounts!Honour, Passes, Keeps, Waits
    <3>. QED
      BY <3>3 DEF Accounts!RevocationNext
  <2>. QED
    BY <1>2, <2>1, <2>2 DEF Passes
<1>3. ASSUME NEW r \in Callbacks, Comes(r)
      PROVE  Accounts!RevocationNext
  <2>1. PICK u \in Users : u = cb'[r].user
    BY <1>3 DEF Comes
  <2>2. "off" \in cb'[r].late <=> ~user[u].active
    BY <1>3, <2>1 DEF Comes
  <2>3. /\ ~Runs(r) /\ Runs(r)' /\ ~HasCode(r) /\ ~HasCode(r)'
        /\ UNCHANGED user
    BY <1>3 DEF Comes, HasCode
  <2>4. \A x \in Callbacks \ {r} :
            cb'[x] = cb[x] /\ (Runs(x)' <=> Runs(x)) /\ (HasCode(x)' <=> HasCode(x))
    BY <1>3 DEF Comes, HasCode, Runs
  <2>5. Accounts!Arrive(r, u)
    <3>1. {x \in Callbacks : Runs(x) /\ "off" \in cb[x].late}' =
              IF ~user[u].active
              THEN {x \in Callbacks : Runs(x) /\ "off" \in cb[x].late}
                       \cup {r}
              ELSE {x \in Callbacks : Runs(x) /\ "off" \in cb[x].late}
      BY <2>2, <2>3, <2>4
    <3>. QED
      BY <2>1, <2>3, <2>4, <3>1 DEF Accounts!Arrive
  <2>. QED
    BY <2>5 DEF Accounts!RevocationNext
<1>. QED
  BY <1>1, <1>2, <1>3, StepShapes

\* The states, in the same way.
LEMMA FreshChange ==
    ASSUME Inductive, Inductive', NEW over \in SUBSET Callbacks,
           \A x \in over : ~Runs(x)',
           \A x \in Callbacks \ over : Keeps(x) /\ (PastGet(x)' <=> PastGet(x))
    PROVE  Fresh!Change(over)
<1>. DEFINE Needs(x) == IF Runs(x) THEN cb[x].state ELSE None
<1>1. \A x \in Callbacks : Needs(x)' = IF x \in over THEN None ELSE Needs(x)
  BY DEF Keeps
<1>2. ASSUME NEW x \in Callbacks
      PROVE  Runs(x)' /\ "spent" \in cb'[x].late <=>
                 /\ x \notin over /\ Runs(x) /\ "spent" \in cb[x].late
                 /\ Needs(x) \notin {s \in States : ~login'[s].used}
  <2>1. CASE x \notin over
    <3>1. Keeps(x)
      BY <2>1
    <3>2. Runs(x) /\ "spent" \in cb'[x].late => login'[cb[x].state].used
      BY <3>1, LateTruthAfter DEF Keeps
    <3>3. Runs(x) => Needs(x) = cb[x].state /\ Needs(x) \in States
      BY LateTruth
    <3>. QED
      BY <2>1, <3>1, <3>2, <3>3 DEF Keeps
  <2>. QED
    BY <2>1
<1>3. \A x \in Callbacks : PastGet(x)' <=> x \notin over /\ PastGet(x)
  BY DEF PastGet
<1>. QED
  BY <1>1, <1>2, <1>3 DEF Fresh!Change

LEMMA FreshStep ==
    ASSUME Inductive, Inductive', [Next]_vars
    PROVE  Fresh!RevocationNext
<1>1. ASSUME NEW over \in SUBSET Callbacks, Quiet(over)
      PROVE  Fresh!RevocationNext
  BY <1>1, FreshChange DEF Quiet, Waits, Fresh!RevocationNext
<1>2. ASSUME NEW r \in Callbacks, Passes(r)
      PROVE  Fresh!RevocationNext
  <2>1. CASE PastGet(r)' <=> PastGet(r)
    <3>1. Fresh!Change({})
      BY <1>2, <2>1, FreshChange DEF Passes, Waits
    <3>. QED
      BY <3>1 DEF Fresh!RevocationNext
  <2>2. CASE PastGet(r)' /\ ~PastGet(r)
    <3>1. Runs(r) /\ cb[r].state # None
      BY <1>2, LateTruth, NoneAssumption DEF Passes
    <3>2. "spent" \notin cb[r].late
      BY <1>2, <2>2, LateTruthAfter DEF Passes, Keeps
    <3>3. Fresh!Honour(r)
      BY <1>2, <2>2, <3>1, <3>2 DEF Fresh!Honour, Passes, Keeps, Waits
    <3>. QED
      BY <3>3 DEF Fresh!RevocationNext
  <2>. QED
    BY <1>2, <2>1, <2>2 DEF Passes
<1>3. ASSUME NEW r \in Callbacks, Comes(r)
      PROVE  Fresh!RevocationNext
  <2>1. PICK s \in States : s = cb'[r].state
    BY <1>3 DEF Comes
  <2>2. "spent" \in cb'[r].late <=> login[s].used
    BY <1>3, <2>1 DEF Comes
  <2>3. /\ ~Runs(r) /\ Runs(r)' /\ ~PastGet(r) /\ ~PastGet(r)'
        /\ UNCHANGED login
    BY <1>3 DEF Comes, PastGet
  <2>4. \A x \in Callbacks \ {r} :
            cb'[x] = cb[x] /\ (Runs(x)' <=> Runs(x)) /\ (PastGet(x)' <=> PastGet(x))
    BY <1>3 DEF Comes, PastGet, Runs
  <2>5. Fresh!Arrive(r, s)
    <3>1. {x \in Callbacks : Runs(x) /\ "spent" \in cb[x].late}' =
              IF login[s].used
              THEN {x \in Callbacks : Runs(x) /\ "spent" \in cb[x].late}
                       \cup {r}
              ELSE {x \in Callbacks : Runs(x) /\ "spent" \in cb[x].late}
      BY <2>2, <2>3, <2>4
    <3>. QED
      BY <2>1, <2>3, <2>4, <3>1 DEF Fresh!Arrive
  <2>. QED
    BY <2>5 DEF Fresh!RevocationNext
<1>. QED
  BY <1>1, <1>2, <1>3, StepShapes

\* Neither a code nor a way past the state is given for what has not been so
\* since the callback came: a user deactivated, or a state used, before it came
\* gets nowhere, and SsoLogin implements Revocation for both.
THEOREM ChecksSeeRevocations == Spec => RevocationSpec
<1>1. Init => Accounts!RevocationInit /\ Fresh!RevocationInit
  <2>1. Init => \A r \in Callbacks : ~Runs(r)
    BY DEF Init, Idle, Slot, Runs
  <2>. QED
    BY <2>1 DEF Accounts!RevocationInit, Fresh!RevocationInit, HasCode, PastGet
<1>2. Inductive /\ Inductive' /\ [Next]_vars =>
          /\ [Accounts!RevocationNext]_(Accounts!revocationVars)
          /\ [Fresh!RevocationNext]_(Fresh!revocationVars)
  BY AccountsStep, FreshStep
<1>. QED
  BY <1>1, <1>2, InductiveInvariant, PTL
  DEF Spec, RevocationSpec, Accounts!RevocationSpec, Fresh!RevocationSpec

=============================================================================
