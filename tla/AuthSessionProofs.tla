------------------------- MODULE AuthSessionProofs -------------------------
(* TLAPS proofs about AuthSession, for every set of users, requests, pairs *)
(* and codes and every time to live.                                       *)
EXTENDS AuthSession, TLAPS

(* The times to live are whole seconds, one at least.                      *)
LEMMA TTLs ==
    /\ CodeTTL \in Nat /\ CodeTTL >= 2
    /\ AccessTTL \in Nat /\ AccessTTL >= 2
    /\ IdleTTL \in Nat /\ IdleTTL >= 2
    /\ RefreshTTL \in Nat /\ RefreshTTL >= 2
BY TTLAssumption DEF Sec

(* A countdown never grows and keeps its range.                            *)
LEMMA LessRange ==
    ASSUME NEW m \in Nat, NEW n \in 0..m
    PROVE  Less(n) \in 0..m /\ Less(n) <= n
BY DEF Less

(* int() loses less than a second and never adds anything.                 *)
LEMMA WholeSecondsRange ==
    ASSUME NEW n \in Nat
    PROVE  /\ WholeSeconds(n) \in 0..n
           /\ n - WholeSeconds(n) < Sec
BY DEF WholeSeconds, Sec

(* create_tokens makes a pair that is valid for at least a moment.         *)
LEMMA MintedType ==
    ASSUME TypeOK, NEW u \in Users \cup {None}, NEW b \in BOOLEAN
    PROVE  /\ Minted(u, b) \in PairState
           /\ AccessTTL - frac > 0 /\ RefreshTTL - frac > 0
<1>1. frac \in {0, 1}
  BY DEF TypeOK, Sec
<1>2. /\ AccessTTL - frac \in 0..AccessTTL /\ AccessTTL - frac > 0
      /\ RefreshTTL - frac \in 0..RefreshTTL /\ RefreshTTL - frac > 0
      /\ 0 \in 0..AccessTTL
  BY <1>1, TTLs
<1> QED
  BY <1>2 DEF PairState, Minted

(* The empty slots have the types of the full ones.                        *)
LEMMA EmptyTypes ==
    NoPair \in PairState /\ NoCode \in CodeState /\ Idle \in ReqState
BY TTLs DEF NoPair, NoCode, Idle, PairState, CodeState, ReqState, Ops, Pcs

-----------------------------------------------------------------------------
(* Type correctness.                                                       *)

LEMMA GotoType ==
    ASSUME TypeOK, NEW r \in Requests, NEW pc \in Pcs, Goto(r, pc)
    PROVE  req' \in [Requests -> ReqState]
BY DEF TypeOK, Goto, ReqState

LEMMA OnwardType ==
    ASSUME TypeOK, NEW r \in Requests, NEW pc \in Pcs,
           NEW ttl \in 0..AccessTTL, Onward(r, pc, ttl)
    PROVE  req' \in [Requests -> ReqState]
<1>1. [req[r] EXCEPT !.pc = pc, !.ttl = ttl] \in ReqState
  BY DEF TypeOK, ReqState
<1> QED
  BY <1>1 DEF TypeOK, Onward

LEMMA RefuseType ==
    ASSUME TypeOK, NEW r \in Requests, Refuse(r)
    PROVE  req' \in [Requests -> ReqState]
BY EmptyTypes DEF TypeOK, Refuse

LEMMA GotoIfType ==
    ASSUME TypeOK, NEW r \in Requests, NEW pc \in Pcs, NEW cond,
           GotoIf(r, cond, pc)
    PROVE  req' \in [Requests -> ReqState]
BY GotoType, RefuseType DEF GotoIf

LEMMA ArriveType ==
    ASSUME TypeOK, NEW r \in Requests, NEW op \in Ops, NEW pc \in Pcs,
           NEW conn \in BOOLEAN, NEW u \in Users \cup {None},
           NEW k \in Pairs \cup {None}, NEW c \in Codes \cup {None},
           NEW late \in SUBSET Late,
           Arrive(r, op, pc, conn, u, k, c, late)
    PROVE  req' \in [Requests -> ReqState]
BY TTLs DEF TypeOK, Arrive, ReqState

LEMMA LoadedType ==
    ASSUME req \in [Requests -> ReqState], NEW r \in Requests, NEW k \in Pairs,
           req' = [req EXCEPT ![r].pc = "activate", ![r].pair = k]
    PROVE  req' \in [Requests -> ReqState]
<1>1. [req[r] EXCEPT !.pc = "activate", !.pair = k] \in ReqState
  BY DEF ReqState, Pcs
<1> QED
  BY <1>1

LEMMA ActivatedType ==
    ASSUME NEW q \in ReqState, NEW pc \in {q.pc, "ok"}, NEW late \in SUBSET Late
    PROVE  [q EXCEPT !.pc = pc, !.late = late] \in ReqState
BY DEF ReqState, Pcs

LEMMA LosePairType ==
    ASSUME TypeOK, NEW r \in Requests
    PROVE  LosePair(r) \in [Pairs -> PairState]
BY EmptyTypes DEF TypeOK, LosePair

\* A call holds the token it came with.
CallsHaveTokens ==
    \A r \in Requests : req[r].op \in {"call", "logout"} => req[r].pair \in Pairs

LEMMA TypeStep ==
    TypeOK /\ CallsHaveTokens /\ [Next]_vars => TypeOK'
<1> SUFFICES ASSUME TypeOK, CallsHaveTokens, [Next]_vars PROVE TypeOK'
  OBVIOUS
<1> USE DEF TypeOK
<1>pc. /\ {"get_code", "del_code", "load", "activate", "blacklist", "exists",
           "expire", "revoke", "set_bl", "drop", "ok"} \subseteq Pcs
       /\ {"exchange", "refresh", "call", "logout"} \subseteq Ops
  BY DEF Pcs, Ops
<1>ttl. /\ 0 \in 0..IdleTTL /\ IdleTTL \in 0..IdleTTL
        /\ 0 \in 0..CodeTTL /\ CodeTTL \in 0..CodeTTL
  BY TTLs
<1>1. ASSUME NEW r \in Requests, NEW c \in Codes, StartExchange(r, c)
      PROVE  TypeOK'
  <2>1. code[c].user \in Users \cup {None}
    BY DEF CodeState
  <2>2. Off(code[c].user) \cup (IF code[c].used THEN {"spent"} ELSE {})
          \in SUBSET Late
    BY DEF Off, Late
  <2>3. req' \in [Requests -> ReqState]
    BY <1>1, <2>1, <2>2, <1>pc, ArriveType DEF StartExchange
  <2> QED
    BY <1>1, <2>3 DEF StartExchange
<1>2. ASSUME NEW r \in Requests, GetCode(r)
      PROVE  TypeOK'
  <2>1. req' \in [Requests -> ReqState]
    BY <1>2, <1>pc, GotoIfType DEF GetCode
  <2> QED
    BY <1>2, <2>1 DEF GetCode
<1>3. ASSUME NEW r \in Requests, DeleteCode(r)
      PROVE  TypeOK'
  <2>1. req' \in [Requests -> ReqState]
    BY <1>3, <1>pc, GotoType DEF DeleteCode
  <2>2. code' \in [Codes -> CodeState]
    BY <1>3, <1>ttl DEF DeleteCode, CodeState
  <2> QED
    BY <1>3, <2>1, <2>2 DEF DeleteCode
<1>4. ASSUME NEW r \in Requests, LoadExchange(r)
      PROVE  TypeOK'
  <2>1. CASE Refuse(r) /\ UNCHANGED pair
    BY <1>4, <2>1, RefuseType DEF LoadExchange
  <2>2. ASSUME NEW k \in Pairs,
               pair' = [pair EXCEPT ![k] = Minted(req[r].user, FALSE)],
               req' = [req EXCEPT ![r].pc = "activate", ![r].pair = k]
        PROVE  TypeOK'
    <3>1. req[r].user \in Users \cup {None}
      BY DEF ReqState
    <3>2. pair' \in [Pairs -> PairState]
      BY <2>2, <3>1, MintedType
    <3>3. req' \in [Requests -> ReqState]
      BY <2>2, LoadedType
    <3>4. UNCHANGED <<frac, account, code, session>>
      BY <1>4 DEF LoadExchange
    <3> QED
      BY <3>2, <3>3, <3>4
  <2> QED
    BY <1>4, <2>1, <2>2 DEF LoadExchange
<1>5. ASSUME NEW r \in Requests, Activate(r)
      PROVE  TypeOK'
  <2>1. session' \in [Users -> 0..IdleTTL]
    BY <1>5, <1>ttl DEF Activate
  <2>2. pair' \in [Pairs -> PairState]
    BY <1>5 DEF Activate, PairState
  <2>3. req' \in [Requests -> ReqState]
    <3> SUFFICES ASSUME NEW x \in Requests PROVE req'[x] \in ReqState
      BY <1>5 DEF Activate
    <3>1. req[x] \in ReqState
      OBVIOUS
    <3>2. PICK pc \in {req[x].pc, "ok"}, late \in SUBSET Late :
              req'[x] = [req[x] EXCEPT !.pc = pc, !.late = late]
      <4> DEFINE pc == IF x = r THEN "ok" ELSE req[x].pc
                 late == IF req[x].user = req[r].user
                         THEN req[x].late \ {"shut"} ELSE req[x].late
      <4>1. req'[x] = [req[x] EXCEPT !.pc = pc, !.late = late]
        BY <1>5 DEF Activate
      <4>2. pc \in {req[x].pc, "ok"} /\ late \in SUBSET Late
        BY <3>1 DEF ReqState
      <4> QED
        BY <4>1, <4>2
    <3>3. [req[x] EXCEPT !.pc = pc, !.late = late] \in ReqState
      BY <3>1, <3>2, ActivatedType
    <3> QED
      BY <3>2, <3>3
  <2> QED
    BY <1>5, <2>1, <2>2, <2>3 DEF Activate
<1>6. ASSUME NEW r \in Requests, NEW k \in Pairs, StartRefresh(r, k)
      PROVE  TypeOK'
  <2>1. pair[k].user \in Users \cup {None}
    BY DEF PairState
  <2>2. Off(pair[k].user) \in SUBSET Late
    BY DEF Off, Late
  <2>3. req' \in [Requests -> ReqState]
    BY <1>6, <2>1, <2>2, <1>pc, ArriveType DEF StartRefresh
  <2> QED
    BY <1>6, <2>3 DEF StartRefresh
<1>7. ASSUME NEW r \in Requests, LoadRefresh(r)
      PROVE  TypeOK'
  <2>1. CASE Refuse(r) /\ UNCHANGED pair
    BY <1>7, <2>1, RefuseType DEF LoadRefresh
  <2>2. ASSUME NEW k \in Pairs, Goto(r, "ok"),
               pair' = [pair EXCEPT ![k] = Minted(req[r].user, TRUE)]
        PROVE  TypeOK'
    <3>1. req[r].user \in Users \cup {None}
      BY DEF ReqState
    <3>2. pair' \in [Pairs -> PairState]
      BY <2>2, <3>1, MintedType
    <3>3. req' \in [Requests -> ReqState]
      BY <2>2, <1>pc, GotoType
    <3> QED
      BY <1>7, <3>2, <3>3 DEF LoadRefresh
  <2> QED
    BY <1>7, <2>1, <2>2 DEF LoadRefresh
<1>8. ASSUME NEW r \in Requests, NEW k \in Pairs, NEW op \in {"call", "logout"},
             NEW conn \in Connections, StartCall(r, op, k, conn)
      PROVE  TypeOK'
  <2>1. /\ pair[k].user \in Users \cup {None}
        /\ conn \in BOOLEAN
        /\ (IF conn THEN "blacklist" ELSE "load") \in Pcs
        /\ op \in Ops
    BY <1>pc, ConnectionAssumption DEF PairState
  <2>2. LateCall(k, conn) \in SUBSET Late
    BY DEF LateCall, Off, Late
  <2>3. PICK p \in Pcs : Arrive(r, op, p, conn, pair[k].user, k, None,
                               LateCall(k, conn))
    BY <1>8, <2>1 DEF StartCall
  <2>4. req' \in [Requests -> ReqState]
    BY <2>1, <2>2, <2>3, TTLs DEF Arrive, ReqState
  <2> QED
    BY <1>8, <2>4 DEF StartCall
<1>9. ASSUME NEW r \in Requests, CheckBlacklist(r) \/ TouchExists(r)
      PROVE  TypeOK'
  <2>1. CASE CheckBlacklist(r)
    <3>1. req' \in [Requests -> ReqState]
      BY <2>1, <1>pc, GotoIfType DEF CheckBlacklist
    <3> QED
      BY <2>1, <3>1 DEF CheckBlacklist
  <2>2. CASE TouchExists(r)
    <3>1. req' \in [Requests -> ReqState]
      BY <2>2, <1>pc, GotoIfType DEF TouchExists
    <3> QED
      BY <2>2, <3>1 DEF TouchExists
  <2> QED
    BY <1>9, <2>1, <2>2
<1>10. ASSUME NEW r \in Requests, TouchExpire(r)
       PROVE  TypeOK'
  <2>1. req' \in [Requests -> ReqState]
    BY <1>10, <1>pc, GotoType DEF TouchExpire
  <2>2. session' \in [Users -> 0..IdleTTL]
    BY <1>10, <1>ttl DEF TouchExpire
  <2> QED
    BY <1>10, <2>1, <2>2 DEF TouchExpire
<1>11. ASSUME NEW r \in Requests, LoadUser(r)
       PROVE  TypeOK'
  <2>1. req' \in [Requests -> ReqState]
    BY <1>11, <1>pc, GotoIfType DEF LoadUser
  <2> QED
    BY <1>11, <2>1 DEF LoadUser
<1>12. ASSUME NEW r \in Requests, SkipRevoke(r)
       PROVE  TypeOK'
  <2>1. req' \in [Requests -> ReqState]
    BY <1>12, <1>pc, GotoType DEF SkipRevoke
  <2> QED
    BY <1>12, <2>1 DEF SkipRevoke
<1>13. ASSUME NEW r \in Requests, ReadExpiry(r) \/ Revoke(r)
       PROVE  TypeOK'
  <2> DEFINE k == req[r].pair
             ttl == WholeSeconds(pair[k].acc)
  <2>1. k \in Pairs /\ pair[k] \in PairState /\ req[r] \in ReqState
    BY <1>13 DEF ReadExpiry, Revoke, At, CallsHaveTokens
  <2>2. ttl \in 0..AccessTTL
    <3>1. pair[k].acc \in 0..AccessTTL /\ AccessTTL \in Nat
      BY <2>1, TTLs DEF PairState
    <3> QED
      BY <3>1, WholeSecondsRange
  <2>3. req[r].ttl \in 0..AccessTTL /\ 0 \in 0..AccessTTL
    BY <2>1, TTLs DEF ReqState
  <2>4. CASE ReadExpiry(r)
    <3> HIDE DEF ttl
    <3>1. req' \in [Requests -> ReqState]
      <4>1. CASE Onward(r, "set_bl", ttl)
        BY <1>pc, <2>2, <4>1, OnwardType
      <4>2. CASE Goto(r, "drop")
        BY <1>pc, <4>2, GotoType
      <4> QED
        BY <2>4, <4>1, <4>2 DEF ReadExpiry, ttl
    <3>2. pair' \in [Pairs -> PairState]
      <4>1. CASE pair' = [pair EXCEPT ![k].out = TRUE]
        <5>1. [pair[k] EXCEPT !.out = TRUE] \in PairState
          BY <2>1 DEF PairState
        <5> QED
          BY <4>1, <5>1
      <4> QED
        BY <2>4, <4>1 DEF ReadExpiry
    <3> QED
      BY <2>4, <3>1, <3>2 DEF ReadExpiry
  <2>5. CASE Revoke(r)
    <3>1. req' \in [Requests -> ReqState]
      BY <1>pc, <2>3, <2>5, OnwardType DEF Revoke
    <3>2. pair' \in [Pairs -> PairState]
      BY <2>1, <2>3, <2>5 DEF Revoke, PairState
    <3> QED
      BY <2>5, <3>1, <3>2 DEF Revoke
  <2> QED
    BY <1>13, <2>4, <2>5
<1>14. ASSUME NEW r \in Requests, DropSession(r)
       PROVE  TypeOK'
  <2>1. req' \in [Requests -> ReqState]
    BY <1>14, <1>pc, GotoType DEF DropSession
  <2>2. session' \in [Users -> 0..IdleTTL]
    BY <1>14, <1>ttl DEF DropSession
  <2> QED
    BY <1>14, <2>1, <2>2 DEF DropSession
<1>15. ASSUME NEW r \in Requests, RedisError(r) \/ Leave(r)
       PROVE  TypeOK'
  <2>1. req' \in [Requests -> ReqState]
    <3>1. CASE RedisError(r)
      <4>1. CASE Onward(r, "ok", 0)
        BY <4>1, <1>pc, TTLs, OnwardType
      <4> QED
        BY <3>1, <4>1, RefuseType DEF RedisError
    <3>2. CASE Leave(r)
      BY <3>2, EmptyTypes DEF Leave
    <3> QED
      BY <1>15, <3>1, <3>2
  <2> QED
    BY <1>15, <2>1, LosePairType DEF RedisError, Leave
<1>16. ASSUME NEW u \in Users, NEW c \in Codes, IssueCode(u, c)
       PROVE  TypeOK'
  <2>1. code' \in [Codes -> CodeState]
    BY <1>16, <1>ttl DEF IssueCode, CodeState
  <2> QED
    BY <1>16, <2>1 DEF IssueCode
<1>17. ASSUME NEW k \in Pairs, Discard(k)
       PROVE  TypeOK'
  BY <1>17, EmptyTypes DEF Discard
<1>18. ASSUME NEW u \in Users, NEW a \in Account, SetAccount(u, a)
       PROVE  TypeOK'
  <2>1. req' \in [Requests -> ReqState]
    BY <1>18 DEF SetAccount, ReqState
  <2> QED
    BY <1>18, <2>1 DEF SetAccount
<1>19. CASE Tick
  <2>1. frac' \in 0..(Sec - 1)
    <3>1. frac \in {0, 1}
      BY DEF Sec
    <3>2. (0 + 1) % 2 = 1 /\ (1 + 1) % 2 = 0
      OBVIOUS
    <3>3. frac' = (frac + 1) % 2
      BY <1>19 DEF Tick, Sec
    <3>4. frac' \in {0, 1}
      <4>1. CASE frac = 0
        BY <4>1, <3>2, <3>3
      <4>2. CASE frac = 1
        BY <4>2, <3>2, <3>3
      <4> QED
        BY <3>1, <4>1, <4>2
    <3> QED
      BY <3>4 DEF Sec
  <2>2. session' \in [Users -> 0..IdleTTL]
    BY <1>19, LessRange, TTLs DEF Tick
  <2>3. code' \in [Codes -> CodeState]
    BY <1>19, LessRange, TTLs DEF Tick, CodeState
  <2>4. pair' \in [Pairs -> PairState]
    BY <1>19, LessRange, TTLs DEF Tick, PairState
  <2> QED
    BY <1>19, <2>1, <2>2, <2>3, <2>4 DEF Tick
<1>20. CASE UNCHANGED vars
  BY <1>20 DEF vars
<1> QED
  BY <1>1, <1>2, <1>3, <1>4, <1>5, <1>6, <1>7, <1>8, <1>9, <1>10, <1>11, <1>12,
     <1>13, <1>14, <1>15, <1>16, <1>17, <1>18, <1>19, <1>20
  DEF Next, RequestStep

-----------------------------------------------------------------------------
(* The inductive invariant.  Each part says why what was true of a request *)
(* when it arrived is still true, and which checks it cannot have passed.  *)

InFlight(r) == req[r].pc # "idle"

\* Every request knows its user, and the calls among them their token.
Bound ==
    \A r \in Requests :
        /\ InFlight(r) => req[r].user \in Users
        /\ req[r].op \in {"call", "logout"} =>
               req[r].pair \in Pairs /\ pair[req[r].pair].issued
        /\ req[r].op = "exchange" => req[r].code \in Codes
        /\ req[r].pc \in {"revoke", "set_bl", "drop"} => req[r].op = "logout"
        /\ InFlight(r) => req[r].op # "none"
        /\ ~InFlight(r) => req[r] = Idle

\* A pair on its way to the client belongs to one exchange.
PairsOnTheWay ==
    \A r \in Requests : req[r].pc = "activate" =>
        /\ req[r].op = "exchange"
        /\ req[r].pair \in Pairs
        /\ ~pair[req[r].pair].issued
        /\ pair[req[r].pair].user # None
        /\ \A s \in Requests \ {r} :
               req[s].pc = "activate" => req[s].pair # req[r].pair

\* Slots in use belong to a user.
Owned ==
    \A k \in Pairs : pair[k].issued => pair[k].user \in Users

\* Without a session at arrival there is none now, and EXISTS is ahead.
ShutOut ==
    \A r \in Requests : "shut" \in req[r].late =>
        /\ session[req[r].user] = 0
        /\ req[r].op \in {"call", "logout"} /\ req[r].conn
        /\ req[r].pc \in {"blacklist", "exists"}

\* Without an active account at arrival there is none now.
SwitchedOff ==
    \A r \in Requests : "off" \in req[r].late =>
        /\ account[req[r].user] # "active"
        /\ req[r].pc # "activate"
        /\ req[r].pc = "ok" => req[r].op = "logout"

\* A token logged out at arrival still is.
Barred ==
    \A r \in Requests : "barred" \in req[r].late =>
        /\ req[r].op \in {"call", "logout"}
        /\ pair[req[r].pair].out

\* A code redeemed at arrival is gone, and GET is ahead.
Spent ==
    /\ \A c \in Codes : code[c].used => code[c].left = 0
    /\ \A r \in Requests : "spent" \in req[r].late =>
           /\ req[r].op = "exchange"
           /\ req[r].pc = "get_code"
           /\ code[req[r].code].used

\* What a logout is about to SET is less than a second short of what is left
\* of the token, and behind the SET the token is logged out.
InOrder ==
    \A r \in Requests :
        /\ req[r].pc = "set_bl" => pair[req[r].pair].acc - req[r].ttl < Sec
        /\ req[r].pc = "drop" => pair[req[r].pair].out

\* The first half of BlacklistCovers.
Covered == \A k \in Pairs : pair[k].out => pair[k].acc - pair[k].bl < Sec

Inductive ==
    /\ TypeOK /\ Bound /\ PairsOnTheWay /\ Owned
    /\ ShutOut /\ SwitchedOff /\ Barred /\ Spent /\ InOrder /\ Covered

(* A refused request, or one whose pod goes down, takes nothing with it but *)
(* a pair nobody was given.                                                *)
LEMMA RefuseKeeps ==
    ASSUME Inductive, TypeOK', NEW r \in Requests, Refuse(r),
           UNCHANGED <<account, code, session>>,
           UNCHANGED pair \/ pair' = LosePair(r)
    PROVE  Inductive'
<1>1. \A s \in Requests : req'[s] = IF s = r THEN Idle ELSE req[s]
  BY DEF Refuse, Inductive, TypeOK
<1>2. \A k \in Pairs : \/ pair'[k] = pair[k]
                       \/ /\ pair'[k] = NoPair /\ ~pair[k].issued
                          /\ req[r].pc = "activate" /\ k = req[r].pair
  BY DEF LosePair, Inductive, TypeOK, PairsOnTheWay
<1>3. Idle.pc = "idle" /\ Idle.op = "none" /\ Idle.late = {}
  BY DEF Idle
<1>4. ~NoPair.issued /\ ~NoPair.out /\ NoPair.acc = 0 /\ NoPair.bl = 0
  BY DEF NoPair
<1>5. Bound'
  BY <1>1, <1>2, <1>3 DEF Inductive, Bound, InFlight
<1>6. PairsOnTheWay'
  BY <1>1, <1>2, <1>3 DEF Inductive, PairsOnTheWay
<1>7. Owned'
  BY <1>2, <1>4 DEF Inductive, Owned
<1>8. ShutOut' /\ SwitchedOff' /\ Spent'
  BY <1>1, <1>3 DEF Inductive, ShutOut, SwitchedOff, Spent
<1>9. Barred'
  BY <1>1, <1>2, <1>3 DEF Inductive, Barred, Bound
<1>10. Covered'
  BY <1>2, <1>4 DEF Inductive, Covered, Sec
<1>11. InOrder'
  BY <1>1, <1>2, <1>3 DEF Inductive, InOrder, Bound
<1> QED
  BY <1>5, <1>6, <1>7, <1>8, <1>9, <1>10, <1>11 DEF Inductive

(* A request may go on when what was true at its arrival allows it.        *)
LEMMA GotoKeeps ==
    ASSUME Inductive, TypeOK', NEW r \in Requests, NEW pc \in Pcs,
           Goto(r, pc), InFlight(r),
           UNCHANGED <<account, code, session, pair>>,
           pc \notin {"idle", "activate", "set_bl", "drop"},
           "shut" \in req[r].late => pc \in {"blacklist", "exists"},
           "off" \in req[r].late /\ pc = "ok" => req[r].op = "logout",
           "spent" \in req[r].late => pc = "get_code",
           pc = "revoke" => req[r].op = "logout"
    PROVE  Inductive'
<1>1. \A s \in Requests :
          /\ req'[s].op = req[s].op /\ req'[s].user = req[s].user
          /\ req'[s].pair = req[s].pair /\ req'[s].code = req[s].code
          /\ req'[s].conn = req[s].conn /\ req'[s].late = req[s].late
          /\ req'[s].pc = IF s = r THEN pc ELSE req[s].pc
          /\ s # r => req'[s] = req[s]
  BY DEF Goto, Inductive, TypeOK, ReqState
<1>2. Bound'
  BY <1>1 DEF Inductive, Bound, InFlight
<1>3. PairsOnTheWay'
  BY <1>1 DEF Inductive, PairsOnTheWay
<1>4. ShutOut' /\ SwitchedOff'
  BY <1>1 DEF Inductive, ShutOut, SwitchedOff
<1>5. Barred' /\ Spent' /\ InOrder'
  BY <1>1 DEF Inductive, Barred, Spent, InOrder
<1> QED
  BY <1>2, <1>3, <1>4, <1>5 DEF Inductive, Owned, Covered

(* A request arrives with what is true of it.                              *)
LEMMA ArriveKeeps ==
    ASSUME Inductive, TypeOK', NEW r \in Requests, NEW op \in Ops,
           NEW pc \in Pcs, NEW conn \in BOOLEAN, NEW u \in Users,
           NEW k \in Pairs \cup {None}, NEW c \in Codes \cup {None},
           NEW late \in SUBSET Late,
           Arrive(r, op, pc, conn, u, k, c, late),
           UNCHANGED <<account, code, session, pair>>,
           pc \in {"get_code", "load", "blacklist"},
           op \in {"call", "logout"} => k \in Pairs /\ pair[k].issued,
           op = "exchange" => c \in Codes,
           op # "none",
           "shut" \in late => /\ session[u] = 0
                              /\ op \in {"call", "logout"} /\ conn
                              /\ pc = "blacklist",
           "off" \in late => account[u] # "active",
           "barred" \in late => op \in {"call", "logout"} /\ pair[k].out,
           "spent" \in late => /\ op = "exchange" /\ pc = "get_code"
                               /\ code[c].used
    PROVE  Inductive'
<1>1. \A s \in Requests : s # r => req'[s] = req[s]
  BY DEF Arrive, Inductive, TypeOK
<1>2. /\ req'[r].op = op /\ req'[r].pc = pc /\ req'[r].user = u
      /\ req'[r].conn = conn
      /\ req'[r].pair = k /\ req'[r].code = c /\ req'[r].late = late
  BY DEF Arrive, Inductive, TypeOK
<1>3. Bound'
  BY <1>1, <1>2 DEF Inductive, Bound, InFlight
<1>4. PairsOnTheWay'
  BY <1>1, <1>2 DEF Inductive, PairsOnTheWay
<1>5. ShutOut' /\ SwitchedOff'
  BY <1>1, <1>2 DEF Inductive, ShutOut, SwitchedOff
<1>6. Barred' /\ Spent' /\ InOrder'
  BY <1>1, <1>2 DEF Inductive, Barred, Spent, InOrder
<1> QED
  BY <1>3, <1>4, <1>5, <1>6 DEF Inductive, Owned, Covered

(* A logout goes on behind its checks, whatever it leaves undone.          *)
LEMMA LogoutKeeps ==
    ASSUME Inductive, TypeOK', NEW r \in Requests,
           NEW pc \in {"set_bl", "drop", "ok"}, NEW ttl \in 0..AccessTTL,
           Goto(r, pc) \/ Onward(r, pc, ttl),
           req[r].pc \in {"revoke", "set_bl", "drop"},
           UNCHANGED <<account, code>>,
           \A u \in Users : session'[u] \in {0, session[u]},
           \A k \in Pairs :
               /\ pair'[k].user = pair[k].user
               /\ pair'[k].issued = pair[k].issued
               /\ pair'[k].acc = pair[k].acc
               /\ pair[k].out => pair'[k].out,
           pc = "set_bl" => /\ req'[r].ttl = ttl
                            /\ pair[req[r].pair].acc - ttl < Sec,
           pc = "drop" => pair'[req[r].pair].out,
           Covered'
    PROVE  Inductive'
<1>1. \A s \in Requests :
          /\ req'[s].op = req[s].op /\ req'[s].user = req[s].user
          /\ req'[s].pair = req[s].pair /\ req'[s].code = req[s].code
          /\ req'[s].conn = req[s].conn /\ req'[s].late = req[s].late
          /\ req'[s].pc = IF s = r THEN pc ELSE req[s].pc
          /\ s # r => req'[s] = req[s]
  BY DEF Goto, Onward, Inductive, TypeOK, ReqState
<1>2. req[r].op = "logout" /\ req[r].pair \in Pairs
  BY DEF Inductive, Bound
<1>3. Bound' /\ PairsOnTheWay'
  BY <1>1, <1>2 DEF Inductive, Bound, PairsOnTheWay, InFlight
<1>4. Owned' /\ Barred'
  BY <1>1 DEF Inductive, Owned, Barred, Bound
<1>5. ShutOut' /\ SwitchedOff'
  BY <1>1, <1>2 DEF Inductive, ShutOut, SwitchedOff, Bound, InFlight
<1>6. Spent'
  BY <1>1, <1>2 DEF Inductive, Spent
<1>7. InOrder'
  <2> SUFFICES ASSUME NEW s \in Requests
               PROVE  /\ req'[s].pc = "set_bl" =>
                             pair'[req'[s].pair].acc - req'[s].ttl < Sec
                      /\ req'[s].pc = "drop" => pair'[req'[s].pair].out
    BY DEF InOrder
  <2>1. CASE s = r
    BY <1>1, <1>2, <2>1
  <2>2. CASE s # r
    <3>1. req[s].pc \in {"set_bl", "drop"} => req[s].pair \in Pairs
      BY DEF Inductive, Bound
    <3> QED
      BY <1>1, <2>2, <3>1 DEF Inductive, InOrder
  <2> QED
    BY <2>1, <2>2
<1> QED
  BY <1>3, <1>4, <1>5, <1>6, <1>7 DEF Inductive

(* A new pair fills an empty slot: no request depends on what was there.   *)
LEMMA MintKeeps ==
    ASSUME Inductive, NEW k \in Pairs, pair[k] = NoPair,
           NEW u \in Users, NEW b \in BOOLEAN,
           pair' = [pair EXCEPT ![k] = Minted(u, b)]
    PROVE  /\ \A j \in Pairs : j # k => pair'[j] = pair[j]
           /\ ~pair[k].issued /\ pair[k].user = None /\ ~pair[k].out
           /\ pair'[k].user = u /\ pair'[k].issued = b /\ ~pair'[k].out
           /\ Owned' /\ Covered'
<1>1. \A j \in Pairs : pair'[j] = IF j = k THEN Minted(u, b) ELSE pair[j]
  BY DEF Inductive, TypeOK
<1>2. ~pair[k].issued /\ pair[k].user = None /\ ~pair[k].out
  BY DEF NoPair
<1>3. /\ Minted(u, b).user = u /\ Minted(u, b).issued = b
      /\ ~Minted(u, b).out /\ Minted(u, b).bl = 0 /\ Minted(u, b).acc >= 0
  <2>1. AccessTTL - frac \in Nat
    BY TTLs DEF Inductive, TypeOK, Sec
  <2> QED
    BY <2>1 DEF Minted
<1>4. Owned'
  BY <1>1, <1>3 DEF Inductive, Owned
<1>5. Covered'
  BY <1>1, <1>3 DEF Inductive, Covered
<1> QED
  BY <1>1, <1>2, <1>3, <1>4, <1>5

(* Every step keeps the inductive invariant.                               *)
LEMMA InductiveStep ==
    Inductive /\ [Next]_vars => Inductive'
<1> SUFFICES ASSUME Inductive, [Next]_vars PROVE Inductive'
  OBVIOUS
<1>t. TypeOK /\ TypeOK'
  BY TypeStep DEF Inductive, Bound, CallsHaveTokens
<1>pc. /\ {"get_code", "del_code", "load", "activate", "blacklist", "exists",
           "expire", "revoke", "set_bl", "drop", "ok"} \subseteq Pcs
       /\ {"exchange", "refresh", "call", "logout"} \subseteq Ops
  BY DEF Pcs, Ops
<1>1. ASSUME NEW r \in Requests, NEW c \in Codes, StartExchange(r, c)
      PROVE  Inductive'
  <2>1. code[c].user \in Users
    BY <1>1, <1>t DEF StartExchange, TypeOK, CodeState
  <2> DEFINE late == Off(code[c].user) \cup (IF code[c].used THEN {"spent"} ELSE {})
  <2>2. /\ late \in SUBSET Late
        /\ "shut" \notin late /\ "barred" \notin late
        /\ "off" \in late => account[code[c].user] # "active"
        /\ "spent" \in late => code[c].used
    BY DEF Off, Late
  <2>3. code[c].used => code[c].left = 0
    BY DEF Inductive, Spent
  <2>4. Arrive(r, "exchange", "get_code", TRUE, code[c].user, None, c, late)
        /\ UNCHANGED <<account, code, session, pair>>
    BY <1>1 DEF StartExchange
  <2> HIDE DEF late
  <2> QED
    BY <1>t, <1>pc, <2>1, <2>2, <2>3, <2>4, ArriveKeeps

<1>2. ASSUME NEW r \in Requests, GetCode(r)
      PROVE  Inductive'
  <2>1. CASE Refuse(r)
    BY <1>2, <1>t, <2>1, RefuseKeeps DEF GetCode
  <2>2. CASE Goto(r, "del_code") /\ code[req[r].code].left > 0
    <3>1. "shut" \notin req[r].late /\ "spent" \notin req[r].late
      BY <1>2, <2>2 DEF GetCode, At, Inductive, ShutOut, Spent, Bound
    <3> QED
      BY <1>2, <1>t, <1>pc, <2>2, <3>1, GotoKeeps DEF GetCode, At, InFlight
  <2> QED
    BY <1>2, <2>1, <2>2 DEF GetCode, GotoIf
<1>3. ASSUME NEW r \in Requests, DeleteCode(r)
      PROVE  Inductive'
  <2>1. \A s \in Requests :
            /\ req'[s].op = req[s].op /\ req'[s].user = req[s].user
            /\ req'[s].pair = req[s].pair /\ req'[s].code = req[s].code
            /\ req'[s].conn = req[s].conn /\ req'[s].late = req[s].late
            /\ req'[s].pc = IF s = r THEN "load" ELSE req[s].pc
            /\ s # r => req'[s] = req[s]
    BY <1>3, <1>t DEF DeleteCode, Goto, TypeOK, ReqState
  <2>2. \A c \in Codes : /\ code'[c].left \in {0, code[c].left}
                         /\ code'[c].used => code[c].used \/ code'[c].left = 0
                         /\ code[c].used => code'[c].used
    BY <1>3, <1>t DEF DeleteCode, TypeOK, CodeState
  <2>3. Bound' /\ PairsOnTheWay'
    BY <1>3, <2>1 DEF DeleteCode, At, Inductive, Bound, PairsOnTheWay, InFlight
  <2>4. ShutOut' /\ SwitchedOff' /\ Barred' /\ InOrder'
    BY <1>3, <2>1 DEF DeleteCode, At, Inductive, ShutOut, SwitchedOff, Barred,
                      InOrder
  <2>5. Spent'
    <3>1. \A c \in Codes : code'[c].used => code'[c].left = 0
      BY <2>2 DEF Inductive, Spent
    <3>2. ASSUME NEW s \in Requests, "spent" \in req'[s].late
          PROVE  /\ req'[s].op = "exchange" /\ req'[s].pc = "get_code"
                 /\ code'[req'[s].code].used
      <4>1. req[s].op = "exchange" /\ req[s].pc = "get_code"
            /\ req[s].code \in Codes /\ code[req[s].code].used
        BY <2>1, <3>2 DEF Inductive, Spent, Bound
      <4> QED
        BY <1>3, <2>1, <2>2, <4>1 DEF DeleteCode, At
    <3> QED
      BY <3>1, <3>2 DEF Spent
  <2> QED
    BY <1>3, <1>t, <2>3, <2>4, <2>5 DEF DeleteCode, Inductive, Owned, Covered
<1>4. ASSUME NEW r \in Requests, LoadExchange(r)
      PROVE  Inductive'
  <2>1. CASE Refuse(r) /\ UNCHANGED pair
    BY <1>4, <1>t, <2>1, RefuseKeeps DEF LoadExchange
  <2>2. ASSUME NEW k \in Pairs, pair[k] = NoPair,
               account[req[r].user] = "active",
               pair' = [pair EXCEPT ![k] = Minted(req[r].user, FALSE)],
               req' = [req EXCEPT ![r].pc = "activate", ![r].pair = k]
        PROVE  Inductive'
    <3>1. \A s \in Requests :
              /\ req'[s].op = req[s].op /\ req'[s].user = req[s].user
              /\ req'[s].code = req[s].code /\ req'[s].conn = req[s].conn
              /\ req'[s].late = req[s].late
              /\ req'[s].pc = IF s = r THEN "activate" ELSE req[s].pc
              /\ req'[s].pair = IF s = r THEN k ELSE req[s].pair
              /\ s # r => req'[s] = req[s]
      BY <2>2, <1>t DEF TypeOK, ReqState
    <3>2. req[r].op = "exchange" /\ req[r].pc = "load"
      BY <1>4 DEF LoadExchange, At
    <3>3. req[r].user \in Users
      BY <3>2 DEF Inductive, Bound, InFlight
    <3>4. /\ \A j \in Pairs : j # k => pair'[j] = pair[j]
          /\ ~pair[k].issued /\ pair[k].user = None /\ ~pair[k].out
          /\ pair'[k].user = req[r].user /\ ~pair'[k].issued
          /\ Owned' /\ Covered'
      BY <2>2, <3>3, MintKeeps
    <3>5. Bound'
      BY <3>1, <3>2, <3>4 DEF Inductive, Bound, InFlight
    <3>6. PairsOnTheWay'
      BY <3>1, <3>2, <3>3, <3>4, NoneAssumption DEF Inductive, PairsOnTheWay
    <3>7. ShutOut' /\ SwitchedOff' /\ Spent'
      <4>1. UNCHANGED <<account, code, session>>
        BY <1>4 DEF LoadExchange
      <4>2. req[r].late \cap {"shut", "off", "spent"} = {}
        BY <2>2, <3>2 DEF Inductive, ShutOut, SwitchedOff, Spent
      <4>3. ShutOut'
        BY <3>1, <4>1, <4>2 DEF Inductive, ShutOut
      <4>4. SwitchedOff'
        BY <3>1, <4>1, <4>2 DEF Inductive, SwitchedOff
      <4>5. Spent'
        BY <3>1, <4>1, <4>2 DEF Inductive, Spent
      <4> QED
        BY <4>3, <4>4, <4>5
    <3>8. Barred' /\ InOrder'
      BY <3>1, <3>2, <3>4 DEF Inductive, Barred, InOrder, Bound
    <3> QED
      BY <1>t, <3>4, <3>5, <3>6, <3>7, <3>8 DEF Inductive
  <2> QED
    BY <1>4, <2>1, <2>2 DEF LoadExchange
<1>5. ASSUME NEW r \in Requests, Activate(r)
      PROVE  Inductive'
  <2> DEFINE u == req[r].user
             k == req[r].pair
  <2>1. /\ req[r].op = "exchange" /\ req[r].pc = "activate"
        /\ u \in Users /\ k \in Pairs /\ pair[k].user \in Users
        /\ \A s \in Requests \ {r} : req[s].pc = "activate" => req[s].pair # k
    BY <1>5, <1>t DEF Activate, At, Inductive, Bound, PairsOnTheWay, InFlight,
                      TypeOK, PairState
  <2>2. \A s \in Requests :
            /\ req'[s].op = req[s].op /\ req'[s].user = req[s].user
            /\ req'[s].pair = req[s].pair /\ req'[s].code = req[s].code
            /\ req'[s].conn = req[s].conn
            /\ req'[s].pc = IF s = r THEN "ok" ELSE req[s].pc
            /\ req'[s].ttl = req[s].ttl
            /\ \A x \in req'[s].late : x \in req[s].late
            /\ req[s].user = u => "shut" \notin req'[s].late
            /\ s # r /\ req[s].user # u => req'[s] = req[s]
    BY <1>5, <1>t DEF Activate, TypeOK, ReqState
  <2>3. \A j \in Pairs :
            /\ pair'[j].user = pair[j].user /\ pair'[j].out = pair[j].out
            /\ pair'[j].acc = pair[j].acc /\ pair'[j].bl = pair[j].bl
            /\ j # k => pair'[j] = pair[j]
            /\ pair'[k].issued
    BY <1>5, <1>t, <2>1 DEF Activate, TypeOK, PairState
  <2>4. \A v \in Users : v # u => session'[v] = session[v]
    BY <1>5, <1>t DEF Activate, TypeOK
  <2>5. \A s \in Requests : ~InFlight(s) => req'[s] = req[s]
    BY <2>1, <2>2, NoneAssumption DEF Inductive, Bound, InFlight, Idle
  <2>6. Bound'
    BY <2>1, <2>2, <2>3, <2>5 DEF Inductive, Bound, InFlight
  <2>7. PairsOnTheWay'
    BY <2>1, <2>2, <2>3 DEF Inductive, PairsOnTheWay
  <2>8. Owned'
    BY <2>1, <2>3 DEF Inductive, Owned
  <2>9. ShutOut'
    BY <2>1, <2>2, <2>4 DEF Inductive, ShutOut, Bound, InFlight
  <2>10. SwitchedOff'
    <3>1. "off" \notin req[r].late /\ account' = account
      BY <1>5, <2>1 DEF Activate, Inductive, SwitchedOff
    <3> QED
      BY <2>2, <3>1 DEF Inductive, SwitchedOff
  <2>11. Barred'
    BY <2>2, <2>3 DEF Inductive, Barred, Bound
  <2>12. Spent'
    <3>1. "spent" \notin req[r].late /\ code' = code
      BY <1>5, <2>1 DEF Activate, Inductive, Spent
    <3> QED
      BY <2>2, <3>1 DEF Inductive, Spent
  <2>13. Covered'
    BY <2>3 DEF Inductive, Covered
  <2>14. InOrder'
    BY <2>2, <2>3 DEF Inductive, InOrder, Bound
  <2> QED
    BY <1>t, <2>6, <2>7, <2>8, <2>9, <2>10, <2>11, <2>12, <2>13, <2>14
    DEF Inductive
<1>6. ASSUME NEW r \in Requests, NEW k \in Pairs, StartRefresh(r, k)
      PROVE  Inductive'
  <2>1. pair[k].user \in Users
    BY <1>6 DEF StartRefresh, Held, Inductive, Owned
  <2> DEFINE late == Off(pair[k].user)
  <2>2. /\ late \in SUBSET Late /\ late \subseteq {"off"}
        /\ "off" \in late => account[pair[k].user] # "active"
    BY DEF Off, Late
  <2>3. Arrive(r, "refresh", "load", TRUE, pair[k].user, None, None, late)
        /\ UNCHANGED <<account, code, session, pair>>
    BY <1>6 DEF StartRefresh
  <2> HIDE DEF late
  <2>4. /\ "refresh" \in Ops \ {"call", "logout", "exchange"} /\ TRUE \in BOOLEAN
        /\ "load" \in Pcs /\ None \in Pairs \cup {None}
        /\ None \in Codes \cup {None}
    BY DEF Ops, Pcs
  <2>5. "shut" \notin late /\ "barred" \notin late /\ "spent" \notin late
    BY <2>2
  <2> QED
    BY <1>t, <2>1, <2>2, <2>3, <2>4, <2>5, ArriveKeeps
<1>7. ASSUME NEW r \in Requests, LoadRefresh(r)
      PROVE  Inductive'
  <2>1. CASE Refuse(r) /\ UNCHANGED pair
    BY <1>7, <1>t, <2>1, RefuseKeeps DEF LoadRefresh
  <2>2. ASSUME NEW k \in Pairs, pair[k] = NoPair,
               account[req[r].user] = "active", Goto(r, "ok"),
               pair' = [pair EXCEPT ![k] = Minted(req[r].user, TRUE)]
        PROVE  Inductive'
    <3>1. \A s \in Requests :
              /\ req'[s].op = req[s].op /\ req'[s].user = req[s].user
              /\ req'[s].code = req[s].code /\ req'[s].conn = req[s].conn
              /\ req'[s].late = req[s].late
              /\ req'[s].pc = IF s = r THEN "ok" ELSE req[s].pc
              /\ req'[s].pair = req[s].pair
              /\ s # r => req'[s] = req[s]
      BY <2>2, <1>t DEF Goto, TypeOK, ReqState
    <3>2. req[r].op = "refresh" /\ req[r].pc = "load"
      BY <1>7 DEF LoadRefresh, At
    <3>3. req[r].user \in Users
      BY <3>2 DEF Inductive, Bound, InFlight
    <3>4. /\ \A j \in Pairs : j # k => pair'[j] = pair[j]
          /\ ~pair[k].issued /\ pair[k].user = None /\ ~pair[k].out
          /\ pair'[k].user = req[r].user /\ pair'[k].issued
          /\ Owned' /\ Covered'
      BY <2>2, <3>3, MintKeeps
    <3>5. Bound'
      BY <3>1, <3>2, <3>4 DEF Inductive, Bound, InFlight
    <3>6. PairsOnTheWay'
      BY <3>1, <3>2, <3>4 DEF Inductive, PairsOnTheWay
    <3>7. ShutOut' /\ SwitchedOff' /\ Spent'
      BY <1>7, <2>2, <3>1, <3>2 DEF LoadRefresh, Inductive, ShutOut, SwitchedOff, Spent
    <3>8. Barred' /\ InOrder'
      BY <3>1, <3>2, <3>4 DEF Inductive, Barred, InOrder, Bound
    <3> QED
      BY <1>t, <3>4, <3>5, <3>6, <3>7, <3>8 DEF Inductive
  <2> QED
    BY <1>7, <2>1, <2>2 DEF LoadRefresh
<1>8. ASSUME NEW r \in Requests, NEW k \in Pairs, NEW op \in {"call", "logout"},
             NEW conn \in Connections, StartCall(r, op, k, conn)
      PROVE  Inductive'
  <2>1. pair[k].user \in Users /\ pair[k].issued /\ conn \in BOOLEAN
    BY <1>8, ConnectionAssumption DEF StartCall, Held, Inductive, Owned
  <2> DEFINE late == LateCall(k, conn)
  <2>2. /\ late \in SUBSET Late /\ "spent" \notin late
        /\ "off" \in late => account[pair[k].user] # "active"
        /\ "shut" \in late => conn /\ session[pair[k].user] = 0
        /\ "barred" \in late => pair[k].out
    BY DEF LateCall, Off, Late
  <2>3. PICK pc \in {"blacklist", "load"} :
            /\ Arrive(r, op, pc, conn, pair[k].user, k, None, late)
            /\ conn => pc = "blacklist"
            /\ UNCHANGED <<account, code, session, pair>>
    BY <1>8, <2>1 DEF StartCall
  <2> HIDE DEF late
  <2>4. /\ op \in Ops /\ op # "exchange" /\ pc \in Pcs
        /\ k \in Pairs \cup {None} /\ None \in Codes \cup {None}
        /\ "shut" \in late => session[pair[k].user] = 0 /\ pc = "blacklist"
    BY <2>2, <2>3 DEF Ops, Pcs
  <2> QED
    BY <1>t, <2>1, <2>2, <2>3, <2>4, ArriveKeeps
<1>9. ASSUME NEW r \in Requests, CheckBlacklist(r)
      PROVE  Inductive'
  <2>1. CASE Refuse(r)
    BY <1>9, <1>t, <2>1, RefuseKeeps DEF CheckBlacklist
  <2>2. CASE Goto(r, "exists")
    <3>1. "spent" \notin req[r].late
      BY <1>9 DEF CheckBlacklist, At, Inductive, Spent
    <3> QED
      BY <1>9, <1>t, <1>pc, <2>2, <3>1, GotoKeeps DEF CheckBlacklist, At, InFlight
  <2> QED
    BY <1>9, <2>1, <2>2 DEF CheckBlacklist, GotoIf
<1>10. ASSUME NEW r \in Requests, TouchExists(r)
       PROVE  Inductive'
  <2>1. CASE Refuse(r)
    BY <1>10, <1>t, <2>1, RefuseKeeps DEF TouchExists
  <2>2. CASE Goto(r, "expire") /\ session[req[r].user] > 0
    <3>1. "shut" \notin req[r].late /\ "spent" \notin req[r].late
      BY <1>10, <2>2 DEF TouchExists, At, Inductive, ShutOut, Spent
    <3> QED
      BY <1>10, <1>t, <1>pc, <2>2, <3>1, GotoKeeps DEF TouchExists, At, InFlight
  <2> QED
    BY <1>10, <2>1, <2>2 DEF TouchExists, GotoIf
<1>11. ASSUME NEW r \in Requests, TouchExpire(r)
       PROVE  Inductive'
  <2>1. \A s \in Requests :
            /\ req'[s].op = req[s].op /\ req'[s].user = req[s].user
            /\ req'[s].pair = req[s].pair /\ req'[s].code = req[s].code
            /\ req'[s].conn = req[s].conn /\ req'[s].late = req[s].late
            /\ req'[s].pc = IF s = r THEN "load" ELSE req[s].pc
            /\ s # r => req'[s] = req[s]
    BY <1>11, <1>t DEF TouchExpire, Goto, TypeOK, ReqState
  <2>2. \A v \in Users : session[v] = 0 => session'[v] = 0
    BY <1>11, <1>t DEF TouchExpire, TypeOK
  <2>3. "shut" \notin req[r].late /\ "spent" \notin req[r].late
    BY <1>11 DEF TouchExpire, At, Inductive, ShutOut, Spent
  <2>4. Bound' /\ PairsOnTheWay'
    BY <1>11, <2>1 DEF TouchExpire, At, Inductive, Bound, PairsOnTheWay, InFlight
  <2>5. ShutOut'
    BY <2>1, <2>2, <2>3 DEF Inductive, ShutOut, Bound, InFlight
  <2>6. SwitchedOff' /\ Barred' /\ Spent' /\ InOrder'
    BY <1>11, <2>1, <2>3 DEF TouchExpire, Inductive, SwitchedOff, Barred, Spent,
                             InOrder
  <2> QED
    BY <1>11, <1>t, <2>4, <2>5, <2>6 DEF TouchExpire, Inductive, Owned, Covered
<1>12. ASSUME NEW r \in Requests, LoadUser(r)
       PROVE  Inductive'
  <2>1. CASE Refuse(r)
    BY <1>12, <1>t, <2>1, RefuseKeeps DEF LoadUser
  <2>2. "shut" \notin req[r].late /\ "spent" \notin req[r].late
    BY <1>12 DEF LoadUser, At, Inductive, ShutOut, Spent
  <2>3. CASE Goto(r, "ok") /\ account[req[r].user] = "active"
    <3>1. "off" \notin req[r].late
      BY <2>3 DEF Inductive, SwitchedOff
    <3> QED
      BY <1>12, <1>t, <1>pc, <2>2, <2>3, <3>1, GotoKeeps DEF LoadUser, At, InFlight
  <2>4. CASE Goto(r, "revoke") /\ req[r].op = "logout"
    BY <1>12, <1>t, <1>pc, <2>2, <2>4, GotoKeeps DEF LoadUser, At, InFlight
  <2> QED
    BY <1>12, <2>1, <2>3, <2>4 DEF LoadUser, GotoIf, At
<1>13. ASSUME NEW r \in Requests, SkipRevoke(r)
       PROVE  Inductive'
  <2>1. "shut" \notin req[r].late /\ "spent" \notin req[r].late
        /\ req[r].op = "logout"
    BY <1>13 DEF SkipRevoke, At, Inductive, ShutOut, Spent
  <2> QED
    BY <1>13, <1>t, <1>pc, <2>1, GotoKeeps DEF SkipRevoke, At, InFlight
<1>14. ASSUME NEW r \in Requests, ReadExpiry(r) \/ Revoke(r)
       PROVE  Inductive'
  <2> DEFINE k == req[r].pair
             ttl == WholeSeconds(pair[k].acc)
  <2>1. /\ req[r].pc \in {"revoke", "set_bl"} /\ k \in Pairs
        /\ pair[k] \in PairState /\ req[r] \in ReqState
    BY <1>14, <1>t DEF ReadExpiry, Revoke, At, Inductive, Bound, TypeOK
  <2>2. pair[k].acc \in 0..AccessTTL /\ AccessTTL \in Nat
    BY <2>1, TTLs DEF PairState
  <2>3. ttl \in 0..AccessTTL /\ pair[k].acc - ttl < Sec
    BY <2>2, WholeSecondsRange
  <2> HIDE DEF ttl
  <2>4. CASE Onward(r, "set_bl", ttl) /\ ReadExpiry(r) /\ UNCHANGED pair
    <3>1. req'[r].ttl = ttl
      BY <1>t, <2>4 DEF Onward, TypeOK, ReqState
    <3>2. Covered' /\ UNCHANGED <<account, code, session>>
      BY <2>4 DEF ReadExpiry, Inductive, Covered
    <3> QED
      BY <1>t, <2>1, <2>3, <2>4, <3>1, <3>2, LogoutKeeps
  <2>5. CASE /\ ttl = 0 /\ Goto(r, "drop") /\ ReadExpiry(r)
             /\ pair' = [pair EXCEPT ![k].out = TRUE]
    <3>1. \A j \in Pairs :
              /\ j # k => pair'[j] = pair[j]
              /\ pair'[j].user = pair[j].user /\ pair'[j].acc = pair[j].acc
              /\ pair'[j].issued = pair[j].issued
              /\ pair'[j].bl = pair[j].bl /\ pair[j].out => pair'[j].out
              /\ pair'[k].out
      BY <1>t, <2>1, <2>5 DEF TypeOK, PairState
    <3>2. Covered'
      <4>1. pair[k].bl \in Nat
        BY <2>1, TTLs DEF PairState
      <4> QED
        BY <2>2, <2>3, <2>5, <3>1, <4>1 DEF Inductive, Covered, Sec
    <3>3. UNCHANGED <<account, code, session>>
      BY <2>5 DEF ReadExpiry
    <3> QED
      BY <1>t, <2>1, <2>3, <2>5, <3>1, <3>2, <3>3, LogoutKeeps
  <2>6. CASE Revoke(r)
    <3>1. /\ pair' = [pair EXCEPT ![k].bl = req[r].ttl, ![k].out = TRUE]
          /\ Onward(r, "drop", 0)
          /\ req[r].pc = "set_bl" /\ UNCHANGED <<account, code, session>>
      BY <2>6 DEF Revoke, At
    <3>2. \A j \in Pairs :
              /\ j # k => pair'[j] = pair[j]
              /\ pair'[j].user = pair[j].user /\ pair'[j].acc = pair[j].acc
              /\ pair'[j].issued = pair[j].issued
              /\ pair[j].out => pair'[j].out
              /\ pair'[k].out /\ pair'[k].bl = req[r].ttl
      BY <1>t, <2>1, <3>1 DEF TypeOK, PairState
    <3>3. pair[k].acc - req[r].ttl < Sec
      BY <3>1 DEF Inductive, InOrder
    <3>4. Covered'
      BY <3>2, <3>3 DEF Inductive, Covered
    <3>5. 0 \in 0..AccessTTL
      BY TTLs
    <3> QED
      BY <1>t, <2>1, <3>1, <3>2, <3>4, <3>5, LogoutKeeps
  <2> QED
    BY <1>14, <2>4, <2>5, <2>6 DEF ReadExpiry, ttl
<1>15. ASSUME NEW r \in Requests, DropSession(r)
       PROVE  Inductive'
  <2>1. /\ req[r].pc = "drop" /\ Goto(r, "ok")
        /\ UNCHANGED <<account, code, pair>>
    BY <1>15 DEF DropSession, At
  <2>2. \A v \in Users : session'[v] \in {0, session[v]}
    BY <1>15, <1>t DEF DropSession, TypeOK
  <2>3. Covered' /\ 0 \in 0..AccessTTL
    BY <2>1, TTLs DEF Inductive, Covered
  <2> QED
    BY <1>t, <2>1, <2>2, <2>3, LogoutKeeps
<1>16. ASSUME NEW r \in Requests, RedisError(r)
       PROVE  Inductive'
  <2>1. CASE Refuse(r)
    BY <1>16, <1>t, <2>1, RefuseKeeps DEF RedisError
  <2>2. CASE Onward(r, "ok", 0) /\ req[r].pc \in {"set_bl", "drop"}
    <3>1. UNCHANGED <<account, code, session, pair>>
      BY <1>16, <2>2 DEF RedisError, LosePair
    <3>2. Covered' /\ 0 \in 0..AccessTTL
      BY <3>1, TTLs DEF Inductive, Covered
    <3> QED
      BY <1>t, <2>2, <3>1, <3>2, LogoutKeeps
  <2> QED
    BY <1>16, <2>1, <2>2 DEF RedisError
<1>17. ASSUME NEW r \in Requests, Leave(r)
       PROVE  Inductive'
  BY <1>17, <1>t, RefuseKeeps DEF Leave, Refuse
<1>18. ASSUME NEW u \in Users, NEW c \in Codes, IssueCode(u, c)
       PROVE  Inductive'
  <2>1. /\ \A d \in Codes : d # c => code'[d] = code[d]
        /\ ~code'[c].used
        /\ \A r \in Requests : req[r].code # c
    BY <1>18, <1>t DEF IssueCode, Unused, TypeOK
  <2>2. Spent'
    BY <1>18, <2>1 DEF IssueCode, Inductive, Spent, Bound
  <2> QED
    BY <1>18, <1>t, <2>2 DEF IssueCode, Inductive, Bound, PairsOnTheWay, Owned,
         ShutOut, SwitchedOff, Barred, InOrder, Covered, InFlight
<1>19. ASSUME NEW k \in Pairs, Discard(k)
       PROVE  Inductive'
  <2>1. /\ \A j \in Pairs : j # k => pair'[j] = pair[j]
        /\ \A r \in Requests : req[r].pair # k
        /\ ~pair'[k].issued /\ ~pair'[k].out
        /\ pair'[k].acc = 0 /\ pair'[k].bl = 0
    BY <1>19, <1>t DEF Discard, Unused, NoPair, TypeOK
  <2>2. Bound' /\ PairsOnTheWay'
    BY <1>19, <2>1 DEF Discard, Inductive, Bound, PairsOnTheWay, InFlight
  <2>3. Owned' /\ Barred' /\ Covered'
    BY <1>19, <2>1 DEF Discard, Inductive, Owned, Barred, Bound, Covered, Sec
  <2>4. InOrder'
    BY <1>19, <2>1 DEF Discard, Inductive, InOrder, Bound
  <2> QED
    BY <1>19, <1>t, <2>2, <2>3, <2>4 DEF Discard, Inductive, ShutOut, SwitchedOff, Spent
<1>20. ASSUME NEW u \in Users, NEW a \in Account, SetAccount(u, a)
       PROVE  Inductive'
  <2>1. \A s \in Requests :
            /\ req'[s].op = req[s].op /\ req'[s].user = req[s].user
            /\ req'[s].pair = req[s].pair /\ req'[s].code = req[s].code
            /\ req'[s].conn = req[s].conn /\ req'[s].ttl = req[s].ttl
            /\ req'[s].pc = req[s].pc /\ \A x \in req'[s].late : x \in req[s].late
            /\ req[s].user = u /\ a = "active" => "off" \notin req'[s].late
            /\ req[s].user # u => req'[s] = req[s]
    BY <1>20, <1>t DEF SetAccount, TypeOK, ReqState
  <2>2. \A v \in Users : v # u => account'[v] = account[v]
    BY <1>20, <1>t DEF SetAccount, TypeOK
  <2>3. account'[u] = a
    BY <1>20, <1>t DEF SetAccount, TypeOK
  <2>4. \A s \in Requests : ~InFlight(s) => req'[s] = req[s]
    BY <2>1, NoneAssumption DEF Inductive, Bound, InFlight, Idle
  <2>5. Bound' /\ PairsOnTheWay'
    BY <1>20, <2>1, <2>4 DEF SetAccount, Inductive, Bound, PairsOnTheWay, InFlight
  <2>6. SwitchedOff'
    <3> SUFFICES ASSUME NEW s \in Requests, "off" \in req'[s].late
                 PROVE  /\ account'[req'[s].user] # "active"
                        /\ req'[s].pc # "activate"
                        /\ req'[s].pc = "ok" => req'[s].op = "logout"
      BY DEF SwitchedOff
    <3>1. "off" \in req[s].late
      BY <2>1
    <3>2. /\ account[req[s].user] # "active" /\ req[s].pc # "activate"
          /\ req[s].pc = "ok" => req[s].op = "logout"
      BY <3>1 DEF Inductive, SwitchedOff
    <3>3. req[s].user \in Users
      BY <3>1 DEF Inductive, Bound, InFlight, Idle
    <3>4. account'[req[s].user] # "active"
      BY <2>1, <2>2, <2>3, <3>2, <3>3
    <3> QED
      BY <2>1, <3>2, <3>4
  <2>7. ShutOut' /\ Barred' /\ Spent' /\ InOrder'
    BY <1>20, <2>1 DEF SetAccount, Inductive, ShutOut, Barred, Spent, InOrder
  <2> QED
    BY <1>20, <1>t, <2>5, <2>6, <2>7 DEF SetAccount, Inductive, Owned, Covered
<1>21. CASE Tick
  <2>1. \A n \in Nat : Less(n) = IF n = 0 THEN 0 ELSE n - 1
    BY DEF Less
  <2>2. \A k \in Pairs :
            /\ pair'[k].user = pair[k].user /\ pair'[k].out = pair[k].out
            /\ pair'[k].issued = pair[k].issued
            /\ pair'[k].acc = Less(pair[k].acc) /\ pair'[k].bl = Less(pair[k].bl)
    BY <1>21, <1>t DEF Tick, TypeOK, PairState
  <2>3. \A k \in Pairs : pair[k].acc \in Nat /\ pair[k].bl \in Nat
    BY <1>t, TTLs DEF TypeOK, PairState
  <2>4. \A v \in Users : session[v] = 0 => session'[v] = 0
    BY <1>21, <1>t, <2>1 DEF Tick, TypeOK
  <2>5. \A c \in Codes : /\ code[c].left = 0 => code'[c].left = 0
                         /\ code'[c].used = code[c].used
    BY <1>21, <1>t, <2>1 DEF Tick, TypeOK, CodeState
  <2>10. req' = req
    BY <1>21 DEF Tick
  <2>6. Bound' /\ PairsOnTheWay' /\ Owned'
    <3>1. Bound'
      BY <2>2, <2>10 DEF Inductive, Bound, InFlight
    <3>2. PairsOnTheWay'
      BY <2>2, <2>10 DEF Inductive, PairsOnTheWay
    <3>3. Owned'
      BY <2>2 DEF Inductive, Owned
    <3> QED
      BY <3>1, <3>2, <3>3
  <2>7. ShutOut' /\ SwitchedOff'
    BY <1>21, <2>4 DEF Tick, Inductive, ShutOut, SwitchedOff, Bound, InFlight
  <2>8. Barred' /\ Spent'
    <3>1. Barred'
      BY <2>2, <2>10 DEF Inductive, Barred, Bound
    <3>2. Spent'
      BY <1>21, <2>5 DEF Tick, Inductive, Spent, Bound
    <3> QED
      BY <3>1, <3>2
  <2>9. Covered'
    BY <2>1, <2>2, <2>3 DEF Inductive, Covered, Sec
  <2>11. InOrder'
    <3> SUFFICES ASSUME NEW r \in Requests
                 PROVE  /\ req[r].pc = "set_bl" =>
                               pair'[req[r].pair].acc - req[r].ttl < Sec
                        /\ req[r].pc = "drop" => pair'[req[r].pair].out
      BY <2>10 DEF InOrder
    <3>1. req[r].pc \in {"set_bl", "drop"} => req[r].pair \in Pairs
      BY DEF Inductive, Bound
    <3>2. req[r].ttl \in Nat
      BY <1>t, TTLs DEF TypeOK, ReqState
    <3> QED
      BY <2>1, <2>2, <2>3, <3>1, <3>2 DEF Inductive, InOrder, Sec
  <2> QED
    BY <1>t, <2>6, <2>7, <2>8, <2>9, <2>11 DEF Inductive
<1>22. CASE UNCHANGED vars
  BY <1>22, <1>t DEF vars, Inductive, Bound, PairsOnTheWay, Owned, ShutOut,
       SwitchedOff, Barred, Spent, InOrder, Covered, InFlight
<1> QED
  BY <1>1, <1>2, <1>3, <1>4, <1>5, <1>6, <1>7, <1>8, <1>9, <1>10, <1>11, <1>12,
     <1>13, <1>14, <1>15, <1>16, <1>17, <1>18, <1>19, <1>20, <1>21, <1>22
  DEF Next, RequestStep

LEMMA InductiveInvariant == Spec => []Inductive
<1>1. Init => Inductive
  <2> SUFFICES ASSUME Init PROVE Inductive
    OBVIOUS
  <2>1. TypeOK
    BY EmptyTypes, TTLs DEF Init, TypeOK, Account, Sec
  <2>2. \A r \in Requests : req[r] = Idle
    BY DEF Init
  <2>3. \A k \in Pairs : /\ ~pair[k].issued /\ ~pair[k].out
                         /\ pair[k].acc = 0 /\ pair[k].bl = 0
    BY DEF Init, NoPair
  <2>4. \A c \in Codes : ~code[c].used
    BY DEF Init, NoCode
  <2>5. Idle.pc = "idle" /\ Idle.op = "none" /\ Idle.late = {}
    BY DEF Idle
  <2> QED
    BY <2>1, <2>2, <2>3, <2>4, <2>5
    DEF Inductive, Bound, PairsOnTheWay, Owned, ShutOut, SwitchedOff, Barred,
        Spent, InOrder, Covered, InFlight, Sec
<1> QED
  BY <1>1, InductiveStep, PTL DEF Spec

-----------------------------------------------------------------------------
(* The theorems.                                                           *)

\* Every reachable state is well typed: no step leaves a countdown negative
\* or above its time to live, and no request outside its protocol.
THEOREM TypeCorrect == Spec => []TypeOK
<1>1. Inductive => TypeOK
  BY DEF Inductive
<1> QED
  BY <1>1, InductiveInvariant, PTL

\* A request that arrived when its user had no session is refused, whatever
\* logouts, expiries and other requests do between EXISTS and EXPIRE.
THEOREM DeadSessionsStayDead == Spec => []DeadSessionRefused
<1>1. Inductive => DeadSessionRefused
  BY DEF Inductive, ShutOut, DeadSessionRefused, Accepted
<1> QED
  BY <1>1, InductiveInvariant, PTL

\* However long the SET takes after the clock reading, and wherever a
\* swallowed error ends a logout: a logged-out token is on the blacklist until
\* the last second of its life, and a session is dropped behind that only.
THEOREM BlacklistLasts == Spec => []BlacklistCovers
<1>1. Inductive => BlacklistCovers
  BY DEF Inductive, Covered, InOrder, BlacklistCovers
<1> QED
  BY <1>1, InductiveInvariant, PTL

\* An exchange that arrives after its code was redeemed gets nothing.
THEOREM SpentCodesGiveNothing == Spec => []SpentCodeRefused
<1>1. Inductive => SpentCodeRefused
  BY DEF Inductive, Spent, SpentCodeRefused
<1> QED
  BY <1>1, InductiveInvariant, PTL

\* A user deactivated or deleted before a request arrived gets neither tokens
\* nor an answer from it, unless reinstated while it runs.
THEOREM LockedOutUsersStayOut == Spec => []LockedOutRefused
<1>1. Inductive => LockedOutRefused
  BY DEF Inductive, SwitchedOff, LockedOutRefused
<1> QED
  BY <1>1, InductiveInvariant, PTL

\* A token that was logged out before a request arrived passes the blacklist
\* only in the last second of its life.
THEOREM LoggedOutTokensRefused == Spec => LoggedOutRefused
<1> DEFINE Passes(r) == /\ At(r, {"call", "logout"}, "blacklist")
                        /\ req'[r].pc = "exists"
                        /\ "barred" \in req[r].late
<1>1. ASSUME Inductive, [Next]_vars, NEW r \in Requests, Passes(r)
      PROVE  pair[req[r].pair].acc < Sec
  <2>1. req[r].pc = "blacklist" /\ req'[r].pc = "exists" /\ req[r] # Idle
    BY <1>1 DEF At, Idle
  <2>2. CheckBlacklist(r)
    <3>1. ASSUME NEW s \in Requests, RequestStep(s)
          PROVE  s = r
      <4>1. ASSUME s # r PROVE req'[r].pc = req[r].pc
        <5>1. CASE Activate(s)
          BY <1>1, <4>1, <5>1 DEF Activate, Inductive, TypeOK, ReqState
        <5>2. CASE ~Activate(s)
          BY <1>1, <3>1, <4>1, <5>2
          DEF RequestStep, StartExchange, GetCode, DeleteCode, LoadExchange,
              StartRefresh, LoadRefresh, StartCall, CheckBlacklist,
              TouchExists, TouchExpire, LoadUser, SkipRevoke, ReadExpiry, Revoke,
              DropSession, RedisError, Leave, Arrive, GotoIf, Goto, Onward, Refuse,
              Inductive, TypeOK, ReqState
        <5> QED
          BY <5>1, <5>2
      <4> QED
        BY <2>1, <4>1
    <3>2. RequestStep(r) => CheckBlacklist(r)
      BY <1>1, <2>1
      DEF RequestStep, StartExchange, GetCode, DeleteCode, LoadExchange,
          Activate, StartRefresh, LoadRefresh, StartCall, TouchExists,
          TouchExpire, LoadUser, SkipRevoke, ReadExpiry, Revoke, DropSession, RedisError,
          Leave, Arrive, GotoIf, Goto, Onward, Refuse, Idle, At, Inductive, TypeOK,
          ReqState
    <3>3. ASSUME NEW u \in Users, NEW a \in Account, SetAccount(u, a)
          PROVE  req'[r].pc = req[r].pc
      BY <1>1, <3>3 DEF SetAccount, Inductive, TypeOK, ReqState
    <3> QED
      BY <1>1, <2>1, <3>1, <3>2, <3>3 DEF Next, IssueCode, Discard, Tick, vars
  <2>3. pair[req[r].pair].bl = 0
    BY <2>1, <2>2, <1>1 DEF CheckBlacklist, GotoIf, Refuse, Idle, Inductive, TypeOK
  <2>4. /\ req[r].pair \in Pairs /\ pair[req[r].pair].out
        /\ pair[req[r].pair].acc \in Int
    BY <1>1, TTLs DEF Inductive, Bound, Barred, TypeOK, PairState
  <2> QED
    BY <1>1, <2>3, <2>4 DEF Inductive, Covered, Sec
<1>2. Inductive /\ [Next]_vars =>
        [\A r \in Requests : Passes(r) => pair[req[r].pair].acc < Sec]_vars
  BY <1>1
<1> QED
  BY <1>2, InductiveInvariant, PTL DEF Spec, LoggedOutRefused

\* A session key is created by the exchange of a one-time code and by nothing
\* else; a refresh, a call or a failed logout never brings one back.
THEOREM SessionsComeFromLogins == Spec => SessionOnlyFromLogin
<1>1. ASSUME Inductive, [Next]_vars, NEW u \in Users,
             session[u] = 0, session'[u] > 0
      PROVE  \E r \in Requests :
                 /\ At(r, {"exchange"}, "activate")
                 /\ req[r].user = u
  <2>1. ASSUME NEW r \in Requests, Activate(r)
        PROVE  At(r, {"exchange"}, "activate") /\ req[r].user = u
    <3>1. session' = [session EXCEPT ![req[r].user] = IdleTTL]
      BY <2>1 DEF Activate
    <3>2. req[r].user # u => session'[u] = session[u]
      BY <1>1, <3>1 DEF Inductive, TypeOK
    <3>3. req[r].user = u
      BY <1>1, <3>2
    <3> QED
      BY <2>1, <3>3 DEF Activate
  <2>2. ASSUME NEW r \in Requests, TouchExpire(r) \/ DropSession(r)
        PROVE  FALSE
    BY <1>1, <2>2 DEF TouchExpire, DropSession, Inductive, TypeOK
  <2>3. ASSUME Tick
        PROVE  FALSE
    <3>1. session'[u] = Less(session[u])
      BY <2>3 DEF Tick
    <3>2. Less(0) = 0
      BY DEF Less
    <3> QED
      BY <1>1, <3>1, <3>2
  <2>4. ~UNCHANGED session
    BY <1>1
  <2>5. CASE \E r \in Requests : RequestStep(r)
    BY <2>1, <2>2, <2>4, <2>5
    DEF RequestStep, StartExchange, GetCode, DeleteCode, LoadExchange,
        StartRefresh, LoadRefresh, StartCall, CheckBlacklist, TouchExists,
        LoadUser, SkipRevoke, ReadExpiry, Revoke, RedisError, Leave
  <2> QED
    BY <1>1, <2>3, <2>4, <2>5 DEF Next, IssueCode, Discard, SetAccount, vars
<1>2. Inductive /\ [Next]_vars =>
        [\A u \in Users :
           session[u] = 0 /\ session'[u] > 0
           => \E r \in Requests :
                  /\ At(r, {"exchange"}, "activate")
                  /\ req[r].user = u]_vars
  BY <1>1
<1> QED
  BY <1>2, InductiveInvariant, PTL DEF Spec, SessionOnlyFromLogin

-----------------------------------------------------------------------------
(* AuthSession implements Revocation, three times over.                    *)

\* The step leaves request s what it was; what it calls late it may lose only
\* to the login or the reinstatement that takes it back.
Keeps(s) ==
    /\ req'[s].op = req[s].op /\ req'[s].conn = req[s].conn
    /\ req'[s].user = req[s].user /\ req'[s].code = req[s].code
    /\ \/ req'[s].late = req[s].late
       \/ /\ req'[s].late = req[s].late \ {"shut"}
          /\ req[s].user \in Users => session'[req[s].user] > 0
       \/ /\ req'[s].late = req[s].late \ {"off"}
          /\ req[s].user \in Users => account'[req[s].user] = "active"

\* The step takes request s past no check.
Waits(s) ==
    /\ PastExists(s)' <=> PastExists(s)
    /\ PastRow(s)' <=> PastRow(s)
    /\ PastGet(s)' <=> PastGet(s)

\* Some requests are over, and no other one passes a check.
Quiet(over) ==
    /\ \A s \in over : req'[s] = Idle
    /\ \A s \in Requests \ over : Keeps(s) /\ Waits(s)

\* Request r passes its next check, and nothing else happens.
Passes(r) ==
    /\ UNCHANGED <<account, code, session>>
    /\ InFlight(r)
    /\ \A s \in Requests : Keeps(s) /\ req'[s].late = req[s].late
    /\ \A s \in Requests \ {r} : Waits(s)
    /\ PastExists(r) => PastExists(r)'
    /\ PastRow(r) => PastRow(r)'
    /\ PastGet(r) => PastGet(r)'

\* Request r comes in, and what it calls late is what is so.
Comes(r) ==
    /\ UNCHANGED <<account, code, session>>
    /\ req[r] = Idle
    /\ \A s \in Requests \ {r} : req'[s] = req[s]
    /\ req'[r].user \in Users
    /\ req'[r].code \in Codes \cup {None}
    /\ req'[r].op \in {"exchange", "refresh", "call", "logout"}
    /\ req'[r].pc \in {"get_code", "load", "blacklist"}
    /\ req'[r].pc = "load" => ~(req'[r].op \in {"call", "logout"} /\ req'[r].conn)
    /\ req'[r].code # None => req'[r].pc = "get_code"
    /\ "shut" \in req'[r].late <=>
           /\ req'[r].op \in {"call", "logout"} /\ req'[r].conn
           /\ session[req'[r].user] = 0
    /\ "off" \in req'[r].late <=> account[req'[r].user] # "active"
    /\ "spent" \in req'[r].late <=>
           req'[r].code # None /\ code[req'[r].code].used

(* Steps of the request that only move it on.                              *)
LEMMA MoveIsQuiet ==
    ASSUME Inductive, NEW r \in Requests, NEW pc \in Pcs, Goto(r, pc),
           Waits(r)
    PROVE  Quiet({})
<1>1. \A s \in Requests :
          /\ req'[s].op = req[s].op /\ req'[s].user = req[s].user
          /\ req'[s].code = req[s].code /\ req'[s].conn = req[s].conn
          /\ req'[s].late = req[s].late
          /\ s # r => req'[s] = req[s]
  BY DEF Goto, Inductive, TypeOK, ReqState
<1> QED
  BY <1>1 DEF Quiet, Keeps, Waits, PastExists, PastRow, PastGet

(* A request is refused, or answered and forgotten.                        *)
LEMMA RefuseIsQuiet ==
    ASSUME Inductive, NEW r \in Requests, Refuse(r)
    PROVE  Quiet({r})
BY DEF Refuse, Inductive, TypeOK, Quiet, Keeps, Waits, PastExists, PastRow,
       PastGet

(* Nothing happens to the requests.                                        *)
LEMMA SameIsQuiet ==
    ASSUME UNCHANGED req
    PROVE  Quiet({})
BY DEF Quiet, Keeps, Waits, PastExists, PastRow, PastGet

(* Every step is one of the three.                                         *)
LEMMA StepShapes ==
    ASSUME Inductive, Inductive', [Next]_vars
    PROVE  \/ \E over \in SUBSET Requests : Quiet(over)
           \/ \E r \in Requests : Passes(r) \/ Comes(r)
<1> DEFINE Shape == \/ \E over \in SUBSET Requests : Quiet(over)
                    \/ \E r \in Requests : Passes(r) \/ Comes(r)
<1>t. TypeOK /\ TypeOK'
  BY DEF Inductive
<1>pc. {"get_code", "del_code", "load", "activate", "blacklist", "exists",
        "expire", "revoke", "set_bl", "drop", "ok"} \subseteq Pcs
  BY DEF Pcs
<1>idle. \A r \in Requests : req[r].pc = "idle" => req[r] = Idle
  BY DEF Inductive, Bound, InFlight
<1>refuse. ASSUME NEW r \in Requests, Refuse(r) PROVE Shape
  BY <1>refuse, RefuseIsQuiet
<1>move. ASSUME NEW r \in Requests, NEW pc \in Pcs, Goto(r, pc), Waits(r)
         PROVE  Shape
  BY <1>move, MoveIsQuiet
<1>goto. ASSUME NEW r \in Requests, NEW pc \in Pcs, Goto(r, pc)
         PROVE  /\ \A s \in Requests : Keeps(s) /\ req'[s].late = req[s].late
                /\ \A s \in Requests \ {r} : Waits(s)
                /\ req'[r].pc = pc
  <2>1. \A s \in Requests :
            /\ req'[s].op = req[s].op /\ req'[s].user = req[s].user
            /\ req'[s].code = req[s].code /\ req'[s].conn = req[s].conn
            /\ req'[s].late = req[s].late
            /\ s # r => req'[s] = req[s]
    BY <1>goto, <1>t DEF Goto, TypeOK, ReqState
  <2> QED
    BY <1>goto, <1>t, <2>1
    DEF Goto, TypeOK, ReqState, Keeps, Waits, PastExists, PastRow, PastGet
<1>1. ASSUME NEW r \in Requests, NEW c \in Codes, StartExchange(r, c)
      PROVE  Shape
  <2>1. /\ req[r].pc = "idle" /\ code[c].user \in Users
        /\ \A s \in Requests \ {r} : req'[s] = req[s]
        /\ req'[r] = [op |-> "exchange", pc |-> "get_code", conn |-> TRUE,
                      user |-> code[c].user, pair |-> None, code |-> c,
                      ttl |-> 0, late |-> Off(code[c].user) \cup
                               (IF code[c].used THEN {"spent"} ELSE {})]
    BY <1>1, <1>t DEF StartExchange, Arrive, TypeOK, CodeState
  <2> QED
    BY <1>1, <1>idle, <2>1, NoneAssumption DEF StartExchange, Comes, Off
<1>2. ASSUME NEW r \in Requests, GetCode(r) PROVE Shape
  <2>1. CASE Goto(r, "del_code")
    <3>1. req[r].op = "exchange" /\ req[r].pc = "get_code"
      BY <1>2 DEF GetCode, At
    <3> QED
      BY <1>2, <1>pc, <1>goto, <2>1, <3>1
      DEF GetCode, Passes, InFlight, PastExists, PastRow, PastGet
  <2> QED
    BY <1>2, <1>refuse, <2>1 DEF GetCode, GotoIf
<1>3. ASSUME NEW r \in Requests, DeleteCode(r) PROVE Shape
  <2>1. req[r].op = "exchange" /\ req[r].pc = "del_code" /\ Goto(r, "load")
    BY <1>3 DEF DeleteCode, At
  <2>2. Waits(r)
    BY <1>pc, <1>goto, <2>1
    DEF Keeps, Waits, PastExists, PastRow, PastGet, Accepted
  <2> QED
    BY <1>pc, <1>move, <2>1, <2>2
<1>4. ASSUME NEW r \in Requests, LoadExchange(r) PROVE Shape
  <2>1. ASSUME NEW k \in Pairs,
               req' = [req EXCEPT ![r].pc = "activate", ![r].pair = k]
        PROVE  Shape
    <3>1. \A s \in Requests :
              /\ req'[s].op = req[s].op /\ req'[s].user = req[s].user
              /\ req'[s].code = req[s].code /\ req'[s].conn = req[s].conn
              /\ req'[s].late = req[s].late
              /\ req'[s].pc = IF s = r THEN "activate" ELSE req[s].pc
      BY <2>1, <1>t DEF TypeOK, ReqState
    <3>2. /\ req[r].op = "exchange" /\ req[r].pc = "load"
          /\ UNCHANGED <<account, code, session>>
      BY <1>4 DEF LoadExchange, At
    <3> QED
      BY <3>1, <3>2
      DEF Passes, Keeps, Waits, InFlight, PastExists, PastRow, PastGet
  <2> QED
    BY <1>4, <1>refuse, <2>1 DEF LoadExchange
<1>5. ASSUME NEW r \in Requests, Activate(r) PROVE Shape
  <2>1. \A s \in Requests :
            /\ req'[s].op = req[s].op /\ req'[s].user = req[s].user
            /\ req'[s].code = req[s].code /\ req'[s].conn = req[s].conn
            /\ req'[s].pc = IF s = r THEN "ok" ELSE req[s].pc
            /\ req'[s].late = IF req[s].user = req[r].user
                              THEN req[s].late \ {"shut"} ELSE req[s].late
    BY <1>5, <1>t DEF Activate, TypeOK, ReqState
  <2>2. req[r].op = "exchange" /\ req[r].pc = "activate"
    BY <1>5 DEF Activate, At
  <2>3. ASSUME req[r].user \in Users PROVE session'[req[r].user] > 0
    <3>1. session'[req[r].user] = IdleTTL
      BY <1>5, <1>t, <2>3 DEF Activate, TypeOK
    <3> QED
      BY <3>1, TTLs
  <2>4. \A s \in Requests : Keeps(s)
    BY <2>1, <2>3 DEF Keeps
  <2>5. \A s \in Requests : Waits(s)
    BY <2>1, <2>2 DEF Waits, PastExists, PastRow, PastGet
  <2>6. Quiet({})
    BY <2>4, <2>5 DEF Quiet
  <2> QED
    BY <2>6
<1>6. ASSUME NEW r \in Requests, NEW k \in Pairs, StartRefresh(r, k)
      PROVE  Shape
  <2>1. /\ req[r].pc = "idle" /\ pair[k].user \in Users
        /\ \A s \in Requests \ {r} : req'[s] = req[s]
        /\ req'[r] = [op |-> "refresh", pc |-> "load", conn |-> TRUE,
                      user |-> pair[k].user, pair |-> None, code |-> None,
                      ttl |-> 0, late |-> Off(pair[k].user)]
    BY <1>6, <1>t DEF StartRefresh, Arrive, Held, Inductive, TypeOK, Owned
  <2> QED
    BY <1>6, <1>idle, <2>1 DEF StartRefresh, Comes, Off
<1>7. ASSUME NEW r \in Requests, LoadRefresh(r) PROVE Shape
  <2>1. CASE Goto(r, "ok")
    <3>1. req[r].op = "refresh" /\ req[r].pc = "load"
      BY <1>7 DEF LoadRefresh, At
    <3> QED
      BY <1>7, <1>pc, <1>goto, <2>1, <3>1
      DEF LoadRefresh, Passes, Keeps, InFlight, PastExists, PastRow, PastGet
  <2> QED
    BY <1>7, <1>refuse, <2>1 DEF LoadRefresh
<1>8. ASSUME NEW r \in Requests, NEW k \in Pairs, NEW op \in {"call", "logout"},
             NEW conn \in Connections, StartCall(r, op, k, conn)
      PROVE  Shape
  <2>1. conn \in BOOLEAN
    BY ConnectionAssumption
  <2>2. /\ req[r].pc = "idle" /\ pair[k].user \in Users
        /\ \A s \in Requests \ {r} : req'[s] = req[s]
        /\ req'[r] = [op |-> op, pc |-> IF conn THEN "blacklist" ELSE "load",
                      conn |-> conn, user |-> pair[k].user, pair |-> k,
                      code |-> None, ttl |-> 0, late |-> LateCall(k, conn)]
    BY <1>8, <1>t DEF StartCall, Arrive, Held, Inductive, TypeOK, Owned
  <2> QED
    BY <1>8, <1>idle, <2>1, <2>2 DEF StartCall, Comes, LateCall, Off
<1>9. ASSUME NEW r \in Requests, CheckBlacklist(r) PROVE Shape
  <2>1. CASE Goto(r, "exists")
    <3>1. req[r].op \in {"call", "logout"} /\ req[r].pc = "blacklist"
      BY <1>9 DEF CheckBlacklist, At
    <3>2. Waits(r)
      BY <1>pc, <1>goto, <2>1, <3>1
      DEF Keeps, Waits, PastExists, PastRow, PastGet, Accepted
    <3> QED
      BY <1>pc, <1>move, <2>1, <3>2
  <2> QED
    BY <1>9, <1>refuse, <2>1 DEF CheckBlacklist, GotoIf
<1>10. ASSUME NEW r \in Requests, TouchExists(r) PROVE Shape
  <2>1. CASE Goto(r, "expire")
    <3>1. req[r].op \in {"call", "logout"} /\ req[r].pc = "exists"
      BY <1>10 DEF TouchExists, At
    <3> QED
      BY <1>10, <1>pc, <1>goto, <2>1, <3>1
      DEF TouchExists, Passes, Keeps, InFlight, PastExists, PastRow, PastGet,
          Accepted
  <2> QED
    BY <1>10, <1>refuse, <2>1 DEF TouchExists, GotoIf
<1>11. ASSUME NEW r \in Requests, TouchExpire(r) PROVE Shape
  <2>1. /\ req[r].op \in {"call", "logout"} /\ req[r].pc = "expire"
        /\ Goto(r, "load")
    BY <1>11 DEF TouchExpire, At
  <2>2. Waits(r)
    BY <1>pc, <1>goto, <2>1
    DEF Keeps, Waits, PastExists, PastRow, PastGet, Accepted
  <2> QED
    BY <1>pc, <1>move, <2>1, <2>2
<1>12. ASSUME NEW r \in Requests, LoadUser(r) PROVE Shape
  <2>1. req[r].pc = "load" /\ req[r].op \in {"call", "logout"}
    BY <1>12 DEF LoadUser, At
  <2>2. CASE Goto(r, "ok") /\ req[r].op = "call"
    BY <1>12, <1>pc, <1>goto, <2>1, <2>2
    DEF LoadUser, Passes, Keeps, InFlight, PastExists, PastRow, PastGet,
        Accepted
  <2>3. CASE Goto(r, "revoke") /\ req[r].op = "logout"
    <3>1. Waits(r)
      BY <1>pc, <1>goto, <2>1, <2>3
      DEF Keeps, Waits, PastExists, PastRow, PastGet, Accepted
    <3> QED
      BY <1>pc, <1>move, <2>3, <3>1
  <2> QED
    BY <1>12, <1>refuse, <2>2, <2>3 DEF LoadUser, GotoIf, At
<1>13. ASSUME NEW r \in Requests, NEW pc \in {"set_bl", "drop", "ok"},
              NEW ttl, Goto(r, pc) \/ Onward(r, pc, ttl),
              req[r].pc \in {"revoke", "set_bl", "drop"}
       PROVE  Shape
  <2>1. req[r].op = "logout"
    BY <1>13 DEF Inductive, Bound
  <2>2. \A s \in Requests :
            /\ req'[s].op = req[s].op /\ req'[s].user = req[s].user
            /\ req'[s].code = req[s].code /\ req'[s].conn = req[s].conn
            /\ req'[s].late = req[s].late
            /\ req'[s].pc = IF s = r THEN pc ELSE req[s].pc
    BY <1>13, <1>t DEF Goto, Onward, TypeOK, ReqState
  <2>3. \A s \in Requests : Keeps(s) /\ Waits(s)
    BY <1>13, <2>1, <2>2
    DEF Keeps, Waits, PastExists, PastRow, PastGet, Accepted
  <2>4. Quiet({})
    BY <2>3 DEF Quiet
  <2> QED
    BY <2>4
<1>14. ASSUME NEW r \in Requests,
              SkipRevoke(r) \/ ReadExpiry(r) \/ Revoke(r) \/ DropSession(r)
       PROVE  Shape
  BY <1>13, <1>14 DEF SkipRevoke, ReadExpiry, Revoke, DropSession, At
<1>15. ASSUME NEW r \in Requests, RedisError(r) PROVE Shape
  BY <1>13, <1>15, <1>refuse DEF RedisError
<1>16. ASSUME NEW r \in Requests, Leave(r) PROVE Shape
  BY <1>16, <1>refuse DEF Leave, Refuse
<1>17. ASSUME NEW u \in Users, NEW a \in Account, SetAccount(u, a)
       PROVE  Shape
  <2>1. \A s \in Requests :
            /\ req'[s].op = req[s].op /\ req'[s].user = req[s].user
            /\ req'[s].code = req[s].code /\ req'[s].conn = req[s].conn
            /\ req'[s].pc = req[s].pc
            /\ req'[s].late = IF a = "active" /\ req[s].user = u
                              THEN req[s].late \ {"off"} ELSE req[s].late
    BY <1>17, <1>t DEF SetAccount, TypeOK, ReqState
  <2>2. account'[u] = a
    BY <1>17, <1>t DEF SetAccount, TypeOK
  <2>3. Quiet({})
    BY <2>1, <2>2 DEF Quiet, Keeps, Waits, PastExists, PastRow, PastGet
  <2> QED
    BY <2>3
<1>18. ASSUME UNCHANGED req PROVE Shape
  BY <1>18, SameIsQuiet
<1>19. CASE \E r \in Requests : RequestStep(r)
  BY <1>1, <1>2, <1>3, <1>4, <1>5, <1>6, <1>7, <1>8, <1>9, <1>10, <1>11,
     <1>12, <1>14, <1>15, <1>16, <1>19
  DEF RequestStep
<1> QED
  BY <1>17, <1>18, <1>19 DEF Next, vars, IssueCode, Discard, Tick

(* What Revocation asks of a request that is lapsed, from the invariant.   *)
LEMMA LapsedTruth ==
    ASSUME Inductive, NEW r \in Requests
    PROVE  /\ InFlight(r) => req[r].user \in Users
           /\ ~InFlight(r) => req[r] = Idle
           /\ Idle.op = "none" /\ Idle.pc = "idle"
           /\ Idle.late = {} /\ Idle.code = None
           /\ req[r].pc # "idle" => InFlight(r)
           /\ InFlight(r) =>
                  req[r].op \in {"exchange", "refresh", "call", "logout"}
           /\ "shut" \in req[r].late =>
                  /\ req[r].op \in {"call", "logout"} /\ req[r].conn
                  /\ ~(session[req[r].user] > 0)
                  /\ ~PastExists(r) /\ InFlight(r)
           /\ "off" \in req[r].late =>
                  /\ account[req[r].user] # "active"
                  /\ ~PastRow(r) /\ InFlight(r)
           /\ "spent" \in req[r].late =>
                  /\ req[r].code \in Codes /\ code[req[r].code].used
                  /\ ~PastGet(r) /\ InFlight(r)
<1>1. Idle.op = "none" /\ Idle.late = {} /\ Idle.code = None /\ Idle.pc = "idle"
  BY DEF Idle
<1>2. "shut" \in req[r].late => req[r].user \in Users /\ session[req[r].user] = 0
  BY <1>1 DEF Inductive, ShutOut, Bound, InFlight
<1>3. InFlight(r) <=> req[r].pc # "idle"
  BY DEF InFlight
<1>4. req[r].late # {} => InFlight(r)
  BY <1>1 DEF Inductive, Bound
<1>5. InFlight(r) => req[r].op \in {"exchange", "refresh", "call", "logout"}
  BY DEF Inductive, Bound, TypeOK, ReqState, Ops
<1> QED
  BY <1>1, <1>2, <1>3, <1>4, <1>5
  DEF Inductive, Bound, ShutOut, SwitchedOff, Spent, PastExists, PastRow,
      PastGet, Accepted

(* The same after the step.                                                *)
LEMMA LapsedTruthAfter ==
    ASSUME Inductive', NEW r \in Requests
    PROVE  /\ "shut" \in req'[r].late =>
                  ~(session'[req'[r].user] > 0) /\ ~PastExists(r)'
           /\ "off" \in req'[r].late =>
                  account'[req'[r].user] # "active" /\ ~PastRow(r)'
           /\ "spent" \in req'[r].late =>
                  code'[req'[r].code].used /\ ~PastGet(r)'
BY DEF Inductive, ShutOut, SwitchedOff, Spent, PastExists, PastRow, PastGet,
       Accepted

(* The sessions: requests move, end, and come; the rest changes freely.    *)
LEMMA SessionsChange ==
    ASSUME Inductive, Inductive', NEW over \in SUBSET Requests,
           \A s \in over : req'[s] = Idle,
           \A s \in Requests \ over : Keeps(s) /\ (PastExists(s)' <=> PastExists(s))
    PROVE  Sessions!Change(over)
<1> DEFINE Needs(r) == IF req[r].op \in {"call", "logout"} /\ req[r].conn
                       THEN req[r].user ELSE None
<1>1. \A r \in Requests : Needs(r)' = IF r \in over THEN None ELSE Needs(r)
  BY LapsedTruth DEF Keeps
<1>2. ASSUME NEW r \in Requests
      PROVE  "shut" \in req'[r].late <=>
                 /\ r \notin over /\ "shut" \in req[r].late
                 /\ Needs(r) \notin {u \in Users : session'[u] > 0}
  <2>1. CASE r \in over
    BY <2>1, LapsedTruth
  <2>2. CASE r \notin over
    <3>1. Keeps(r)
      BY <2>2
    <3>2. "shut" \in req'[r].late => ~(session'[req[r].user] > 0)
      BY <3>1, LapsedTruthAfter DEF Keeps
    <3>3. "shut" \in req[r].late => Needs(r) = req[r].user /\ Needs(r) \in Users
      BY LapsedTruth
    <3> QED
      BY <2>2, <3>1, <3>2, <3>3 DEF Keeps
  <2> QED
    BY <2>1, <2>2
<1>3. \A r \in Requests : PastExists(r)' <=> r \notin over /\ PastExists(r)
  BY LapsedTruth DEF PastExists
<1> QED
  BY <1>1, <1>2, <1>3 DEF Sessions!Change

LEMMA SessionsStep ==
    ASSUME Inductive, Inductive', [Next]_vars
    PROVE  Sessions!RevocationNext
<1>1. ASSUME NEW over \in SUBSET Requests, Quiet(over)
      PROVE  Sessions!RevocationNext
  BY <1>1, SessionsChange DEF Quiet, Waits, Sessions!RevocationNext
<1>2. ASSUME NEW r \in Requests, Passes(r)
      PROVE  Sessions!RevocationNext
  <2>1. CASE PastExists(r)' <=> PastExists(r)
    <3>1. Sessions!Change({})
      BY <1>2, <2>1, SessionsChange DEF Passes, Waits
    <3> QED
      BY <3>1 DEF Sessions!RevocationNext
  <2>2. CASE PastExists(r)' /\ ~PastExists(r)
    <3>1. /\ req[r].op \in {"call", "logout"} /\ req[r].conn
          /\ req[r].user \in Users
      BY <1>2, <2>2, LapsedTruth DEF Passes, Keeps, PastExists
    <3>2. "shut" \notin req[r].late
      BY <1>2, <2>2, LapsedTruthAfter DEF Passes
    <3>3. Sessions!Honour(r)
      BY <1>2, <2>2, <3>1, <3>2, NoneAssumption
      DEF Sessions!Honour, Passes, Keeps, Waits
    <3> QED
      BY <3>3 DEF Sessions!RevocationNext
  <2> QED
    BY <1>2, <2>1, <2>2 DEF Passes
<1>3. ASSUME NEW r \in Requests, Comes(r)
      PROVE  Sessions!RevocationNext
  <2>1. ~PastExists(r) /\ ~PastExists(r)'
    BY <1>3, LapsedTruth DEF Comes, PastExists, Accepted
  <2>2. \A s \in Requests \ {r} : PastExists(s)' <=> PastExists(s)
    BY <1>3 DEF Comes, PastExists
  <2>3. /\ req[r].op = "none" /\ req[r].late = {}
        /\ UNCHANGED session
        /\ \A s \in Requests \ {r} : req'[s] = req[s]
    BY <1>3, LapsedTruth DEF Comes
  <2>4. CASE req'[r].op \in {"call", "logout"} /\ req'[r].conn
    <3>1. PICK u \in Users : u = req'[r].user
      BY <1>3 DEF Comes
    <3>2. "shut" \in req'[r].late <=> ~(session[u] > 0)
      <4>1. session[u] \in Nat
        BY TTLs DEF Inductive, TypeOK
      <4> QED
        BY <1>3, <2>4, <3>1, <4>1 DEF Comes
    <3>3. Sessions!Arrive(r, u)
      BY <2>1, <2>2, <2>3, <2>4, <3>1, <3>2 DEF Sessions!Arrive
    <3> QED
      BY <3>3 DEF Sessions!RevocationNext
  <2>5. CASE ~(req'[r].op \in {"call", "logout"} /\ req'[r].conn)
    <3>1. "shut" \notin req'[r].late
      BY <1>3, <2>5 DEF Comes
    <3>2. Sessions!Change({})
      BY <2>1, <2>2, <2>3, <2>5, <3>1, LapsedTruth DEF Sessions!Change
    <3> QED
      BY <3>2 DEF Sessions!RevocationNext
  <2> QED
    BY <2>4, <2>5
<1> QED
  BY <1>1, <1>2, <1>3, StepShapes

(* The accounts, in the same way.                                          *)
LEMMA AccountsChange ==
    ASSUME Inductive, Inductive', NEW over \in SUBSET Requests,
           \A s \in over : req'[s] = Idle,
           \A s \in Requests \ over : Keeps(s) /\ (PastRow(s)' <=> PastRow(s))
    PROVE  Accounts!Change(over)
<1> DEFINE Needs(r) == IF req[r].op \in {"exchange", "refresh", "call"}
                       THEN req[r].user ELSE None
<1>1. \A r \in Requests : Needs(r)' = IF r \in over THEN None ELSE Needs(r)
  BY LapsedTruth DEF Keeps
<1>2. ASSUME NEW r \in Requests
      PROVE  req'[r].op # "logout" /\ "off" \in req'[r].late <=>
                 /\ r \notin over /\ req[r].op # "logout" /\ "off" \in req[r].late
                 /\ Needs(r) \notin {u \in Users : account'[u] = "active"}
  <2>1. CASE r \in over
    BY <2>1, LapsedTruth
  <2>2. CASE r \notin over
    <3>1. Keeps(r)
      BY <2>2
    <3>2. "off" \in req'[r].late => account'[req[r].user] # "active"
      BY <3>1, LapsedTruthAfter DEF Keeps
    <3>3. "off" \in req[r].late /\ req[r].op # "logout" =>
              Needs(r) = req[r].user /\ Needs(r) \in Users
      BY LapsedTruth
    <3> QED
      BY <2>2, <3>1, <3>2, <3>3 DEF Keeps
  <2> QED
    BY <2>1, <2>2
<1>3. \A r \in Requests : PastRow(r)' <=> r \notin over /\ PastRow(r)
  BY LapsedTruth DEF PastRow
<1> QED
  BY <1>1, <1>2, <1>3 DEF Accounts!Change

LEMMA AccountsStep ==
    ASSUME Inductive, Inductive', [Next]_vars
    PROVE  Accounts!RevocationNext
<1>1. ASSUME NEW over \in SUBSET Requests, Quiet(over)
      PROVE  Accounts!RevocationNext
  BY <1>1, AccountsChange DEF Quiet, Waits, Accounts!RevocationNext
<1>2. ASSUME NEW r \in Requests, Passes(r)
      PROVE  Accounts!RevocationNext
  <2>1. CASE PastRow(r)' <=> PastRow(r)
    <3>1. Accounts!Change({})
      BY <1>2, <2>1, AccountsChange DEF Passes, Waits
    <3> QED
      BY <3>1 DEF Accounts!RevocationNext
  <2>2. CASE PastRow(r)' /\ ~PastRow(r)
    <3>1. /\ req[r].op \in {"exchange", "refresh", "call"}
          /\ req[r].user \in Users
      BY <1>2, <2>2, LapsedTruth DEF Passes, Keeps, PastRow
    <3>2. "off" \notin req[r].late
      BY <1>2, <2>2, LapsedTruthAfter DEF Passes
    <3>3. Accounts!Honour(r)
      BY <1>2, <2>2, <3>1, <3>2, NoneAssumption
      DEF Accounts!Honour, Passes, Keeps, Waits
    <3> QED
      BY <3>3 DEF Accounts!RevocationNext
  <2> QED
    BY <1>2, <2>1, <2>2 DEF Passes
<1>3. ASSUME NEW r \in Requests, Comes(r)
      PROVE  Accounts!RevocationNext
  <2>1. ~PastRow(r) /\ ~PastRow(r)'
    BY <1>3, LapsedTruth DEF Comes, PastRow, Accepted
  <2>2. \A s \in Requests \ {r} : PastRow(s)' <=> PastRow(s)
    BY <1>3 DEF Comes, PastRow
  <2>3. /\ req[r].op = "none" /\ req[r].late = {}
        /\ req'[r].op \in {"exchange", "refresh", "call", "logout"}
        /\ UNCHANGED account
        /\ \A s \in Requests \ {r} : req'[s] = req[s]
    BY <1>3, LapsedTruth DEF Comes
  <2>4. CASE req'[r].op # "logout"
    <3>1. PICK u \in Users : u = req'[r].user
      BY <1>3 DEF Comes
    <3>2. "off" \in req'[r].late <=> account[u] # "active"
      BY <1>3, <3>1 DEF Comes
    <3>3. Accounts!Arrive(r, u)
      BY <2>1, <2>2, <2>3, <2>4, <3>1, <3>2 DEF Accounts!Arrive
    <3> QED
      BY <3>3 DEF Accounts!RevocationNext
  <2>5. CASE req'[r].op = "logout"
    <3>1. Accounts!Change({})
      BY <2>1, <2>2, <2>3, <2>5, LapsedTruth DEF Accounts!Change
    <3> QED
      BY <3>1 DEF Accounts!RevocationNext
  <2> QED
    BY <2>4, <2>5
<1> QED
  BY <1>1, <1>2, <1>3, StepShapes

(* The codes; what a slot of a code means may change when nobody needs it. *)
LEMMA UnspentChange ==
    ASSUME Inductive, Inductive', NEW over \in SUBSET Requests,
           \A s \in over : req'[s] = Idle,
           \A s \in Requests \ over : Keeps(s) /\ (PastGet(s)' <=> PastGet(s))
    PROVE  Unspent!Change(over)
<1> DEFINE Needs(r) == req[r].code
<1>1. \A r \in Requests : Needs(r)' = IF r \in over THEN None ELSE Needs(r)
  BY LapsedTruth DEF Keeps
<1>2. ASSUME NEW r \in Requests
      PROVE  "spent" \in req'[r].late <=>
                 /\ r \notin over /\ "spent" \in req[r].late
                 /\ Needs(r) \notin {c \in Codes : ~code'[c].used}
  <2>1. CASE r \in over
    BY <2>1, LapsedTruth
  <2>2. CASE r \notin over
    <3>1. Keeps(r)
      BY <2>2
    <3>2. "spent" \in req'[r].late => code'[req[r].code].used
      BY <3>1, LapsedTruthAfter DEF Keeps
    <3>3. "spent" \in req[r].late => Needs(r) \in Codes
      BY LapsedTruth
    <3> QED
      BY <2>2, <3>1, <3>2, <3>3 DEF Keeps
  <2> QED
    BY <2>1, <2>2
<1>3. \A r \in Requests : PastGet(r)' <=> r \notin over /\ PastGet(r)
  BY LapsedTruth DEF PastGet
<1> QED
  BY <1>1, <1>2, <1>3 DEF Unspent!Change

LEMMA UnspentStep ==
    ASSUME Inductive, Inductive', [Next]_vars
    PROVE  Unspent!RevocationNext
<1>1. ASSUME NEW over \in SUBSET Requests, Quiet(over)
      PROVE  Unspent!RevocationNext
  BY <1>1, UnspentChange DEF Quiet, Waits, Unspent!RevocationNext
<1>2. ASSUME NEW r \in Requests, Passes(r)
      PROVE  Unspent!RevocationNext
  <2>1. CASE PastGet(r)' <=> PastGet(r)
    <3>1. Unspent!Change({})
      BY <1>2, <2>1, UnspentChange DEF Passes, Waits
    <3> QED
      BY <3>1 DEF Unspent!RevocationNext
  <2>2. CASE PastGet(r)' /\ ~PastGet(r)
    <3>1. req[r].code # None
      BY <1>2, <2>2, LapsedTruth DEF Passes, Keeps, PastGet
    <3>2. "spent" \notin req[r].late
      BY <1>2, <2>2, LapsedTruthAfter DEF Passes
    <3>3. Unspent!Honour(r)
      BY <1>2, <2>2, <3>1, <3>2, NoneAssumption
      DEF Unspent!Honour, Passes, Keeps, Waits
    <3> QED
      BY <3>3 DEF Unspent!RevocationNext
  <2> QED
    BY <1>2, <2>1, <2>2 DEF Passes
<1>3. ASSUME NEW r \in Requests, Comes(r)
      PROVE  Unspent!RevocationNext
  <2>1. ~PastGet(r) /\ ~PastGet(r)'
    BY <1>3, LapsedTruth DEF Comes, PastGet, Accepted
  <2>2. \A s \in Requests \ {r} : PastGet(s)' <=> PastGet(s)
    BY <1>3 DEF Comes, PastGet
  <2>3. /\ req[r].code = None /\ req[r].late = {}
        /\ UNCHANGED code
        /\ \A s \in Requests \ {r} : req'[s] = req[s]
    BY <1>3, LapsedTruth DEF Comes
  <2>4. CASE req'[r].code # None
    <3>1. PICK c \in Codes : c = req'[r].code
      BY <1>3, <2>4 DEF Comes
    <3>2. "spent" \in req'[r].late <=> code[c].used
      BY <1>3, <2>4, <3>1 DEF Comes
    <3>3. Unspent!Arrive(r, c)
      BY <2>1, <2>2, <2>3, <2>4, <3>1, <3>2 DEF Unspent!Arrive
    <3> QED
      BY <3>3 DEF Unspent!RevocationNext
  <2>5. CASE req'[r].code = None
    <3>1. "spent" \notin req'[r].late
      BY <1>3, <2>5 DEF Comes
    <3>2. Unspent!Change({})
      BY <2>1, <2>2, <2>3, <2>5, <3>1, LapsedTruth DEF Unspent!Change
    <3> QED
      BY <3>2 DEF Unspent!RevocationNext
  <2> QED
    BY <2>4, <2>5
<1> QED
  BY <1>1, <1>2, <1>3, StepShapes

\* The check of a session lets nobody through who has had none since the
\* request came in, the check of the user's row nobody whose account has not
\* been active since, and the GET of a code no second owner of its tokens once
\* it is spent: in each case AuthSession implements Revocation.
THEOREM ChecksSeeRevocations == Spec => RevocationSpec
<1>1. Init => /\ Sessions!RevocationInit
              /\ Accounts!RevocationInit
              /\ Unspent!RevocationInit
  <2> SUFFICES ASSUME Init
               PROVE  /\ Sessions!RevocationInit
                      /\ Accounts!RevocationInit
                      /\ Unspent!RevocationInit
    OBVIOUS
  <2>1. \A r \in Requests :
            /\ req[r].op = "none" /\ req[r].pc = "idle"
            /\ req[r].late = {} /\ req[r].code = None
    BY DEF Init, Idle
  <2> QED
    BY <2>1 DEF Sessions!RevocationInit, Accounts!RevocationInit,
       Unspent!RevocationInit, PastExists, PastRow, PastGet
<1>2. Inductive /\ Inductive' /\ [Next]_vars =>
          /\ [Sessions!RevocationNext]_(Sessions!revocationVars)
          /\ [Accounts!RevocationNext]_(Accounts!revocationVars)
          /\ [Unspent!RevocationNext]_(Unspent!revocationVars)
  BY SessionsStep, AccountsStep, UnspentStep
<1> QED
  BY <1>1, <1>2, InductiveInvariant, PTL
  DEF Spec, RevocationSpec, Sessions!RevocationSpec, Accounts!RevocationSpec,
      Unspent!RevocationSpec

=============================================================================
