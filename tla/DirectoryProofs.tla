--------------------------- MODULE DirectoryProofs ---------------------------
(* Proofs about Directory, for any users, departments and transactions.      *)
(*                                                                           *)
(*   TypeCorrect              the four components keep their types           *)
(*   InductiveInvariant       what a transaction knows of its target         *)
(*   NobodyIsAppointed        no new administrators                          *)
(*   AdminsFallAlone          only a department's demotion lowers an ADMIN   *)
(*   RejectionsStick          no stale write reinstates an account           *)
(*   FormerAdminsGetNowhere   no request outlives its actor's role           *)
(*   UnlistedLoginsGetNothing no login makes a USER of an unlisted member    *)
(*   HeldRowsKeepMatching     row locks protect what the WHERE asked for     *)
(*   ChecksSeeRevocations     require_admin passes as Revocation allows it   *)
EXTENDS Directory, TLAPS

------------------------------------------------------------------------------
(* Types.                                                                     *)

\* crud/base.py update: a flush writes a row of the right type.
LEMMA WrittenType ==
    ASSUME NEW want \in Want, NEW seen \in Row, NEW now \in Row
    PROVE  Written(want, seen, now) \in Row
BY DEF Written, Column, Want, Row, Roles

LEMMA ConstantTypes ==
    /\ NoRow \in Row
    /\ Nothing \in Want
    /\ \A pc \in {"idle", "refused"} : NoUserTx(pc) \in UserTx
    /\ IdleGroup \in GroupTx
<1>1. NoRow \in Row
  BY DEF NoRow, Set, Row
<1>2. Nothing \in Want
  BY DEF Nothing, Set, Want
<1>3. \A pc \in {"idle", "refused"} : NoUserTx(pc) \in UserTx
  BY <1>1, <1>2 DEF NoUserTx, UserTx, UserOps
<1>4. IdleGroup \in GroupTx
  BY DEF IdleGroup, GroupTx
<1>. QED
  BY <1>1, <1>2, <1>3, <1>4

LEMMA WantedType ==
    ASSUME NEW op \in UserOps, NEW want \in Wanted(op)
    PROVE  want \in Want
BY PatchAssumption DEF UserOps, Wanted, Set, Want, Roles

LEMMA IdleNames ==
    /\ \A pc \in {"idle", "refused"} : NamesUser(NoUserTx(pc))
    /\ NamesGroup(IdleGroup)
BY DEF NamesUser, NoUserTx, UserOps, NamesGroup, IdleGroup

LEMMA InitType == Init => TypeOK
<1>. SUFFICES ASSUME Init PROVE TypeOK
  OBVIOUS
<1>1. \A s \in Seeds : Set(s.role, s.active, s.dept, "no") \in Row
  BY SeedAssumption DEF Set, Row
<1>2. user \in [Users -> Row]
  BY <1>1, ConstantTypes DEF Init
<1>3. group \in [Groups -> GroupRow]
  BY DEF Init, GroupRow, NoGroup
<1>4. utx \in [UserTxs -> UserTx] /\ gtx \in [GroupTxs -> GroupTx]
  BY ConstantTypes DEF Init, IdleUser
<1>5. /\ \A t \in UserTxs : NamesUser(utx[t])
      /\ \A t \in GroupTxs : NamesGroup(gtx[t])
  BY IdleNames DEF Init, IdleUser
<1>. QED
  BY <1>2, <1>3, <1>4, <1>5 DEF TypeOK

\* What TypeOK says of one transaction.
LEMMA UserTxFields ==
    ASSUME TypeOK, NEW t \in UserTxs
    PROVE  /\ utx[t] \in UserTx
           /\ NamesUser(utx[t])
           /\ utx[t].want \in Want
           /\ utx[t].seen \in Row
           /\ utx[t].pc \notin {"idle", "refused"} =>
                  utx[t].target \in Users /\ user[utx[t].target] \in Row
           /\ utx[t].op \in UserOps => user[utx[t].actor] \in Row
<1>1. utx[t] \in UserTx /\ NamesUser(utx[t])
  BY DEF TypeOK
<1>2. \A u \in Users : user[u] \in Row
  BY DEF TypeOK
<1>3. utx[t].want \in Want /\ utx[t].seen \in Row
  BY <1>1 DEF UserTx
<1>. QED
  BY <1>1, <1>2, <1>3 DEF NamesUser

LEMMA GroupTxFields ==
    ASSUME TypeOK, NEW t \in GroupTxs
    PROVE  /\ gtx[t] \in GroupTx
           /\ NamesGroup(gtx[t])
           /\ gtx[t].pc # "idle" =>
                  gtx[t].group \in Groups /\ group[gtx[t].group] \in GroupRow
BY DEF TypeOK, NamesGroup

\* A step of transaction t alone that gives it a record of the right type.
LEMMA UserTxReplaced ==
    ASSUME TypeOK, NEW t \in UserTxs, NEW tx \in UserTx, NamesUser(tx),
           utx' = [utx EXCEPT ![t] = tx], UNCHANGED <<user, group, gtx>>
    PROVE  TypeOK'
BY DEF TypeOK

LEMMA GroupTxReplaced ==
    ASSUME TypeOK, NEW t \in GroupTxs, NEW tx \in GroupTx, NamesGroup(tx),
           gtx' = [gtx EXCEPT ![t] = tx], UNCHANGED <<user, group, utx>>
    PROVE  TypeOK'
BY DEF TypeOK

\* Taking `late' back keeps the type.
LEMMA LateType ==
    ASSUME TypeOK, NEW rows, NEW groups, NEW x \in UserTxs,
           NEW tx, tx = [utx[x] EXCEPT !.late = StillLate(x, rows, groups)]
    PROVE  tx \in UserTx /\ NamesUser(tx)
<1>1. StillLate(x, rows, groups) \in BOOLEAN
  BY DEF StillLate
<1>. QED
  BY <1>1, UserTxFields DEF UserTx, NamesUser

LEMMA CommitType ==
    ASSUME TypeOK, NEW t \in UserTxs, NEW rows \in [Users -> Row],
           Commit(t, rows), UNCHANGED <<group, gtx>>
    PROVE  TypeOK'
<1>1. \A x \in UserTxs : utx'[x] \in UserTx /\ NamesUser(utx'[x])
  BY ConstantTypes, IdleNames, LateType DEF Commit, IdleUser
<1>2. utx' \in [UserTxs -> UserTx]
  BY <1>1 DEF Commit
<1>. QED
  BY <1>1, <1>2 DEF TypeOK, Commit

LEMMA RefuseType ==
    ASSUME TypeOK, NEW t \in UserTxs, Refuse(t), UNCHANGED <<user, group, gtx>>
    PROVE  TypeOK'
BY ConstantTypes, IdleNames, UserTxReplaced DEF Refuse

LEMMA TypeUserStep ==
    ASSUME TypeOK, NEW t \in UserTxs, UserStep(t)
    PROVE  TypeOK'
<1>0. /\ utx[t] \in UserTx /\ NamesUser(utx[t])
      /\ utx[t].want \in Want /\ utx[t].seen \in Row
  BY UserTxFields
<1>1. CASE Authorize(t)
  <2>. DEFINE me == user[utx[t].actor]
              seen == IF utx[t].actor = utx[t].target THEN me ELSE utx[t].seen
              tx == [utx[t] EXCEPT !.pc = "load", !.me = me.role, !.seen = seen]
  <2>1. CASE ~Authorized(utx[t].op, me)
    BY <1>1, <2>1, RefuseType DEF Authorize
  <2>2. CASE Authorized(utx[t].op, me)
    <3>1. me \in Row
      BY <1>0, <1>1, UserTxFields DEF Authorize, NamesUser
    <3>2. me.role \in Roles \cup {"none"} /\ seen \in Row
      BY <3>1, <1>0 DEF Row
    <3>3. tx \in UserTx /\ NamesUser(tx)
      BY <3>2, <1>0, <1>1 DEF Authorize, UserTx, NamesUser
    <3>4. utx' = [utx EXCEPT ![t] = tx]
      BY <1>1, <2>2 DEF Authorize, TypeOK, UserTx
    <3>. QED
      BY <1>1, <3>3, <3>4, UserTxReplaced DEF Authorize
  <2>. QED
    BY <2>1, <2>2
<1>2. CASE Load(t)
  <2>. DEFINE seen == IF utx[t].target = utx[t].actor THEN utx[t].seen
                      ELSE user[utx[t].target]
              tx == [utx[t] EXCEPT !.pc = "write", !.seen = seen]
  <2>1. seen \in Row
    BY <1>0, <1>2, UserTxFields DEF Load
  <2>2. tx \in UserTx /\ NamesUser(tx)
    BY <2>1, <1>0, <1>2 DEF Load, UserTx, NamesUser, UserOps
  <2>3. CASE utx' = [utx EXCEPT ![t].pc = "write", ![t].seen = seen]
    <3>1. utx' = [utx EXCEPT ![t] = tx]
      BY <2>3, <1>0 DEF TypeOK, UserTx
    <3>. QED
      BY <1>2, <2>2, <3>1, UserTxReplaced DEF Load
  <2>4. CASE Refuse(t)
    BY <1>2, <2>4, RefuseType DEF Load
  <2>. QED
    BY <1>2, <2>3, <2>4 DEF Load
<1>3. CASE Write(t)
  <2>2. \A u \in Users :
            Written(utx[t].want, utx[t].seen, user[u]) \in Row
    BY <1>0, WrittenType DEF TypeOK
  <2>3. [user EXCEPT ![utx[t].target] = Written(utx[t].want, utx[t].seen,
                                          user[utx[t].target])]
            \in [Users -> Row]
    BY <2>2 DEF TypeOK
  <2>. QED
    BY <1>3, <2>3, CommitType DEF Write
<1>4. CASE Refused(t)
  BY <1>4, ConstantTypes, IdleNames, UserTxReplaced DEF Refused, IdleUser
<1>5. CASE FindUser(t)
  <2>. DEFINE tx == [utx[t] EXCEPT !.pc = "lookup", !.seen = user[utx[t].target]]
  <2>1. user[utx[t].target] \in Row
    BY <1>5, UserTxFields DEF FindUser
  <2>2. tx \in UserTx /\ NamesUser(tx)
    BY <2>1, <1>0, <1>5 DEF FindUser, UserTx, NamesUser, UserOps
  <2>3. utx' = [utx EXCEPT ![t] = tx]
    BY <1>5, <1>0 DEF FindUser, TypeOK, UserTx
  <2>. QED
    BY <1>5, <2>2, <2>3, UserTxReplaced DEF FindUser
<1>6. CASE LookUpGroup(t)
  <2>. DEFINE role == LoginRole(utx[t].seen, Whitelisted(utx[t].key))
              want == [utx[t].want EXCEPT !.role = role]
              tx == [utx[t] EXCEPT !.pc = "write", !.want = want]
  <2>1. role \in {"user", "required", "keep"}
    BY DEF LoginRole
  <2>. HIDE DEF role
  <2>3. want \in Want
    BY <2>1, <1>0 DEF Want, Roles
  <2>. HIDE DEF want
  <2>4. tx \in UserTx /\ NamesUser(tx)
    BY <2>3, <1>0, <1>6 DEF LookUpGroup, UserTx, NamesUser, UserOps
  <2>6. utx' = [utx EXCEPT ![t] = tx]
    BY <1>6, <1>0 DEF LookUpGroup, role, want, TypeOK, UserTx
  <2>. QED
    BY <1>6, <2>4, <2>6, UserTxReplaced DEF LookUpGroup
<1>7. CASE Insert(t)
  <2>1. Written(utx[t].want, NoRow, NoRow) \in Row
    BY <1>0, ConstantTypes, WrittenType
  <2>2. [user EXCEPT ![utx[t].target] = Written(utx[t].want, NoRow, NoRow)]
            \in [Users -> Row]
    BY <2>1 DEF TypeOK
  <2>. QED
    BY <1>7, <2>2, CommitType, RefuseType DEF Insert
<1>. QED
  BY <1>1, <1>2, <1>3, <1>4, <1>5, <1>6, <1>7 DEF UserStep

LEMMA EndGroupType ==
    ASSUME TypeOK, NEW t \in GroupTxs, EndGroup(t), UNCHANGED utx,
           user' \in [Users -> Row], group' \in [Groups -> GroupRow]
    PROVE  TypeOK'
BY ConstantTypes, IdleNames DEF TypeOK, EndGroup

LEMMA TypeGroupStep ==
    ASSUME TypeOK, NEW t \in GroupTxs, GroupStep(t)
    PROVE  TypeOK'
<1>0. gtx[t] \in GroupTx /\ NamesGroup(gtx[t])
  BY GroupTxFields
<1>e. EndGroup(t) /\ UNCHANGED <<user, group, utx>> => TypeOK'
  BY EndGroupType DEF TypeOK
<1>1. CASE LoadGroup(t)
  <2>. DEFINE g == group[gtx[t].group]
              tx == [gtx[t] EXCEPT !.pc = "flush", !.seen = g.white]
  <2>1. g.white \in {"on", "off"}
    BY <1>1, GroupTxFields DEF LoadGroup, GroupRow, NoGroup
  <2>2. tx \in GroupTx /\ NamesGroup(tx)
    BY <2>1, <1>0, <1>1 DEF LoadGroup, GroupTx, NamesGroup
  <2>3. CASE gtx' = [gtx EXCEPT ![t].pc = "flush", ![t].seen = g.white]
    <3>1. gtx' = [gtx EXCEPT ![t] = tx]
      BY <2>3, <1>0 DEF TypeOK, GroupTx
    <3>. QED
      BY <1>1, <2>2, <3>1, GroupTxReplaced DEF LoadGroup
  <2>. QED
    BY <1>1, <1>e, <2>3 DEF LoadGroup
<1>2. CASE Create(t)
  <2>. DEFINE pc == IF gtx[t].want = "on" THEN "sync" ELSE "commit"
              tx == [gtx[t] EXCEPT !.wrote = TRUE, !.white = gtx[t].want,
                                   !.pc = pc]
  <2>1. pc \in {"sync", "commit"}
    OBVIOUS
  <2>. HIDE DEF pc
  <2>2. CASE gtx[t].want \in {"on", "off"}
    <3>1. tx \in GroupTx /\ NamesGroup(tx)
      BY <2>1, <2>2, <1>0, <1>2 DEF Create, GroupTx, NamesGroup
    <3>2. CASE gtx' = [gtx EXCEPT ![t].wrote = TRUE, ![t].white = gtx[t].want,
                                  ![t].pc = pc]
      <4>1. gtx' = [gtx EXCEPT ![t] = tx]
        BY <3>2, <1>0 DEF TypeOK, GroupTx
      <4>. QED
        BY <1>2, <3>1, <4>1, GroupTxReplaced DEF Create
    <3>. QED
      BY <1>2, <1>e, <3>2 DEF Create, pc
  <2>. QED
    BY <2>2, <1>0, <1>2 DEF Create, NamesGroup, GroupTx
<1>3. CASE Regroup(t)
  <2>. DEFINE dirty == \/ gtx[t].rename
                       \/ gtx[t].want # "keep" /\ gtx[t].want # gtx[t].seen
              white == Column(gtx[t].want, gtx[t].seen,
                              group[gtx[t].group].white)
              pc == IF white = gtx[t].seen THEN "commit" ELSE "sync"
              tx == [gtx[t] EXCEPT !.wrote = dirty, !.white = white, !.pc = pc]
  <2>1. group[gtx[t].group].white \in {"on", "off"}
    BY <1>3, GroupTxFields DEF Regroup, GroupRow, NoGroup
  <2>2. white \in {"on", "off"} /\ dirty \in BOOLEAN
    BY <2>1, <1>0 DEF Column, GroupTx
  <2>3. pc \in {"commit", "sync"}
    OBVIOUS
  <2>4. gtx' = [gtx EXCEPT ![t].wrote = dirty, ![t].white = white, ![t].pc = pc]
    BY <1>3 DEF Regroup
  <2>. HIDE DEF dirty, white, pc
  <2>5. tx \in GroupTx /\ NamesGroup(tx)
    BY <2>2, <2>3, <1>0, <1>3 DEF Regroup, GroupTx, NamesGroup
  <2>6. gtx' = [gtx EXCEPT ![t] = tx]
    BY <2>4, <1>0 DEF TypeOK, GroupTx
  <2>. QED
    BY <1>3, <2>5, <2>6, GroupTxReplaced DEF Regroup
<1>4. CASE Drop(t)
  <2>1. group' \in [Groups -> GroupRow]
    <3>. DEFINE g == gtx[t].group
                new == [group[g] EXCEPT !.row = "deleted"]
    <3>1. g \in Groups /\ group[g] \in GroupRow
      BY <1>4, GroupTxFields DEF Drop
    <3>2. /\ group[g] = [row |-> group[g].row, white |-> group[g].white]
          /\ group[g].white \in {"on", "off"}
      BY <3>1 DEF GroupRow, NoGroup
    <3>3. new = [row |-> "deleted", white |-> group[g].white]
      BY <3>2
    <3>4. new \in GroupRow
      BY <3>2, <3>3 DEF GroupRow
    <3>5. group' = [group EXCEPT ![g] = new]
      BY <1>4, <3>1 DEF Drop, TypeOK
    <3>. HIDE DEF new, g
    <3>. QED
      BY <3>1, <3>4, <3>5 DEF TypeOK
  <2>. QED
    BY <1>4, <2>1, EndGroupType DEF Drop, TypeOK
<1>5. CASE Sync(t)
  <2>. DEFINE rows == {u \in Users : Matches(gtx[t], user[u])}
              tx == [gtx[t] EXCEPT !.pc = "lock", !.rows = rows]
  <2>1. rows \in SUBSET Users
    OBVIOUS
  <2>2. gtx' = [gtx EXCEPT ![t].pc = "lock", ![t].rows = rows]
    BY <1>5 DEF Sync
  <2>. HIDE DEF rows
  <2>3. tx \in GroupTx /\ NamesGroup(tx)
    BY <2>1, <1>0, <1>5 DEF Sync, GroupTx, NamesGroup
  <2>4. gtx' = [gtx EXCEPT ![t] = tx]
    BY <2>2, <1>0 DEF TypeOK, GroupTx
  <2>. QED
    BY <1>5, <2>3, <2>4, GroupTxReplaced DEF Sync
<1>6. CASE Lock(t)
  <2>. DEFINE rows == {u \in gtx[t].rows : Matches(gtx[t], user[u])}
              tx == [gtx[t] EXCEPT !.pc = "commit", !.rows = rows]
  <2>1. rows \in SUBSET Users
    BY <1>0 DEF GroupTx
  <2>2. gtx' = [gtx EXCEPT ![t].pc = "commit", ![t].rows = rows]
    BY <1>6 DEF Lock
  <2>. HIDE DEF rows
  <2>3. tx \in GroupTx /\ NamesGroup(tx)
    BY <2>1, <1>0, <1>6 DEF Lock, GroupTx, NamesGroup
  <2>4. gtx' = [gtx EXCEPT ![t] = tx]
    BY <2>2, <1>0 DEF TypeOK, GroupTx
  <2>. QED
    BY <1>6, <2>3, <2>4, GroupTxReplaced DEF Lock
<1>7. CASE CommitGroup(t)
  <2>1. user' \in [Users -> Row]
    <3>. DEFINE role == IF gtx[t].white = "on" THEN "user" ELSE "required"
    <3>1. role \in Roles
      BY DEF Roles
    <3>2. user' = [u \in Users |-> IF u \in gtx[t].rows
                                   THEN [user[u] EXCEPT !.role = role]
                                   ELSE user[u]]
      BY <1>7 DEF CommitGroup
    <3>. HIDE DEF role
    <3>. QED
      BY <3>1, <3>2 DEF TypeOK, Row
  <2>2. group' \in [Groups -> GroupRow]
    <3>. DEFINE now == group[gtx[t].group]
                row == IF now.row = "none" THEN "live" ELSE now.row
    <3>1. row \in {"live", "deleted"} /\ gtx[t].white \in {"on", "off"}
      BY <1>0, <1>7, GroupTxFields DEF CommitGroup, GroupRow, NoGroup, GroupTx
    <3>2. [row |-> row, white |-> gtx[t].white] \in GroupRow
      BY <3>1 DEF GroupRow, NoGroup
    <3>. QED
      BY <1>7, <3>2 DEF CommitGroup, TypeOK
  <2>3. \A x \in UserTxs : utx'[x] \in UserTx /\ NamesUser(utx'[x])
    BY <1>7, LateType DEF CommitGroup
  <2>4. utx' \in [UserTxs -> UserTx]
    BY <1>7, <2>3 DEF CommitGroup
  <2>5. /\ gtx' \in [GroupTxs -> GroupTx]
        /\ \A x \in GroupTxs : NamesGroup(gtx'[x])
    BY <1>7, ConstantTypes, IdleNames DEF CommitGroup, EndGroup, TypeOK
  <2>. QED
    BY <2>1, <2>2, <2>3, <2>4, <2>5 DEF TypeOK
<1>. QED
  BY <1>1, <1>2, <1>3, <1>4, <1>5, <1>6, <1>7 DEF GroupStep

LEMMA TypeSubmit ==
    ASSUME TypeOK, NEW t \in UserTxs, NEW op \in UserOps,
           NEW actor \in Users, NEW target \in Users, NEW want \in Wanted(op),
           Submit(t, op, actor, target, want)
    PROVE  TypeOK'
<1>. DEFINE tx == [op |-> op, pc |-> "auth", actor |-> actor, me |-> "none",
                   target |-> target, key |-> None, want |-> want,
                   seen |-> NoRow, late |-> ~Authorized(op, user[actor])]
<1>1. tx \in UserTx
  BY WantedType, ConstantTypes DEF UserTx
<1>2. NamesUser(tx)
  BY DEF NamesUser, UserOps
<1>3. utx' = [utx EXCEPT ![t] = tx]
  BY DEF Submit, Begin
<1>. QED
  BY <1>1, <1>2, <1>3, UserTxReplaced DEF Submit

LEMMA TypeStartLogin ==
    ASSUME TypeOK, NEW t \in UserTxs, NEW u \in Users,
           NEW dept \in Groups \cup {None}, NEW name \in Groups \cup {None},
           StartLogin(t, u, dept, name)
    PROVE  TypeOK'
<1>. DEFINE want == Set("keep", "keep", dept, "keep")
            key == GroupKey(dept, name)
            tx == [op |-> "login", pc |-> "find", actor |-> None, me |-> "none",
                   target |-> u, key |-> key, want |-> want, seen |-> NoRow,
                   late |-> ~Whitelisted(key)]
<1>1. want \in Want /\ key \in Groups \cup {None}
  BY DEF Set, Want, GroupKey
<1>2. utx' = [utx EXCEPT ![t] = tx]
  BY DEF StartLogin, Begin
<1>. HIDE DEF want, key
<1>3. tx \in UserTx
  BY <1>1, ConstantTypes DEF UserTx
<1>4. NamesUser(tx)
  BY <1>1 DEF NamesUser, UserOps
<1>. QED
  BY <1>2, <1>3, <1>4, UserTxReplaced DEF StartLogin

LEMMA TypeSubmitGroup ==
    ASSUME TypeOK, NEW t \in GroupTxs, NEW op \in {"create", "regroup", "drop"},
           NEW actor \in Users, NEW g \in Groups,
           NEW want \in {"on", "off", "keep"}, NEW rename \in BOOLEAN,
           SubmitGroup(t, op, actor, g, want, rename)
    PROVE  TypeOK'
<1>. DEFINE pc == IF op = "create" THEN "flush" ELSE "load"
            tx == [op |-> op, group |-> g, want |-> want, rename |-> rename,
                   pc |-> pc, seen |-> "off", white |-> "off",
                   wrote |-> FALSE, rows |-> {}]
<1>1. pc \in {"flush", "load"}
  OBVIOUS
<1>2. gtx' = [gtx EXCEPT ![t] = tx]
  BY DEF SubmitGroup, BeginGroup
<1>. HIDE DEF pc
<1>3. tx \in GroupTx
  BY <1>1 DEF GroupTx
<1>4. NamesGroup(tx)
  BY DEF SubmitGroup, NamesGroup
<1>. QED
  BY <1>2, <1>3, <1>4, GroupTxReplaced DEF SubmitGroup

LEMMA TypeStep == TypeOK /\ [Next]_vars => TypeOK'
<1>. SUFFICES ASSUME TypeOK, [Next]_vars PROVE TypeOK'
  OBVIOUS
<1>1. CASE UNCHANGED vars
  BY <1>1 DEF vars, TypeOK
<1>2. ASSUME NEW t \in UserTxs, UserStep(t) \/ Abort(t) PROVE TypeOK'
  <2>1. Abort(t) => TypeOK'
    BY ConstantTypes, IdleNames, UserTxReplaced DEF Abort, IdleUser
  <2>. QED
    BY <1>2, <2>1, TypeUserStep
<1>3. ASSUME NEW t \in GroupTxs, GroupStep(t) \/ AbortGroup(t) PROVE TypeOK'
  <2>1. AbortGroup(t) => TypeOK'
    BY EndGroupType DEF AbortGroup, TypeOK
  <2>. QED
    BY <1>3, <2>1, TypeGroupStep
<1>. QED
  BY <1>1, <1>2, <1>3, TypeSubmit, TypeStartLogin, TypeSubmitGroup DEF Next

\* The components keep their types, and a transaction in flight names rows.
THEOREM TypeCorrect == Spec => []TypeOK
<1>1. Init => TypeOK
  BY InitType
<1>2. TypeOK /\ [Next]_vars => TypeOK'
  BY TypeStep
<1>. QED
  BY <1>1, <1>2, PTL DEF Spec

------------------------------------------------------------------------------
(* What a transaction knows of its target.                                    *)

\* A record of utx against the tables: an administrator's request was let in
\* as ADMIN, asks what its operation asks, and has passed the service's
\* checks before it writes; a login sets only the roles a login may set; an
\* administrator's row has not changed its role since it was loaded; and
\* `late' tells the truth.
Vetted(tx) ==
    tx.pc \in {"load", "write"} /\ tx.op \in UserOps \ {"request"} =>
        tx.me = "admin"

Asks(tx) ==
    /\ tx.op \in UserOps => tx.want \in Wanted(tx.op)
    /\ tx.op = "login" => tx.want.active = "keep"
    /\ tx.op = "login" /\ tx.pc = "write" =>
           \/ tx.want.role = "keep"
           \/ /\ tx.want.role \in {"user", "required"}
              /\ tx.seen.role \in {"none", "required"}

Checked(tx) ==
    tx.pc = "write" /\ tx.op \in UserOps =>
        ~Rejects(tx.op, tx.me, tx.want, tx.seen)

HasSeen(tx) ==
    \/ tx.pc \in {"lookup", "write"}
    \/ tx.pc = "load" /\ tx.target = tx.actor

AdminSeen(tx, rows) ==
    HasSeen(tx) /\ IsAdmin(rows[tx.target]) =>
        tx.seen.role = rows[tx.target].role

Listed(dept, groups) ==
    /\ dept # None
    /\ groups[dept].row # "none"
    /\ groups[dept].white = "on"

Outside(tx, rows, groups) ==
    tx.late =>
        /\ tx.op \in UserOps =>
               tx.pc = "auth" /\ ~Authorized(tx.op, rows[tx.actor])
        /\ tx.op = "login" =>
               /\ ~Listed(tx.key, groups)
               /\ tx.pc = "write" => tx.want.role # "user"

Sound(tx, rows, groups) ==
    /\ Vetted(tx)
    /\ Asks(tx)
    /\ Checked(tx)
    /\ AdminSeen(tx, rows)
    /\ Outside(tx, rows, groups)

Inductive ==
    /\ TypeOK
    /\ \A t \in UserTxs : Sound(utx[t], user, group)
    /\ HeldRowsMatch

\* Rows in which nobody has become an administrator, or another kind of one.
NoNewAdmins(rows) ==
    \A u \in Users : IsAdmin(rows[u]) => rows[u].role = user[u].role

LEMMA SoundIdle ==
    ASSUME NEW pc \in {"idle", "refused"}, NEW rows, NEW groups
    PROVE  Sound(NoUserTx(pc), rows, groups)
BY DEF NoUserTx, Sound, Vetted, Asks, Checked, AdminSeen, HasSeen, Outside,
       UserOps

\* A change of the tables by others.
LEMMA SoundKept ==
    ASSUME TypeOK, NEW t \in UserTxs, Sound(utx[t], user, group),
           NEW rows, NEW groups, NoNewAdmins(rows),
           NEW tx, tx = [utx[t] EXCEPT !.late = StillLate(t, rows, groups)]
    PROVE  Sound(tx, rows, groups)
<1>0. utx[t] \in UserTx /\ NamesUser(utx[t])
  BY UserTxFields
<1>1. /\ tx.op = utx[t].op /\ tx.pc = utx[t].pc /\ tx.me = utx[t].me
      /\ tx.actor = utx[t].actor /\ tx.target = utx[t].target
      /\ tx.want = utx[t].want /\ tx.seen = utx[t].seen
      /\ tx.late = StillLate(t, rows, groups)
  BY <1>0 DEF UserTx
<1>2. Vetted(tx) /\ Asks(tx) /\ Checked(tx)
  BY <1>1 DEF Sound, Vetted, Asks, Checked
<1>3. AdminSeen(tx, rows)
  <2>1. HasSeen(utx[t]) => utx[t].target \in Users
    BY <1>0 DEF HasSeen, NamesUser
  <2>2. HasSeen(utx[t]) /\ IsAdmin(rows[utx[t].target]) =>
            rows[utx[t].target].role = user[utx[t].target].role
    BY <2>1 DEF NoNewAdmins
  <2>3. HasSeen(tx) <=> HasSeen(utx[t])
    BY <1>1 DEF HasSeen
  <2>. QED
    BY <1>1, <2>2, <2>3 DEF Sound, AdminSeen, IsAdmin
<1>4. Outside(tx, rows, groups)
  BY <1>1 DEF Sound, Outside, StillLate, Listed
<1>. QED
  BY <1>2, <1>3, <1>4 DEF Sound

LEMMA SoundCommit ==
    ASSUME Inductive, NEW t \in UserTxs, NEW rows, NoNewAdmins(rows),
           Commit(t, rows), UNCHANGED group
    PROVE  \A x \in UserTxs : Sound(utx'[x], user', group')
<1>. TAKE x \in UserTxs
<1>1. CASE x = t
  BY <1>1, SoundIdle DEF Commit, IdleUser
<1>2. CASE x # t
  BY <1>2, SoundKept DEF Commit, Inductive
<1>. QED
  BY <1>1, <1>2

\* The role that a write leaves behind.
LEMMA RoleWritten ==
    ASSUME Inductive, NEW t \in UserTxs, utx[t].pc = "write",
           utx[t].seen.role # "none"
    PROVE  LET u == utx[t].target
               role == Written(utx[t].want, utx[t].seen, user[u]).role IN
           \/ role = user[u].role
           \/ ~IsAdmin(user[u]) /\ role \notin AdminRoles
<1>. DEFINE u == utx[t].target
            want == utx[t].want
            seen == utx[t].seen
<1>0. /\ utx[t] \in UserTx /\ NamesUser(utx[t])
      /\ want \in Want /\ seen \in Row /\ user[u] \in Row
  BY UserTxFields DEF Inductive
<1>1. Sound(utx[t], user, group)
  BY DEF Inductive
<1>2. Written(want, seen, user[u]).role = Column(want.role, seen.role, user[u].role)
  BY DEF Written
<1>3. CASE want.role = "keep" \/ want.role = seen.role
  BY <1>2, <1>3 DEF Column
<1>4. CASE want.role # "keep" /\ want.role # seen.role
  <2>1. Column(want.role, seen.role, user[u].role) = want.role
    BY <1>4 DEF Column
  <2>2. IsAdmin(user[u]) => seen.role \in AdminRoles
    BY <1>1 DEF Sound, AdminSeen, HasSeen, IsAdmin
  <2>3. utx[t].op \in UserOps \cup {"login"}
    BY <1>0 DEF NamesUser, UserTx
  <2>4. CASE utx[t].op = "login"
    BY <1>1, <1>2, <1>4, <2>1, <2>2, <2>4 DEF Sound, Asks, AdminRoles
  <2>5. CASE utx[t].op \in UserOps
    <3>1. ~Rejects(utx[t].op, utx[t].me, want, seen) /\ want \in Wanted(utx[t].op)
      BY <1>1, <2>5 DEF Sound, Checked, Asks
    <3>2. CASE utx[t].op = "update"
      <4>1. utx[t].me = "admin"
        BY <1>1, <3>2 DEF Sound, Vetted, UserOps
      <4>2. want.role \notin AdminRoles /\ seen.role \notin AdminRoles
        BY <3>1, <3>2, <4>1, <1>4 DEF Rejects
      <4>. QED
        BY <1>2, <2>1, <2>2, <4>2
    <3>3. CASE utx[t].op = "approve"
      <4>1. want.role = "user" /\ seen.role = "requested"
        BY <3>1, <3>3 DEF Rejects, Wanted, Set
      <4>. QED
        BY <1>2, <2>1, <2>2, <4>1 DEF AdminRoles
    <3>4. CASE utx[t].op = "request"
      <4>1. want.role = "requested" /\ seen.role = "required"
        BY <3>1, <3>4 DEF Rejects, Wanted, Set
      <4>. QED
        BY <1>2, <2>1, <2>2, <4>1 DEF AdminRoles
    <3>5. CASE utx[t].op \in {"reject", "delete"}
      <4>1. want.role = "keep"
        BY <3>1, <3>5 DEF Wanted, Set
      <4>. QED
        BY <1>4, <4>1
    <3>. QED
      BY <2>5, <3>2, <3>3, <3>4, <3>5 DEF UserOps
  <2>. QED
    BY <2>3, <2>4, <2>5
<1>. QED
  BY <1>3, <1>4

\* What the three steps that change users do to it.
LEMMA WriteRows ==
    ASSUME Inductive, NEW t \in UserTxs, Write(t)
    PROVE  /\ utx[t].target \in Users
           /\ \A u \in Users : u # utx[t].target => user'[u] = user[u]
           /\ user'[utx[t].target] =
                  Written(utx[t].want, utx[t].seen, user[utx[t].target])
BY UserTxFields DEF Inductive, TypeOK, Write, Commit

LEMMA InsertRows ==
    ASSUME Inductive, NEW t \in UserTxs, Insert(t)
    PROVE  /\ utx[t].target \in Users
           /\ \A u \in Users : u # utx[t].target => user'[u] = user[u]
           /\ \/ user'[utx[t].target] = user[utx[t].target]
              \/ /\ user[utx[t].target].role = "none"
                 /\ user'[utx[t].target].role \in {"user", "required", "none"}
                 /\ utx[t].op = "login"
                 /\ user'[utx[t].target].role \in {utx[t].want.role, "none"}
<1>. DEFINE u == utx[t].target
            want == utx[t].want
<1>0. /\ NamesUser(utx[t]) /\ utx[t] \in UserTx /\ u \in Users
      /\ Sound(utx[t], user, group)
  BY UserTxFields DEF Inductive, Insert
<1>1. \A x \in Users : x # u => user'[x] = user[x]
  BY DEF Inductive, TypeOK, Insert, Commit
<1>2. utx[t].op = "login"
  <2>1. CASE utx[t].op \in UserOps
    BY <1>0, <2>1 DEF Insert, Sound, Checked, Rejects, Present
  <2>. QED
    BY <1>0, <2>1 DEF Insert, NamesUser, UserTx
<1>3. CASE user[u].role = "none"
  <2>1. user'[u] = Written(want, NoRow, NoRow)
    BY <1>0, <1>3 DEF Inductive, TypeOK, Insert, Commit
  <2>2. user'[u].role = Column(want.role, "none", "none")
    BY <2>1 DEF Written, NoRow, Set
  <2>3. want.role \in {"keep", "user", "required"}
    BY <1>0, <1>2 DEF Insert, Sound, Asks
  <2>. QED
    BY <1>0, <1>1, <1>2, <1>3, <2>2, <2>3 DEF Column
<1>4. CASE user[u].role # "none"
  BY <1>0, <1>1, <1>4 DEF Insert
<1>. QED
  BY <1>3, <1>4

LEMMA CommitRows ==
    ASSUME Inductive, NEW t \in GroupTxs, CommitGroup(t)
    PROVE  /\ \A u \in Users : u \notin gtx[t].rows => user'[u] = user[u]
           /\ \A u \in gtx[t].rows :
                  /\ u \in Users
                  /\ Matches(gtx[t], user[u])
                  /\ user'[u].active = user[u].active
                  /\ user'[u].role =
                        IF gtx[t].white = "on" THEN "user" ELSE "required"
<1>1. \A u \in gtx[t].rows : u \in Users /\ Matches(gtx[t], user[u])
  BY GroupTxFields DEF Inductive, HeldRowsMatch, CommitGroup, GroupTx
<1>. DEFINE role == IF gtx[t].white = "on" THEN "user" ELSE "required"
<1>2. user' = [u \in Users |-> IF u \in gtx[t].rows
                               THEN [user[u] EXCEPT !.role = role] ELSE user[u]]
  BY DEF CommitGroup
<1>. HIDE DEF role
<1>3. \A u \in gtx[t].rows : user'[u].active = user[u].active /\ user'[u].role = role
  BY <1>1, <1>2 DEF Inductive, TypeOK, Row
<1>. QED
  BY <1>1, <1>2, <1>3 DEF role

LEMMA WriteAppointsNobody ==
    ASSUME Inductive, NEW t \in UserTxs, Write(t) \/ Insert(t)
    PROVE  NoNewAdmins(user')
<1>1. CASE Write(t)
  BY <1>1, WriteRows, RoleWritten DEF Write, NoNewAdmins, IsAdmin
<1>2. CASE Insert(t)
  BY <1>2, InsertRows DEF NoNewAdmins, IsAdmin, AdminRoles
<1>. QED
  BY <1>1, <1>2

LEMMA CommitAppointsNobody ==
    ASSUME Inductive, NEW t \in GroupTxs, CommitGroup(t)
    PROVE  NoNewAdmins(user')
BY CommitRows DEF NoNewAdmins, IsAdmin, AdminRoles

------------------------------------------------------------------------------
(* The steps of a transaction keep what it knows.                             *)

LEMMA OthersSound ==
    ASSUME Inductive, NEW t \in UserTxs, NEW tx,
           utx' = [utx EXCEPT ![t] = tx], UNCHANGED <<user, group>>,
           Sound(tx, user, group)
    PROVE  \A x \in UserTxs : Sound(utx'[x], user', group')
BY DEF Inductive, TypeOK

LEMMA RefuseSound ==
    ASSUME Inductive, NEW t \in UserTxs, Refuse(t), UNCHANGED <<user, group>>
    PROVE  \A x \in UserTxs : Sound(utx'[x], user', group')
BY SoundIdle, OthersSound DEF Refuse

LEMMA SoundUserStep ==
    ASSUME Inductive, NEW t \in UserTxs, UserStep(t)
    PROVE  \A x \in UserTxs : Sound(utx'[x], user', group')
<1>0. /\ utx[t] \in UserTx /\ NamesUser(utx[t]) /\ Sound(utx[t], user, group)
      /\ utx[t].want \in Want /\ utx[t].seen \in Row
  BY UserTxFields DEF Inductive
<1>1. CASE Authorize(t)
  <2>. DEFINE me == user[utx[t].actor]
              seen == IF utx[t].actor = utx[t].target THEN me ELSE utx[t].seen
              tx == [utx[t] EXCEPT !.pc = "load", !.me = me.role, !.seen = seen]
  <2>1. CASE Authorized(utx[t].op, me)
    <3>1. utx' = [utx EXCEPT ![t] = tx]
      BY <1>0, <1>1, <2>1 DEF Authorize, Inductive, TypeOK, UserTx
    <3>2. /\ tx.op = utx[t].op /\ tx.pc = "load" /\ tx.me = me.role
          /\ tx.actor = utx[t].actor /\ tx.target = utx[t].target
          /\ tx.want = utx[t].want /\ tx.seen = seen /\ tx.late = utx[t].late
      BY <1>0 DEF UserTx
    <3>3. Vetted(tx)
      BY <3>2, <2>1 DEF Vetted, Authorized, UserOps
    <3>4. Asks(tx) /\ Checked(tx)
      BY <3>2, <1>0, <1>1 DEF Authorize, Sound, Asks, Checked, NamesUser, UserOps
    <3>5. AdminSeen(tx, user)
      BY <3>2 DEF AdminSeen, HasSeen
    <3>6. utx[t].op \in UserOps /\ ~utx[t].late
      BY <1>0, <1>1, <2>1 DEF Authorize, Sound, Outside, NamesUser
    <3>7. Sound(tx, user, group)
      BY <3>2, <3>3, <3>4, <3>5, <3>6 DEF Sound, Outside
    <3>. QED
      BY <1>1, <3>1, <3>7, OthersSound DEF Authorize
  <2>. QED
    BY <1>1, <2>1, RefuseSound DEF Authorize
<1>2. CASE Load(t)
  <2>. DEFINE u == utx[t].target
              seen == IF u = utx[t].actor THEN utx[t].seen ELSE user[u]
              tx == [utx[t] EXCEPT !.pc = "write", !.seen = seen]
  <2>1. CASE Refuse(t)
    BY <1>2, <2>1, RefuseSound DEF Load
  <2>2. CASE /\ ~Rejects(utx[t].op, utx[t].me, utx[t].want, seen)
             /\ utx' = [utx EXCEPT ![t].pc = "write", ![t].seen = seen]
    <3>1. utx' = [utx EXCEPT ![t] = tx]
      BY <1>0, <2>2 DEF Inductive, TypeOK, UserTx
    <3>2. /\ tx.op = utx[t].op /\ tx.pc = "write" /\ tx.me = utx[t].me
          /\ tx.actor = utx[t].actor /\ tx.target = u
          /\ tx.want = utx[t].want /\ tx.seen = seen /\ tx.late = utx[t].late
      BY <1>0 DEF UserTx
    <3>3. utx[t].op \in UserOps /\ utx[t].pc = "load"
      BY <1>0, <1>2 DEF Load, NamesUser
    <3>4. Vetted(tx) /\ Asks(tx) /\ Checked(tx)
      BY <3>2, <3>3, <2>2, <1>0 DEF Sound, Vetted, Asks, Checked, UserOps
    <3>5. AdminSeen(tx, user)
      BY <3>2, <3>3, <1>0 DEF Sound, AdminSeen, HasSeen
    <3>6. Outside(tx, user, group)
      BY <3>2, <3>3, <1>0 DEF Sound, Outside
    <3>7. Sound(tx, user, group)
      BY <3>4, <3>5, <3>6 DEF Sound
    <3>. QED
      BY <1>2, <3>1, <3>7, OthersSound DEF Load
  <2>. QED
    BY <1>2, <2>1, <2>2 DEF Load
<1>3. CASE Write(t)
  BY <1>3, WriteAppointsNobody, SoundCommit DEF Write, Commit
<1>4. CASE Refused(t)
  BY <1>4, SoundIdle, OthersSound DEF Refused, IdleUser
<1>5. CASE FindUser(t)
  <2>. DEFINE tx == [utx[t] EXCEPT !.pc = "lookup", !.seen = user[utx[t].target]]
  <2>1. utx' = [utx EXCEPT ![t] = tx]
    BY <1>0, <1>5 DEF FindUser, Inductive, TypeOK, UserTx
  <2>2. /\ tx.op = utx[t].op /\ tx.pc = "lookup" /\ tx.me = utx[t].me
        /\ tx.target = utx[t].target /\ tx.late = utx[t].late
        /\ tx.want = utx[t].want /\ tx.seen = user[utx[t].target]
    BY <1>0 DEF UserTx
  <2>3. utx[t].op = "login" /\ utx[t].pc = "find"
    BY <1>0, <1>5 DEF FindUser, NamesUser
  <2>4. Sound(tx, user, group)
    BY <2>2, <2>3, <1>0
    DEF Sound, Vetted, Asks, Checked, AdminSeen, HasSeen, Outside, UserOps
  <2>. QED
    BY <1>5, <2>1, <2>4, OthersSound DEF FindUser
<1>6. CASE LookUpGroup(t)
  <2>. DEFINE role == LoginRole(utx[t].seen, Whitelisted(utx[t].key))
              want == [utx[t].want EXCEPT !.role = role]
              tx == [utx[t] EXCEPT !.pc = "write", !.want = want]
  <2>1. utx' = [utx EXCEPT ![t] = tx]
    BY <1>0, <1>6 DEF LookUpGroup, Inductive, TypeOK, UserTx
  <2>2. want.role = role /\ want.active = utx[t].want.active
    BY <1>0 DEF UserTx, Want
  <2>3. /\ role \in {"user", "required", "keep"}
        /\ role # "keep" => utx[t].seen.role \in {"none", "required"}
        /\ role = "user" => Whitelisted(utx[t].key)
    BY DEF LoginRole
  <2>. HIDE DEF role, want
  <2>4. /\ tx.op = utx[t].op /\ tx.pc = "write" /\ tx.target = utx[t].target
        /\ tx.want = want /\ tx.seen = utx[t].seen /\ tx.late = utx[t].late
        /\ tx.key = utx[t].key
    BY <1>0 DEF UserTx
  <2>5. utx[t].op = "login" /\ utx[t].pc = "lookup"
    BY <1>0, <1>6 DEF LookUpGroup, NamesUser
  <2>6. Vetted(tx) /\ Asks(tx) /\ Checked(tx)
    <3>1. tx.op = "login" /\ utx[t].want.active = "keep"
      BY <2>4, <2>5, <1>0 DEF Sound, Asks
    <3>2. Vetted(tx) /\ Checked(tx)
      BY <3>1 DEF Vetted, Checked, UserOps
    <3>3. Asks(tx)
      BY <3>1, <2>2, <2>3, <2>4 DEF Asks, UserOps
    <3>. QED
      BY <3>2, <3>3
  <2>7. AdminSeen(tx, user)
    BY <2>4, <2>5, <1>0 DEF Sound, AdminSeen, HasSeen
  <2>8. Outside(tx, user, group)
    BY <2>2, <2>3, <2>4, <2>5, <1>0
    DEF Sound, Outside, Listed, Whitelisted, UserOps
  <2>9. Sound(tx, user, group)
    BY <2>6, <2>7, <2>8 DEF Sound
  <2>. QED
    BY <1>6, <2>1, <2>9, OthersSound DEF LookUpGroup
<1>7. CASE Insert(t)
  <2>1. CASE Refuse(t) /\ UNCHANGED user
    BY <1>7, <2>1, RefuseSound DEF Insert
  <2>2. CASE Commit(t, user')
    BY <1>7, <2>2, WriteAppointsNobody, SoundCommit DEF Insert
  <2>. QED
    BY <1>7, <2>1, <2>2 DEF Insert, Commit
<1>. QED
  BY <1>1, <1>2, <1>3, <1>4, <1>5, <1>6, <1>7 DEF UserStep

LEMMA SoundSubmit ==
    ASSUME Inductive, NEW t \in UserTxs, NEW op \in UserOps,
           NEW actor \in Users, NEW target \in Users, NEW want \in Wanted(op),
           Submit(t, op, actor, target, want)
    PROVE  \A x \in UserTxs : Sound(utx'[x], user', group')
<1>. DEFINE tx == [op |-> op, pc |-> "auth", actor |-> actor, me |-> "none",
                   target |-> target, key |-> None, want |-> want,
                   seen |-> NoRow, late |-> ~Authorized(op, user[actor])]
<1>1. Sound(tx, user, group)
  BY DEF Sound, Vetted, Asks, Checked, AdminSeen, HasSeen, Outside, UserOps
<1>2. utx' = [utx EXCEPT ![t] = tx]
  BY DEF Submit, Begin
<1>. QED
  BY <1>1, <1>2, OthersSound DEF Submit

LEMMA SoundStartLogin ==
    ASSUME Inductive, NEW t \in UserTxs, NEW u \in Users,
           NEW dept \in Groups \cup {None}, NEW name \in Groups \cup {None},
           StartLogin(t, u, dept, name)
    PROVE  \A x \in UserTxs : Sound(utx'[x], user', group')
<1>. DEFINE want == Set("keep", "keep", dept, "keep")
            key == GroupKey(dept, name)
            tx == [op |-> "login", pc |-> "find", actor |-> None, me |-> "none",
                   target |-> u, key |-> key, want |-> want, seen |-> NoRow,
                   late |-> ~Whitelisted(key)]
<1>1. want.active = "keep"
  BY DEF Set
<1>2. utx' = [utx EXCEPT ![t] = tx]
  BY DEF StartLogin, Begin
<1>. HIDE DEF want, key
<1>3. Sound(tx, user, group)
  BY <1>1 DEF Sound, Vetted, Asks, Checked, AdminSeen, HasSeen, Outside,
              UserOps, Listed, Whitelisted
<1>. QED
  BY <1>2, <1>3, OthersSound DEF StartLogin

LEMMA SoundGroupStep ==
    ASSUME Inductive, NEW t \in GroupTxs, GroupStep(t)
    PROVE  \A x \in UserTxs : Sound(utx'[x], user', group')
<1>1. CASE CommitGroup(t)
  <2>1. \A x \in UserTxs :
            utx'[x] = [utx[x] EXCEPT !.late = StillLate(x, user', group')]
    BY <1>1 DEF CommitGroup
  <2>. QED
    BY <1>1, <2>1, CommitAppointsNobody, SoundKept DEF Inductive
<1>2. CASE Drop(t)
  <2>1. \A g \in Groups :
            group'[g].white = group[g].white
                /\ (group[g].row = "none" => group[g].white = "off")
    BY <1>2 DEF Drop, Inductive, TypeOK, GroupRow, NoGroup
  <2>2. \A dept \in Groups \cup {None} :
            Listed(dept, group') => Listed(dept, group)
    BY <2>1 DEF Listed
  <2>3. UNCHANGED <<user, utx>>
    BY <1>2 DEF Drop
  <2>. TAKE x \in UserTxs
  <2>4. Sound(utx[x], user, group) /\ utx[x].key \in Groups \cup {None}
    BY DEF Inductive, TypeOK, UserTx
  <2>5. Outside(utx[x], user, group')
    BY <2>2, <2>4 DEF Sound, Outside
  <2>. QED
    BY <2>3, <2>4, <2>5 DEF Sound
<1>3. CASE UNCHANGED <<user, group, utx>>
  BY <1>3 DEF Inductive
<1>. QED
  BY <1>1, <1>2, <1>3
  DEF GroupStep, LoadGroup, Create, Regroup, Sync, Lock

------------------------------------------------------------------------------
(* Row locks.                                                                 *)

\* A flush without a changed column leaves the row as it is.
LEMMA CleanKeeps ==
    ASSUME NEW want \in Want, NEW seen \in Row, NEW now \in Row,
           Clean(want, seen)
    PROVE  Written(want, seen, now) = now
<1>1. /\ Column(want.role, seen.role, seen.role) = seen.role
      /\ Column(want.active, seen.active, seen.active) = seen.active
      /\ Column(want.dept, seen.dept, seen.dept) = seen.dept
      /\ Column(want.gone, seen.gone, seen.gone) = seen.gone
  BY DEF Clean, Written, Row
<1>2. /\ Column(want.role, seen.role, now.role) = now.role
      /\ Column(want.active, seen.active, now.active) = now.active
      /\ Column(want.dept, seen.dept, now.dept) = now.dept
      /\ Column(want.gone, seen.gone, now.gone) = now.gone
  BY <1>1 DEF Column
<1>3. Written(want, seen, now) =
          [role |-> now.role, active |-> now.active,
           dept |-> now.dept, gone |-> now.gone]
  BY <1>2 DEF Written
<1>. QED
  BY <1>3 DEF Row

\* Rows that nobody changed, under transactions that nobody changed.
LEMMA HeldKept ==
    ASSUME Inductive, UNCHANGED gtx,
           \A u \in Users : Locked(u) => user'[u] = user[u]
    PROVE  HeldRowsMatch'
<1>1. \A t \in GroupTxs : gtx[t].rows \subseteq Users
  BY GroupTxFields DEF Inductive, GroupTx
<1>. SUFFICES ASSUME NEW t \in GroupTxs, gtx'[t].pc = "commit",
                     NEW u \in gtx'[t].rows
              PROVE  /\ Matches(gtx'[t], user'[u])
                     /\ \A x \in GroupTxs \ {t} :
                            gtx'[x].pc = "commit" => u \notin gtx'[x].rows
  BY DEF HeldRowsMatch
<1>2. gtx[t].pc = "commit" /\ u \in gtx[t].rows /\ u \in Users
  BY <1>1
<1>3. user'[u] = user[u]
  BY <1>2 DEF Locked
<1>. QED
  BY <1>2, <1>3 DEF Inductive, HeldRowsMatch

LEMMA HeldUserStep ==
    ASSUME Inductive, NEW t \in UserTxs, UserStep(t)
    PROVE  HeldRowsMatch'
<1>1. CASE Write(t)
  <2>1. /\ utx[t].want \in Want /\ utx[t].seen \in Row
        /\ user[utx[t].target] \in Row
    BY <1>1, UserTxFields DEF Write, Inductive
  <2>2. Locked(utx[t].target) => user'[utx[t].target] = user[utx[t].target]
    BY <1>1, <2>1, WriteRows, CleanKeeps DEF Write
  <2>. QED
    BY <1>1, <2>2, WriteRows, HeldKept DEF Write
<1>2. CASE Insert(t)
  <2>1. \A u \in Users : Locked(u) => user[u].role # "none"
    BY DEF Inductive, HeldRowsMatch, Locked, Matches
  <2>. QED
    BY <1>2, <2>1, InsertRows, HeldKept DEF Insert
<1>3. CASE UNCHANGED <<user, gtx>>
  BY <1>3, HeldKept
<1>. QED
  BY <1>1, <1>2, <1>3
  DEF UserStep, Authorize, Load, Refused, FindUser, LookUpGroup

\* A step of group transaction t that leaves users alone.
LEMMA HeldReplaced ==
    ASSUME Inductive, NEW t \in GroupTxs, NEW tx \in GroupTx,
           gtx' = [gtx EXCEPT ![t] = tx], UNCHANGED user,
           tx.pc = "commit" =>
               \A u \in tx.rows : Matches(tx, user[u]) /\ ~Locked(u)
    PROVE  HeldRowsMatch'
<1>. SUFFICES ASSUME NEW s \in GroupTxs, gtx'[s].pc = "commit",
                     NEW u \in gtx'[s].rows
              PROVE  /\ Matches(gtx'[s], user'[u])
                     /\ \A x \in GroupTxs \ {s} :
                            gtx'[x].pc = "commit" => u \notin gtx'[x].rows
  BY DEF HeldRowsMatch
<1>1. gtx'[t] = tx /\ \A x \in GroupTxs \ {t} : gtx'[x] = gtx[x]
  BY DEF Inductive, TypeOK
<1>2. CASE s = t
  BY <1>1, <1>2 DEF Locked
<1>3. CASE s # t
  <2>1. Matches(gtx'[s], user'[u])
    BY <1>1, <1>3 DEF Inductive, HeldRowsMatch
  <2>2. Locked(u)
    BY <1>1, <1>3 DEF Locked
  <2>3. ASSUME NEW x \in GroupTxs \ {s}, gtx'[x].pc = "commit"
        PROVE  u \notin gtx'[x].rows
    BY <1>1, <1>3, <2>2, <2>3 DEF Inductive, HeldRowsMatch
  <2>. QED
    BY <2>1, <2>3
<1>. QED
  BY <1>2, <1>3

LEMMA HeldEnd ==
    ASSUME Inductive, NEW t \in GroupTxs, EndGroup(t), UNCHANGED user
    PROVE  HeldRowsMatch'
<1>1. IdleGroup \in GroupTx /\ IdleGroup.pc # "commit"
  BY ConstantTypes DEF IdleGroup
<1>. QED
  BY <1>1, HeldReplaced DEF EndGroup

LEMMA HeldGroupStep ==
    ASSUME Inductive, NEW t \in GroupTxs, GroupStep(t), TypeOK'
    PROVE  HeldRowsMatch'
<1>0. gtx[t] \in GroupTx /\ NamesGroup(gtx[t]) /\ gtx'[t] \in GroupTx
  BY GroupTxFields DEF Inductive, TypeOK
<1>1. CASE LoadGroup(t) \/ Create(t) \/ Regroup(t) \/ Sync(t)
  <2>1. CASE EndGroup(t) /\ UNCHANGED user
    BY <2>1, HeldEnd
  <2>2. CASE ~EndGroup(t)
    <3>1. gtx' = [gtx EXCEPT ![t] = gtx'[t]] /\ UNCHANGED user
      BY <1>1, <2>2 DEF LoadGroup, Create, Regroup, Sync, Inductive, TypeOK
    <3>2. gtx'[t].pc # "lock" => gtx'[t].rows = {}
      BY <1>0, <1>1, <2>2
      DEF LoadGroup, Create, Regroup, Sync, Inductive, TypeOK, GroupTx,
          NamesGroup
    <3>. QED
      BY <1>0, <3>1, <3>2, HeldReplaced
  <2>. QED
    BY <1>1, <2>1, <2>2 DEF LoadGroup, Create, Regroup, Sync
<1>2. CASE Drop(t)
  BY <1>2, HeldEnd DEF Drop
<1>3. CASE Lock(t)
  <2>. DEFINE rows == {u \in gtx[t].rows : Matches(gtx[t], user[u])}
  <2>1. gtx' = [gtx EXCEPT ![t].pc = "commit", ![t].rows = rows]
    BY <1>3 DEF Lock
  <2>2. \A u \in rows : Matches(gtx[t], user[u]) /\ ~Locked(u)
    BY <1>3 DEF Lock
  <2>. HIDE DEF rows
  <2>3. /\ gtx' = [gtx EXCEPT ![t] = gtx'[t]]
        /\ gtx'[t].rows = rows
        /\ gtx'[t].group = gtx[t].group /\ gtx'[t].white = gtx[t].white
    <3>1. gtx \in [GroupTxs -> GroupTx]
      BY DEF Inductive, TypeOK
    <3>2. gtx[t] \in GroupTx
      BY <3>1
    <3>3. gtx'[t] = [gtx[t] EXCEPT !.pc = "commit", !.rows = rows]
      BY <2>1, <3>1
    <3>4. gtx' = [gtx EXCEPT ![t] = gtx'[t]]
      BY <2>1, <3>1
    <3>. QED
      BY <3>2, <3>3, <3>4 DEF GroupTx
  <2>4. \A u \in gtx'[t].rows : Matches(gtx'[t], user[u]) /\ ~Locked(u)
    BY <2>2, <2>3 DEF Matches
  <2>. QED
    BY <1>0, <1>3, <2>3, <2>4, HeldReplaced DEF Lock
<1>4. CASE CommitGroup(t)
  <2>1. \A x \in GroupTxs : x # t => gtx'[x] = gtx[x]
    BY <1>4 DEF CommitGroup, EndGroup, Inductive, TypeOK
  <2>2. gtx'[t].pc = "idle"
    BY <1>4 DEF CommitGroup, EndGroup, IdleGroup, Inductive, TypeOK
  <2>3. \A x \in GroupTxs, u \in Users :
            gtx'[x].pc = "commit" /\ u \in gtx'[x].rows => user'[u] = user[u]
    BY <1>4, <2>1, <2>2, CommitRows DEF CommitGroup, Inductive, HeldRowsMatch
  <2>4. \A x \in GroupTxs : gtx[x].rows \subseteq Users
    BY GroupTxFields DEF Inductive, GroupTx
  <2>. QED
    BY <2>1, <2>2, <2>3, <2>4 DEF Inductive, HeldRowsMatch
<1>. QED
  BY <1>1, <1>2, <1>3, <1>4 DEF GroupStep

------------------------------------------------------------------------------
(* The invariant and the theorems.                                            *)

LEMMA InductiveStep == Inductive /\ [Next]_vars => Inductive'
<1>. SUFFICES ASSUME Inductive, [Next]_vars PROVE Inductive'
  OBVIOUS
<1>0. TypeOK'
  BY TypeStep DEF Inductive
<1>1. CASE UNCHANGED vars
  BY <1>0, <1>1, HeldKept DEF Inductive, vars
<1>2. ASSUME NEW t \in UserTxs, UserStep(t) PROVE Inductive'
  BY <1>0, <1>2, SoundUserStep, HeldUserStep DEF Inductive
<1>3. ASSUME NEW t \in GroupTxs, GroupStep(t) PROVE Inductive'
  BY <1>0, <1>3, SoundGroupStep, HeldGroupStep DEF Inductive
<1>4. ASSUME NEW t \in UserTxs, Abort(t) PROVE Inductive'
  <2>1. \A x \in UserTxs : Sound(utx'[x], user', group')
    BY <1>4, SoundIdle, OthersSound DEF Abort, IdleUser
  <2>. QED
    BY <1>0, <1>4, <2>1, HeldKept DEF Inductive, Abort
<1>5. ASSUME NEW t \in GroupTxs, AbortGroup(t) PROVE Inductive'
  BY <1>0, <1>5, HeldEnd DEF Inductive, AbortGroup
<1>6. ASSUME NEW t \in UserTxs, NEW op \in UserOps, NEW actor \in Users,
             NEW target \in Users, NEW want \in Wanted(op),
             Submit(t, op, actor, target, want)
      PROVE  Inductive'
  BY <1>0, <1>6, SoundSubmit, HeldKept DEF Inductive, Submit
<1>7. ASSUME NEW t \in UserTxs, NEW u \in Users,
             NEW dept \in Groups \cup {None}, NEW name \in Groups \cup {None},
             StartLogin(t, u, dept, name)
      PROVE  Inductive'
  BY <1>0, <1>7, SoundStartLogin, HeldKept DEF Inductive, StartLogin
<1>8. ASSUME NEW t \in GroupTxs, NEW op \in {"create", "regroup", "drop"},
             NEW actor \in Users, NEW g \in Groups,
             NEW want \in {"on", "off", "keep"}, NEW rename \in BOOLEAN,
             SubmitGroup(t, op, actor, g, want, rename)
      PROVE  Inductive'
  <2>. DEFINE tx == gtx'[t]
  <2>1. gtx' = [gtx EXCEPT ![t] = tx] /\ tx.pc # "commit"
    BY <1>8 DEF SubmitGroup, BeginGroup, Inductive, TypeOK
  <2>2. tx \in GroupTx
    BY <1>0 DEF TypeOK
  <2>3. HeldRowsMatch'
    BY <1>8, <2>1, <2>2, HeldReplaced DEF SubmitGroup
  <2>. QED
    BY <1>0, <1>8, <2>3 DEF Inductive, SubmitGroup
<1>. QED
  BY <1>1, <1>2, <1>3, <1>4, <1>5, <1>6, <1>7, <1>8 DEF Next

LEMMA InitInductive == Init => Inductive
<1>. SUFFICES ASSUME Init PROVE Inductive
  OBVIOUS
<1>1. \A t \in UserTxs : Sound(utx[t], user, group)
  BY SoundIdle DEF Init, IdleUser
<1>2. HeldRowsMatch
  BY DEF Init, HeldRowsMatch, IdleGroup
<1>. QED
  BY <1>1, <1>2, InitType DEF Inductive

\* Every transaction's snapshot is good enough for what it will write.
THEOREM InductiveInvariant == Spec => []Inductive
<1>1. Init => Inductive
  BY InitInductive
<1>2. Inductive /\ [Next]_vars => Inductive'
  BY InductiveStep
<1>. QED
  BY <1>1, <1>2, PTL DEF Spec

\* What a step may do to the rows of users.
LEMMA RowsStep ==
    ASSUME Inductive, [Next]_vars
    PROVE  \/ UNCHANGED user
           \/ \E t \in UserTxs : Write(t) \/ Insert(t)
           \/ \E t \in GroupTxs : CommitGroup(t)
BY DEF Next, vars, UserStep, GroupStep, Submit, StartLogin, SubmitGroup,
       Authorize, Load, Refused, FindUser, LookUpGroup, LoadGroup, Create,
       Regroup, Drop, Sync, Lock, Abort, AbortGroup

\* services/user.py 81-88: nobody becomes an administrator.
THEOREM NobodyIsAppointed == Spec => AdminsNeverGrow
<1>1. Inductive /\ [Next]_vars =>
          \A u \in Users : IsAdmin(user'[u]) => IsAdmin(user[u])
  <2>. SUFFICES ASSUME Inductive, [Next]_vars,
                       NEW u \in Users, IsAdmin(user'[u])
                PROVE  IsAdmin(user[u])
    OBVIOUS
  <2>1. UNCHANGED user \/ NoNewAdmins(user')
    BY RowsStep, WriteAppointsNobody, CommitAppointsNobody
  <2>. QED
    BY <2>1 DEF NoNewAdmins, IsAdmin
<1>. QED
  BY <1>1, InductiveInvariant, PTL DEF Spec, AdminsNeverGrow

\* services/user_group.py 95-130: a SUPERADMIN stays one, and an ADMIN is
\* lowered only with its department.
THEOREM AdminsFallAlone == Spec => AdminsFallWithTheirGroup
<1>1. ASSUME Inductive, [Next]_vars, NEW u \in Users, IsAdmin(user[u]),
             user'[u].role # user[u].role
      PROVE  FallsWithItsGroup(u)
  <2>1. ASSUME NEW t \in UserTxs, Write(t) PROVE FALSE
    BY <1>1, <2>1, WriteRows, RoleWritten DEF Write
  <2>2. ASSUME NEW t \in UserTxs, Insert(t) PROVE FALSE
    BY <1>1, <2>2, InsertRows DEF IsAdmin, AdminRoles
  <2>3. PICK t \in GroupTxs : CommitGroup(t)
    BY <1>1, <2>1, <2>2, RowsStep
  <2>4. /\ u \in gtx[t].rows
        /\ Matches(gtx[t], user[u])
        /\ user'[u].role = IF gtx[t].white = "on" THEN "user" ELSE "required"
    BY <1>1, <2>3, CommitRows
  <2>5. gtx[t].white # "on" /\ user[u].role = "admin"
    BY <1>1, <2>4 DEF Matches, IsAdmin, AdminRoles
  <2>6. gtx[t].white \in {"on", "off"} /\ gtx[t].pc = "commit"
    BY <1>1, <2>3, GroupTxFields DEF Inductive, GroupTx, CommitGroup
  <2>. QED
    BY <2>4, <2>5, <2>6 DEF Matches, FallsWithItsGroup
<1>2. Inductive /\ [Next]_vars =>
          \A u \in Users :
              IsAdmin(user[u]) /\ user'[u].role # user[u].role =>
                  FallsWithItsGroup(u)
  BY <1>1
<1>. QED
  BY <1>2, InductiveInvariant, PTL DEF Spec, AdminsFallWithTheirGroup

\* services/user.py 128-143: no write from before a rejection undoes it.
THEOREM RejectionsStick == Spec => RejectionSticks
<1>. DEFINE Undone(u) ==
                /\ user[u].role # "none"
                /\ user[u].active = "off"
                /\ user'[u].active = "on"
            Knowing(t, u) ==
                /\ utx[t].pc = "write" /\ utx[t].target = u
                /\ utx[t].seen.active = "off"
                /\ utx[t].op \in {"approve", "update"}
<1>1. ASSUME Inductive, [Next]_vars, NEW u \in Users, Undone(u)
      PROVE  \E t \in UserTxs : Knowing(t, u)
  <2>1. ASSUME NEW t \in UserTxs, Insert(t) PROVE FALSE
    BY <1>1, <2>1, InsertRows
  <2>2. ASSUME NEW t \in GroupTxs, CommitGroup(t) PROVE FALSE
    BY <1>1, <2>2, CommitRows
  <2>3. PICK t \in UserTxs : Write(t)
    BY <1>1, <2>1, <2>2, RowsStep
  <2>. DEFINE want == utx[t].want
              seen == utx[t].seen
  <2>4. utx[t].target = u /\ utx[t].pc = "write"
        /\ user'[u].active = Column(want.active, seen.active, user[u].active)
    <3>1. user'[u] # user[u]
      BY <1>1
    <3>2. /\ utx[t].target = u
          /\ user'[u] = Written(want, seen, user[u])
      BY <1>1, <2>3, <3>1, WriteRows
    <3>3. Written(want, seen, user[u]).active =
              Column(want.active, seen.active, user[u].active)
      BY DEF Written
    <3>4. utx[t].pc = "write"
      BY <2>3 DEF Write
    <3>. QED
      BY <3>2, <3>3, <3>4
  <2>5. want.active = "on" /\ seen.active # "on"
    BY <1>1, <2>4 DEF Column
  <2>6. seen.active = "off"
    BY <1>1, <2>5, UserTxFields DEF Inductive, Row
  <2>7. NamesUser(utx[t]) /\ utx[t] \in UserTx /\ Asks(utx[t])
    BY <1>1, UserTxFields DEF Inductive, Sound
  <2>8. utx[t].op \in UserOps /\ want \in Wanted(utx[t].op)
    BY <2>4, <2>5, <2>7 DEF NamesUser, UserTx, Asks
  <2>9. utx[t].op \in {"approve", "update"}
    BY <2>5, <2>8 DEF Wanted, Set, UserOps
  <2>. QED
    BY <2>4, <2>6, <2>9
<1>2. Inductive /\ [Next]_vars =>
          \A u \in Users : Undone(u) => \E t \in UserTxs : Knowing(t, u)
  BY <1>1
<1>. QED
  BY <1>2, InductiveInvariant, PTL DEF Spec, RejectionSticks

\* deps.py 63-103: the role check refuses who was no administrator.
THEOREM FormerAdminsGetNowhere == Spec => []FormerAdminRefused
<1>1. Inductive => FormerAdminRefused
  BY DEF Inductive, FormerAdminRefused, Sound, Outside
<1>. QED
  BY <1>1, InductiveInvariant, PTL

\* service.py 28-38: a login of an unlisted department lifts nobody.
THEOREM UnlistedLoginsGetNothing == Spec => UnlistedLoginGetsNothing
<1>1. ASSUME Inductive, [Next]_vars, NEW t \in UserTxs, EndsUnlisted(t),
             LiftsTarget(t)
      PROVE  FALSE
  <2>0. /\ utx[t].op = "login" /\ utx[t].pc = "write" /\ utx[t].late
        /\ utx'[t].pc = "idle"
        /\ user'[utx[t].target].role \notin
               {user[utx[t].target].role, "required"}
    BY <1>1 DEF EndsUnlisted, LiftsTarget
  <2>1. /\ Sound(utx[t], user, group) /\ utx[t].want.role # "user"
        /\ utx[t].want.role \in {"keep", "required"}
        /\ utx[t].target \in Users
    BY <1>1, <2>0, UserTxFields DEF Inductive, Sound, Outside, Asks
  <2>2. ASSUME NEW x \in UserTxs, Write(x) \/ Insert(x) PROVE x = t
    <3>1. CASE Write(x)
      BY <1>1, <2>0, <3>1 DEF Write, Commit, Inductive, TypeOK, UserTx
    <3>2. CASE Insert(x)
      BY <1>1, <2>0, <3>2
      DEF Insert, Commit, Refuse, Inductive, TypeOK, UserTx
    <3>. QED
      BY <2>2, <3>1, <3>2
  <2>3. ASSUME NEW x \in GroupTxs, CommitGroup(x) PROVE FALSE
    BY <1>1, <2>0, <2>3 DEF CommitGroup, Inductive, TypeOK, UserTx
  <2>4. CASE Write(t)
    <3>1. user'[utx[t].target] =
              Written(utx[t].want, utx[t].seen, user[utx[t].target])
      BY <1>1, <2>0, <2>4, WriteRows
    <3>2. user'[utx[t].target].role =
              Column(utx[t].want.role, utx[t].seen.role,
                     user[utx[t].target].role)
      BY <3>1 DEF Written
    <3>3. user'[utx[t].target].role \in {user[utx[t].target].role, "required"}
      BY <2>1, <3>2 DEF Column
    <3>. QED
      BY <1>1, <2>0, <3>3
  <2>5. CASE Insert(t)
    BY <1>1, <2>0, <2>1, <2>5, InsertRows
  <2>. QED
    BY <1>1, <2>0, <2>1, <2>2, <2>3, <2>4, <2>5, RowsStep
<1>2. Inductive /\ [Next]_vars =>
          \A t \in UserTxs : EndsUnlisted(t) => ~LiftsTarget(t)
  BY <1>1
<1>. QED
  BY <1>2, InductiveInvariant, PTL DEF Spec, UnlistedLoginGetsNothing

\* services/user_group.py 95-130 under READ COMMITTED: held rows keep what
\* the WHERE asked for.
THEOREM HeldRowsKeepMatching == Spec => []HeldRowsMatch
<1>1. Inductive => HeldRowsMatch
  BY DEF Inductive
<1>. QED
  BY <1>1, InductiveInvariant, PTL

------------------------------------------------------------------------------
(* Directory implements Revocation, twice.                                    *)

\* The step leaves transaction t what it was, but for a mark that has become
\* untrue.
Keeps(t) ==
    /\ utx'[t].op = utx[t].op /\ utx'[t].actor = utx[t].actor
    /\ utx'[t].key = utx[t].key
    /\ utx'[t].late => utx[t].late
    /\ utx[t].late /\ ~utx'[t].late =>
           /\ utx[t].op \in UserOps =>
                  Authorized(utx[t].op, user'[utx[t].actor])
           /\ utx[t].op = "login" /\ utx[t].key # None =>
                  Listed(utx[t].key, group')

\* The step takes transaction t past no check.
Waits(t) == (PastAuth(t)' <=> PastAuth(t)) /\ (Lifts(t)' <=> Lifts(t))

\* Some transactions are over, and no other one passes a check.
Quiet(over) ==
    /\ \A x \in over : utx'[x].op = "none"
    /\ \A x \in UserTxs \ over : Keeps(x) /\ Waits(x)

\* Transaction t passes its next check, and nothing else happens.
Clears(t) ==
    /\ UNCHANGED <<user, group>>
    /\ \A x \in UserTxs : Keeps(x) /\ utx'[x].late = utx[x].late
    /\ \A x \in UserTxs \ {t} : Waits(x)
    /\ PastAuth(t) => PastAuth(t)'
    /\ Lifts(t) => Lifts(t)'
    /\ Lifts(t)' => utx[t].key # None

\* Transaction t begins, and what it calls late is what is so.
Comes(t) ==
    /\ UNCHANGED <<user, group>>
    /\ utx[t].op = "none"
    /\ \A x \in UserTxs \ {t} : utx'[x] = utx[x]
    /\ \/ /\ utx'[t].op \in UserOps /\ utx'[t].pc = "auth"
          /\ utx'[t].actor \in Users
          /\ utx'[t].late <=> ~Authorized(utx'[t].op, user[utx'[t].actor])
       \/ /\ utx'[t].op = "login" /\ utx'[t].pc = "find"
          /\ utx'[t].key \in Groups \cup {None}
          /\ utx'[t].late <=> ~Whitelisted(utx'[t].key)

\* What a transaction names, and what Revocation asks of a lapsed one.
LEMMA LateNames ==
    ASSUME Inductive, NEW t \in UserTxs
    PROVE  /\ utx[t].late \in BOOLEAN
           /\ utx[t].op \in UserOps => utx[t].actor \in Users
           /\ utx[t].op = "login" => utx[t].key \in Groups \cup {None}
           /\ \A g \in Groups : Listed(g, group') <=> Whitelisted(g)'
BY UserTxFields DEF Inductive, NamesUser, UserTx, Listed, Whitelisted

LEMMA LateTruthAfter ==
    ASSUME Inductive', NEW t \in UserTxs, utx'[t].late
    PROVE  /\ utx'[t].op \in UserOps =>
                  /\ ~Authorized(utx'[t].op, user'[utx'[t].actor])
                  /\ ~PastAuth(t)'
           /\ utx'[t].op = "login" =>
                  ~Listed(utx'[t].key, group') /\ ~Lifts(t)'
BY DEF Inductive, Sound, Outside, Listed, Whitelisted, PastAuth, Lifts

LEMMA SameIsQuiet ==
    ASSUME Inductive, UNCHANGED utx
    PROVE  Quiet({})
BY DEF Quiet, Keeps, Waits, PastAuth, Lifts

\* A transaction moves on, and passes no check that counts here.
LEMMA MoveIsQuiet ==
    ASSUME Inductive, NEW t \in UserTxs, NEW q,
           utx' = [utx EXCEPT ![t] = q],
           q.op = utx[t].op, q.actor = utx[t].actor,
           q.want = utx[t].want, q.key = utx[t].key, q.late = utx[t].late,
           utx[t].pc \notin {"auth", "write"}, q.pc # "auth",
           q.op = "login" => q.pc # "write"
    PROVE  Quiet({})
<1>1. utx'[t] = q /\ \A x \in UserTxs \ {t} : utx'[x] = utx[x]
  BY DEF Inductive, TypeOK
<1>. QED
  BY <1>1 DEF Quiet, Keeps, Waits, PastAuth, Lifts

LEMMA EndIsQuiet ==
    ASSUME Inductive, NEW t \in UserTxs, NEW pc,
           utx' = [utx EXCEPT ![t] = NoUserTx(pc)]
    PROVE  Quiet({t})
<1>1. utx'[t].op = "none" /\ \A x \in UserTxs \ {t} : utx'[x] = utx[x]
  BY DEF Inductive, TypeOK, NoUserTx
<1>. QED
  BY <1>1 DEF Quiet, Keeps, Waits, PastAuth, Lifts

\* What a change of the tables does to the marks of the others.
LEMMA MarksKept ==
    ASSUME Inductive, NEW x \in UserTxs,
           utx'[x] = [utx[x] EXCEPT !.late = StillLate(x, user', group')]
    PROVE  Keeps(x) /\ Waits(x)
<1>1. /\ utx'[x].op = utx[x].op /\ utx'[x].actor = utx[x].actor
      /\ utx'[x].want = utx[x].want /\ utx'[x].pc = utx[x].pc
      /\ utx'[x].key = utx[x].key
      /\ utx'[x].late = StillLate(x, user', group')
  BY UserTxFields DEF Inductive, UserTx
<1>2. StillLate(x, user', group') => utx[x].late
  BY DEF StillLate
<1>3. utx[x].late /\ ~StillLate(x, user', group') =>
          /\ utx[x].op \in UserOps =>
                 Authorized(utx[x].op, user'[utx[x].actor])
          /\ utx[x].op = "login" /\ utx[x].key # None =>
                 Listed(utx[x].key, group')
  BY DEF StillLate, Listed, UserOps
<1>. QED
  BY <1>1, <1>2, <1>3 DEF Keeps, Waits, PastAuth, Lifts

LEMMA CommitIsQuiet ==
    ASSUME Inductive, NEW t \in UserTxs, NEW rows, Commit(t, rows),
           UNCHANGED group
    PROVE  Quiet({t})
<1>1. utx'[t].op = "none"
  BY DEF Commit, IdleUser, NoUserTx
<1>2. \A x \in UserTxs \ {t} :
          utx'[x] = [utx[x] EXCEPT !.late = StillLate(x, user', group')]
  BY DEF Commit
<1>. QED
  BY <1>1, <1>2, MarksKept DEF Quiet

LEMMA UserStepShapes ==
    ASSUME Inductive, Inductive', NEW t \in UserTxs, UserStep(t)
    PROVE  Quiet({}) \/ Quiet({t}) \/ Clears(t)
<1>0. utx[t] \in UserTx /\ NamesUser(utx[t])
  BY UserTxFields DEF Inductive
<1>refuse. ASSUME Refuse(t) PROVE Quiet({t})
  BY <1>refuse, EndIsQuiet DEF Refuse
<1>1. CASE Authorize(t)
  <2>1. ASSUME NEW role, NEW seen,
               utx' = [utx EXCEPT ![t].pc = "load", ![t].me = role,
                                  ![t].seen = seen]
        PROVE  Clears(t)
    <3>1. /\ utx'[t].op = utx[t].op /\ utx'[t].actor = utx[t].actor
          /\ utx'[t].want = utx[t].want /\ utx'[t].late = utx[t].late
          /\ utx'[t].key = utx[t].key
          /\ utx'[t].pc = "load"
          /\ \A x \in UserTxs \ {t} : utx'[x] = utx[x]
      BY <1>0, <2>1 DEF UserTx, Inductive, TypeOK
    <3>2. utx[t].op \in UserOps /\ utx[t].pc = "auth" /\ UNCHANGED <<user, group>>
      BY <1>0, <1>1 DEF Authorize, NamesUser
    <3>. QED
      BY <3>1, <3>2 DEF Clears, Keeps, Waits, PastAuth, Lifts, UserOps
  <2>. QED
    BY <1>1, <1>refuse, <2>1 DEF Authorize
<1>2. CASE Load(t)
  <2>1. ASSUME NEW seen, utx' = [utx EXCEPT ![t].pc = "write", ![t].seen = seen]
        PROVE  Quiet({})
    <3>. DEFINE q == [utx[t] EXCEPT !.pc = "write", !.seen = seen]
    <3>1. /\ q.op = utx[t].op /\ q.actor = utx[t].actor /\ q.pc = "write"
          /\ q.want = utx[t].want /\ q.late = utx[t].late
        /\ q.key = utx[t].key
          /\ utx' = [utx EXCEPT ![t] = q]
      BY <1>0, <2>1 DEF UserTx
    <3>2. utx[t].op # "login" /\ utx[t].pc = "load"
      BY <1>0, <1>2 DEF Load, NamesUser, UserOps
    <3>. HIDE DEF q
    <3>. QED
      BY <3>1, <3>2, MoveIsQuiet
  <2>. QED
    BY <1>2, <1>refuse, <2>1 DEF Load
<1>3. CASE Write(t)
  BY <1>3, CommitIsQuiet DEF Write
<1>4. CASE Refused(t)
  BY <1>4, EndIsQuiet DEF Refused, IdleUser
<1>5. CASE FindUser(t)
  <2>. DEFINE q == [utx[t] EXCEPT !.pc = "lookup", !.seen = user[utx[t].target]]
  <2>1. /\ q.op = utx[t].op /\ q.actor = utx[t].actor /\ q.pc = "lookup"
        /\ q.want = utx[t].want /\ q.late = utx[t].late
        /\ q.key = utx[t].key
        /\ utx' = [utx EXCEPT ![t] = q]
    BY <1>0, <1>5 DEF FindUser, UserTx
  <2>2. utx[t].pc = "find"
    BY <1>5 DEF FindUser
  <2>. HIDE DEF q
  <2>. QED
    BY <2>1, <2>2, MoveIsQuiet
<1>6. CASE LookUpGroup(t)
  <2>. DEFINE role == LoginRole(utx[t].seen, Whitelisted(utx[t].key))
  <2>1. /\ utx'[t].op = utx[t].op /\ utx'[t].actor = utx[t].actor
        /\ utx'[t].late = utx[t].late /\ utx'[t].pc = "write"
        /\ utx'[t].key = utx[t].key /\ utx'[t].want.role = role
        /\ \A x \in UserTxs \ {t} : utx'[x] = utx[x]
    BY <1>0, <1>6 DEF LookUpGroup, UserTx, Want, Inductive, TypeOK
  <2>3. role = "user" => utx[t].key # None
    BY DEF LoginRole, Whitelisted
  <2>4. /\ utx[t].op = "login" /\ utx[t].pc = "lookup"
        /\ UNCHANGED <<user, group>>
    BY <1>0, <1>6 DEF LookUpGroup, NamesUser
  <2>. HIDE DEF role
  <2>5. Clears(t)
    BY <2>1, <2>3, <2>4 DEF Clears, Keeps, Waits, PastAuth, Lifts, UserOps
  <2>. QED
    BY <2>5
<1>7. CASE Insert(t)
  BY <1>7, <1>refuse, CommitIsQuiet DEF Insert
<1>. QED
  BY <1>1, <1>2, <1>3, <1>4, <1>5, <1>6, <1>7 DEF UserStep

\* Every step is one of the three.
LEMMA StepShapes ==
    ASSUME Inductive, Inductive', [Next]_vars
    PROVE  \/ \E over \in SUBSET UserTxs : Quiet(over)
           \/ \E t \in UserTxs : Clears(t) \/ Comes(t)
<1>. DEFINE Shape == \/ \E over \in SUBSET UserTxs : Quiet(over)
                     \/ \E t \in UserTxs : Clears(t) \/ Comes(t)
<1>1. ASSUME NEW t \in UserTxs, NEW op \in UserOps, NEW actor \in Users,
             NEW target \in Users, NEW want \in Wanted(op),
             Submit(t, op, actor, target, want)
      PROVE  Shape
  <2>1. /\ utx[t].pc = "idle" /\ UNCHANGED <<user, group>>
        /\ \A x \in UserTxs \ {t} : utx'[x] = utx[x]
        /\ utx'[t].op = op /\ utx'[t].pc = "auth" /\ utx'[t].actor = actor
        /\ utx'[t].late = ~Authorized(op, user[actor])
    BY <1>1 DEF Submit, Begin, Inductive, TypeOK
  <2>2. utx[t].op = "none"
    BY <2>1, UserTxFields DEF Inductive, NamesUser
  <2>3. Comes(t)
    BY <2>1, <2>2 DEF Comes
  <2>. QED
    BY <2>3
<1>2. ASSUME NEW t \in UserTxs, NEW u \in Users, NEW dept \in Groups \cup {None},
             NEW name \in Groups \cup {None}, StartLogin(t, u, dept, name)
      PROVE  Shape
  <2>1. /\ utx[t].pc = "idle" /\ UNCHANGED <<user, group>>
        /\ \A x \in UserTxs \ {t} : utx'[x] = utx[x]
        /\ utx'[t].op = "login" /\ utx'[t].pc = "find"
        /\ utx'[t].key \in Groups \cup {None}
        /\ utx'[t].late = ~Whitelisted(utx'[t].key)
    BY <1>2 DEF StartLogin, Begin, GroupKey, Inductive, TypeOK
  <2>2. utx[t].op = "none"
    BY <2>1, UserTxFields DEF Inductive, NamesUser
  <2>3. Comes(t)
    BY <2>1, <2>2 DEF Comes
  <2>. QED
    BY <2>3
<1>3. ASSUME NEW t \in UserTxs, UserStep(t) PROVE Shape
  <2>1. {} \in SUBSET UserTxs /\ {t} \in SUBSET UserTxs
    OBVIOUS
  <2>. QED
    BY <1>3, <2>1, UserStepShapes
<1>4. ASSUME NEW t \in UserTxs, Abort(t) PROVE Shape
  BY <1>4, EndIsQuiet DEF Abort, IdleUser
<1>5. ASSUME UNCHANGED utx PROVE Shape
  BY <1>5, SameIsQuiet
<1>6. ASSUME NEW t \in GroupTxs, CommitGroup(t) PROVE Shape
  <2>1. \A x \in UserTxs :
            utx'[x] = [utx[x] EXCEPT !.late = StillLate(x, user', group')]
    BY <1>6 DEF CommitGroup
  <2>2. Quiet({})
    BY <2>1, MarksKept DEF Quiet
  <2>. QED
    BY <2>2
<1>7. ASSUME NEW t \in GroupTxs, GroupStep(t) PROVE Shape
  BY <1>5, <1>6, <1>7
  DEF GroupStep, LoadGroup, Create, Regroup, Drop, Sync, Lock
<1>. QED
  BY <1>1, <1>2, <1>3, <1>4, <1>5, <1>7 DEF Next, SubmitGroup, AbortGroup, vars

\* The callers.
LEMMA CallersChange ==
    ASSUME Inductive, Inductive', NEW over \in SUBSET UserTxs,
           \A x \in over : utx'[x].op = "none",
           \A x \in UserTxs \ over : Keeps(x) /\ (PastAuth(x)' <=> PastAuth(x))
    PROVE  Callers!Change(over)
<1>. DEFINE Needs(x) == IF utx[x].op \in UserOps THEN <<utx[x].op, utx[x].actor>>
                        ELSE <<>>
            Lapsed(x) == utx[x].op \in UserOps /\ utx[x].late
<1>1. \A x \in UserTxs : Needs(x)' = IF x \in over THEN <<>> ELSE Needs(x)
  BY DEF Keeps, UserOps
<1>2. ASSUME NEW x \in UserTxs
      PROVE  Lapsed(x)' <=>
                 /\ x \notin over /\ Lapsed(x)
                 /\ Needs(x) \notin {c \in UserOps \X Users :
                                      Authorized(c[1], user'[c[2]])}
  <2>1. CASE x \in over
    BY <2>1 DEF UserOps
  <2>2. CASE x \notin over
    <3>1. Keeps(x)
      BY <2>2
    <3>2. Lapsed(x)' => Needs(x) \notin {c \in UserOps \X Users :
                                      Authorized(c[1], user'[c[2]])}
      BY <3>1, LateTruthAfter DEF Keeps
    <3>3. Lapsed(x) /\ Needs(x) \notin {c \in UserOps \X Users :
                                      Authorized(c[1], user'[c[2]])} => Lapsed(x)'
      BY <3>1, LateNames DEF Keeps
    <3>4. Lapsed(x)' => Lapsed(x)
      BY <3>1 DEF Keeps
    <3>. QED
      BY <2>2, <3>2, <3>3, <3>4
  <2>. QED
    BY <2>1, <2>2
<1>3. \A x \in UserTxs : PastAuth(x)' <=> x \notin over /\ PastAuth(x)
  BY DEF PastAuth, UserOps
<1>. QED
  BY <1>1, <1>2, <1>3 DEF Callers!Change

LEMMA CallersStep ==
    ASSUME Inductive, Inductive', [Next]_vars
    PROVE  Callers!RevocationNext
<1>1. ASSUME NEW over \in SUBSET UserTxs, Quiet(over)
      PROVE  Callers!RevocationNext
  BY <1>1, CallersChange DEF Quiet, Waits, Callers!RevocationNext
<1>2. ASSUME NEW t \in UserTxs, Clears(t)
      PROVE  Callers!RevocationNext
  <2>1. CASE PastAuth(t)' <=> PastAuth(t)
    <3>1. Callers!Change({})
      BY <1>2, <2>1, CallersChange DEF Clears, Waits
    <3>. QED
      BY <3>1 DEF Callers!RevocationNext
  <2>2. CASE PastAuth(t)' /\ ~PastAuth(t)
    <3>1. utx[t].op \in UserOps /\ ~utx[t].late
      BY <1>2, <2>2, LateTruthAfter DEF Clears, Keeps, PastAuth
    <3>2. Callers!Honour(t)
      BY <1>2, <2>2, <3>1 DEF Callers!Honour, Clears, Keeps, Waits
    <3>. QED
      BY <3>2 DEF Callers!RevocationNext
  <2>. QED
    BY <1>2, <2>1, <2>2 DEF Clears
<1>3. ASSUME NEW t \in UserTxs, Comes(t)
      PROVE  Callers!RevocationNext
  <2>1. ~PastAuth(t) /\ ~PastAuth(t)' /\ utx[t].op \notin UserOps
    BY <1>3 DEF Comes, PastAuth, UserOps
  <2>2. \A x \in UserTxs \ {t} :
            utx'[x] = utx[x] /\ (PastAuth(x)' <=> PastAuth(x))
    BY <1>3 DEF Comes, PastAuth
  <2>3. UNCHANGED user
    BY <1>3 DEF Comes
  <2>4. CASE utx'[t].op \in UserOps
    <3>1. PICK op \in UserOps, actor \in Users :
              op = utx'[t].op /\ actor = utx'[t].actor
      BY <1>3, <2>4 DEF Comes, UserOps
    <3>2. utx'[t].late <=> ~Authorized(op, user[actor])
      BY <1>3, <2>4, <3>1 DEF Comes, UserOps
    <3>3. {x \in UserTxs : utx[x].op \in UserOps /\ utx[x].late}' =
              IF Authorized(op, user[actor])
              THEN {x \in UserTxs : utx[x].op \in UserOps /\ utx[x].late}
              ELSE {x \in UserTxs : utx[x].op \in UserOps /\ utx[x].late}
                       \cup {t}
      BY <2>1, <2>2, <2>4, <3>2
    <3>4. Callers!Arrive(t, <<op, actor>>)
      BY <2>1, <2>2, <2>3, <2>4, <3>1, <3>3 DEF Callers!Arrive
    <3>5. <<op, actor>> \in UserOps \X Users
      OBVIOUS
    <3>. QED
      BY <3>4, <3>5 DEF Callers!RevocationNext
  <2>5. CASE utx'[t].op \notin UserOps
    <3>1. \A x \in UserTxs \ {t} : utx[x].op \in UserOps /\ utx[x].late =>
              ~Authorized(utx[x].op, user'[utx[x].actor])
      BY <2>2, LateTruthAfter
    <3>2. Callers!Change({})
      BY <2>1, <2>2, <2>3, <2>5, <3>1 DEF Callers!Change
    <3>. QED
      BY <3>2 DEF Callers!RevocationNext
  <2>. QED
    BY <2>4, <2>5
<1>. QED
  BY <1>1, <1>2, <1>3, StepShapes

\* The departments, in the same way.
LEMMA DepartmentsChange ==
    ASSUME Inductive, Inductive', NEW over \in SUBSET UserTxs,
           \A x \in over : utx'[x].op = "none",
           \A x \in UserTxs \ over : Keeps(x) /\ (Lifts(x)' <=> Lifts(x))
    PROVE  Departments!Change(over)
<1>. DEFINE Needs(x) == IF utx[x].op = "login" THEN utx[x].key ELSE None
            Lapsed(x) == /\ utx[x].op = "login" /\ utx[x].key # None
                         /\ utx[x].late
<1>1. \A x \in UserTxs : Needs(x)' = IF x \in over THEN None ELSE Needs(x)
  BY DEF Keeps, UserOps
<1>2. ASSUME NEW x \in UserTxs
      PROVE  Lapsed(x)' <=>
                 /\ x \notin over /\ Lapsed(x)
                 /\ Needs(x) \notin {g \in Groups : Whitelisted(g)'}
  <2>1. CASE x \in over
    BY <2>1 DEF UserOps
  <2>2. CASE x \notin over
    <3>1. Keeps(x)
      BY <2>2
    <3>2. Lapsed(x)' => Needs(x) \notin {g \in Groups : Whitelisted(g)'}
      BY <3>1, LateTruthAfter, LateNames DEF Keeps
    <3>3. Lapsed(x) /\ Needs(x) \notin {g \in Groups : Whitelisted(g)'} => Lapsed(x)'
      BY <3>1, LateNames DEF Keeps
    <3>4. Lapsed(x)' => Lapsed(x)
      BY <3>1 DEF Keeps
    <3>. QED
      BY <2>2, <3>2, <3>3, <3>4
  <2>. QED
    BY <2>1, <2>2
<1>3. \A x \in UserTxs : Lifts(x)' <=> x \notin over /\ Lifts(x)
  BY DEF Lifts, UserOps
<1>. QED
  BY <1>1, <1>2, <1>3 DEF Departments!Change

LEMMA DepartmentsStep ==
    ASSUME Inductive, Inductive', [Next]_vars
    PROVE  Departments!RevocationNext
<1>1. ASSUME NEW over \in SUBSET UserTxs, Quiet(over)
      PROVE  Departments!RevocationNext
  BY <1>1, DepartmentsChange DEF Quiet, Waits, Departments!RevocationNext
<1>2. ASSUME NEW t \in UserTxs, Clears(t)
      PROVE  Departments!RevocationNext
  <2>1. CASE Lifts(t)' <=> Lifts(t)
    <3>1. Departments!Change({})
      BY <1>2, <2>1, DepartmentsChange DEF Clears, Waits
    <3>. QED
      BY <3>1 DEF Departments!RevocationNext
  <2>2. CASE Lifts(t)' /\ ~Lifts(t)
    <3>1. /\ utx[t].op = "login" /\ utx[t].key # None
          /\ ~utx[t].late
      BY <1>2, <2>2, LateTruthAfter DEF Clears, Keeps, Lifts
    <3>2. Departments!Honour(t)
      BY <1>2, <2>2, <3>1
         DEF Departments!Honour, Clears, Keeps, Waits, Whitelisted
    <3>. QED
      BY <3>2 DEF Departments!RevocationNext
  <2>. QED
    BY <1>2, <2>1, <2>2 DEF Clears
<1>3. ASSUME NEW t \in UserTxs, Comes(t)
      PROVE  Departments!RevocationNext
  <2>1. ~Lifts(t) /\ ~Lifts(t)' /\ utx[t].op # "login"
    BY <1>3 DEF Comes, Lifts, UserOps
  <2>2. \A x \in UserTxs \ {t} :
            utx'[x] = utx[x] /\ (Lifts(x)' <=> Lifts(x))
    BY <1>3 DEF Comes, Lifts
  <2>3. UNCHANGED group /\ \A g \in Groups : Whitelisted(g)' <=> Whitelisted(g)
    BY <1>3 DEF Comes, Whitelisted
  <2>. DEFINE Lapsed == {x \in UserTxs :
                             /\ utx[x].op = "login" /\ utx[x].key # None
                             /\ utx[x].late}
  <2>4. CASE utx'[t].op = "login" /\ utx'[t].key # None
    <3>1. PICK g \in Groups : g = utx'[t].key
      BY <1>3, <2>4 DEF Comes, UserOps
    <3>2. utx'[t].late <=> ~Whitelisted(g)
      BY <1>3, <2>4, <3>1 DEF Comes, UserOps
    <3>3. Lapsed' = IF Whitelisted(g) THEN Lapsed ELSE Lapsed \cup {t}
      BY <2>1, <2>2, <2>4, <3>2
    <3>4. Departments!Arrive(t, g)
      BY <2>1, <2>2, <2>3, <2>4, <3>1, <3>3 DEF Departments!Arrive
    <3>. QED
      BY <3>4 DEF Departments!RevocationNext
  <2>5. CASE ~(utx'[t].op = "login" /\ utx'[t].key # None)
    <3>1. \A x \in UserTxs \ {t} : utx[x].op = "login" /\ utx[x].late =>
              ~Whitelisted(utx[x].key)'
      BY <2>2, LateTruthAfter DEF Listed, Whitelisted
    <3>2. Departments!Change({})
      BY <2>1, <2>2, <2>3, <2>5, <3>1 DEF Departments!Change
    <3>. QED
      BY <3>2 DEF Departments!RevocationNext
  <2>. QED
    BY <2>4, <2>5
<1>. QED
  BY <1>1, <1>2, <1>3, StepShapes

\* Neither the checks of deps.py nor the look at the whitelist lets through
\* what has not been so since the request came: Directory implements
\* Revocation for its callers and for its departments.
THEOREM ChecksSeeRevocations == Spec => RevocationSpec
<1>1. Init => Callers!RevocationInit /\ Departments!RevocationInit
  <2>1. Init => \A t \in UserTxs : utx[t].op = "none"
    BY DEF Init, IdleUser, NoUserTx
  <2>. QED
    BY <2>1 DEF Callers!RevocationInit, Departments!RevocationInit, PastAuth,
                Lifts, UserOps
<1>2. Inductive /\ Inductive' /\ [Next]_vars =>
          /\ [Callers!RevocationNext]_(Callers!revocationVars)
          /\ [Departments!RevocationNext]_(Departments!revocationVars)
  BY CallersStep, DepartmentsStep
<1>. QED
  BY <1>1, <1>2, InductiveInvariant, PTL
  DEF Spec, RevocationSpec, Callers!RevocationSpec, Departments!RevocationSpec

==============================================================================
