--------------------------- MODULE AuditTrailProofs ---------------------------
(* Proofs about AuditTrail, for any users, departments and transactions, and *)
(* any number of records.                                                    *)
(*                                                                           *)
(*   AuditImplementsDirectory  the hook changes nothing else                 *)
(*   AuditTypeCorrect          the components keep their types               *)
(*   AuditInvariant            what clock, objects, rows and records share   *)
(*   TrailTellsRows            the record of a row's last UPDATE tells the   *)
(*                             row                                           *)
(*   OldValuesWereTold         the trail of a user has no gap                *)
EXTENDS AuditTrail, DirectoryProofs

------------------------------------------------------------------------------
(* The hook only watches.                                                     *)

LEMMA AuditNextIsNext == [AuditNext]_auditVars => [Next]_vars
<1>1. UNCHANGED auditVars => UNCHANGED vars
  BY DEF auditVars, vars
<1>2. Passes => Next
  BY DEF Passes, Next, UserStep
<1>3. ASSUME NEW t \in UserTxs, Begins(t) \/ Reads(t) \/ Flushes(t) \/ Ends(t)
      PROVE  Next
  BY <1>3 DEF Begins, Reads, Flushes, Ends, Next, UserStep
<1>4. ASSUME NEW t \in GroupTxs,
             GroupBegins(t) \/ GroupGoesOn(t) \/ Bypasses(t)
      PROVE  Next
  BY <1>4 DEF GroupBegins, GroupGoesOn, Bypasses, Next, GroupStep
<1>. QED
  BY <1>1, <1>2, <1>3, <1>4 DEF AuditNext

\* core/audit.py: a transaction does with the hook what it does without it.
THEOREM AuditImplementsDirectory == AuditSpec => Spec
<1>1. AuditInit => Init
  BY DEF AuditInit
<1>. QED
  BY <1>1, AuditNextIsNext, PTL DEF AuditSpec, Spec

------------------------------------------------------------------------------
(* The invariant.                                                             *)

Slots == UserTxs \cup GroupTxs

\* A login sets a role on the row that it inserts, and nothing but a login
\* inserts.
Inserts(tx) ==
    tx.pc = "write" /\ tx.seen.role = "none" =>
        tx.op = "login" /\ tx.want.role # "keep"

\* Every column but the role of a row of u's was told.
RowTold(u, row) ==
    row.role # "none" =>
        \A c \in Columns \ {"role"} : row[c] \in Told(audit_logs, u, c)

\* What t has loaded of a row: it was told, and the row is there for good.
SeenTold(t) ==
    HasSeen(utx[t]) =>
        /\ RowTold(utx[t].target, utx[t].seen)
        /\ utx[t].seen.role # "none" => user[utx[t].target].role # "none"

\* A transaction that has used the database has begun.
Dated ==
    /\ \A t \in UserTxs :
           utx[t].pc \in {"load", "lookup", "write"} => began[t] # None
    /\ \A t \in GroupTxs : gtx[t].pc # "idle" => began[t] # None

\* No row and no other transaction has the reading of one in flight.
Unlike ==
    \A t \in Slots : began[t] # None =>
        /\ began[t] \notin Stamps
        /\ \A x \in Slots \ {t} : began[x] # began[t]

AuditInductive ==
    /\ AuditTypeOK
    /\ Inductive
    /\ Dated
    /\ Unlike
    /\ \A t \in UserTxs : Inserts(utx[t]) /\ SeenTold(t)
    /\ TrailTellsRow
    /\ OldValueWasTold

------------------------------------------------------------------------------
(* Records.                                                                   *)

LEMMA FlushedColumns ==
    ASSUME NEW want \in Want, NEW seen \in Row, NEW now \in Row,
           NEW c \in Columns
    PROVE  /\ Diff(want, seen, want)[c] # "keep" =>
                  /\ Written(want, seen, now)[c] = Diff(want, seen, want)[c]
                  /\ Written(want, seen, now)[c] # seen[c]
           /\ Diff(want, seen, want)[c] = "keep" =>
                  Written(want, seen, now)[c] = now[c]
           /\ Diff(want, seen, seen)[c] # "keep" =>
                  Diff(want, seen, seen)[c] = seen[c]
BY DEF Columns, Diff, Changed, Written, Column, Want, Row, Roles

LEMMA UpdateData ==
    ASSUME NEW want \in Want, NEW seen \in Row, seen.role # "none"
    PROVE  /\ Diff(want, seen, want) \in Data
           /\ Diff(want, seen, seen) \in Data
BY DEF Diff, Changed, Data, Want, Row

\* The hook makes a record of the right type, about the object's user alone.
LEMMA RecordType ==
    ASSUME AuditInductive, NEW t \in UserTxs, utx[t].pc = "write"
    PROVE  /\ AuditRecord(utx[t], began[t]) \in AuditLog
           /\ AuditRecord(utx[t], began[t]).at = began[t]
           /\ \A u \in Users : About(AuditRecord(utx[t], began[t]), u) <=>
                                   u = utx[t].target
<1>. DEFINE want == utx[t].want
            seen == utx[t].seen
            new == Written(want, NoRow, NoRow)
<1>1. /\ want \in Want /\ seen \in Row /\ utx[t] \in UserTx
      /\ utx[t].target \in Users /\ Inserts(utx[t])
  BY UserTxFields DEF AuditInductive, Inductive
<1>2. began[t] \in Moments
  BY DEF AuditInductive, AuditTypeOK, Dated
<1>3. \A u \in Users : u # None
  BY NoneAssumption
<1>4. CASE seen.role = "none"
  <2>1. want.role \in {"user", "required"} /\ want.active = "keep"
    BY <1>1, <1>4 DEF Inserts, AuditInductive, Inductive, Sound, Asks
  <2>2. new \in Row
    BY <1>1, ConstantTypes, WrittenType
  <2>3. new.role # "none"
    BY <2>1 DEF Written, Column, NoRow, Set
  <2>. HIDE DEF new
  <2>4. Serialized(new) \in Data
    BY <2>2, <2>3 DEF Serialized, Data, Row
  <2>5. Untold \in Data
    BY DEF Untold, Data
  <2>6. AuditRecord(utx[t], began[t]) =
            [at |-> began[t], target |-> None, action |-> "INSERT",
             employee |-> utx[t].target, old |-> Untold,
             new |-> Serialized(new)]
    BY <1>4 DEF AuditRecord, InsertRecord, new
  <2>. QED
    BY <1>1, <1>2, <1>3, <2>4, <2>5, <2>6 DEF AuditLog, About
<1>5. CASE seen.role # "none"
  <2>. DEFINE old == Diff(want, seen, seen)
              told == Diff(want, seen, want)
  <2>1. told \in Data /\ old \in Data
    BY <1>1, <1>5, UpdateData
  <2>2. AuditRecord(utx[t], began[t]) =
            [at |-> began[t], target |-> utx[t].target, action |-> "UPDATE",
             employee |-> None, old |-> old, new |-> told]
    BY <1>5 DEF AuditRecord, UpdateRecord
  <2>. HIDE DEF old, told
  <2>. QED
    BY <1>1, <1>2, <1>3, <2>1, <2>2 DEF AuditLog, About
<1>. QED
  BY <1>4, <1>5

\* What a flush does: nothing that the trail tells of; an UPDATE that it does
\* not tell of; or an UPDATE or INSERT with its record.
FlushesNothing(t) ==
    /\ UNCHANGED <<audit_logs, updated_at>>
    /\ \A c \in Columns : user'[utx[t].target][c] = user[utx[t].target][c]

FlushesUntold(t) ==
    /\ UNCHANGED audit_logs
    /\ updated_at' = [updated_at EXCEPT ![utx[t].target] = began[t]]
    /\ \A c \in Columns : user'[utx[t].target][c] = user[utx[t].target][c]

FlushesTold(t, r) ==
    /\ audit_logs' = audit_logs \cup {r}
    /\ updated_at' = [updated_at EXCEPT ![utx[t].target] = began[t]]
    /\ \A c \in Columns :
           user'[utx[t].target][c] =
               IF r.new[c] = "keep" THEN user[utx[t].target][c] ELSE r.new[c]
    /\ user[utx[t].target].role = "none" =>
           \A c \in Columns : r.new[c] # "keep"

LEMMA WriteOutcome ==
    ASSUME AuditInductive, NEW t \in UserTxs, Flushes(t), Write(t),
           NEW r, r = AuditRecord(utx[t], began[t])
    PROVE  /\ FlushesNothing(t) \/ FlushesUntold(t) \/ FlushesTold(t, r)
           /\ \A c \in Columns : r.old[c] # "keep" =>
                  r.old[c] = utx[t].seen[c] /\ utx[t].seen.role # "none"
<1>. DEFINE want == utx[t].want
            seen == utx[t].seen
            u == utx[t].target
<1>0. /\ utx[t].pc = "write" /\ u \in Users /\ seen.role # "none"
      /\ want \in Want /\ seen \in Row /\ user[u] \in Row
  BY UserTxFields DEF Write, AuditInductive, AuditTypeOK
<1>1. r.old = Diff(want, seen, seen) /\ r.new = Diff(want, seen, want)
  BY <1>0 DEF AuditRecord, UpdateRecord
<1>2. user'[u] = Written(want, seen, user[u]) /\ utx'[t].pc = "idle"
  BY <1>0 DEF Write, Commit, AuditInductive, AuditTypeOK, TypeOK, IdleUser,
              NoUserTx
<1>3. \A c \in Columns :
          /\ user'[u][c] = IF r.new[c] = "keep" THEN user[u][c] ELSE r.new[c]
          /\ r.old[c] # "keep" => r.old[c] = seen[c]
  BY <1>0, <1>1, <1>2, FlushedColumns
<1>4. CASE r.new = Untold
  <2>1. \A c \in Columns : user'[u][c] = user[u][c]
    BY <1>3, <1>4 DEF Columns, Untold
  <2>. QED
    BY <1>0, <1>2, <1>3, <1>4, <2>1
       DEF Flushes, FlushesNothing, FlushesUntold
<1>5. CASE r.new # Untold
  <2>1. \E c \in Columns : r.new[c] # "keep"
    BY <1>1, <1>5 DEF Columns, Diff, Untold
  <2>2. Updates(utx[t])
    BY <1>0, <1>1, <2>1, FlushedColumns DEF Updates, Clean
  <2>3. user[u].role # "none"
    BY <1>0 DEF HasSeen, AuditInductive, SeenTold
  <2>. QED
    BY <1>0, <1>2, <1>3, <1>5, <2>2, <2>3 DEF Flushes, FlushesTold
<1>. QED
  BY <1>0, <1>3, <1>4, <1>5

LEMMA InsertOutcome ==
    ASSUME AuditInductive, NEW t \in UserTxs, Flushes(t), Insert(t),
           NEW r, r = AuditRecord(utx[t], began[t])
    PROVE  /\ FlushesNothing(t) \/ FlushesTold(t, r)
           /\ \A c \in Columns : r.old[c] = "keep"
<1>. DEFINE want == utx[t].want
            new == Written(want, NoRow, NoRow)
            u == utx[t].target
<1>0. /\ utx[t].pc = "write" /\ u \in Users /\ utx[t].seen.role = "none"
      /\ want \in Want /\ user[u] \in Row /\ utx[t].op = "login"
      /\ want.role # "keep"
  BY UserTxFields DEF Insert, AuditInductive, AuditTypeOK, Inserts
<1>1. r.old = Untold /\ r.new = Serialized(new)
  BY <1>0 DEF AuditRecord, InsertRecord
<1>2. \A c \in Columns : r.old[c] = "keep"
  BY <1>1 DEF Columns, Untold
<1>3. CASE user[u].role = "none"
  <2>1. user'[u] = new /\ utx'[t].pc = "idle"
    BY <1>0, <1>3 DEF Insert, Commit, AuditInductive, AuditTypeOK, TypeOK,
                      IdleUser, NoUserTx
  <2>2. new \in Row
    BY <1>0, ConstantTypes, WrittenType
  <2>3. \A c \in Columns : r.new[c] = user'[u][c] /\ r.new[c] # "keep"
    BY <1>1, <2>1, <2>2, KeepAssumption DEF Serialized, Columns, Row, Roles
  <2>4. r.new # Untold
    BY <2>3 DEF Columns, Untold
  <2>. QED
    BY <1>0, <1>2, <2>1, <2>3, <2>4 DEF Flushes, FlushesTold, Updates
<1>4. CASE user[u].role # "none"
  <2>1. Refuse(t) /\ UNCHANGED user
    BY <1>4 DEF Insert
  <2>2. utx'[t].pc = "refused"
    BY <2>1 DEF Refuse, NoUserTx, AuditInductive, AuditTypeOK, TypeOK
  <2>. QED
    BY <1>2, <2>1, <2>2 DEF Flushes, FlushesNothing
<1>. QED
  BY <1>3, <1>4

LEMMA FlushOutcome ==
    ASSUME AuditInductive, NEW t \in UserTxs, Flushes(t),
           NEW u, u = utx[t].target, NEW r, r = AuditRecord(utx[t], began[t])
    PROVE  /\ u \in Users /\ HasSeen(utx[t]) /\ utx[t].pc = "write"
           /\ r \in AuditLog /\ r.at = began[t]
           /\ \A v \in Users : About(r, v) <=> v = u
           /\ \A v \in Users \ {u} : user'[v] = user[v]
           /\ \A c \in Columns : r.old[c] # "keep" =>
                  r.old[c] = utx[t].seen[c] /\ utx[t].seen.role # "none"
           /\ FlushesNothing(t) \/ FlushesUntold(t) \/ FlushesTold(t, r)
<1>1. u \in Users /\ HasSeen(utx[t]) /\ utx[t].pc = "write"
  BY UserTxFields
     DEF Flushes, Write, Insert, HasSeen, AuditInductive, AuditTypeOK
<1>2. \A v \in Users \ {u} : user'[v] = user[v]
  BY DEF Flushes, Write, Insert, Commit, AuditInductive, AuditTypeOK, TypeOK
<1>3. Write(t) \/ Insert(t)
  BY DEF Flushes
<1>. QED
  BY <1>1, <1>2, <1>3, RecordType, WriteOutcome, InsertOutcome

------------------------------------------------------------------------------
(* Types.                                                                     *)

LEMMA StaysType ==
    ASSUME AuditTypeOK, NEW t \in Slots, NEW pc, Stays(t, pc)
    PROVE  /\ began' \in [Slots -> Moments \cup {None}]
           /\ \A x \in Slots \ {t} : began'[x] = began[x]
           /\ began'[t] = IF pc \in {"idle", "refused"} THEN None ELSE began[t]
BY DEF AuditTypeOK, Slots, Stays

LEMMA StartsType ==
    ASSUME AuditTypeOK, NEW t \in Slots, NEW now \in Moments, Starts(t, now)
    PROVE  /\ began' \in [Slots -> Moments \cup {None}]
           /\ \A x \in Slots \ {t} : began'[x] = began[x]
           /\ began'[t] = now /\ now \notin Taken /\ now # None
BY MomentAssumption DEF AuditTypeOK, Slots, Starts

LEMMA AuditTypeStep ==
    ASSUME AuditInductive, [AuditNext]_auditVars
    PROVE  AuditTypeOK'
<1>1. TypeOK'
  BY AuditNextIsNext, TypeStep DEF AuditInductive, AuditTypeOK
<1>. USE DEF AuditInductive
<1>2. CASE Passes \/ UNCHANGED auditVars
  BY <1>1, <1>2 DEF Passes, auditVars, AuditTypeOK
<1>3. ASSUME NEW t \in UserTxs, Begins(t) PROVE AuditTypeOK'
  BY <1>1, <1>3, StaysType, StartsType DEF Begins, AuditTypeOK, Slots
<1>4. ASSUME NEW t \in UserTxs, Reads(t) \/ Ends(t) PROVE AuditTypeOK'
  BY <1>1, <1>4, StaysType DEF Reads, Ends, AuditTypeOK, Slots
<1>5. ASSUME NEW t \in GroupTxs, GroupBegins(t) PROVE AuditTypeOK'
  BY <1>1, <1>5, StartsType DEF GroupBegins, AuditTypeOK, Slots
<1>6. ASSUME NEW t \in GroupTxs, GroupGoesOn(t) PROVE AuditTypeOK'
  BY <1>1, <1>6, StaysType DEF GroupGoesOn, AuditTypeOK, Slots
<1>7. ASSUME NEW t \in GroupTxs, Bypasses(t) PROVE AuditTypeOK'
  <2>1. began[t] \in Moments \cup {None}
    BY DEF AuditTypeOK
  <2>. QED
    BY <1>1, <1>7, <2>1, StaysType DEF Bypasses, AuditTypeOK, Slots
<1>8. ASSUME NEW t \in UserTxs, Flushes(t) PROVE AuditTypeOK'
  <2>. DEFINE r == AuditRecord(utx[t], began[t])
  <2>1. /\ r \in AuditLog /\ utx[t].target \in Users
        /\ began[t] \in Moments \cup {None}
    BY <1>8, FlushOutcome DEF AuditTypeOK
  <2>2. FlushesNothing(t) \/ FlushesUntold(t) \/ FlushesTold(t, r)
    BY <1>8, FlushOutcome
  <2>3. began' \in [Slots -> Moments \cup {None}] /\ start' = start
    BY <1>8, StaysType DEF Flushes, Slots
  <2>. HIDE DEF r
  <2>4. audit_logs' \subseteq AuditLog
    BY <2>1, <2>2
       DEF FlushesNothing, FlushesUntold, FlushesTold, AuditTypeOK
  <2>5. updated_at' \in [Users -> Moments \cup {None}]
    BY <2>1, <2>2
       DEF FlushesNothing, FlushesUntold, FlushesTold, AuditTypeOK
  <2>. QED
    BY <1>1, <2>3, <2>4, <2>5 DEF AuditTypeOK, Slots
<1>. QED
  BY <1>2, <1>3, <1>4, <1>5, <1>6, <1>7, <1>8 DEF AuditNext

------------------------------------------------------------------------------
(* The clock.                                                                 *)

\* A step of slot t that moves t's reading, if any, to the tables or drops it,
\* or gives t a new one.
LEMMA UnlikeKept ==
    ASSUME AuditTypeOK, Unlike, NEW t \in Slots,
           \A x \in Slots \ {t} : began'[x] = began[x],
           Stamps' \subseteq Stamps \cup {began[t]},
           began'[t] # None =>
               /\ Stamps' \subseteq Stamps
               /\ began'[t] = began[t] \/ began'[t] \notin Taken
    PROVE  Unlike'
<1>. SUFFICES ASSUME NEW y \in Slots, began'[y] # None
              PROVE  /\ began'[y] \notin Stamps'
                     /\ \A x \in Slots \ {y} : began'[x] # began'[y]
  BY DEF Unlike, Slots
<1>1. Stamps \subseteq Taken /\ \A x \in Slots : began[x] \in Taken
  BY DEF Taken, Slots
<1>2. CASE y = t
  <2>1. began'[t] \notin Stamps
    BY <1>1, <1>2 DEF Unlike
  <2>2. \A x \in Slots \ {t} : began[x] # began'[t]
    BY <1>1, <1>2 DEF Unlike
  <2>. QED
    BY <1>2, <2>1, <2>2
<1>3. CASE y # t
  <2>1. /\ began'[y] = began[y] /\ began[y] \notin Stamps
        /\ \A x \in Slots \ {y} : began[x] # began[y]
    BY <1>3 DEF Unlike
  <2>2. began'[t] # began[y]
    BY <1>1, <1>3, <2>1
  <2>. QED
    BY <1>3, <2>1, <2>2
<1>. QED
  BY <1>2, <1>3

\* A transaction that a step leaves alone, but for its `late'.
SameObject(x) ==
    /\ utx'[x].op = utx[x].op
    /\ utx'[x].pc = utx[x].pc
    /\ utx'[x].target = utx[x].target
    /\ utx'[x].actor = utx[x].actor
    /\ utx'[x].want = utx[x].want
    /\ utx'[x].seen = utx[x].seen

\* The others when a transaction on one user steps.
LEMMA OthersSame ==
    ASSUME AuditInductive, NEW t, NEW x \in UserTxs, x # t,
           \/ utx' = utx
           \/ \E tx : utx' = [utx EXCEPT ![t] = tx]
           \/ \E rows : Commit(t, rows)
    PROVE  SameObject(x)
<1>1. utx[x] \in UserTx
  BY DEF AuditInductive, AuditTypeOK, TypeOK
<1>2. CASE utx' = utx
  BY <1>2 DEF SameObject
<1>3. CASE \E tx : utx' = [utx EXCEPT ![t] = tx]
  BY <1>3 DEF SameObject, AuditInductive, AuditTypeOK, TypeOK
<1>4. CASE \E rows : Commit(t, rows)
  BY <1>1, <1>4 DEF SameObject, Commit, UserTx
<1>. QED
  BY <1>2, <1>3, <1>4

\* One step of a transaction on one user.
UserMoves(t) == Begins(t) \/ Reads(t) \/ Flushes(t) \/ Ends(t)

LEMMA UserMovesOthers ==
    ASSUME AuditInductive, NEW t \in UserTxs, UserMoves(t)
    PROVE  /\ \A x \in UserTxs \ {t} : SameObject(x)
           /\ \A x \in Slots \ {t} : began'[x] = began[x]
           /\ UNCHANGED gtx
<1>1. t \in Slots /\ utx \in [UserTxs -> UserTx] /\ AuditTypeOK
  BY DEF Slots, AuditInductive, AuditTypeOK, TypeOK
<1>2. \/ utx' = [utx EXCEPT ![t] = utx'[t]]
      \/ \E rows : Commit(t, rows)
  BY <1>1 DEF UserMoves, Begins, Reads, Flushes, Ends, Authorize, FindUser,
              Load, Refuse, Write, Insert, Abort
<1>3. \A x \in UserTxs \ {t} : SameObject(x)
  BY <1>2, OthersSame
<1>4. \A x \in Slots \ {t} : began'[x] = began[x]
  BY <1>1, StaysType, StartsType DEF UserMoves, Begins, Reads, Flushes, Ends
<1>5. UNCHANGED gtx
  BY DEF UserMoves, Begins, Reads, Flushes, Ends, Authorize, FindUser, Load,
         Write, Insert, Abort
<1>. QED
  BY <1>3, <1>4, <1>5

LEMMA UserMovesClock ==
    ASSUME AuditInductive, AuditTypeOK', NEW t \in UserTxs, UserMoves(t)
    PROVE  Dated' /\ Unlike'
<1>. t \in Slots /\ AuditTypeOK /\ Unlike /\ Dated
  BY DEF Slots, AuditInductive
<1>0. /\ utx' \in [UserTxs -> UserTx]
      /\ \A x \in GroupTxs : x \in Slots \ {t}
      /\ \A x \in UserTxs : x \in Slots
  BY SlotAssumption DEF AuditTypeOK, TypeOK, Slots
<1>1. /\ utx'[t].pc \in {"load", "lookup", "write"} => began'[t] # None
      /\ began'[t] # None => /\ Stamps' = Stamps
                             /\ began'[t] = began[t] \/ began'[t] \notin Taken
      /\ Stamps' \subseteq Stamps \cup {began[t]}
  <2>1. CASE Begins(t)
    BY <2>1, StaysType, StartsType DEF Begins, Stamps
  <2>2. CASE Reads(t)
    <3>1. utx[t].pc = "load"
      BY <2>2 DEF Reads, Load
    <3>. QED
      BY <2>2, <3>1, StaysType DEF Reads, Stamps, Dated
  <2>3. CASE Ends(t)
    <3>1. utx'[t].pc = "idle"
      BY <2>3 DEF Ends, Abort, IdleUser, NoUserTx, AuditTypeOK, TypeOK
    <3>. QED
      BY <2>3, <3>1, StaysType DEF Ends, Stamps
  <2>4. CASE Flushes(t)
    <3>. DEFINE r == AuditRecord(utx[t], began[t])
    <3>1. utx'[t].pc \in {"idle", "refused"}
      BY <2>4 DEF Flushes, Write, Insert, Commit, Refuse, IdleUser, NoUserTx,
                  AuditTypeOK, TypeOK
    <3>2. r.at = began[t] /\ utx[t].target \in Users
      BY <2>4, FlushOutcome
    <3>3. FlushesNothing(t) \/ FlushesUntold(t) \/ FlushesTold(t, r)
      BY <2>4, FlushOutcome
    <3>4. began'[t] = None
      BY <2>4, StaysType DEF Flushes
    <3>. HIDE DEF r
    <3>5. Stamps' \subseteq Stamps \cup {began[t]}
      BY <3>2, <3>3
         DEF FlushesNothing, FlushesUntold, FlushesTold, Stamps, AuditTypeOK
    <3>. QED
      BY <3>1, <3>4, <3>5
  <2>. QED
    BY <2>1, <2>2, <2>3, <2>4 DEF UserMoves
<1>2. Unlike'
  BY <1>1, UserMovesOthers, UnlikeKept
<1>3. Dated'
  BY <1>0, <1>1, UserMovesOthers DEF Dated, SameObject
<1>. QED
  BY <1>2, <1>3

\* One step of a transaction on a group.
GroupMoves(t) == GroupBegins(t) \/ GroupGoesOn(t) \/ Bypasses(t)

LEMMA GroupMovesOthers ==
    ASSUME AuditInductive, NEW t \in GroupTxs, GroupMoves(t)
    PROVE  /\ \A x \in UserTxs : SameObject(x)
           /\ \A x \in Slots \ {t} : began'[x] = began[x]
           /\ \A x \in GroupTxs \ {t} : gtx'[x] = gtx[x]
<1>1. t \in Slots /\ gtx \in [GroupTxs -> GroupTx] /\ AuditTypeOK
  BY DEF Slots, AuditInductive, AuditTypeOK, TypeOK
<1>2. \A x \in UserTxs : utx[x] \in UserTx
  BY DEF AuditInductive, AuditTypeOK, TypeOK
<1>3. \A x \in UserTxs : SameObject(x)
  <2>1. CASE Bypasses(t)
    BY <1>2, <2>1 DEF Bypasses, CommitGroup, SameObject, UserTx
  <2>2. CASE ~Bypasses(t)
    BY <2>2 DEF GroupMoves, GroupBegins, GroupGoesOn, SubmitGroup, LoadGroup,
                Create, Regroup, Drop, Sync, Lock, AbortGroup, SameObject
  <2>. QED
    BY <2>1, <2>2
<1>4. \A x \in Slots \ {t} : began'[x] = began[x]
  BY <1>1, StaysType, StartsType
     DEF GroupMoves, GroupBegins, GroupGoesOn, Bypasses
<1>5. \E tx : gtx' = [gtx EXCEPT ![t] = tx]
  <2>1. gtx' = [gtx EXCEPT ![t] = gtx'[t]]
    BY <1>1 DEF GroupMoves, GroupBegins, GroupGoesOn, Bypasses, SubmitGroup,
                BeginGroup, GotoGroup, EndGroup, LoadGroup, Create, Regroup,
                Drop, Sync, Lock, CommitGroup, AbortGroup
  <2>. QED
    BY <2>1
<1>. QED
  BY <1>1, <1>3, <1>4, <1>5

LEMMA GroupMovesClock ==
    ASSUME AuditInductive, AuditTypeOK', NEW t \in GroupTxs, GroupMoves(t)
    PROVE  Dated' /\ Unlike'
<1>. t \in Slots /\ AuditTypeOK /\ Unlike /\ Dated
  BY DEF Slots, AuditInductive
<1>0. /\ gtx' \in [GroupTxs -> GroupTx]
      /\ \A x \in UserTxs : x \in Slots \ {t}
      /\ \A x \in GroupTxs : x \in Slots
  BY SlotAssumption DEF AuditTypeOK, TypeOK, Slots
<1>1. /\ gtx'[t].pc # "idle" => began'[t] # None
      /\ began'[t] # None => /\ Stamps' = Stamps
                             /\ began'[t] = began[t] \/ began'[t] \notin Taken
      /\ Stamps' \subseteq Stamps \cup {began[t]}
  <2>1. CASE GroupBegins(t)
    BY <2>1, StartsType DEF GroupBegins, Stamps
  <2>2. CASE GroupGoesOn(t)
    <3>1. gtx[t].pc # "idle"
      BY <2>2 DEF GroupGoesOn, LoadGroup, Create, Regroup, Drop, Sync, Lock,
                  AbortGroup
    <3>2. gtx'[t].pc # "refused"
      BY <1>0 DEF GroupTx
    <3>. QED
      BY <2>2, <3>1, <3>2, StaysType DEF GroupGoesOn, Stamps, Dated
  <2>3. CASE Bypasses(t)
    <3>1. gtx'[t].pc = "idle"
      BY <2>3 DEF Bypasses, CommitGroup, EndGroup, IdleGroup, AuditTypeOK,
                  TypeOK
    <3>2. Stamps' \subseteq Stamps \cup {began[t]}
      BY <2>3 DEF Bypasses, Stamps
    <3>. QED
      BY <2>3, <3>1, <3>2, StaysType DEF Bypasses
  <2>. QED
    BY <2>1, <2>2, <2>3 DEF GroupMoves
<1>2. Unlike'
  BY <1>1, GroupMovesOthers, UnlikeKept
<1>3. Dated'
  BY <1>0, <1>1, GroupMovesOthers DEF Dated, SameObject
<1>. QED
  BY <1>2, <1>3

LEMMA PassesClock ==
    ASSUME AuditInductive, AuditTypeOK', Passes
    PROVE  Dated' /\ Unlike'
<1>1. UNCHANGED <<gtx, began, Stamps>>
  BY DEF Passes, Submit, StartLogin, LookUpGroup, Refused, Stamps
<1>2. Unlike'
  BY <1>1 DEF Unlike, Slots, AuditInductive
<1>3. \A t \in UserTxs :
          utx'[t].pc \in {"load", "lookup", "write"} => began[t] # None
  <2>1. ASSUME NEW t \in UserTxs, NEW tx, utx' = [utx EXCEPT ![t] = tx],
               \/ tx.pc \in {"idle", "auth", "find"}
               \/ utx[t].pc = "lookup"
        PROVE  <1>3
    BY <2>1 DEF AuditInductive, AuditTypeOK, TypeOK, Dated
  <2>2. ASSUME NEW t \in UserTxs, LookUpGroup(t)
        PROVE  <1>3
    <3>. DEFINE role == LoginRole(utx[t].seen, Whitelisted(utx[t].key))
                want == [utx[t].want EXCEPT !.role = role]
                tx == [utx[t] EXCEPT !.pc = "write", !.want = want]
    <3>1. utx' = [utx EXCEPT ![t] = tx]
      BY <2>2 DEF LookUpGroup, AuditInductive, AuditTypeOK, TypeOK, UserTx
    <3>2. utx[t].pc = "lookup"
      BY <2>2 DEF LookUpGroup
    <3>. HIDE DEF tx
    <3>. QED
      BY <2>1, <3>1, <3>2
  <2>. QED
    BY <2>1, <2>2
       DEF Passes, Submit, StartLogin, Begin, Refused, IdleUser, NoUserTx
<1>. QED
  BY <1>1, <1>2, <1>3 DEF Dated, AuditInductive

------------------------------------------------------------------------------
(* The objects in sessions.                                                   *)

LEMMA ToldMore ==
    ASSUME audit_logs \subseteq audit_logs', UNCHANGED start
    PROVE  \A u, c : Told(audit_logs, u, c) \subseteq Told(audit_logs, u, c)'
BY DEF Told

LEMMA RowToldMore ==
    ASSUME audit_logs \subseteq audit_logs', UNCHANGED start,
           NEW u, NEW row, RowTold(u, row)
    PROVE  RowTold(u, row)'
BY ToldMore DEF RowTold

\* A row is there for good.
RowsStay == \A u \in Users : user[u].role # "none" => user'[u].role # "none"

\* A step that keeps the records and the rows.
Grows == audit_logs \subseteq audit_logs' /\ UNCHANGED start /\ RowsStay

\* What a transaction has loaded was told by then and is told now.
LEMMA SeenNow ==
    ASSUME Grows, NEW x, NEW u \in Users, NEW row,
           utx'[x].target = u, utx'[x].seen = row,
           RowTold(u, row), row.role # "none" => user[u].role # "none"
    PROVE  SeenTold(x)'
<1>1. RowTold(u, row)'
  BY RowToldMore DEF Grows
<1>2. row.role # "none" => user'[u].role # "none"
  BY DEF Grows, RowsStay
<1>. QED
  BY <1>1, <1>2 DEF SeenTold, RowTold

\* A transaction that keeps its object.
LEMMA SeenKept ==
    ASSUME AuditInductive, Grows, NEW x \in UserTxs,
           HasSeen(utx'[x]) =>
               /\ HasSeen(utx[x])
               /\ utx'[x].target = utx[x].target
               /\ utx[x].target \in Users
               /\ utx'[x].seen = utx[x].seen
    PROVE  SeenTold(x)'
<1>. SUFFICES ASSUME HasSeen(utx'[x]) PROVE SeenTold(x)'
  BY DEF SeenTold, HasSeen
<1>. SUFFICES ASSUME NEW u \in Users, u = utx[x].target,
                     NEW row, row = utx[x].seen
              PROVE  SeenTold(x)'
  OBVIOUS
<1>1. RowTold(u, row) /\ (row.role # "none" => user[u].role # "none")
  BY DEF AuditInductive, SeenTold, RowTold
<1>. QED
  BY <1>1, SeenNow

LEMMA SameObjectSeen ==
    ASSUME AuditInductive, Grows, NEW x \in UserTxs, SameObject(x)
    PROVE  Inserts(utx'[x]) /\ SeenTold(x)'
<1>1. HasSeen(utx[x]) => utx[x].target \in Users
  BY UserTxFields DEF HasSeen, AuditInductive, AuditTypeOK
<1>2. HasSeen(utx'[x]) => HasSeen(utx[x])
  BY DEF HasSeen, SameObject
<1>3. SeenTold(x)'
  BY <1>1, <1>2, SeenKept DEF SameObject
<1>. QED
  BY <1>3 DEF AuditInductive, Inserts, SameObject

\* A transaction that holds no object of its target.
LEMMA NothingSeen ==
    ASSUME NEW x, utx'[x].pc \in {"idle", "refused", "auth", "find"}
    PROVE  Inserts(utx'[x]) /\ SeenTold(x)'
BY DEF SeenTold, HasSeen, Inserts

\* One step of one transaction.
LEMMA OneTxStep ==
    ASSUME AuditInductive, Grows, NEW t \in UserTxs,
           \E tx : utx' = [utx EXCEPT ![t] = tx],
           Inserts(utx'[t]) /\ SeenTold(t)'
    PROVE  \A x \in UserTxs : Inserts(utx'[x]) /\ SeenTold(x)'
<1>. SUFFICES ASSUME NEW x \in UserTxs, x # t
              PROVE  Inserts(utx'[x]) /\ SeenTold(x)'
  OBVIOUS
<1>1. SameObject(x)
  BY OthersSame
<1>. QED
  BY <1>1, SameObjectSeen

\* What a read that is not refused leaves in the transaction.
LEMMA ReadOutcome ==
    ASSUME AuditInductive, NEW t \in UserTxs,
           Authorize(t) \/ Load(t) \/ FindUser(t), utx'[t].pc # "refused"
    PROVE  /\ utx'[t].target = utx[t].target
           /\ HasSeen(utx'[t]) =>
                  \/ utx'[t].seen = user[utx[t].target]
                  \/ HasSeen(utx[t]) /\ utx'[t].seen = utx[t].seen
           /\ utx'[t].pc = "write" => utx'[t].seen.role # "none"
<1>. DEFINE u == utx[t].target
<1>0. /\ utx[t] \in UserTx
      /\ utx[t].pc \in {"auth", "load"} => utx[t].op \in UserOps
      /\ utx[t].pc = "find" => utx[t].op = "login"
      /\ t \in DOMAIN utx
  BY DEF NamesUser, AuditInductive, AuditTypeOK, TypeOK
<1>1. CASE Authorize(t)
  <2>. DEFINE me == user[utx[t].actor]
              seen == IF utx[t].actor = u THEN me ELSE utx[t].seen
              tx == [utx[t] EXCEPT !.pc = "load", !.me = me.role, !.seen = seen]
  <2>1. Authorized(utx[t].op, me)
    BY <1>0, <1>1 DEF Authorize, Refuse, NoUserTx
  <2>2. utx' = [utx EXCEPT ![t] = tx]
    BY <1>0, <1>1, <2>1 DEF Authorize, AuditInductive, AuditTypeOK, TypeOK, UserTx
  <2>3. utx[t].actor = u => seen = user[u]
    OBVIOUS
  <2>. HIDE DEF seen
  <2>4. /\ utx'[t].actor = utx[t].actor
        /\ utx'[t].target = u /\ utx'[t].seen = seen /\ utx'[t].pc = "load"
    BY <1>0, <2>2 DEF UserTx
  <2>. QED
    BY <2>3, <2>4 DEF HasSeen
<1>2. CASE Load(t)
  <2>. DEFINE seen == IF u = utx[t].actor THEN utx[t].seen ELSE user[u]
              tx == [utx[t] EXCEPT !.pc = "write", !.seen = seen]
  <2>1. /\ ~Rejects(utx[t].op, utx[t].me, utx[t].want, seen)
        /\ utx' = [utx EXCEPT ![t].pc = "write", ![t].seen = seen]
    BY <1>0, <1>2 DEF Load, Refuse, NoUserTx
  <2>2. utx' = [utx EXCEPT ![t] = tx]
    BY <1>0, <2>1 DEF AuditInductive, AuditTypeOK, TypeOK, UserTx
  <2>3. \/ seen = user[u]
        \/ HasSeen(utx[t]) /\ seen = utx[t].seen
    BY <1>2 DEF Load, HasSeen
  <2>4. seen.role # "none"
    BY <2>1 DEF Rejects, Present
  <2>. HIDE DEF seen
  <2>5. utx'[t].target = u /\ utx'[t].seen = seen /\ utx'[t].pc = "write"
    BY <1>0, <2>2 DEF UserTx
  <2>. QED
    BY <2>3, <2>4, <2>5
<1>3. CASE FindUser(t)
  <2>. DEFINE tx == [utx[t] EXCEPT !.pc = "lookup", !.seen = user[u]]
  <2>1. utx' = [utx EXCEPT ![t] = tx]
    BY <1>0, <1>3 DEF FindUser, AuditInductive, AuditTypeOK, TypeOK, UserTx
  <2>2. /\ utx'[t].target = u /\ utx'[t].seen = user[u]
        /\ utx'[t].pc = "lookup"
    BY <1>0, <2>1 DEF UserTx
  <2>. QED
    BY <2>2
<1>. QED
  BY <1>1, <1>2, <1>3

LEMMA ReadsSeen ==
    ASSUME AuditInductive, Grows, NEW t \in UserTxs,
           Authorize(t) \/ Load(t) \/ FindUser(t)
    PROVE  \A x \in UserTxs : Inserts(utx'[x]) /\ SeenTold(x)'
<1>1. utx[t].target \in Users
  BY UserTxFields DEF Authorize, Load, FindUser, AuditInductive, AuditTypeOK
<1>2. \E tx : utx' = [utx EXCEPT ![t] = tx]
  <2>1. t \in DOMAIN utx
    BY DEF AuditInductive, AuditTypeOK, TypeOK
  <2>2. utx' = [utx EXCEPT ![t] = utx'[t]]
    BY <2>1 DEF Authorize, Load, FindUser, Refuse
  <2>. QED
    BY <2>2
<1>3. CASE utx'[t].pc = "refused" \/ ~HasSeen(utx'[t])
  BY <1>2, <1>3, NothingSeen, OneTxStep DEF SeenTold, HasSeen, Inserts
<1>4. CASE utx'[t].pc # "refused" /\ HasSeen(utx'[t])
  <2>1. Inserts(utx'[t]) /\ utx'[t].target = utx[t].target
    BY <1>4, ReadOutcome DEF Inserts
  <2>2. CASE utx'[t].seen = user[utx[t].target]
    <3>. SUFFICES ASSUME NEW u \in Users, u = utx[t].target,
                         NEW row, row = user[u]
                  PROVE  SeenTold(t)'
      BY <1>1, <1>2, <2>1, OneTxStep
    <3>1. RowTold(u, row)
      BY DEF AuditInductive, OldValueWasTold, RowTold
    <3>. QED
      BY <2>1, <2>2, <3>1, SeenNow
  <2>3. CASE HasSeen(utx[t]) /\ utx'[t].seen = utx[t].seen
    <3>1. SeenTold(t)'
      BY <1>1, <2>1, <2>3, SeenKept
    <3>. QED
      BY <1>2, <2>1, <3>1, OneTxStep
  <2>. QED
    BY <1>4, <2>2, <2>3, ReadOutcome
<1>. QED
  BY <1>3, <1>4

\* The steps of Directory that the hook does not see.
LEMMA PassesSeen ==
    ASSUME AuditInductive, Grows, Passes
    PROVE  \A x \in UserTxs : Inserts(utx'[x]) /\ SeenTold(x)'
<1>1. ASSUME NEW t \in UserTxs, NEW tx, utx' = [utx EXCEPT ![t] = tx],
             tx.pc \in {"idle", "auth", "find"}
      PROVE  \A x \in UserTxs : Inserts(utx'[x]) /\ SeenTold(x)'
  <2>1. utx'[t] = tx
    BY <1>1 DEF AuditInductive, AuditTypeOK, TypeOK
  <2>2. Inserts(utx'[t]) /\ SeenTold(t)'
    BY <1>1, <2>1, NothingSeen
  <2>3. \E y : utx' = [utx EXCEPT ![t] = y]
    BY <1>1
  <2>. QED
    BY <2>2, <2>3, OneTxStep
<1>2. ASSUME NEW t \in UserTxs, LookUpGroup(t)
      PROVE  \A x \in UserTxs : Inserts(utx'[x]) /\ SeenTold(x)'
  <2>. DEFINE role == LoginRole(utx[t].seen, Whitelisted(utx[t].key))
              want == [utx[t].want EXCEPT !.role = role]
              tx == [utx[t] EXCEPT !.pc = "write", !.want = want]
  <2>1. utx[t] \in UserTx /\ utx[t].op = "login" /\ utx[t].want \in Want
    BY <1>2, UserTxFields
       DEF LookUpGroup, NamesUser, AuditInductive, AuditTypeOK
  <2>2. utx[t].seen.role = "none" => role # "keep"
    BY DEF LoginRole
  <2>3. want.role = role
    BY <2>1 DEF Want
  <2>4. utx' = [utx EXCEPT ![t] = tx]
    BY <1>2 DEF LookUpGroup, AuditInductive, AuditTypeOK, TypeOK, UserTx
  <2>. HIDE DEF role, want
  <2>5. /\ utx'[t].op = "login" /\ utx'[t].pc = "write"
        /\ utx'[t].target = utx[t].target /\ utx'[t].seen = utx[t].seen
        /\ utx'[t].want = want
    BY <2>1, <2>4 DEF AuditInductive, AuditTypeOK, TypeOK, UserTx
  <2>6. HasSeen(utx[t]) /\ utx[t].target \in Users
    BY <1>2, UserTxFields
       DEF LookUpGroup, HasSeen, AuditInductive, AuditTypeOK
  <2>7. SeenTold(t)'
    BY <2>5, <2>6, SeenKept
  <2>8. Inserts(utx'[t])
    BY <2>2, <2>3, <2>5 DEF Inserts
  <2>. QED
    BY <2>4, <2>7, <2>8, OneTxStep
<1>. QED
  BY <1>1, <1>2
     DEF Passes, Submit, StartLogin, Begin, Refused, IdleUser, NoUserTx

LEMMA FlushesSeen ==
    ASSUME AuditInductive, Grows, NEW t \in UserTxs, Flushes(t)
    PROVE  \A x \in UserTxs : Inserts(utx'[x]) /\ SeenTold(x)'
<1>1. utx'[t].pc \in {"idle", "refused"}
  BY DEF Flushes, Write, Insert, Commit, Refuse, IdleUser, NoUserTx,
         AuditInductive, AuditTypeOK, TypeOK
<1>2. \A x \in UserTxs \ {t} : SameObject(x)
  BY UserMovesOthers DEF UserMoves
<1>. QED
  BY <1>1, <1>2, NothingSeen, SameObjectSeen

LEMMA EndsSeen ==
    ASSUME AuditInductive, Grows, NEW t \in UserTxs, Ends(t)
    PROVE  \A x \in UserTxs : Inserts(utx'[x]) /\ SeenTold(x)'
<1>1. utx'[t].pc = "idle"
  BY DEF Ends, Abort, IdleUser, NoUserTx, AuditInductive, AuditTypeOK, TypeOK
<1>2. \A x \in UserTxs \ {t} : SameObject(x)
  BY UserMovesOthers DEF UserMoves
<1>. QED
  BY <1>1, <1>2, NothingSeen, SameObjectSeen

------------------------------------------------------------------------------
(* The records.                                                               *)

\* A step that writes no column but the role, of no row but those it stamps.
LEMMA LogKept ==
    ASSUME AuditInductive, UNCHANGED <<audit_logs, start>>,
           \A u \in Users :
               /\ user'[u].active = user[u].active
               /\ user'[u].dept = user[u].dept
               /\ user[u].role = "none" => user'[u].role = "none"
               /\ \/ updated_at'[u] = updated_at[u]
                     /\ user'[u].role = user[u].role
                  \/ updated_at'[u] \notin {r.at : r \in audit_logs}
    PROVE  TrailTellsRow' /\ OldValueWasTold'
<1>1. TrailTellsRow'
  <2>. SUFFICES ASSUME NEW r \in audit_logs, NEW u \in Users,
                       About(r, u), r.at = updated_at'[u]
                PROVE  \A c \in Columns : r.new[c] \in {"keep", user'[u][c]}
    BY DEF TrailTellsRow, About
  <2>1. updated_at'[u] = updated_at[u] /\ user'[u].role = user[u].role
    OBVIOUS
  <2>2. \A c \in Columns : user'[u][c] = user[u][c]
    BY <2>1 DEF Columns
  <2>. QED
    BY <2>1, <2>2 DEF AuditInductive, TrailTellsRow
<1>2. \A u \in Users, c \in Columns \ {"role"} : user'[u][c] = user[u][c]
  BY DEF Columns
<1>3. OldValueWasTold'
  <2>. SUFFICES ASSUME NEW u \in Users, NEW c \in Columns \ {"role"}
                PROVE  /\ user'[u].role # "none" =>
                              user'[u][c] \in Told(audit_logs, u, c)'
                       /\ \A r \in audit_logs : About(r, u) =>
                              r.old[c] \in {"keep"} \cup
                                  Told(audit_logs \ {r}, u, c)'
    BY DEF OldValueWasTold, About
  <2>1. /\ user[u].role # "none" => user[u][c] \in Told(audit_logs, u, c)
        /\ \A r \in audit_logs : About(r, u) =>
               r.old[c] \in {"keep"} \cup Told(audit_logs \ {r}, u, c)
    BY DEF AuditInductive, OldValueWasTold
  <2>2. user'[u].role # "none" => user[u].role # "none"
    OBVIOUS
  <2>3. Told(audit_logs, u, c)' = Told(audit_logs, u, c)
    BY DEF Told
  <2>4. ASSUME NEW r \in audit_logs
        PROVE  Told(audit_logs \ {r}, u, c)' = Told(audit_logs \ {r}, u, c)
    BY DEF Told
  <2>. QED
    BY <1>2, <2>1, <2>2, <2>3, <2>4
<1>. QED
  BY <1>1, <1>3

\* The bulk UPDATE changes roles, of rows that it stamps.
LEMMA BypassesLog ==
    ASSUME AuditInductive, NEW t \in GroupTxs, Bypasses(t)
    PROVE  TrailTellsRow' /\ OldValueWasTold'
<1>1. began[t] # None /\ began[t] \notin Stamps
  BY DEF Bypasses, CommitGroup, AuditInductive, Dated, Unlike, Slots
<1>2. \A u \in gtx[t].rows : user[u].role # "none"
  BY DEF Bypasses, CommitGroup, AuditInductive, Inductive, HeldRowsMatch,
         Matches
<1>3. \A u \in Users : user[u] \in Row
  BY DEF AuditInductive, AuditTypeOK, TypeOK
<1>4. \A u \in Users :
          /\ user'[u].active = user[u].active
          /\ user'[u].dept = user[u].dept
          /\ user[u].role = "none" => user'[u].role = "none"
          /\ \/ updated_at'[u] = updated_at[u]
                /\ user'[u].role = user[u].role
             \/ updated_at'[u] = began[t]
  BY <1>2, <1>3 DEF Bypasses, CommitGroup, Row
<1>. QED
  BY <1>1, <1>4, LogKept DEF Bypasses, Stamps

\* A flush that tells nothing leaves the columns, or the record of the last
\* UPDATE is none.
LEMMA FlushesQuietLog ==
    ASSUME AuditInductive, NEW t \in UserTxs, Flushes(t),
           FlushesNothing(t) \/ FlushesUntold(t)
    PROVE  TrailTellsRow' /\ OldValueWasTold'
<1>. DEFINE u == utx[t].target
<1>1. /\ u \in Users /\ utx[t].pc = "write"
      /\ \A v \in Users \ {u} : user'[v] = user[v]
  BY FlushOutcome
<1>2. began[t] # None /\ began[t] \notin Stamps
  BY <1>1 DEF AuditInductive, Dated, Unlike, Slots
<1>3. \A v \in Users, c \in Columns : user'[v][c] = user[v][c]
  BY <1>1 DEF FlushesNothing, FlushesUntold
<1>4. \A v \in Users :
          updated_at'[v] = updated_at[v] \/ updated_at'[v] = began[t]
  BY DEF FlushesNothing, FlushesUntold, AuditInductive, AuditTypeOK
<1>5. \A v \in Users : /\ user'[v].active = user[v].active
                       /\ user'[v].dept = user[v].dept
                       /\ user'[v].role = user[v].role
  BY <1>3 DEF Columns
<1>6. UNCHANGED <<audit_logs, start>>
  BY DEF Flushes, FlushesNothing, FlushesUntold
<1>. QED
  BY <1>2, <1>4, <1>5, <1>6, LogKept DEF Stamps

\* The new record tells what is in the row, and its old values were told by
\* the records before it.
LEMMA FlushesLog ==
    ASSUME AuditInductive, NEW t \in UserTxs, Flushes(t),
           FlushesTold(t, AuditRecord(utx[t], began[t]))
    PROVE  TrailTellsRow' /\ OldValueWasTold'
<1>. DEFINE rec == AuditRecord(utx[t], began[t])
            own == utx[t].target
<1>0. /\ own \in Users /\ HasSeen(utx[t]) /\ utx[t].pc = "write"
      /\ rec.at = began[t]
      /\ \A v \in Users : About(rec, v) <=> v = own
      /\ \A v \in Users \ {own} : user'[v] = user[v]
      /\ \A c \in Columns : rec.old[c] # "keep" =>
             rec.old[c] = utx[t].seen[c] /\ utx[t].seen.role # "none"
  BY FlushOutcome
<1>. SUFFICES ASSUME NEW u \in Users, u = own, NEW r, r = rec,
                     NEW row, row = utx[t].seen
              PROVE  TrailTellsRow' /\ OldValueWasTold'
  BY <1>0
<1>1. /\ r.at = began[t] /\ began[t] # None /\ began[t] \notin Stamps
      /\ \A v \in Users : About(r, v) <=> v = u
      /\ \A v \in Users \ {u} : user'[v] = user[v]
      /\ \A c \in Columns : r.old[c] # "keep" =>
             r.old[c] = row[c] /\ row.role # "none"
      /\ RowTold(u, row)
  BY <1>0 DEF AuditInductive, Dated, Unlike, Slots, SeenTold, RowTold
<1>2. /\ audit_logs' = audit_logs \cup {r}
      /\ updated_at'[u] = began[t]
      /\ \A v \in Users \ {u} : updated_at'[v] = updated_at[v]
      /\ \A c \in Columns :
             user'[u][c] = IF r.new[c] = "keep" THEN user[u][c] ELSE r.new[c]
      /\ user[u].role = "none" => \A c \in Columns : r.new[c] # "keep"
      /\ start' = start
  BY DEF FlushesTold, Flushes, AuditInductive, AuditTypeOK
<1>. HIDE DEF rec, own
<1>3. r \notin audit_logs
  BY <1>1 DEF Stamps
<1>4. TrailTellsRow'
  <2>. SUFFICES ASSUME NEW q \in audit_logs', NEW v \in Users,
                       About(q, v), q.at = updated_at'[v],
                       NEW c \in Columns
                PROVE  q.new[c] \in {"keep", user'[v][c]}
    BY DEF TrailTellsRow, About
  <2>1. CASE q = r
    BY <1>1, <1>2, <2>1
  <2>2. CASE q # r /\ v = u
    BY <1>1, <1>2, <2>2 DEF Stamps
  <2>3. CASE q # r /\ v # u
    BY <1>1, <1>2, <2>3 DEF AuditInductive, TrailTellsRow
  <2>. QED
    BY <2>1, <2>2, <2>3
<1>5. \A logs, more, v, c :
          logs \subseteq more =>
              Told(logs, v, c) \subseteq Told(more, v, c)'
  BY <1>2 DEF Told
<1>6. \A c : r.new[c] \in Told(audit_logs, u, c)'
  BY <1>1, <1>2 DEF Told
<1>7. OldValueWasTold'
  <2>. SUFFICES ASSUME NEW v \in Users, NEW c \in Columns \ {"role"}
                PROVE  /\ user'[v].role # "none" =>
                              user'[v][c] \in Told(audit_logs, v, c)'
                       /\ \A q \in audit_logs' : About(q, v) =>
                              q.old[c] \in {"keep"} \cup
                                  Told(audit_logs \ {q}, v, c)'
    BY DEF OldValueWasTold, About
  <2>1. ASSUME user'[v].role # "none"
        PROVE  user'[v][c] \in Told(audit_logs, v, c)'
    <3>1. CASE v = u /\ r.new[c] # "keep"
      BY <1>2, <1>6, <3>1
    <3>2. CASE v # u \/ r.new[c] = "keep"
      <4>1. user[v].role # "none" /\ user'[v][c] = user[v][c]
        BY <1>1, <1>2, <2>1, <3>2
      <4>2. user[v][c] \in Told(audit_logs, v, c)
        BY <4>1 DEF AuditInductive, OldValueWasTold
      <4>3. Told(audit_logs, v, c) \subseteq Told(audit_logs, v, c)'
        BY <1>2, ToldMore
      <4>. QED
        BY <4>1, <4>2, <4>3
    <3>. QED
      BY <3>1, <3>2
  <2>2. ASSUME NEW q \in audit_logs', About(q, v), q.old[c] # "keep"
        PROVE  q.old[c] \in Told(audit_logs \ {q}, v, c)'
    <3>1. CASE q = r
      <4>1. row.role # "none" /\ q.old[c] = row[c] /\ v = u
        BY <1>1, <2>2, <3>1
      <4>2. row[c] \in Told(audit_logs, u, c)
        BY <1>1, <4>1 DEF RowTold
      <4>3. audit_logs \subseteq audit_logs' \ {q}
        BY <1>2, <1>3, <3>1
      <4>. QED
        BY <1>2, <4>1, <4>2, <4>3 DEF Told, About
    <3>2. CASE q # r
      <4>1. q \in audit_logs
        BY <1>2, <3>2
      <4>2. q.old[c] \in Told(audit_logs \ {q}, v, c)
        BY <2>2, <4>1 DEF AuditInductive, OldValueWasTold
      <4>. QED
        BY <1>2, <4>2 DEF Told, About
    <3>. QED
      BY <3>1, <3>2
  <2>. QED
    BY <2>1, <2>2
<1>. QED
  BY <1>4, <1>7

\* A step that leaves the rows and the records alone.
LEMMA QuietLog ==
    ASSUME AuditInductive, UNCHANGED <<user, audit_logs, updated_at, start>>
    PROVE  TrailTellsRow' /\ OldValueWasTold'
BY LogKept

------------------------------------------------------------------------------
(* The steps.                                                                 *)

LEMMA RowsGrow ==
    ASSUME AuditInductive, [AuditNext]_auditVars
    PROVE  Grows
<1>. USE DEF Grows, RowsStay
<1>1. CASE UNCHANGED <<user, audit_logs, start>>
  BY <1>1
<1>2. CASE Passes \/ UNCHANGED auditVars
  BY <1>1, <1>2 DEF Passes, Submit, StartLogin, LookUpGroup, Refused, auditVars
<1>3. ASSUME NEW t \in UserTxs, Begins(t) \/ Reads(t) \/ Ends(t)
      PROVE  Grows
  BY <1>1, <1>3 DEF Begins, Reads, Ends, Authorize, FindUser, Load, Abort
<1>4. ASSUME NEW t \in GroupTxs, GroupBegins(t) \/ GroupGoesOn(t)
      PROVE  Grows
  BY <1>1, <1>4 DEF GroupBegins, GroupGoesOn, SubmitGroup, LoadGroup, Create,
                    Regroup, Drop, Sync, Lock, AbortGroup
<1>5. ASSUME NEW t \in GroupTxs, Bypasses(t)
      PROVE  Grows
  <2>1. \A u \in Users : user[u] \in Row
    BY DEF AuditInductive, AuditTypeOK, TypeOK
  <2>. QED
    BY <1>5, <2>1 DEF Bypasses, CommitGroup, Row
<1>6. ASSUME NEW t \in UserTxs, Flushes(t)
      PROVE  Grows
  <2>. DEFINE u == utx[t].target
              r == AuditRecord(utx[t], began[t])
  <2>1. /\ u \in Users /\ \A v \in Users \ {u} : user'[v] = user[v]
        /\ r \in AuditLog
        /\ FlushesNothing(t) \/ FlushesUntold(t) \/ FlushesTold(t, r)
    BY <1>6, FlushOutcome
  <2>2. r.new.role # "none"
    BY <2>1 DEF AuditLog, Data, Roles
  <2>. HIDE DEF r
  <2>3. user[u].role # "none" => user'[u].role # "none"
    BY <2>1, <2>2
       DEF FlushesNothing, FlushesUntold, FlushesTold, Columns
  <2>4. audit_logs \subseteq audit_logs' /\ UNCHANGED start
    BY <1>6, <2>1 DEF Flushes, FlushesNothing, FlushesUntold, FlushesTold
  <2>. QED
    BY <2>1, <2>3, <2>4
<1>. QED
  BY <1>2, <1>3, <1>4, <1>5, <1>6 DEF AuditNext

LEMMA AuditStep ==
    AuditInductive /\ [AuditNext]_auditVars => AuditInductive'
<1>. SUFFICES ASSUME AuditInductive, [AuditNext]_auditVars
              PROVE  AuditInductive'
  OBVIOUS
<1>1. AuditTypeOK' /\ Grows
  BY AuditTypeStep, RowsGrow
<1>2. Inductive'
  BY AuditNextIsNext, InductiveStep DEF AuditInductive
<1>3. Dated' /\ Unlike'
  <2>1. CASE UNCHANGED auditVars
    BY <2>1 DEF auditVars, AuditInductive, Dated, Unlike, Stamps
  <2>. QED
    BY <1>1, <2>1, PassesClock, UserMovesClock, GroupMovesClock
       DEF AuditNext, UserMoves, GroupMoves
<1>4. \A x \in UserTxs : Inserts(utx'[x]) /\ SeenTold(x)'
  <2>1. CASE UNCHANGED auditVars
    BY <1>1, <2>1, SameObjectSeen DEF auditVars, SameObject
  <2>2. ASSUME NEW t \in UserTxs, Begins(t) \/ Reads(t)
        PROVE  <1>4
    BY <1>1, <2>2, ReadsSeen DEF Begins, Reads
  <2>3. ASSUME NEW t \in GroupTxs, GroupMoves(t)
        PROVE  <1>4
    BY <1>1, <2>3, GroupMovesOthers, SameObjectSeen
  <2>. QED
    BY <1>1, <2>1, <2>2, <2>3, PassesSeen, FlushesSeen, EndsSeen
       DEF AuditNext, GroupMoves
<1>5. TrailTellsRow' /\ OldValueWasTold'
  <2>1. CASE Passes \/ UNCHANGED auditVars
    BY <2>1, QuietLog
       DEF Passes, Submit, StartLogin, LookUpGroup, Refused, auditVars
  <2>2. ASSUME NEW t \in UserTxs, Begins(t) \/ Reads(t) \/ Ends(t)
        PROVE  <1>5
    BY <2>2, QuietLog DEF Begins, Reads, Ends, Authorize, FindUser, Load, Abort
  <2>3. ASSUME NEW t \in GroupTxs, GroupBegins(t)
        PROVE  <1>5
    BY <2>3, QuietLog DEF GroupBegins, SubmitGroup
  <2>4. ASSUME NEW t \in GroupTxs, GroupGoesOn(t)
        PROVE  <1>5
    BY <2>4, QuietLog DEF GroupGoesOn, LoadGroup, Create, Regroup, Drop, Sync,
                          Lock, AbortGroup
  <2>5. ASSUME NEW t \in UserTxs, Flushes(t)
        PROVE  <1>5
    BY <2>5, FlushOutcome, FlushesQuietLog, FlushesLog
  <2>. QED
    BY <2>1, <2>2, <2>3, <2>4, <2>5, BypassesLog DEF AuditNext
<1>. QED
  BY <1>1, <1>2, <1>3, <1>4, <1>5 DEF AuditInductive

\* core/audit.py, models/base.py: what the clock, the objects in sessions, the
\* rows and the records have to do with each other.
THEOREM AuditInvariant == AuditSpec => []AuditInductive
<1>1. AuditInit => AuditInductive
  <2>. SUFFICES ASSUME AuditInit PROVE AuditInductive
    OBVIOUS
  <2>1. Init /\ Inductive
    BY InitInductive DEF AuditInit
  <2>2. AuditTypeOK
    BY <2>1 DEF AuditInit, AuditTypeOK, Inductive, TypeOK
  <2>3. \A t \in UserTxs : Inserts(utx[t]) /\ SeenTold(t)
    BY <2>1 DEF Init, IdleUser, NoUserTx, Inserts, SeenTold, HasSeen
  <2>4. Dated /\ Unlike
    BY <2>1 DEF AuditInit, Init, IdleUser, NoUserTx, IdleGroup, Dated, Unlike,
                Slots
  <2>5. TrailTellsRow
    BY DEF AuditInit, TrailTellsRow
  <2>6. OldValueWasTold
    BY DEF AuditInit, OldValueWasTold, Told
  <2>. QED
    BY <2>1, <2>2, <2>3, <2>4, <2>5, <2>6 DEF AuditInductive
<1>. QED
  BY <1>1, AuditStep, PTL DEF AuditSpec

\* The components of the trail keep their types.
THEOREM AuditTypeCorrect == AuditSpec => []AuditTypeOK
<1>1. AuditInductive => AuditTypeOK
  BY DEF AuditInductive
<1>. QED
  BY <1>1, AuditInvariant, PTL

\* audit.py 58-105, models/base.py 33-43: the record with a row's updated_at
\* for its created_at tells what is in the row.
THEOREM TrailTellsRows == AuditSpec => []TrailTellsRow
<1>1. AuditInductive => TrailTellsRow
  BY DEF AuditInductive
<1>. QED
  BY <1>1, AuditInvariant, PTL

\* audit.py 60-105: every old value, and what is in the row, is the new value
\* of another record or what the row was at the start.
THEOREM OldValuesWereTold == AuditSpec => []OldValueWasTold
<1>1. AuditInductive => OldValueWasTold
  BY DEF AuditInductive
<1>. QED
  BY <1>1, AuditInvariant, PTL

===============================================================================
