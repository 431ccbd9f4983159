---------------------------- MODULE MCAuditTrail ----------------------------
(* TLC instances of AuditTrail.                                              *)
EXTENDS AuditTrail, TLC

Interchangeable ==
    Permutations(Users) \cup Permutations(Groups)
        \cup Permutations(UserTxs) \cup Permutations(GroupTxs)

\* An administrator of the department, whom a request finds there.
GroupSeeds == [role : {"admin"}, active : {"on"}, dept : Groups]

GroupPatches == {[role |-> "required", active |-> "keep"]}

\* What carries the reading m of the clock.
Holders(m) ==
    [logs |-> {[r EXCEPT !.at = None] : r \in {x \in audit_logs : x.at = m}},
     rows |-> {u \in Users : updated_at[u] = m},
     txs  |-> {t \in UserTxs \cup GroupTxs : began[t] = m}]

\* The state but for which reading is which: readings are compared for being
\* the same and for nothing else.
UpToReadings ==
    LET held == {Holders(m) : m \in Taken \ {None}} IN
    <<user, group, utx, gtx, start,
      [h \in held |-> Cardinality({m \in Taken : Holders(m) = h})]>>

=============================================================================
