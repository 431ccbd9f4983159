---------------------------- MODULE MCDirectory ----------------------------
(* TLC instances of Directory.  Rows and transactions are model values that *)
(* the specification treats alike.                                          *)
EXTENDS Directory, TLC

Interchangeable ==
    Permutations(Users) \cup Permutations(Groups)
        \cup Permutations(UserTxs) \cup Permutations(GroupTxs)

AnAdmin == [role |-> "admin", active |-> "on", dept |-> None]

\* Accounts of the department at every stage, beside an administrator.
Members(g) ==
    {AnAdmin} \cup [role : {"required", "user", "admin", "superadmin"},
                    active : {"on"}, dept : {g}]

GroupSeeds == UNION {Members(g) : g \in Groups}

GroupPatches == {[role |-> "required", active |-> "keep"]}

\* Accounts of every role, rejected or not.
UserSeeds == [role : Roles, active : {"on", "off"}, dept : Groups]

UserPatches ==
    {[role |-> "admin", active |-> "keep"], [role |-> "required", active |-> "on"]}

=============================================================================
