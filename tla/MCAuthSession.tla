--------------------------- MODULE MCAuthSession ---------------------------
(* TLC instances of AuthSession.  Users, requests, pairs and codes are     *)
(* model values that the specification treats alike.                       *)
EXTENDS AuthSession, TLC

Interchangeable ==
    Permutations(Users) \cup Permutations(Requests)
        \cup Permutations(Pairs) \cup Permutations(Codes)

BothConnections == {TRUE, FALSE}

=============================================================================
