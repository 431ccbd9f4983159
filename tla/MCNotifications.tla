-------------------------- MODULE MCNotifications --------------------------
(* TLC instance of Notifications; users are model values, the first of whom *)
(* may be sent more messages than the others.                               *)
EXTENDS Notifications

FewMessages ==
    [u \in Users |-> IF u = CHOOSE v \in Users : TRUE THEN 2 ELSE 1]

=============================================================================
