---------------------------- MODULE MCDashboards ----------------------------
(* TLC instance of Dashboards; all its constants are model values.          *)
EXTENDS Dashboards, TLC

Interchangeable ==
    Permutations(Users) \cup Permutations(Requests)
        \cup Permutations(Dashboards)

=============================================================================
