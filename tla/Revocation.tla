----------------------------- MODULE Revocation -----------------------------
(* What a check of the program promises about a right that can be taken     *)
(* away, without the awaits it is made of: a request is honoured only if    *)
(* the right it relies on was in force at some moment of its life.  Who was *)
(* revoked before a request arrives, and is not granted the right again     *)
(* while it runs, gets nothing by it; who is revoked after it has arrived   *)
(* may still get it.                                                        *)
CONSTANTS
    Rights,    \* what can be granted and revoked
    Requests,  \* slots for requests in flight
    None       \* no right

VARIABLES
    valid,     \* the rights in force
    needs,     \* the right that a request relies on, if it relies on one
    lapsed,    \* the requests whose right has not been in force since they came
    honoured   \* the requests that have passed their check

revocationVars == <<valid, needs, lapsed, honoured>>

RevocationInit ==
    /\ valid \in SUBSET Rights
    /\ needs = [r \in Requests |-> None]
    /\ lapsed = {}
    /\ honoured = {}

\* Rights are granted and revoked, and some requests are over.
Change(over) ==
    /\ valid' \in SUBSET Rights
    /\ needs' = [r \in Requests |-> IF r \in over THEN None ELSE needs[r]]
    /\ lapsed' = {r \in lapsed \ over : needs[r] \notin valid'}
    /\ honoured' = honoured \ over

Arrive(r, right) ==
    /\ needs[r] = None
    /\ needs' = [needs EXCEPT ![r] = right]
    /\ lapsed' = IF right \in valid THEN lapsed ELSE lapsed \cup {r}
    /\ UNCHANGED <<valid, honoured>>

Honour(r) ==
    /\ needs[r] # None
    /\ r \notin lapsed
    /\ honoured' = honoured \cup {r}
    /\ UNCHANGED <<valid, needs, lapsed>>

RevocationNext ==
    \/ \E over \in SUBSET Requests : Change(over)
    \/ \E r \in Requests, right \in Rights : Arrive(r, right)
    \/ \E r \in Requests : Honour(r)

RevocationSpec == RevocationInit /\ [][RevocationNext]_revocationVars

=============================================================================
