------------------------------ MODULE Registry ------------------------------
(* What the table of personal dashboards promises, without requests that    *)
(* check first and write later: values are made for one key each, the first *)
(* value that is entered for a key stays, and who asks is told the entry of *)
(* that moment.  A value that was made need not ever be entered.            *)
CONSTANTS
    Keys,     \* who may have an entry
    Values,   \* what can be made and entered
    Clients,  \* who asks
    None      \* no entry, no owner

VARIABLES
    entry,    \* the value of each key
    owner,    \* the key that each value was made for
    told      \* the last answer of each client: a key and its entry

registryVars == <<entry, owner, told>>

Nothing == <<>>

RegistryInit ==
    /\ entry = [k \in Keys |-> None]
    /\ owner = [v \in Values |-> None]
    /\ told = [c \in Clients |-> Nothing]

Make(k, v) ==
    /\ owner[v] = None
    /\ owner' = [owner EXCEPT ![v] = k]
    /\ UNCHANGED <<entry, told>>

Tell(c, k) == told' = [told EXCEPT ![c] = <<k, entry'[k]>>]

\* Whoever has entered a value may be told so, or never hear of it.
Enter(k, v) ==
    /\ entry[k] = None
    /\ owner[v] = k
    /\ entry' = [entry EXCEPT ![k] = v]
    /\ UNCHANGED told \/ \E c \in Clients : Tell(c, k)
    /\ UNCHANGED owner

Ask(c, k) ==
    /\ UNCHANGED <<entry, owner>>
    /\ Tell(c, k)

Forget(c) ==
    /\ told' = [told EXCEPT ![c] = Nothing]
    /\ UNCHANGED <<entry, owner>>

RegistryNext ==
    \/ \E k \in Keys, v \in Values : Make(k, v) \/ Enter(k, v)
    \/ \E c \in Clients, k \in Keys : Ask(c, k)
    \/ \E c \in Clients : Forget(c)

RegistrySpec == RegistryInit /\ [][RegistryNext]_registryVars

=============================================================================
