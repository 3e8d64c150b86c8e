--------------------------- MODULE DeployedVersion ---------------------------
(***************************************************************************)
(* What the version history promises its readers, without rows or status   *)
(* columns: a new version becomes its component's one deployed version,    *)
(* and a withdrawal moves the deployment to an older version that nobody   *)
(* has withdrawn.  A publication that fails half-way leaves the component  *)
(* without a deployed version until the next one.  What is withdrawn stays *)
(* withdrawn, and history only grows.                                      *)
(***************************************************************************)
CONSTANTS
    Components,    \* who has a deployed version
    Versions,      \* what can be deployed
    Numbers,       \* version numbers
    Older(_, _)    \* the strict order on numbers

VARIABLES
    history,    \* component -> the versions published for it
    number,     \* published version -> its number
    withdrawn,  \* the versions ever rolled back
    deployed    \* component -> the set that holds its deployed version

vars == <<history, number, withdrawn, deployed>>

Init ==
    /\ history = [c \in Components |-> {}]
    /\ number = [v \in {} |-> {}]
    /\ withdrawn = {}
    /\ deployed = [c \in Components |-> {}]

Publish(c, v, n) ==
    /\ v \notin DOMAIN number
    /\ number' = [u \in DOMAIN number \cup {v} |-> IF u = v THEN n ELSE number[u]]
    /\ history' = [history EXCEPT ![c] = @ \cup {v}]
    /\ deployed' = [deployed EXCEPT ![c] = {v}]
    /\ UNCHANGED withdrawn

Withdraw(c, v, w) ==
    /\ v \in history[c]
    /\ w \in history[c] \ (withdrawn \cup {v})
    /\ Older(number[w], number[v])
    /\ withdrawn' = withdrawn \cup {v}
    /\ deployed' = [deployed EXCEPT ![c] = {w}]
    /\ UNCHANGED <<history, number>>

FailToPublish(c) ==
    /\ deployed' = [deployed EXCEPT ![c] = {}]
    /\ UNCHANGED <<history, number, withdrawn>>

Next ==
    \/ \E c \in Components : FailToPublish(c)
    \/ \E c \in Components, v \in Versions, n \in Numbers : Publish(c, v, n)
    \/ \E c \in Components, v, w \in Versions : Withdraw(c, v, w)

Spec == Init /\ [][Next]_vars
=============================================================================
