----------------------------- MODULE MCFrontDoor -----------------------------
(***************************************************************************)
(* Two scenarios over /auth, chosen by the initial state: the throttle in  *)
(* front of it, and the accounts behind it.                                *)
(***************************************************************************)
EXTENDS Accounts, RateLimiter

CONSTANTS
    alice, eve, r1, r2, a1, a2, unknown,
    MaxTime,          \* bound on the clocks of both scenarios
    MaxSessions,      \* bound on the sessions ever opened
    MaxAdmissions     \* bound on the admissions the throttle's history holds

VARIABLE scenario

MCEmails == {alice, eve}
MCAllowed == {alice}
MCReplicas == {r1, r2}
MCSetups == {[modes |-> {"password"}, key |-> TRUE], [modes |-> {}, key |-> FALSE]}

MCAddresses == {a1, a2}

vars == <<scenario, accountVars, limiterVars>>

Init ==
    /\ scenario \in {"throttle", "accounts"}
    /\ AccountsInit
    /\ LimiterInit
    /\ scenario = "throttle" => setup = [modes |-> {}, key |-> FALSE]

ThrottleNext ==
    /\ scenario = "throttle"
    /\ LimiterNext
    /\ clock' <= MaxTime /\ \A k \in DOMAIN log : Len(log'[k]) <= MaxAdmissions
    /\ UNCHANGED <<scenario, accountVars>>

ServeAccounts ==
    /\ scenario = "accounts"
    /\ AccountsNext
    /\ now' <= MaxTime /\ Len(minted') <= MaxSessions
    /\ UNCHANGED <<scenario, limiterVars>>

Next == ThrottleNext \/ ServeAccounts

Spec == Init /\ [][Next]_vars
=============================================================================
