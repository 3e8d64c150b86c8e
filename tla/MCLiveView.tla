------------------------------ MODULE MCLiveView ------------------------------
(***************************************************************************)
(* Bounds for LiveView: one page and two streams, so a dead stream can     *)
(* linger while its client is back on the other; three changes of any      *)
(* kinds against a queue of two, so it overflows.  Two scenarios, chosen   *)
(* by the initial state, keep the state space small: the page cuts up to   *)
(* two releases itself, or it may lose its stream.  A request may fail in  *)
(* both, and neither bound touches a fair action.                          *)
(***************************************************************************)
EXTENDS LiveView, TLC

CONSTANTS page, p

VARIABLE scenario

MCWatches == page :> p
MCChanges == p :> 3
MCTwoChanges == p :> 2
MCOneChange == p :> 1

Init == LiveInit /\ scenario \in {"cuts", "breaks"}

Next ==
    /\ LiveNext
    /\ scenario = "cuts" => attempt' = attempt /\ published'[p] <= 2
    /\ scenario = "breaks" => posted' = posted
    /\ UNCHANGED scenario

Spec == Init /\ [][Next]_<<liveVars, scenario>> /\ LiveFairness
=============================================================================
