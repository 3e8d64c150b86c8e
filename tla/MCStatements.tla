----------------------------- MODULE MCStatements -----------------------------
(***************************************************************************)
(* Two scenarios of statements that interleave and are cut short, chosen   *)
(* by the initial state: the writes of replicas, and the first boots on a  *)
(* legacy database.                                                        *)
(***************************************************************************)
EXTENDS ReplicaWrites, FlatMigration

CONSTANTS r1, r2, k1, none

VARIABLE scenario

MCReplicas == {r1, r2}
MCKeys == {k1}
MCComponents == {1}
MCLegacyRows ==
    << [product |-> "api", semver |-> 1], [product |-> "api", semver |-> 1],
       [product |-> "web", semver |-> 1] >>

vars == <<scenario, writeVars, migrationVars>>

Init ==
    /\ scenario \in {"writes", "boots"}
    /\ WritesInit
    /\ MigrationInit

ReplicasWrite ==
    /\ scenario = "writes"
    /\ WritesNext
    /\ UNCHANGED <<scenario, migrationVars>>

ReplicasBoot ==
    /\ scenario = "boots"
    /\ MigrationNext
    /\ UNCHANGED <<scenario, writeVars>>

Next == ReplicasWrite \/ ReplicasBoot

Spec == Init /\ [][Next]_vars
=============================================================================
