--------------------------- MODULE MCVersionLedger ---------------------------
(***************************************************************************)
(* Bounds for VersionLedger: one product from before bump policies and one *)
(* more id, two components, four version ids.  The version numbers hold    *)
(* three cores, one tie (a release candidate of the middle core) and one   *)
(* core too large for its column.                                          *)
(***************************************************************************)
EXTENDS VersionLedger, TLC

MCSemvers ==
    {[core |-> <<1, 0, 0>>, pre |-> NoPrerelease],
     [core |-> <<1, 1, 0>>, pre |-> NoPrerelease],
     [core |-> <<1, 1, 0>>, pre |-> "rc"],
     [core |-> <<2, 0, 0>>, pre |-> NoPrerelease],
     [core |-> <<3, 0, 0>>, pre |-> NoPrerelease]}

MCSymmetry ==
    Permutations(VersionIds) \cup Permutations(ComponentIds) \cup Permutations(ProductNames)
=============================================================================
