--------------------------- MODULE MCReleaseLedger ---------------------------
(***************************************************************************)
(* Bounds for ReleaseLedger: one legacy product and one created with the   *)
(* default policy, two components, three versions whose numbers differ in  *)
(* the core or only in the prerelease, one number no column holds, three   *)
(* cuts and one key, so a key can be repeated, reused for the other        *)
(* product, or left out.                                                   *)
(***************************************************************************)
EXTENDS ReadSide, TLC

MCSemvers ==
    {[core |-> <<1, 0, 0>>, pre |-> NoPrerelease],
     [core |-> <<2, 0, 0>>, pre |-> "rc"],
     [core |-> <<2, 0, 0>>, pre |-> NoPrerelease],
     [core |-> <<3, 0, 0>>, pre |-> NoPrerelease]}

MCSymmetry ==
    Permutations(VersionIds) \cup Permutations(ComponentIds) \cup Permutations(ProductNames)

\* Replies are left out of the fingerprint: no guard and no invariant reads the
\* reply, and action properties read only the one a step gives.
MCView == <<product, component, versions, dependency, releases>>
=============================================================================
