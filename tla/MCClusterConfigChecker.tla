----------------------- MODULE MCClusterConfigChecker -----------------------
(***************************************************************************)
(* Two ClusterConfigs and two secrets they may refer to.                   *)
(***************************************************************************)
EXTENDS ClusterConfigChecker

TwoConfigs == {1, 2}
TwoSecrets == {"s1", "s2"}
============================================================================
