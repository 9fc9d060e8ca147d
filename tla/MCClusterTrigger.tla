--------------------------- MODULE MCClusterTrigger ---------------------------
(* Instances of ClusterTrigger for TLC. *)
EXTENDS ClusterTrigger

AllSetups == {"ALL_INTERNAL", "ALL_EXTERNAL", "MASTER_EXTERNAL"}
=============================================================================
