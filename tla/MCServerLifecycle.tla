------------------------- MODULE MCServerLifecycle -------------------------
(* Three connections: one to take over, one to leave, one to follow.       *)
EXTENDS ServerLifecycle
=============================================================================
