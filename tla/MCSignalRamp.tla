----------------------------- MODULE MCSignalRamp -----------------------------
(* Instances of SignalRamp for TLC. *)
EXTENDS SignalRamp

MCIncs == {1, 2}
=============================================================================
