------------------------------ MODULE MCSlowDAC ------------------------------
(***************************************************************************)
(* A small instance of SlowDAC for TLC: a ring of three cells of which two *)
(* are kept set, sequences of four to six steps with and without ramps:    *)
(* the regular part wraps around its LUT and around the ring.              *)
(***************************************************************************)
EXTENDS SlowDAC

LongRegShapes == {[steps |-> 2, reps |-> 2]}
MCRampShapes  == {[steps |-> 1, reps |-> 1]}
=============================================================================
