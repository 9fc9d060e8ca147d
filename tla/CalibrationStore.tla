-------------------------- MODULE CalibrationStore --------------------------
(***************************************************************************)
(* What the EEPROM promises of the calibration: a value for every field,   *)
(* which a command replaces as a whole or not at all, whatever happens to  *)
(* the power supply before it ends.  After some failures of the EEPROM the *)
(* promise is lost: the command that fails is still atomic, nothing is     *)
(* promised of those after it, until the store is recovered.               *)
(***************************************************************************)
CONSTANTS
    Field,        \* the calibration values
    Settable(_),  \* the values a client gives a field
    Default(_)    \* its value before, and after a reset

VARIABLES
    stored,       \* the values the next start will find
    request,      \* those the command that is being handled asks for
    lost          \* the EEPROM has failed, and its user does not know

Defaults == [f \in Field |-> Default(f)]

Init == stored = Defaults /\ request = stored /\ lost = FALSE

Set(f, v) == request' = [stored EXCEPT ![f] = v]
Reset     == request' = Defaults

Begin ==
    /\ request = stored
    /\ Reset \/ \E f \in Field : \E v \in Settable(f) : Set(f, v)
    /\ UNCHANGED stored

Commit == stored' = request /\ UNCHANGED request
Abort  == request' = stored /\ UNCHANGED stored

Keeps   == ~lost /\ ~lost' /\ (Begin \/ Commit \/ Abort)
Lose    == ~lost /\ lost' /\ stored' \in {stored, request}
Wander  == lost /\ lost'
Recover == lost /\ ~lost' /\ request' = stored'

Next == Keeps \/ Lose \/ Wander \/ Recover
Spec == Init /\ [][Next]_<<stored, request, lost>>
=============================================================================
