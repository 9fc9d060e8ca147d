------------------------------ MODULE SignalRamp ------------------------------
(***************************************************************************)
(* The ramping factor of one fast DAC channel, clock by clock: the state   *)
(* machine of signal_ramper.v with the phase generator that drives it, the *)
(* reset manager that resets both (reset_manager.v), the SCPI handlers     *)
(* that write their registers, and the client that waits for a ramp down.  *)
(*                                                                         *)
(* A Tick is a cycle of the 125 MHz clock: every register takes the value  *)
(* its inputs had before.  Commands, pins and sequence steps come between  *)
(* ticks; a command takes long enough for the resets to settle.            *)
(***************************************************************************)
EXTENDS Integers

CONSTANTS
    P,      \* values of the phase, 8192 in the code; also the full factor
    Unit,   \* increments of the accumulator in one value of the phase, 2^35
    Incs,   \* the phase increments a client sets
    Hold,   \* cycles for which proc_sys_reset holds a reset
    Gap     \* bound: the fewest cycles between two register writes

\* ramps that stay four cycles at a phase: 0.27 milliseconds and more
ASSUME RampAssumption ==
    /\ {P, Unit, Hold, Gap} \subseteq Nat \ {0}
    /\ Incs # {} /\ \A i \in Incs : i \in Nat \ {0} /\ 4 * i <= Unit
    /\ Hold >= 5 /\ Gap > Hold

States == {"UP", "NORMAL", "DOWN", "DONE"}

VARIABLES
    acc, inc,                   \* phase accumulator and increment
    phase, phasePrev, phaseRising, state,
    seqDown,                    \* the ramp-down bit of the sequence's step
    stateOutputOn, stateOutputOnNext, fourier_synth_aresetn,
    held,                       \* cycles proc_sys_reset still holds the reset
    pin,                        \* level of DIO3_P, the instant reset
    trig, armed, enable, down,  \* bits of reset_cfg and ramping_cfg
    mode, clearing, gap,        \* server: mode, in RP_SetMasterTrigger OFF
    done,                       \* client: rampDownDone, with ramping enabled
    top, asked                  \* history, for the properties

ramper == <<phase, phasePrev, phaseRising, state, acc, top>>
resets == <<stateOutputOn, stateOutputOnNext, fourier_synth_aresetn, held>>
config == <<trig, armed, enable, down, inc>>
server == <<mode, clearing>>
vars   == <<ramper, resets, config, server, gap, seqDown, pin, done, asked>>

-----------------------------------------------------------------------------
(* signal_ramper.v                                                         *)

Running       == held = 0
startRampDown == down \/ ~stateOutputOn \/ seqDown

stateNext ==
    CASE state = "UP"     -> IF phaseRising THEN "UP" ELSE "NORMAL"
      [] state = "NORMAL" -> IF startRampDown THEN "DOWN" ELSE "NORMAL"
      [] state = "DOWN"   -> IF phaseRising THEN "DOWN" ELSE "DONE"
      [] state = "DONE"   -> "DONE"

ramp ==
    CASE ~enable          -> P
      [] state = "UP"     -> IF phaseRising THEN phase ELSE P
      [] state = "NORMAL" -> P
      [] state = "DOWN"   -> IF phaseRising THEN P - 1 - phase ELSE 0
      [] state = "DONE"   -> 0

\* mutant: the comparison of the phases is strict
Ramper_Strict ==
    /\ phase' = acc \div Unit
    /\ phaseRising' = (phasePrev < phase)
    /\ phasePrev' = phase
    /\ state' = IF Running THEN stateNext ELSE "UP"
    /\ top' = IF Running /\ state' = state THEN IF phase > top THEN phase ELSE top ELSE 0

Ramper ==
    /\ phase' = acc \div Unit
    /\ phaseRising' = (phasePrev <= phase)
    /\ phasePrev' = phase
    /\ state' = IF Running THEN stateNext ELSE "UP"
    /\ top' = IF Running /\ state' = state THEN IF phase > top THEN phase ELSE top ELSE 0

\* mutant: the accumulator is reset with the channel only
Phase_KeepsRunning ==
    acc' = IF Running THEN (acc + inc) % (P * Unit) ELSE 0

\* the phase generator: its reset is aresetn AND state[1]
Phase ==
    acc' = IF Running /\ state \in {"UP", "DOWN"} THEN (acc + inc) % (P * Unit) ELSE 0

-----------------------------------------------------------------------------
(* reset_manager.v, in trigger mode.                                       *)

OutputOff == (pin /\ armed) \/ ~stateOutputOn

Resets ==
    /\ stateOutputOn' = stateOutputOnNext
    /\ stateOutputOnNext' = (OutputOff => ~trig)
    /\ fourier_synth_aresetn' = IF OutputOff THEN enable ELSE trig
    /\ held' = IF ~fourier_synth_aresetn THEN Hold
               ELSE IF held > 0 THEN held - 1 ELSE 0

Tick ==
    /\ Ramper /\ Phase /\ Resets
    /\ seqDown' = (seqDown /\ Running)
    /\ asked' = (asked \/ ~stateOutputOn')
    /\ gap' = IF gap > 0 THEN gap - 1 ELSE 0
    /\ UNCHANGED <<config, server, pin, done>>

\* double-registered: the level the circuit sees
PinChanges ==
    /\ pin' = ~pin
    /\ UNCHANGED <<ramper, resets, config, server, gap, seqDown, done, asked>>

\* the sequence steps on
SequenceStep ==
    /\ Running /\ trig
    /\ seqDown' = ~seqDown
    /\ asked' = (asked \/ seqDown')
    /\ UNCHANGED <<ramper, resets, config, server, gap, pin, done>>

-----------------------------------------------------------------------------
(* The SCPI handlers.  done is what the client concludes from its last     *)
(* rampDownDone, and no longer when it configures or starts the channel.   *)

Command ==
    /\ gap = 0 /\ ~clearing /\ gap' = Gap
    /\ UNCHANGED <<ramper, resets, seqDown, pin>>

RP_SetServerMode ==
    /\ Command
    /\ mode' \in {"CONFIGURATION", "ACQUISITION"}
    /\ UNCHANGED <<config, clearing, done, asked>>

RP_DAC_SetRampingFast ==
    /\ Command
    /\ inc' \in Incs
    /\ UNCHANGED <<trig, armed, enable, down, server, done, asked>>

RP_DAC_SetEnableRamping ==
    /\ Command /\ mode = "CONFIGURATION"
    /\ enable' \in BOOLEAN /\ done' = FALSE
    /\ UNCHANGED <<trig, armed, down, inc, server, asked>>

\* also allowed in TRANSMISSION
RP_DAC_SetEnableRampDown ==
    /\ Command /\ mode = "ACQUISITION"
    /\ down' \in BOOLEAN /\ asked' = (asked \/ down')
    /\ UNCHANGED <<trig, armed, enable, inc, server, done>>

RP_SetInstantResetMode ==
    /\ Command
    /\ armed' \in BOOLEAN
    /\ UNCHANGED <<trig, enable, down, inc, server, done, asked>>

\* mutant: done is any state but UP, as for a ramp up
RP_DAC_GetRampingStatus_Up ==
    /\ Command
    /\ done' = (enable /\ state # "UP")
    /\ UNCHANGED <<config, server, asked>>

RP_DAC_GetRampingStatus ==
    /\ Command
    /\ done' = (enable /\ state = "DONE")
    /\ UNCHANGED <<config, server, asked>>

RP_SetMasterTrigger(on) ==
    /\ Command /\ mode = "ACQUISITION"
    /\ trig' = on /\ clearing' = ~on /\ done' = (done /\ ~on)
    /\ UNCHANGED <<armed, enable, down, inc, mode, asked>>

\* mutant: the flag is left set
ClearRampDown_Not ==
    /\ clearing /\ gap = 0
    /\ clearing' = FALSE /\ gap' = Gap /\ asked' = (seqDown \/ ~stateOutputOn)
    /\ UNCHANGED <<ramper, resets, config, mode, seqDown, pin, done>>

\* RP_SetMasterTrigger OFF, after the time setMasterTrigger waits
ClearRampDown ==
    /\ clearing /\ gap = 0
    /\ clearing' = FALSE /\ gap' = Gap /\ down' = FALSE
    /\ asked' = (seqDown \/ ~stateOutputOn)
    /\ UNCHANGED <<ramper, resets, trig, armed, enable, inc, mode, seqDown, pin, done>>

Init ==
    /\ acc = 0 /\ inc \in Incs
    /\ phase = 0 /\ phasePrev = 0 /\ phaseRising = TRUE /\ state = "UP"
    /\ seqDown = FALSE /\ pin = FALSE
    /\ stateOutputOn = TRUE /\ stateOutputOnNext = TRUE
    /\ fourier_synth_aresetn = FALSE /\ held = Hold
    /\ trig = FALSE /\ armed = FALSE /\ enable = FALSE /\ down = FALSE
    /\ mode = "CONFIGURATION" /\ clearing = FALSE /\ gap = 0
    /\ done = FALSE /\ top = 0 /\ asked = FALSE

Server ==
    \/ RP_SetServerMode \/ RP_DAC_SetRampingFast \/ RP_DAC_SetEnableRamping
    \/ RP_DAC_SetEnableRampDown \/ RP_SetInstantResetMode
    \/ RP_DAC_GetRampingStatus \/ ClearRampDown
    \/ \E on \in BOOLEAN : RP_SetMasterTrigger(on)

Next == Tick \/ PinChanges \/ SequenceStep \/ Server

\* the clock does not stop
Spec == Init /\ [][Next]_vars /\ WF_vars(Tick)

-----------------------------------------------------------------------------
(* Properties.                                                             *)

\* The values each register takes.
TypeOK ==
    /\ acc \in 0..(P * Unit - 1) /\ inc \in Incs
    /\ phase \in 0..(P - 1) /\ phasePrev \in 0..(P - 1) /\ top \in 0..(P - 1)
    /\ state \in States /\ held \in 0..Hold /\ gap \in 0..Gap
    /\ mode \in {"CONFIGURATION", "ACQUISITION"}
    /\ {phaseRising, seqDown, stateOutputOn, stateOutputOnNext,
        fourier_synth_aresetn, pin, trig, armed, enable, down, clearing,
        done, asked} \subseteq BOOLEAN

\* The factor never jumps while a channel runs, so that an amplifier behind the
\* output sees a ramp, except in the cycle in which the phase wraps and
\* phaseRising does not show it yet; the next cycle has the final value.
Wrapping == phase < phasePrev

JumpsOnlyWhenItWraps ==
    [][Running /\ enable /\ enable' =>
         IF Wrapping THEN ramp' \in {ramp, IF state = "UP" THEN P ELSE 0}
         ELSE Wrapping' \/ (ramp' - ramp) \in {-1, 0, 1}]_vars

\* A ramp that has begun goes through all values of the phase, unless the channel
\* is reset: also one that was asked for before the ramp up had ended.
WholeRamps ==
    [][Running /\ state \in {"UP", "DOWN"} /\ state' # state => top = P - 1]_vars

\* A ramp down has been asked for by a command, a step or the instant reset since
\* the trigger was switched off: no flag is left from the acquisition before.
RampDownWasAsked == [][state # "DOWN" /\ state' = "DOWN" => asked]_vars

\* A client that has seen rampDownDone finds the output at zero for as long as
\* the trigger is on, also when the pin rises or falls.
DoneStaysZero == done /\ trig => ramp = 0

\* "`DIO3_P` can be set to high, to stop all DACs instantly."
\* (docs/src/connections.md:11): with the pin high an output that is at zero
\* does not begin to ramp up.
PinKeepsOff ==
    [][pin /\ armed /\ enable /\ enable' /\ ramp = 0 => ramp' = 0 \/ Wrapping']_vars
=============================================================================
