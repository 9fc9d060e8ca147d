--------------------------- MODULE CounterTrigger ---------------------------
(***************************************************************************)
(* The counter trigger: counter_delayed_trigger.v counts the clock cycles  *)
(* between the edges of a source (a pin, or the sign of an ADC channel)    *)
(* and, once armed, raises its output a number of cycles before the        *)
(* counter reaches a reference; SCPI handlers write its registers.         *)
(*                                                                         *)
(* A Tick is one clock cycle: every register takes its new value from the  *)
(* old ones, and the source moves.  Its edges are MinGap..MaxGap cycles    *)
(* apart, as those of a rotating machine.  The handlers' register writes   *)
(* come between two cycles, WriteTime cycles apart or more.                *)
(***************************************************************************)
EXTENDS Naturals

CONSTANTS
    Mod,          \* 2 ^ TRIGGER_COUNTER_WIDTH
    References,   \* reference counters a client sets
    Presamples,   \* presamples a client sets
    MinGap,       \* cycles between two edges of the source ...
    MaxGap,       \* ... vary between these
    WriteTime     \* cycles a register write takes, at least

ASSUME SourceIsInRange ==
    /\ {Mod, MinGap, MaxGap, WriteTime} \subseteq Nat \ {0}
    /\ MinGap <= MaxGap /\ MaxGap < Mod

\* the trigger fires before the next edge of the source
ASSUME ReferencesAreInRange ==
    /\ References \subseteq Nat /\ Presamples \subseteq Nat
    /\ \A r \in References : r + 4 <= MinGap

VARIABLES
    mode,           \* serverMode
    trig,           \* the registers counter_trigger_cfg
    pending,        \* the second register write of a handler
    busy,           \* cycles until the next register write
    counter,        \* delayed_trigger_counter
    last_counter,   \* last_counter_out
    counter_reset, first,         \* counter_reset, counter_reset_first
    curr_sign, last_sign,         \* sign of curr_adc_val; last_sign
    trigger_out, armed, armed_pre

VARIABLES
    input,      \* level of the selected pin, sign of the selected ADC channel
    gap,        \* history: cycles since its last edge
    edges       \* history: edges counted since enabling or reset, up to two

counters == <<counter, last_counter, counter_reset, first, curr_sign,
              last_sign, trigger_out, armed, armed_pre>>
source   == <<input, gap, edges>>
vars     == <<mode, trig, pending, busy, counter, last_counter, counter_reset,
              first, curr_sign, last_sign, trigger_out, armed, armed_pre,
              input, gap, edges>>

Init ==
    /\ mode = "CONFIGURATION"
    /\ trig = [reference |-> 0, presamples |-> 0, enable |-> FALSE,
               arm |-> FALSE, reset |-> FALSE, adc |-> FALSE]
    /\ pending = "none" /\ busy = 0
    /\ counter = 0 /\ last_counter = 0
    /\ counter_reset = FALSE /\ first = TRUE
    /\ curr_sign = FALSE /\ last_sign = FALSE
    /\ trigger_out = FALSE /\ armed = FALSE /\ armed_pre = FALSE
    /\ input = FALSE /\ gap = 0 /\ edges = 0

-----------------------------------------------------------------------------
(* One clock cycle.                                                        *)

\* an unsigned subtraction
Threshold == (trig.reference + Mod - ((trig.presamples + 1) % Mod)) % Mod
Reached == counter >= Threshold
Advanced == (counter + 1) % Mod

Sample ==
    /\ counter_reset' = IF trig.adc THEN last_sign # curr_sign ELSE input
    /\ curr_sign' = IF trig.adc THEN input ELSE curr_sign
    /\ last_sign' = IF trig.adc THEN curr_sign ELSE last_sign

\* of a high input only the first cycle counts
FirstReset == counter_reset /\ first

\* once armed the counter runs on across the edges
Count ==
    /\ first' = IF FirstReset THEN FALSE ELSE first \/ ~counter_reset
    /\ counter' = IF \/ FirstReset /\ ~armed
                     \/ ~FirstReset /\ trig.reset
                  THEN 0 ELSE Advanced
    /\ last_counter' = CASE FirstReset /\ ~armed -> counter
                         [] armed /\ (FirstReset \/ ~trig.reset) -> Advanced
                         [] OTHER -> last_counter

Unfire == trigger_out' = FALSE /\ armed' = FALSE /\ armed_pre' = FALSE

\* mutant: the output is the comparison
FireWhileReached ==
    IF trig.reset
    THEN Unfire
    ELSE IF armed /\ Reached
    THEN trigger_out' = TRUE /\ UNCHANGED <<armed, armed_pre>>
    ELSE /\ trigger_out' = FALSE
         /\ armed_pre' = trig.arm
         /\ armed' = (armed \/ (armed_pre /\ ~Reached /\ last_counter > 1))

\* mutant: armed at any count
FireAtOnce ==
    IF trig.reset
    THEN Unfire
    ELSE IF armed /\ Reached
    THEN trigger_out' = TRUE /\ UNCHANGED <<armed, armed_pre>>
    ELSE /\ trigger_out' = (armed /\ trigger_out)
         /\ armed_pre' = trig.arm
         /\ armed' = (armed \/ (armed_pre /\ last_counter > 1))

\* mutant: a short arm pulse is not remembered
FireWhileArm ==
    IF trig.reset
    THEN Unfire
    ELSE IF armed /\ trig.arm /\ Reached
    THEN trigger_out' = TRUE /\ UNCHANGED <<armed, armed_pre>>
    ELSE /\ trigger_out' = (armed /\ trigger_out)
         /\ armed_pre' = trig.arm
         /\ armed' = (armed \/ (armed_pre /\ ~Reached /\ last_counter > 1))

\* arming waits for a count below the threshold, lest the trigger fire at once
Fire ==
    IF trig.reset
    THEN Unfire
    ELSE IF armed /\ Reached
    THEN trigger_out' = TRUE /\ UNCHANGED <<armed, armed_pre>>
    ELSE /\ trigger_out' = (armed /\ trigger_out)
         /\ armed_pre' = trig.arm
         /\ armed' = (armed \/ (armed_pre /\ ~Reached /\ last_counter > 1))

\* not enabled the output is on: it is and-ed with the master trigger
Disabled ==
    /\ counter' = 0 /\ last_counter' = 0
    /\ counter_reset' = FALSE /\ first' = FALSE
    /\ curr_sign' = FALSE /\ last_sign' = FALSE
    /\ trigger_out' = TRUE /\ armed' = FALSE /\ armed_pre' = FALSE

\* a sign counts both ways, a pin when it rises
Edge == IF trig.adc THEN input' # input ELSE input' /\ ~input

\* edges in the first cycles after enabling or a reset are not counted: the
\* trigger may take the level it finds then for one
Counted == trig.enable /\ ~trig.reset /\ counter > 1

SourceMoves ==
    /\ input' \in BOOLEAN
    /\ Edge  => gap + 1 >= MinGap
    /\ ~Edge => gap + 1 < MaxGap
    /\ (~trig.adc /\ input' /\ ~Edge) => gap + 2 < MinGap
    /\ gap' = IF Edge THEN 0 ELSE gap + 1
    /\ edges' = CASE ~trig.enable \/ trig.reset -> 0
                  [] Edge /\ Counted /\ edges < 2 -> edges + 1
                  [] OTHER -> edges

Tick ==
    /\ IF trig.enable THEN Sample /\ Count /\ Fire ELSE Disabled
    /\ SourceMoves
    /\ busy' = IF busy > 0 THEN busy - 1 ELSE 0
    /\ UNCHANGED <<mode, trig, pending>>

-----------------------------------------------------------------------------
(* The handlers.                                                           *)

Writes(regs) ==
    /\ busy = 0 /\ busy' = WriteTime
    /\ trig' = regs
    /\ UNCHANGED <<mode, counters>>

RP_SetServerMode ==
    /\ pending = "none"
    /\ mode' \in {"CONFIGURATION", "ACQUISITION"} \ {mode}
    /\ UNCHANGED <<trig, pending, busy, counters, source>>

\* any other handler runs after the one before
Handles(regs) == pending = "none" /\ Writes(regs) /\ UNCHANGED source

RP_CounterTrigger_SetReferenceCounter(r) ==
    /\ mode = "CONFIGURATION"
    /\ Handles([trig EXCEPT !.reference = r])
    /\ UNCHANGED pending

RP_CounterTrigger_SetPresamples(p) ==
    /\ mode = "CONFIGURATION"
    /\ Handles([trig EXCEPT !.presamples = p])
    /\ UNCHANGED pending

\* another source: its level is low, its next edge some time off
SourceChanges(regs) ==
    /\ mode = "CONFIGURATION"
    /\ pending = "none" /\ Writes(regs)
    /\ input' = FALSE /\ gap' = 0
    /\ UNCHANGED <<pending, edges>>

RP_CounterTrigger_SetSourceType(adc) == SourceChanges([trig EXCEPT !.adc = adc])
RP_CounterTrigger_SetSourceChannel   == SourceChanges(trig)

\* an arm pulse may be as short as two register writes
RP_CounterTrigger_Arm(arm) ==
    /\ Handles([trig EXCEPT !.arm = arm])
    /\ UNCHANGED pending

\* counter_trigger_setEnabled disarms before it disables ...
RP_CounterTrigger_Enable(enable) ==
    IF enable
    THEN Handles([trig EXCEPT !.enable = TRUE]) /\ UNCHANGED pending
    ELSE Handles([trig EXCEPT !.arm = FALSE]) /\ pending' = "disable"

\* ... and counter_trigger_setReset before it resets
RP_CounterTrigger_SetReset(reset) ==
    IF reset
    THEN Handles([trig EXCEPT !.arm = FALSE]) /\ pending' = "reset"
    ELSE Handles([trig EXCEPT !.reset = FALSE]) /\ UNCHANGED pending

SecondWrite ==
    /\ pending # "none" /\ pending' = "none"
    /\ Writes(IF pending = "disable" THEN [trig EXCEPT !.enable = FALSE]
                                     ELSE [trig EXCEPT !.reset = TRUE])
    /\ UNCHANGED source

Configure ==
    \/ \E r \in References : RP_CounterTrigger_SetReferenceCounter(r)
    \/ \E p \in Presamples : RP_CounterTrigger_SetPresamples(p)

SelectSource ==
    \/ \E adc \in BOOLEAN : RP_CounterTrigger_SetSourceType(adc)
    \/ RP_CounterTrigger_SetSourceChannel

Control ==
    \/ \E arm \in BOOLEAN : RP_CounterTrigger_Arm(arm)
    \/ \E enable \in BOOLEAN : RP_CounterTrigger_Enable(enable)
    \/ \E reset \in BOOLEAN : RP_CounterTrigger_SetReset(reset)
    \/ SecondWrite
    \/ RP_SetServerMode

-----------------------------------------------------------------------------
(* The client that src/src/examples/julia/counterTrigger.jl shows: it      *)
(* selects the source before it enables the trigger, configures it before  *)
(* it arms it, and arms it when the counter has seen an edge since the     *)
(* last reset, of an ADC channel a second one.  A pin may also be armed at *)
(* once after enabling: last_counter_out > 1 waits for its edge.           *)
Measured == \/ edges = 2
            \/ ~trig.adc /\ (edges = 1 \/ last_counter <= 1)

Arms == trig'.arm /\ ~trig.arm

CarefulNext ==
    \/ Tick
    \/ Configure /\ ~(trig.arm \/ armed \/ armed_pre)
    \/ SelectSource /\ ~trig.enable
    \/ /\ Control
       /\ Arms => /\ trig.presamples + 1 < trig.reference
                  /\ trig.enable /\ ~trig.reset
                  /\ Measured

\* the clock runs, and a handler ends
CarefulSpec == /\ Init /\ [][CarefulNext]_vars
               /\ WF_vars(Tick) /\ WF_vars(SecondWrite)

-----------------------------------------------------------------------------
(* Properties.                                                             *)

\* The values each variable takes.
TypeOK ==
    /\ mode \in {"CONFIGURATION", "ACQUISITION"}
    /\ trig \in [reference : Nat, presamples : Nat, enable : BOOLEAN,
                 arm : BOOLEAN, reset : BOOLEAN, adc : BOOLEAN]
    /\ pending \in {"none", "disable", "reset"}
    /\ busy \in 0..WriteTime
    /\ counter \in 0..(Mod - 1) /\ last_counter \in 0..(Mod - 1)
    /\ {counter_reset, first, curr_sign, last_sign, trigger_out, armed,
        armed_pre, input} \subseteq BOOLEAN
    /\ gap \in 0..(MaxGap - 1) /\ edges \in 0..2

\* The trigger of a careful client fires at the same distance from the last
\* edge of the source whenever it was armed, in whatever cycle and whatever the
\* distances of the edges were: presamples before the reference, plus the
\* cycles a pin or an ADC value takes through the registers.
FiresInPhase ==
    [][(trig.enable /\ ~trigger_out /\ trigger_out')
         => gap' = Threshold + (IF trig.adc THEN 4 ELSE 3)]_vars

\* A fired trigger stays on until it is reset or disabled, also when it is
\* disarmed and when the counter wraps around: an acquisition is not cut short.
StaysFired ==
    [][(trigger_out /\ armed) =>
         (trigger_out' /\ armed') \/ trig.reset \/ ~trig.enable]_vars

\* An armed trigger fires, also after a short arm pulse, unless it is reset or
\* disabled before.
ArmedFires == armed ~> (trigger_out \/ ~armed)
=============================================================================
