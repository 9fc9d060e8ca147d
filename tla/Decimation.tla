----------------------------- MODULE Decimation -----------------------------
(***************************************************************************)
(* The decimation of the samples, the FIR filter that decimates by two on  *)
(* top of it, and the lengths of a step, which the hardware counts in      *)
(* ticks and the server in samples (rp-daq-lib.c, scpi_commands.c).        *)
(*                                                                         *)
(* Three places must agree: the register with the decimation holds half of *)
(* it while the filter is on; the register with the length of a step holds *)
(* the number of ticks at the decimation of the moment it was written; the *)
(* control thread divides the write pointer by numSamplesPerStep.          *)
(*                                                                         *)
(* Abstracted: what a sequence plays (see SlowDAC) and the trigger: a      *)
(* prepared sequence may start at any time.                                *)
(***************************************************************************)
EXTENDS Integers

CONSTANTS Samples, \* numbers of samples per step a client asks for
          MaxInt   \* the largest int

VARIABLES
    register,         \* cfg + 2: the decimation of the CIC filter
    fir,              \* bit 7 of cfg + 1
    stepTicks,        \* cfg + 4
    counterTicks,     \* cfg + 12
    numSamplesPerStep,
    mode,             \* serverMode
    seqState

vars == <<register, fir, stepTicks, counterTicks, numSamplesPerStep, mode, seqState>>

Words == 0..65535  \* uint16_t

\* getDecimation with the register r and the filter f
DecimationOf(r, f) == IF f THEN 2 * r ELSE r

GetDecimation == DecimationOf(register, fir)

\* the decimations setDecimation takes; it refuses the others
Accepted == {d \in Words : d % 2 = 0 /\ 8 <= d /\ d <= 8192}

\* what setDecimation(d) leaves in a register that holds r
Internal(d, f)              == IF f THEN d \div 2 ELSE d
AfterSetDecimation(d, f, r) == IF d \in Accepted THEN Internal(d, f) ELSE r

IsInt32(x) == -(MaxInt + 1) <= x /\ x <= MaxInt

\* the low 32 bits of samples*getDecimation(), as an int; samples may be negative
Int32(x) == IF IsInt32(x) THEN x
            ELSE ((x + MaxInt + 1) % (2 * (MaxInt + 1))) - (MaxInt + 1)

\* init(): setDecimation(16), with the filter as it was, and then FIR on
Init ==
    /\ register = Internal(16, TRUE) /\ fir = TRUE
    /\ counterTicks = 0
    /\ stepTicks \in Int  \* the register keeps what it held
    /\ numSamplesPerStep = 0
    /\ mode = "CONFIGURATION" /\ seqState = "CONFIG"

IsSequenceConfigurable == mode = "CONFIGURATION" /\ seqState # "RUNNING"

\* the number sent is cut to 16 bits before setDecimation checks it
RP_ADC_SetDecimation ==
    /\ mode = "CONFIGURATION"
    /\ \E d \in Words : register' = AfterSetDecimation(d, fir, register)
    /\ UNCHANGED <<fir, stepTicks, counterTicks, numSamplesPerStep, mode, seqState>>

\* in every mode: reads the decimation, switches the filter, sets it again
RP_ADC_SetFIREnabled ==
    /\ fir' \in BOOLEAN
    /\ register' = AfterSetDecimation(GetDecimation, fir', register)
    /\ UNCHANGED <<stepTicks, counterTicks, numSamplesPerStep, mode, seqState>>

RP_DAC_SetSamplesPerStep ==
    /\ IsSequenceConfigurable
    /\ numSamplesPerStep' \in Samples
    /\ stepTicks' = Int32(numSamplesPerStep' * GetDecimation)
    /\ seqState' = "CONFIG"
    /\ UNCHANGED <<register, fir, counterTicks, mode>>

RP_Counter_SetSamplesPerStep ==
    /\ IsSequenceConfigurable
    /\ \E n \in Samples : counterTicks' = Int32(n * GetDecimation)
    /\ UNCHANGED <<register, fir, stepTicks, numSamplesPerStep, mode, seqState>>

RP_SetServerMode ==
    /\ mode' \in {"CONFIGURATION", "ACQUISITION"}
    /\ UNCHANGED <<register, fir, stepTicks, counterTicks, numSamplesPerStep, seqState>>

\* the handlers that prepare a sequence, and those that drop it
RP_DAC_SetSequence ==
    /\ IsSequenceConfigurable
    /\ seqState' \in {"PREPARED", "CONFIG"}
    /\ UNCHANGED <<register, fir, stepTicks, counterTicks, numSamplesPerStep, mode>>

\* the control thread starts a sequence, or ends it
ControlThread ==
    /\ \/ seqState = "PREPARED" /\ seqState' = "RUNNING"
       \/ seqState # "CONFIG" /\ seqState' = "CONFIG"
    /\ UNCHANGED <<register, fir, stepTicks, counterTicks, numSamplesPerStep, mode>>

Next == \/ RP_ADC_SetDecimation \/ RP_ADC_SetFIREnabled \/ RP_DAC_SetSamplesPerStep
        \/ RP_Counter_SetSamplesPerStep \/ RP_SetServerMode \/ RP_DAC_SetSequence
        \/ ControlThread

Spec == Init /\ [][Next]_vars

-----------------------------------------------------------------------------
(* Properties.                                                             *)

\* Whatever was sent, refused or cut to 16 bits: getDecimation returns a value
\* setDecimation accepts.  So getSamplesPerStep never divides by zero, and
\* setFIREnabled, which ignores the answer of setDecimation, never has its
\* decimation refused with the filter already switched.
RateIsAccepted == GetDecimation \in Accepted

\* The filter can be switched in every mode, also while samples are taken:
\* the decimation a client sees stays.
SwitchKeepsRate == [][fir' # fir => GetDecimation' = GetDecimation]_vars

\* The hardware takes as long for a step as the control thread believes.
StepsAgree == stepTicks = numSamplesPerStep * GetDecimation

\* Only a change of the decimation ends the agreement, in CONFIGURATION, or a
\* product that no int holds: never the filter, and nothing while
\* data is acquired.
OnlyRateBreaksSteps ==
    [][(StepsAgree /\ ~StepsAgree') =>
          /\ mode = "CONFIGURATION"
          /\ \/ GetDecimation' # GetDecimation
             \/ ~IsInt32(numSamplesPerStep' * GetDecimation')]_vars
=============================================================================
