------------------------------- MODULE SlowDAC -------------------------------
(***************************************************************************)
(* The sequence engine of the server.  The FPGA iterates through a LUT of  *)
(* BuffSize cells (PDM_BUFF_SIZE) that it treats as a ring; the control    *)
(* thread (control.c) keeps the next Lookahead steps of the active sequence*)
(* written ahead of the FPGA's step pointer; the communication thread runs *)
(* the SCPI handlers of one client (scpi_commands.c), which build a        *)
(* sequence, make it the active one, and switch the trigger and the mode.  *)
(*                                                                         *)
(* The two threads share every variable below without a lock.  An action   *)
(* is one access pattern of a thread that the other thread or the FPGA can *)
(* interleave with: the control loop is split at its shared reads and      *)
(* writes, and setLUTValuesFrom, which either thread runs, is split into   *)
(* one action per step it writes.                                          *)
(*                                                                         *)
(* Abstracted: voltages and flags of an entry (an entry is named, see      *)
(* SequenceSteps), the slow channels (all channels of a step are written   *)
(* together), sleep times and the performance averages.  The PDM pointer is*)
(* reset with the trigger, as reset_manager.v does in trigger mode without *)
(* an instant reset.                                                       *)
(***************************************************************************)
EXTENDS SequenceSteps

CONSTANTS
    BuffSize,    \* PDM_BUFF_SIZE: cells of the FPGA's LUT
    Lookahead,   \* lookahead: steps kept written ahead, 0.9 * PDM_BUFF_SIZE
    RegShapes,   \* shapes a client uploads for the regular part
    RampShapes,  \* shapes a client uploads for the ramps
    Slip,        \* bound: steps the FPGA plays between two reads of its pointer
    MaxStep      \* bound: largest step pointer explored

ASSUME LookaheadFits ==
    /\ BuffSize \in Nat \ {0}
    /\ Lookahead \in 1..BuffSize

ASSUME ShapesAreSeries ==
    /\ RegShapes \subseteq Series /\ RampShapes \subseteq Series
    /\ \A s \in RegShapes \cup RampShapes : s.steps > 0 /\ s.reps > 0

ASSUME BoundsAreNat == Slip \in Nat \ {0} /\ MaxStep \in Nat

VARIABLES
    mode,          \* serverMode (TRANSMISSION: see module Transmission)
    seqState,      \* seqState
    configSeq,     \* configSeq, the sequence being built by the client
    activeSeq,     \* activeSequence
    lut,           \* the FPGA's LUT
    setTotal,      \* currentSetSlowDACStepTotal
    cur,           \* currentSlowDACStepTotal
    old,           \* oldSlowDACStepTotal
    lastStep,      \* lastStep
    prevInterval,  \* prevInterval
    lostSteps,     \* err.lostSteps
    fill,          \* per thread, the locals of a running setLUTValuesFrom
    pc,            \* where the control thread is in its loop
    crashed,       \* a NULL LUT was dereferenced: the process is gone
    trigger,       \* triggerState of the FPGA, getMasterTrigger()
    ptr,           \* the FPGA's step pointer, getPDMTotalWritePointer()
    seen,          \* history: step pointer at the control thread's last read
    rewritten,     \* history: a fill by the control thread ended in this run
    fromZero,      \* history: the pointer the control thread remembers is of
                   \* this run, or was zero when it began
    fresh          \* history: so far the client has been Fresh, see below

clientVars == <<mode, configSeq, activeSeq>>
loopVars   == <<cur, old, pc>>
fpgaVars   == <<trigger, ptr, seen, fromZero>>
serverVars == <<mode, seqState, configSeq, activeSeq, lut, setTotal, cur, old,
                lastStep, prevInterval, lostSteps, fill, pc, crashed, trigger,
                ptr, seen, rewritten, fromZero>>
vars == <<serverVars, fresh>>

Threads == {"comm", "control"}
Cells   == 0..(BuffSize - 1)
IntMax  == 2147483647
NoSeq   == [id |-> 0, up |-> NoSeries, reg |-> NoSeries, down |-> NoSeries,
            lut |-> FALSE]
NoFill  == [on |-> FALSE, base |-> 0, y |-> 0, next |-> 0]

Larger(a, b) == IF a > b THEN a ELSE b

-----------------------------------------------------------------------------
Init ==
    /\ mode = "CONFIGURATION"
    /\ seqState = "CONFIG"
    /\ configSeq = NoSeq /\ activeSeq = NoSeq
    /\ lut = [i \in Cells |-> Zero]
    /\ setTotal = 0 /\ cur = 0 /\ old = 0
    /\ lastStep = IntMax
    /\ prevInterval = "RAMPUP"
    /\ lostSteps = FALSE
    /\ fill = [t \in Threads |-> NoFill]
    /\ pc = "check"
    /\ crashed = FALSE
    /\ trigger = FALSE /\ ptr = 0
    /\ seen = 0 /\ rewritten = FALSE /\ fromZero = TRUE
    /\ fresh = TRUE

-----------------------------------------------------------------------------
(* setLUTValuesFrom, run by either thread.                                 *)

\* mutant: off by one
StartFillLate(t, base) ==
    fill' = [fill EXCEPT ![t] =
        [on |-> TRUE, base |-> base, y |-> Larger(0, setTotal - base + 1), next |-> 0]]

\* start = MAX(0, lookahead - (baseStep + lookahead - currentSet))
StartFill(t, base) ==
    fill' = [fill EXCEPT ![t] =
        [on |-> TRUE, base |-> base, y |-> Larger(0, setTotal - base), next |-> 0]]

\* mutant: only a ramp down is followed by the end
EndIsReachedByRamp(interval) == prevInterval = "RAMPDOWN" /\ interval = "DONE"

\* the transition that sets lastStep
EndIsReached(interval) == interval # prevInterval /\ interval = "DONE"

\* setLUTValuesFor all channels of step base + y; a cleared sequence keeps
\* its length but not its LUT, and reading it ends the process
FillStep(t) ==
    LET step     == fill[t].base + fill[t].y
        interval == ComputeInterval(activeSeq, step)
    IN  /\ fill[t].on /\ fill[t].y < Lookahead
        /\ IF interval = "REGULAR" /\ ~activeSeq.lut
           THEN /\ crashed' = TRUE
                /\ UNCHANGED <<lut, lastStep, prevInterval, fill>>
           ELSE /\ lut' = [lut EXCEPT ![step % BuffSize] = EntryFor(activeSeq, step)]
                /\ lastStep' = IF EndIsReached(interval) THEN step ELSE lastStep
                /\ prevInterval' = interval
                /\ fill' = [fill EXCEPT ![t].y = @ + 1,
                                        ![t].next = Larger(@, step)]
                /\ UNCHANGED crashed
        /\ UNCHANGED <<clientVars, loopVars, fpgaVars, seqState, setTotal,
                       lostSteps, rewritten>>

\* after the loop: currentSetSlowDACStepTotal = nextSetStep + 1
FillEnd(t) ==
    /\ fill[t].on /\ fill[t].y >= Lookahead
    /\ setTotal' = fill[t].next + 1
    /\ fill' = [fill EXCEPT ![t] = NoFill]

-----------------------------------------------------------------------------
(* Handlers of the communication thread.  It runs one at a time.           *)

CommIdle == ~fill["comm"].on

\* mutant: without the check of the mode
IsSequenceConfigurableAnyMode == seqState \in {"CONFIG", "PREPARED", "FINISHED"}

IsSequenceConfigurable ==
    mode = "CONFIGURATION" /\ seqState \in {"CONFIG", "PREPARED", "FINISHED"}

\* readyConfigSequence: a fresh sequence, told from the active one by its id
ReadyConfigSequence ==
    IF configSeq = NoSeq
    THEN [NoSeq EXCEPT !.id = IF activeSeq.id = 1 THEN 2 ELSE 1]
    ELSE configSeq

UploadUnchanged ==
    UNCHANGED <<mode, activeSeq, lut, setTotal, lastStep, prevInterval, lostSteps,
                fill, crashed, loopVars, fpgaVars, rewritten>>

RP_SetServerMode ==
    /\ CommIdle
    /\ mode' \in {"CONFIGURATION", "ACQUISITION"} \ {mode}
    /\ UNCHANGED <<seqState, configSeq, activeSeq, lut, setTotal, lastStep,
                   prevInterval, lostSteps, fill, crashed, loopVars, fpgaVars,
                   rewritten>>

RP_DAC_SetValueLUT(series) ==
    /\ CommIdle /\ IsSequenceConfigurable
    /\ configSeq' = [ReadyConfigSequence EXCEPT !.reg = series, !.lut = TRUE]
    /\ seqState' = "CONFIG"
    /\ UploadUnchanged

RP_DAC_SetUpLUT(series) ==
    /\ CommIdle /\ IsSequenceConfigurable
    /\ configSeq' = [ReadyConfigSequence EXCEPT !.up = series]
    /\ seqState' = "CONFIG"
    /\ UploadUnchanged

RP_DAC_SetDownLUT(series) ==
    /\ CommIdle /\ IsSequenceConfigurable
    /\ configSeq' = [ReadyConfigSequence EXCEPT !.down = series]
    /\ seqState' = "CONFIG"
    /\ UploadUnchanged

\* the enable and resync LUTs of an uploaded value LUT, the samples per step
\* and the number of channels: data here, but they unprepare the sequence
RP_DAC_Reconfigure ==
    /\ CommIdle /\ IsSequenceConfigurable
    /\ configSeq' \in {configSeq, ReadyConfigSequence}
    /\ seqState' = "CONFIG"
    /\ UploadUnchanged

\* an upload is refused after it readied the sequence: at the wrong time, or an
\* enable or resync LUT without a value LUT
RP_DAC_RefusedUpload ==
    /\ CommIdle /\ (~IsSequenceConfigurable \/ ~configSeq.lut)
    /\ configSeq' = ReadyConfigSequence
    /\ UNCHANGED seqState
    /\ UploadUnchanged

\* mutant: the end of the last sequence stays
BeginPrepareKeepsEnd ==
    /\ lut' = [i \in Cells |-> IF lut[i].part = "DONE" THEN Zero ELSE lut[i]]
    /\ lostSteps' = FALSE
    /\ UNCHANGED lastStep
    /\ StartFill("comm", 0)

\* prepareSequence up to its call of setLUTValuesFrom(0): initSlowDAC enables
\* every cell and clears the flag
BeginPrepare ==
    /\ lut' = [i \in Cells |-> IF lut[i].part = "DONE" THEN Zero ELSE lut[i]]
    /\ lostSteps' = FALSE
    /\ lastStep' = IntMax
    /\ StartFill("comm", 0)

RP_DAC_SetSequence ==
    /\ CommIdle /\ IsSequenceConfigurable
    /\ activeSeq' = IF configSeq # NoSeq THEN configSeq ELSE activeSeq
    /\ configSeq' = NoSeq
    /\ IF activeSeq' # NoSeq
       THEN BeginPrepare
       ELSE UNCHANGED <<lut, lostSteps, lastStep, fill>>
    /\ UNCHANGED <<mode, seqState, setTotal, prevInterval, crashed, loopVars,
                   fpgaVars, rewritten>>

\* the rest of prepareSequence
PrepareEnd ==
    /\ FillEnd("comm")
    /\ seqState' = "PREPARED"
    /\ UNCHANGED <<clientVars, lut, lastStep, prevInterval, lostSteps, crashed,
                   loopVars, fpgaVars, rewritten>>

\* clearSequence frees the LUTs, keeps the pointer and the state, and blanks
\* the cells, ramp down bits included
RP_DAC_ClearSequence ==
    /\ CommIdle /\ IsSequenceConfigurable
    /\ activeSeq' = IF activeSeq = NoSeq THEN activeSeq
                    ELSE [activeSeq EXCEPT !.lut = FALSE, !.up = NoSeries,
                                           !.down = NoSeries]
    /\ lut' = [i \in Cells |-> Zero]
    /\ UNCHANGED <<mode, seqState, configSeq, setTotal, lastStep, prevInterval,
                   lostSteps, fill, crashed, loopVars, fpgaVars, rewritten>>

RP_SetMasterTrigger(on) ==
    /\ CommIdle /\ mode = "ACQUISITION"
    /\ trigger # on
    /\ trigger' = on
    /\ ptr' = 0 /\ seen' = 0
    /\ fromZero' = (on => old = 0)
    /\ UNCHANGED <<clientVars, seqState, lut, setTotal, lastStep, prevInterval,
                   lostSteps, fill, crashed, loopVars, rewritten>>

-----------------------------------------------------------------------------
(* The control thread.                                                     *)

Blanked == [i \in Cells |-> [Zero EXCEPT !.rampDown = lut[i].rampDown]]

\* cleanUpSlowDAC: stopTx writes 0 V and enable, not the ramp down bits
CleanUpSlowDAC ==
    /\ lut' = Blanked
    /\ seqState' = "CONFIG"

\* the condition of the loop body
CtlCheck ==
    /\ pc = "check"
    /\ pc' = IF trigger /\ seqState \in {"PREPARED", "RUNNING"} THEN "start" ELSE "idle"
    /\ UNCHANGED <<clientVars, fpgaVars, seqState, lut, setTotal, cur, old, lastStep,
                   prevInterval, lostSteps, fill, crashed, rewritten>>

CtlStart ==
    /\ pc = "start"
    /\ pc' = "read"
    /\ IF seqState = "PREPARED"
       THEN seqState' = "RUNNING" /\ rewritten' = FALSE
       ELSE UNCHANGED <<seqState, rewritten>>
    /\ UNCHANGED <<clientVars, fpgaVars, lut, setTotal, cur, old, lastStep,
                   prevInterval, lostSteps, fill, crashed>>

CtlRead ==
    /\ pc = "read"
    /\ pc' = IF ptr > old THEN "handle" ELSE "rest"
    /\ cur' = ptr
    /\ seen' = ptr
    /\ UNCHANGED <<clientVars, seqState, lut, setTotal, old, lastStep, prevInterval,
                   lostSteps, fill, crashed, trigger, ptr, rewritten,
                   fromZero>>

\* mutant: compares with the ring instead of what is set of it
CheckLostStepsOfRing ==
    lostSteps' = (lostSteps \/ cur > old + BuffSize)

\* handleLostSlowDACSteps
CheckLostSteps ==
    lostSteps' = (lostSteps \/ cur > old + Lookahead)

CtlFinish ==
    /\ pc = "handle"
    /\ CheckLostSteps
    /\ cur >= lastStep
    /\ CleanUpSlowDAC
    /\ setTotal' = 0
    /\ pc' = "rest"
    /\ UNCHANGED <<clientVars, fpgaVars, cur, old, lastStep, prevInterval, fill,
                   crashed, rewritten>>

CtlFill ==
    /\ pc = "handle"
    /\ CheckLostSteps
    /\ cur < lastStep
    /\ StartFill("control", cur)
    /\ pc' = "fill"
    /\ UNCHANGED <<clientVars, fpgaVars, seqState, lut, setTotal, cur, old, lastStep,
                   prevInterval, crashed, rewritten>>

CtlFillEnd ==
    /\ FillEnd("control")
    /\ pc' = "rest"
    /\ rewritten' = TRUE
    /\ UNCHANGED <<clientVars, fpgaVars, seqState, lut, cur, old, lastStep,
                   prevInterval, lostSteps, crashed>>

CtlRest ==
    /\ pc = "rest"
    /\ old' = cur
    /\ pc' = "check"
    /\ UNCHANGED <<clientVars, fpgaVars, seqState, lut, setTotal, cur, lastStep,
                   prevInterval, lostSteps, fill, crashed, rewritten>>

\* the else branch: a sequence that was stopped before finishing
CtlIdle ==
    /\ pc = "idle"
    /\ IF seqState = "RUNNING"
       THEN CleanUpSlowDAC
       ELSE UNCHANGED <<lut, seqState>>
    /\ pc' = "check"
    /\ UNCHANGED <<clientVars, fpgaVars, setTotal, cur, old, lastStep, prevInterval,
                   lostSteps, fill, crashed, rewritten>>

ControlThread ==
    \/ CtlCheck \/ CtlStart \/ CtlRead \/ CtlFinish \/ CtlFill
    \/ FillStep("control") \/ CtlFillEnd \/ CtlRest \/ CtlIdle

\* a new connection: both threads of the old one were joined, the control
\* thread blanked the LUT, and the new one resets currentSet, but not old;
\* nobody touches the mode or the trigger
Reconnect ==
    /\ CommIdle /\ pc = "check"
    /\ CleanUpSlowDAC
    /\ setTotal' = 0
    /\ UNCHANGED <<clientVars, loopVars, fpgaVars, lastStep, prevInterval, lostSteps,
                   fill, crashed, rewritten>>

-----------------------------------------------------------------------------
(* The FPGA: sequence_stepper.v advances the pointer while the trigger is  *)
(* on.  Slip bounds how far it gets while the control thread sleeps.       *)
PointerStep ==
    /\ trigger
    /\ ptr < seen + Slip /\ ptr < MaxStep
    /\ ptr' = ptr + 1
    /\ UNCHANGED <<clientVars, loopVars, seqState, lut, setTotal, lastStep,
                   prevInterval, lostSteps, fill, crashed, trigger, seen, rewritten,
                   fromZero>>

Client ==
    \/ RP_SetServerMode
    \/ \E s \in RegShapes : RP_DAC_SetValueLUT(s)
    \/ \E s \in RampShapes : RP_DAC_SetUpLUT(s)
    \/ \E s \in RampShapes : RP_DAC_SetDownLUT(s)
    \/ RP_DAC_Reconfigure
    \/ RP_DAC_RefusedUpload
    \/ RP_DAC_SetSequence
    \/ RP_DAC_ClearSequence
    \/ \E on \in BOOLEAN : RP_SetMasterTrigger(on)
    \/ Reconnect

Next ==
    /\ ~crashed
    /\ \/ Client
       \/ FillStep("comm")
       \/ PrepareEnd
       \/ ControlThread
       \/ PointerStep

-----------------------------------------------------------------------------
(***************************************************************************)
(* Clients.  The handlers accept more than a client should send.  Careful  *)
(* is the client that lets a run come to rest before it configures again,  *)
(* sets what it has uploaded before it leaves CONFIGURATION, and sets and  *)
(* starts only a sequence with a value LUT.  It is Fresh for as long as    *)
(* every sequence it set ran to its end before it set the next one or      *)
(* switched the trigger.                                                   *)
(***************************************************************************)
AtRest == ~trigger /\ seqState # "RUNNING" /\ pc \in {"check", "idle"}

Cleared == activeSeq # NoSeq /\ ~activeSeq.lut

\* a step that begins SET, or that switches the trigger on
BeginsSet == CommIdle /\ fill'["comm"].on
Starts    == ~trigger /\ trigger'

CarefulClient ==
    /\ mode' = "CONFIGURATION" /\ mode' # mode => AtRest
    /\ mode' = "ACQUISITION" /\ mode' # mode => configSeq = NoSeq
    /\ Starts => AtRest /\ ~(Cleared /\ seqState = "PREPARED")
    /\ BeginsSet => IF configSeq = NoSeq THEN ~Cleared ELSE configSeq.lut

FreshClient ==
    /\ BeginsSet => setTotal = 0
    /\ trigger' # trigger => seqState # "RUNNING"

CarefulNext ==
    /\ Next
    /\ CarefulClient
    /\ fresh' = (fresh /\ FreshClient)

Progress ==
    /\ WF_serverVars(~crashed /\ ControlThread)
    /\ WF_serverVars(~crashed /\ (FillStep("comm") \/ PrepareEnd))
    /\ WF_serverVars(~crashed /\ PointerStep)

CarefulSpec == Init /\ [][CarefulNext]_vars /\ Progress

-----------------------------------------------------------------------------
Sequence == [id : 0..2, up : {NoSeries} \cup RampShapes,
             reg : {NoSeries} \cup RegShapes,
             down : {NoSeries} \cup RampShapes, lut : BOOLEAN]

Cell == [id : 0..2, part : Intervals \cup {"ZERO"}, at : Nat, rampDown : BOOLEAN]

\* Every variable keeps the type its C declaration gives it.
TypeOK ==
    /\ mode \in {"CONFIGURATION", "ACQUISITION"}
    /\ seqState \in {"CONFIG", "PREPARED", "RUNNING", "FINISHED"}
    /\ configSeq \in Sequence /\ activeSeq \in Sequence
    /\ lut \in [Cells -> Cell]
    /\ setTotal \in Nat /\ cur \in Nat /\ old \in Nat /\ lastStep \in Nat
    /\ prevInterval \in Intervals
    /\ lostSteps \in BOOLEAN
    /\ fill \in [Threads -> [on : BOOLEAN, base : Nat, y : Nat, next : Nat]]
    /\ pc \in {"check", "idle", "start", "read", "handle", "fill", "rest"}
    /\ crashed \in BOOLEAN /\ trigger \in BOOLEAN /\ rewritten \in BOOLEAN
    /\ fromZero \in BOOLEAN
    /\ ptr \in 0..MaxStep /\ seen \in 0..MaxStep

Holds(step) == lut[step % BuffSize] = ExpectedAt(activeSeq, step)

\* setLUTValuesFrom keeps its position in statics (prevInterval, lastStep,
\* currentSetSlowDACStepTotal), and the control thread and a SET handler both
\* call it without a lock: they never do so at the same time.
FillsAreExclusive == ~(fill["comm"].on /\ fill["control"].on)

\* Once the control thread has filled the LUT in a run, every step from the
\* one it last read up to currentSetSlowDACStepTotal is in its cell of the
\* ring as the play list of the sequence has it, also while a fill runs and
\* after a late one: no fill overwrites a step that is still to be played.
WindowMatchesPlayList ==
    (trigger /\ seqState = "RUNNING" /\ rewritten) =>
        \A step \in cur..(setTotal - 1) : Holds(step)

\* A run is ended only after every step of its sequence was played: the end
\* the control thread compares with is never one of an earlier sequence.
NeverCutShort ==
    [][CtlFinish => cur >= TotalSteps(activeSeq)]_vars

\* While a sequence is played, the FPGA reads the entry of the play list at
\* its step pointer, as long as the pointer is not ahead of what was set.
PlaysThePlayList ==
    (fresh /\ trigger /\ seqState \in {"PREPARED", "RUNNING"} /\ ptr < setTotal) => Holds(ptr)

\* A started sequence ends, by itself or because the trigger was switched off.
SequenceEnds ==
    (fresh /\ seqState = "RUNNING") ~> (seqState # "RUNNING" \/ ~fresh)

\* docs/src/generation.md on lostSteps: "wrong signals could be output because
\* the server was too slow in updating the values ... a status flag lostSteps
\* for exactly this case".  Steps of the sequence that the control thread
\* skipped raise it, in a run that it did not enter with the pointer of an
\* earlier run in oldSlowDACStepTotal (prepareSequence does not reset it).
SkippedFromZeroAreFlagged ==
    [][(fresh /\ pc = "handle" /\ pc' # "handle" /\ fromZero
        /\ setTotal < TotalSteps(activeSeq) /\ cur > setTotal) => lostSteps']_vars
=============================================================================
