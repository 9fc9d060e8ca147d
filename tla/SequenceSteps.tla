---------------------------- MODULE SequenceSteps ----------------------------
(***************************************************************************)
(* The step arithmetic of a DAC sequence (control.c): a sequence is a ramp *)
(* up, a regular part and a ramp down, each a series of steps repeated a   *)
(* number of times.  This module says which entry of which series a global *)
(* step number selects.                                                    *)
(*                                                                         *)
(* A series is [steps, reps]; a part that was not uploaded (a NULL rampUp  *)
(* or rampDown, or the zeroed LUT header of a fresh sequence) is NoSeries. *)
(* The voltages, enable and resync flags of an entry are data: an entry is *)
(* named by the sequence it belongs to, the interval and its position.     *)
(***************************************************************************)
EXTENDS Integers, Sequences

Series == [steps : Nat, reps : Nat]

NoSeries == [steps |-> 0, reps |-> 0]

\* getRampingSteps, getRampUpSteps, getRampDownSteps, getSequenceSteps
StepsOf(series) == series.reps * series.steps

\* getTotalSteps
TotalSteps(seq) == StepsOf(seq.up) + StepsOf(seq.reg) + StepsOf(seq.down)

Intervals == {"RAMPUP", "REGULAR", "RAMPDOWN", "DONE"}

\* mutant: the last step of the sequence is taken for its end
ComputeIntervalShort(seq, step) ==
    CASE step < StepsOf(seq.up)                       -> "RAMPUP"
      [] /\ step >= StepsOf(seq.up)
         /\ step < StepsOf(seq.up) + StepsOf(seq.reg) -> "REGULAR"
      [] /\ step >= StepsOf(seq.up) + StepsOf(seq.reg)
         /\ step < TotalSteps(seq) - 1                -> "RAMPDOWN"
      [] OTHER                                        -> "DONE"

ComputeInterval(seq, step) ==
    CASE step < StepsOf(seq.up)                       -> "RAMPUP"
      [] /\ step >= StepsOf(seq.up)
         /\ step < StepsOf(seq.up) + StepsOf(seq.reg) -> "REGULAR"
      [] /\ step >= StepsOf(seq.up) + StepsOf(seq.reg)
         /\ step < TotalSteps(seq)                    -> "RAMPDOWN"
      [] OTHER                                        -> "DONE"

GetBaseStep(seq, interval) ==
    CASE interval = "RAMPUP"   -> 0
      [] interval = "REGULAR"  -> StepsOf(seq.up)
      [] interval = "RAMPDOWN" -> StepsOf(seq.up) + StepsOf(seq.reg)
      [] OTHER                 -> TotalSteps(seq)

SeriesOf(seq, interval) ==
    CASE interval = "RAMPUP"  -> seq.up
      [] interval = "REGULAR" -> seq.reg
      [] OTHER                -> seq.down

(***************************************************************************)
(* A cell of the FPGA's LUT: which entry was written into it, and the ramp *)
(* down bits, which stopTx leaves alone.  Zero is what stopTx and CLEAR    *)
(* write (0 V, enabled), DONE what a step behind the end gets (disabled).  *)
(***************************************************************************)
Zero == [id |-> 0, part |-> "ZERO", at |-> 0, rampDown |-> FALSE]

\* setLUTValuesFor: the cell written for global step `step` of `seq`
EntryFor(seq, step) ==
    LET interval  == ComputeInterval(seq, step)
        localStep == step - GetBaseStep(seq, interval)
    IN  IF interval = "DONE"
        THEN [Zero EXCEPT !.part = "DONE"]
        ELSE [id       |-> seq.id,
              part     |-> interval,
              at       |-> localStep % SeriesOf(seq, interval).steps,
              rampDown |-> interval = "RAMPDOWN"]

-----------------------------------------------------------------------------
(***************************************************************************)
(* Reference definition: the list of entries the documentation describes   *)
(* (docs/src/generation.md): the ramp up, then the regular sequence, then  *)
(* the ramp down, each series played reps times, then nothing.             *)
(***************************************************************************)
Repeat(series, seq, part) ==
    [k \in 1..(series.reps * series.steps) |->
        [id       |-> seq.id,
         part     |-> part,
         at       |-> (k - 1) % series.steps,
         rampDown |-> part = "RAMPDOWN"]]

PlayList(seq) ==
    Repeat(seq.up, seq, "RAMPUP") \o Repeat(seq.reg, seq, "REGULAR")
        \o Repeat(seq.down, seq, "RAMPDOWN")

ExpectedAt(seq, step) ==
    IF step < Len(PlayList(seq))
    THEN PlayList(seq)[step + 1]
    ELSE [Zero EXCEPT !.part = "DONE"]
=============================================================================
