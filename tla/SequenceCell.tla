----------------------------- MODULE SequenceCell -----------------------------
(***************************************************************************)
(* One cell of the FPGA's sequence LUT, bit by bit: the server writes a    *)
(* step of the sequence into eight 16-bit words with read-modify-write     *)
(* calls, one per field and channel (rp-daq-lib.c), and the FPGA takes the *)
(* 128 bits apart again (sequence_slice.v).  Words 0 to 5 hold the values  *)
(* of the six channels, word 6 the enable bits, word 7 the ramp-down bits; *)
(* the resync bit of a fast channel is bit 14 of its value.                *)
(*                                                                         *)
(* SlowDAC and SequenceSteps take a cell for the entry that was written    *)
(* into it.  Library_proofs shows why they may: what the FPGA reads        *)
(* from a channel is the step written last, whatever the cell held before. *)
(*                                                                         *)
(* A voltage is the integer it is scaled to before it is clipped (scaling  *)
(* is the calibration's, see Calibration); clipping and truncation commute.*)
(***************************************************************************)
EXTENDS Integers

Channels == 0..5
FastDACs == 0..1           \* the other channels are PDM outputs
Bits     == 0..15
Flag     == 0..1

\* a value word: its lower 14 bits, read as a signed number, and the others
Data == -8192..8191
Word == [data : Data, bit14 : Flag, bit15 : Flag]

\* words 0 to 5, word 6, word 7
Cell == [value : [Channels -> Word], enable : [Bits -> Flag], rampDown : [Bits -> Flag]]

\* what a step of the sequence says about one channel
ChannelStep == [value : Int, enable : Flag, resync : Flag, rampDown : Flag]

\* a clipped value as an int16_t: the upper bits repeat the sign
Int16(value) ==
    LET sign == IF value < 0 THEN 1 ELSE 0
    IN  [data |-> value, bit14 |-> sign, bit15 |-> sign]

-----------------------------------------------------------------------------
(* The setters of the server; a call for a channel that has no such field  *)
(* is refused (INVALID_CHANNEL) and leaves the cell alone.                 *)

setEnableDAC(value, channel, cell) ==
    IF channel \in Channels
    THEN [cell EXCEPT !.enable[channel] = value]
    ELSE cell

setResyncDAC(value, channel, cell) ==
    IF channel \in FastDACs
    THEN [cell EXCEPT !.value[channel].bit14 = value]
    ELSE cell

setRampDownDAC(value, channel, cell) ==
    IF channel \in FastDACs
    THEN [cell EXCEPT !.rampDown[channel] = value]
    ELSE cell

\* reads the upper bits of the value of channel 4, not the ramp-down word
getRampDownDAC(channel, cell) ==
    CASE channel = 0 -> cell.value[4].bit14
      [] channel = 1 -> cell.value[4].bit15
      [] OTHER       -> 0

\* the whole word of the channel: a negative value also sets bit 14
setPDMValue(value, channel, cell) ==
    IF channel \in Channels
    THEN [cell EXCEPT !.value[channel] = Int16(value)]
    ELSE cell

\* a fast DAC has 14 bits, a PDM output 0 to 1.8 V in 11 bits
Lowest(channel)  == IF channel \in FastDACs THEN -8191 ELSE 0
Highest(channel) == IF channel \in FastDACs THEN 8191 ELSE 2047

Clipped(value, channel) ==
    IF value < Lowest(channel) THEN Lowest(channel)
    ELSE IF value > Highest(channel) THEN Highest(channel)
    ELSE value

setPDMValueVolt(value, channel, cell) ==
    setPDMValue(Clipped(value, channel), channel, cell)

\* the calls for one channel of a step, in their order; the switch before them
\* (the interval and the entry of the step) is EntryFor of SequenceSteps
setLUTValuesFor(step, channel, cell) ==
    LET valued   == setPDMValueVolt(step.value, channel, cell)
        enabled  == setEnableDAC(step.enable, channel, valued)
        resynced == setResyncDAC(step.resync, channel, enabled)
    IN  setRampDownDAC(step.rampDown, channel, resynced)

\* one channel of the loop of stopTx
StopChannel(channel, cell) ==
    setResyncDAC(0, channel,
        setEnableDAC(1, channel, setPDMValueVolt(0, channel, cell)))

\* stopTx: five channels
StopCell(cell) ==
    StopChannel(4, StopChannel(3, StopChannel(2,
        StopChannel(1, StopChannel(0, cell)))))

\* clearSequence: the values of four channels, the resync bits of the fast ones,
\* the enable bits of all, and the ramp-down bits
ClearCell(cell) ==
    [value    |-> [c \in Channels |-> IF c \in 0..3 THEN Int16(0) ELSE cell.value[c]],
     enable   |-> [b \in Bits |-> IF b \in Channels THEN 1 ELSE cell.enable[b]],
     rampDown |-> [b \in Bits |-> IF b \in FastDACs THEN 0 ELSE cell.rampDown[b]]]

-----------------------------------------------------------------------------
(* What the FPGA takes from the cell for a channel.                        *)

\* dac_value: 14 bits, signed; pdm_value: the lower 11 bits
Decoded(cell, channel) ==
    [value    |-> IF channel \in FastDACs THEN cell.value[channel].data
                                          ELSE cell.value[channel].data % 2048,
     enable   |-> cell.enable[channel],
     resync   |-> IF channel \in FastDACs THEN cell.value[channel].bit14 ELSE 0,
     rampDown |-> IF channel \in FastDACs THEN cell.rampDown[channel] ELSE 0]

\* what it should take: the clipped value and the flags the channel has
Wanted(step, channel) ==
    [value    |-> Clipped(step.value, channel),
     enable   |-> step.enable,
     resync   |-> IF channel \in FastDACs THEN step.resync ELSE 0,
     rampDown |-> IF channel \in FastDACs THEN step.rampDown ELSE 0]
=============================================================================
