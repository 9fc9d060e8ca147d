--------------------------- MODULE Library_proofs ---------------------------
(***************************************************************************)
(* Proofs about two parts of the library that compute what they write from *)
(* what they read: a cell of the sequence table (SequenceCell, for every   *)
(* content of the cell and every step), and the registers with decimation, *)
(* filter and lengths (Decimation, for every number a client may send).    *)
(*                                                                         *)
(* The cell: a setter changes one flag, or one whole value word, and the   *)
(* FPGA reads no bit for two purposes.  The one overlap is that the value  *)
(* of a fast DAC carries the resync bit with it: setLUTValuesFor writes    *)
(* the value first, and the flag of the step after it.                     *)
(*                                                                         *)
(* The decimation: the invariant is RateIsAccepted with the types.  While  *)
(* the decimation is an accepted one, setDecimation with it succeeds, so   *)
(* that the switch of the filter rewrites the register to the value with   *)
(* the same decimation.                                                    *)
(***************************************************************************)
EXTENDS SequenceCell, Decimation, TLAPS

-----------------------------------------------------------------------------
(* Lemmas about the setters.                                               *)

\* A clipped value lies between the limits of its channel.
LEMMA ClippedType ==
    ASSUME NEW v \in Int, NEW c \in Channels
    PROVE  /\ Clipped(v, c) \in Int
           /\ -8191 <= Clipped(v, c) /\ Clipped(v, c) <= 8191
           /\ c \notin FastDACs => 0 <= Clipped(v, c) /\ Clipped(v, c) <= 2047
<1>1. CASE c \in FastDACs
  BY <1>1 DEF Clipped, Lowest, Highest
<1>2. CASE c \notin FastDACs
  BY <1>2 DEF Clipped, Lowest, Highest
<1> QED
  BY <1>1, <1>2

\* A value between those limits fits into the lower 14 bits of a word.
LEMMA Int16Type ==
    ASSUME NEW x \in Int, -8191 <= x, x <= 8191
    PROVE  Int16(x) \in Word
<1>1. x \in -8192..8191
  BY SMTT(120)
<1>2. PICK sign \in Flag : sign = IF x < 0 THEN 1 ELSE 0
  BY DEF Flag
<1>3. Int16(x) = [data |-> x, bit14 |-> sign, bit15 |-> sign]
  BY <1>2 DEF Int16
<1> QED
  BY <1>1, <1>2, <1>3 DEF Word, Data

\* Setting the value of a channel replaces its word and nothing else.
LEMMA ValueWritten ==
    ASSUME NEW cell \in Cell, NEW c \in Channels, NEW v \in Int,
           NEW after, after = setPDMValueVolt(v, c, cell)
    PROVE  /\ after \in Cell
           /\ after.value[c] = Int16(Clipped(v, c))
           /\ \A d \in Channels : d # c => after.value[d] = cell.value[d]
           /\ after.enable = cell.enable /\ after.rampDown = cell.rampDown
<1>1. Int16(Clipped(v, c)) \in Word
  BY ClippedType, Int16Type
<1> QED
  BY <1>1 DEF setPDMValueVolt, setPDMValue, Cell

\* Setting the enable bit of a channel changes that bit alone.
LEMMA EnableWritten ==
    ASSUME NEW cell \in Cell, NEW c \in Channels, NEW b \in Flag,
           NEW after, after = setEnableDAC(b, c, cell)
    PROVE  /\ after \in Cell
           /\ after.value = cell.value /\ after.rampDown = cell.rampDown
           /\ after.enable[c] = b
           /\ \A d \in Channels : d # c => after.enable[d] = cell.enable[d]
<1>1. c \in Bits
  BY DEF Channels, Bits
<1> QED
  BY <1>1 DEF setEnableDAC, Cell, Channels, Bits

\* Setting bit 14 of a word keeps its value.
LEMMA Bit14Written ==
    ASSUME NEW w \in Word, NEW b \in Flag
    PROVE  /\ [w EXCEPT !.bit14 = b] \in Word
           /\ [w EXCEPT !.bit14 = b].data = w.data
           /\ [w EXCEPT !.bit14 = b].bit14 = b
<1>1. [w EXCEPT !.bit14 = b] = [data |-> w.data, bit14 |-> b, bit15 |-> w.bit15]
  BY DEF Word
<1>2. \A x \in Data : \A y \in Flag :
          [data |-> x, bit14 |-> b, bit15 |-> y] \in Word
  BY DEF Word
<1>3. w.data \in Data /\ w.bit15 \in Flag
  BY DEF Word
<1>4. [data |-> w.data, bit14 |-> b, bit15 |-> w.bit15] \in Word
  BY <1>2, <1>3, Zenon
<1> QED
  BY <1>1, <1>4

\* Setting the resync bit of a channel changes that bit alone, and only a fast
\* channel has it.
LEMMA ResyncWritten ==
    ASSUME NEW cell \in Cell, NEW c \in Channels, NEW b \in Flag,
           NEW after, after = setResyncDAC(b, c, cell)
    PROVE  /\ after \in Cell
           /\ after.enable = cell.enable /\ after.rampDown = cell.rampDown
           /\ after.value[c].data = cell.value[c].data
           /\ c \in FastDACs => after.value[c].bit14 = b
           /\ \A d \in Channels : d # c => after.value[d] = cell.value[d]
<1>1. CASE c \notin FastDACs
  BY <1>1 DEF setResyncDAC
<1>2. CASE c \in FastDACs
  <2> DEFINE word == [cell.value[c] EXCEPT !.bit14 = b]
  <2>1. cell.value[c] \in Word
    BY DEF Cell
  <2>2. word \in Word /\ word.data = cell.value[c].data /\ word.bit14 = b
    BY <2>1, Bit14Written
  <2>3. after = [cell EXCEPT !.value = [cell.value EXCEPT ![c] = word]]
    BY <1>2 DEF setResyncDAC, Cell
  <2> HIDE DEF word
  <2> QED
    BY <2>2, <2>3 DEF Cell
<1> QED
  BY <1>1, <1>2

\* Setting the ramp-down bit of a channel changes that bit alone, and only a
\* fast channel has it.
LEMMA RampDownWritten ==
    ASSUME NEW cell \in Cell, NEW c \in Channels, NEW b \in Flag,
           NEW after, after = setRampDownDAC(b, c, cell)
    PROVE  /\ after \in Cell
           /\ after.value = cell.value /\ after.enable = cell.enable
           /\ c \in FastDACs => after.rampDown[c] = b
           /\ \A d \in Channels : d # c => after.rampDown[d] = cell.rampDown[d]
<1>1. c \in Bits
  BY DEF Channels, Bits
<1> QED
  BY <1>1 DEF setRampDownDAC, Cell, Channels, Bits

\* The lower 11 bits of the value of a PDM output are the value.
LEMMA ValueReads ==
    ASSUME NEW x \in Int, 0 <= x, x <= 2047
    PROVE  x % 2048 = x
  OBVIOUS

-----------------------------------------------------------------------------
(* The results.                                                            *)

\* The step that was written to a channel is what the FPGA takes from it,
\* whatever the cell held before: a resync bit or a ramp-down bit of an older
\* step is gone, and the sign of a negative voltage is not taken for a resync.
\* The other channels are as they were.
THEOREM StepIsDecoded ==
    ASSUME NEW cell \in Cell, NEW c \in Channels, NEW step \in ChannelStep
    PROVE  /\ setLUTValuesFor(step, c, cell) \in Cell
           /\ Decoded(setLUTValuesFor(step, c, cell), c) = Wanted(step, c)
           /\ \A d \in Channels : d # c =>
                  Decoded(setLUTValuesFor(step, c, cell), d) = Decoded(cell, d)
<1>1. /\ step.value \in Int /\ step.enable \in Flag
      /\ step.resync \in Flag /\ step.rampDown \in Flag
  BY DEF ChannelStep
<1>2. PICK valued : valued = setPDMValueVolt(step.value, c, cell)
  OBVIOUS
<1>3. PICK enabled : enabled = setEnableDAC(step.enable, c, valued)
  OBVIOUS
<1>4. PICK resynced : resynced = setResyncDAC(step.resync, c, enabled)
  OBVIOUS
<1>5. PICK after : after = setRampDownDAC(step.rampDown, c, resynced)
  OBVIOUS
<1>6. after = setLUTValuesFor(step, c, cell)
  BY <1>2, <1>3, <1>4, <1>5 DEF setLUTValuesFor
<1>7. PICK x : x = Clipped(step.value, c)
  OBVIOUS
<1>8. /\ valued \in Cell /\ valued.value[c] = Int16(x)
      /\ \A d \in Channels : d # c => valued.value[d] = cell.value[d]
      /\ valued.enable = cell.enable /\ valued.rampDown = cell.rampDown
  BY <1>1, <1>2, <1>7, ValueWritten
<1>9. /\ enabled \in Cell
      /\ enabled.value = valued.value /\ enabled.rampDown = valued.rampDown
      /\ enabled.enable[c] = step.enable
      /\ \A d \in Channels : d # c => enabled.enable[d] = valued.enable[d]
  <2>1. step.enable \in Flag /\ valued \in Cell
    BY <1>1, <1>8
  <2> QED
    BY <2>1, <1>3, EnableWritten
<1>10. /\ resynced \in Cell
       /\ resynced.enable = enabled.enable /\ resynced.rampDown = enabled.rampDown
       /\ resynced.value[c].data = enabled.value[c].data
       /\ c \in FastDACs => resynced.value[c].bit14 = step.resync
       /\ \A d \in Channels : d # c => resynced.value[d] = enabled.value[d]
  <2>1. step.resync \in Flag /\ enabled \in Cell
    BY <1>1, <1>9
  <2> QED
    BY <2>1, <1>4, ResyncWritten
<1>11. /\ after \in Cell
       /\ after.value = resynced.value /\ after.enable = resynced.enable
       /\ c \in FastDACs => after.rampDown[c] = step.rampDown
       /\ \A d \in Channels : d # c => after.rampDown[d] = resynced.rampDown[d]
  <2>1. step.rampDown \in Flag /\ resynced \in Cell
    BY <1>1, <1>10
  <2> QED
    BY <2>1, <1>5, RampDownWritten
<1>12. after.value[c].data = x
  <2>1. Int16(x).data = x
    BY DEF Int16
  <2> QED
    BY <2>1, <1>8, <1>9, <1>10, <1>11
<1>13. c \notin FastDACs => x % 2048 = x
  BY <1>1, <1>7, ClippedType, ValueReads
<1>14. Decoded(after, c) = Wanted(step, c)
  <2>1. (IF c \in FastDACs THEN after.value[c].data
                           ELSE after.value[c].data % 2048) = Clipped(step.value, c)
    BY <1>7, <1>12, <1>13
  <2> QED
    BY <2>1, <1>9, <1>10, <1>11 DEF Decoded, Wanted
<1>15. \A d \in Channels : d # c => Decoded(after, d) = Decoded(cell, d)
  BY <1>8, <1>9, <1>10, <1>11 DEF Decoded
<1> QED
  BY <1>6, <1>11, <1>14, <1>15

\* What the FPGA takes from a channel that was stopped: 0 V, enabled, no resync,
\* and the ramp-down bit it had.
Stopped(cell, c) ==
    [value |-> 0, enable |-> 1, resync |-> 0, rampDown |-> Decoded(cell, c).rampDown]

\* One channel of stopTx leaves the other channels alone.
LEMMA ChannelStops ==
    ASSUME NEW cell \in Cell, NEW c \in Channels
    PROVE  /\ StopChannel(c, cell) \in Cell
           /\ Decoded(StopChannel(c, cell), c) = Stopped(cell, c)
           /\ \A d \in Channels : d # c =>
                  Decoded(StopChannel(c, cell), d) = Decoded(cell, d)
<1>1. PICK valued : valued = setPDMValueVolt(0, c, cell)
  OBVIOUS
<1>2. PICK enabled : enabled = setEnableDAC(1, c, valued)
  OBVIOUS
<1>3. PICK after : after = setResyncDAC(0, c, enabled)
  OBVIOUS
<1>4. after = StopChannel(c, cell)
  BY <1>1, <1>2, <1>3 DEF StopChannel
<1>5. Clipped(0, c) = 0
  BY DEF Clipped, Lowest, Highest
<1>6. /\ valued \in Cell /\ valued.value[c] = Int16(0)
      /\ \A d \in Channels : d # c => valued.value[d] = cell.value[d]
      /\ valued.enable = cell.enable /\ valued.rampDown = cell.rampDown
  BY <1>1, <1>5, ValueWritten
<1>7. /\ enabled \in Cell
      /\ enabled.value = valued.value /\ enabled.rampDown = valued.rampDown
      /\ enabled.enable[c] = 1
      /\ \A d \in Channels : d # c => enabled.enable[d] = valued.enable[d]
  <2>1. 1 \in Flag /\ valued \in Cell
    BY <1>6 DEF Flag
  <2> QED
    BY <2>1, <1>2, EnableWritten
<1>8. /\ after \in Cell
      /\ after.enable = enabled.enable /\ after.rampDown = enabled.rampDown
      /\ after.value[c].data = enabled.value[c].data
      /\ c \in FastDACs => after.value[c].bit14 = 0
      /\ \A d \in Channels : d # c => after.value[d] = enabled.value[d]
  <2>1. 0 \in Flag /\ enabled \in Cell
    BY <1>7 DEF Flag
  <2> QED
    BY <2>1, <1>3, ResyncWritten
<1>9. after.value[c].data = 0
  <2>1. Int16(0).data = 0
    BY DEF Int16
  <2> QED
    BY <2>1, <1>6, <1>7, <1>8
<1>10. Decoded(after, c) = Stopped(cell, c)
  <2>1. (IF c \in FastDACs THEN after.value[c].data
                           ELSE after.value[c].data % 2048) = 0
    BY <1>9, ValueReads
  <2> QED
    BY <2>1, <1>6, <1>7, <1>8 DEF Decoded, Stopped
<1>11. \A d \in Channels : d # c => Decoded(after, d) = Decoded(cell, d)
  BY <1>6, <1>7, <1>8 DEF Decoded
<1> QED
  BY <1>4, <1>8, <1>10, <1>11

\* After stopTx the FPGA takes 0 V from the first five channels.  The sixth
\* channel plays on what the sequence wrote last, with its enable bit, and a
\* cell that was written for a ramp down still asks for it.
THEOREM StopLeaves ==
    ASSUME NEW cell \in Cell
    PROVE  /\ \A d \in 0..4 : Decoded(StopCell(cell), d) = Stopped(cell, d)
           /\ Decoded(StopCell(cell), 5) = Decoded(cell, 5)
<1>1. PICK c0 : c0 = StopChannel(0, cell)
  OBVIOUS
<1>2. PICK c1 : c1 = StopChannel(1, c0)
  OBVIOUS
<1>3. PICK c2 : c2 = StopChannel(2, c1)
  OBVIOUS
<1>4. PICK c3 : c3 = StopChannel(3, c2)
  OBVIOUS
<1>5. PICK c4 : c4 = StopChannel(4, c3)
  OBVIOUS
<1>6. StopCell(cell) = c4
  BY <1>1, <1>2, <1>3, <1>4, <1>5 DEF StopCell
<1>7. 0..5 = Channels
  BY DEF Channels
<1>8. /\ c0 \in Cell /\ Decoded(c0, 0) = Stopped(cell, 0)
      /\ \A d \in 1..5 : Decoded(c0, d) = Decoded(cell, d)
  BY <1>1, <1>7, ChannelStops
<1>9. /\ c1 \in Cell /\ Decoded(c1, 1) = Stopped(c0, 1)
      /\ \A d \in {0, 2, 3, 4, 5} : Decoded(c1, d) = Decoded(c0, d)
  BY <1>2, <1>7, <1>8, ChannelStops
<1>10. /\ c2 \in Cell /\ Decoded(c2, 2) = Stopped(c1, 2)
       /\ \A d \in {0, 1, 3, 4, 5} : Decoded(c2, d) = Decoded(c1, d)
  BY <1>3, <1>7, <1>9, ChannelStops
<1>11. /\ c3 \in Cell /\ Decoded(c3, 3) = Stopped(c2, 3)
       /\ \A d \in {0, 1, 2, 4, 5} : Decoded(c3, d) = Decoded(c2, d)
  BY <1>4, <1>7, <1>10, ChannelStops
<1>12. /\ c4 \in Cell /\ Decoded(c4, 4) = Stopped(c3, 4)
       /\ \A d \in {0, 1, 2, 3, 5} : Decoded(c4, d) = Decoded(c3, d)
  BY <1>5, <1>7, <1>11, ChannelStops
<1>13. /\ Decoded(c0, 1) = Decoded(cell, 1) /\ Decoded(c1, 2) = Decoded(cell, 2)
       /\ Decoded(c2, 3) = Decoded(cell, 3) /\ Decoded(c3, 4) = Decoded(cell, 4)
       /\ Decoded(c4, 5) = Decoded(cell, 5)
  BY <1>8, <1>9, <1>10, <1>11, <1>12
<1>14. /\ Stopped(c0, 1) = Stopped(cell, 1) /\ Stopped(c1, 2) = Stopped(cell, 2)
       /\ Stopped(c2, 3) = Stopped(cell, 3) /\ Stopped(c3, 4) = Stopped(cell, 4)
  BY <1>13 DEF Stopped
<1>15. /\ Decoded(c4, 0) = Stopped(cell, 0) /\ Decoded(c4, 1) = Stopped(cell, 1)
       /\ Decoded(c4, 2) = Stopped(cell, 2) /\ Decoded(c4, 3) = Stopped(cell, 3)
       /\ Decoded(c4, 4) = Stopped(cell, 4)
  BY <1>8, <1>9, <1>10, <1>11, <1>12, <1>14
<1> QED
  BY <1>6, <1>13, <1>15

\* After CLEAR the first four channels are at 0 V and no channel resyncs or
\* ramps down.  The last two PDM outputs are enabled with the values the
\* sequence wrote last.
THEOREM ClearLeaves ==
    ASSUME NEW cell \in Cell, NEW c \in Channels
    PROVE  Decoded(ClearCell(cell), c) =
               [value    |-> IF c \in 0..3 THEN 0 ELSE Decoded(cell, c).value,
                enable   |-> 1, resync |-> 0, rampDown |-> 0]
<1>1. /\ ClearCell(cell).value[c] = IF c \in 0..3 THEN Int16(0) ELSE cell.value[c]
      /\ ClearCell(cell).enable[c] = 1
      /\ c \in FastDACs => ClearCell(cell).rampDown[c] = 0
  BY DEF ClearCell, Channels, Bits, FastDACs
<1>2. Int16(0).data = 0 /\ Int16(0).bit14 = 0
  BY DEF Int16
<1>3. 0 % 2048 = 0
  BY ValueReads
<1>4. c \in FastDACs => c \in 0..3
  BY DEF FastDACs
<1> QED
  BY <1>1, <1>2, <1>3, <1>4 DEF Decoded

\* The getter of the ramp-down bit does not see what its setter wrote.
THEOREM RampDownIsNotReadBack ==
    ASSUME NEW cell \in Cell, NEW c \in FastDACs, NEW b \in Flag
    PROVE  getRampDownDAC(c, setRampDownDAC(b, c, cell)) = getRampDownDAC(c, cell)
<1>1. c \in Channels
  BY DEF FastDACs, Channels
<1>2. setRampDownDAC(b, c, cell).value = cell.value
  BY <1>1, RampDownWritten
<1> QED
  BY <1>2 DEF getRampDownDAC

-----------------------------------------------------------------------------
(* Decimation, filter and lengths.                                         *)

\* The values each variable takes that a command does not choose freely.
TypeInv ==
    /\ register \in Nat /\ fir \in BOOLEAN
    /\ mode \in {"CONFIGURATION", "ACQUISITION"}
    /\ seqState \in {"CONFIG", "PREPARED", "RUNNING"}

IInv == TypeInv /\ RateIsAccepted

\* An accepted decimation is read back, with the filter on or off; one that
\* is refused leaves the register alone.
LEMMA SetIsReadBack ==
    ASSUME NEW d \in Accepted, NEW f \in BOOLEAN, NEW r \in Nat
    PROVE  /\ AfterSetDecimation(d, f, r) \in Nat
           /\ DecimationOf(AfterSetDecimation(d, f, r), f) = d
<1>1. d \in Nat /\ d % 2 = 0
  BY SMTT(30) DEF Accepted, Words
<1>2. d \div 2 \in Nat /\ 2 * (d \div 2) = d
  BY <1>1
<1> QED
  BY <1>1, <1>2 DEF AfterSetDecimation, DecimationOf, Internal

\* setDecimation with any number.
LEMMA SetKeeps ==
    ASSUME IInv, NEW d \in Words
    PROVE  /\ AfterSetDecimation(d, fir, register) \in Nat
           /\ DecimationOf(AfterSetDecimation(d, fir, register), fir) \in Accepted
<1>1. CASE d \in Accepted
  BY <1>1, SetIsReadBack DEF IInv, TypeInv
<1>2. CASE d \notin Accepted
  BY <1>2 DEF AfterSetDecimation, IInv, TypeInv, RateIsAccepted, GetDecimation
<1> QED
  BY <1>1, <1>2

\* The switch of the filter.
LEMMA SwitchKeeps ==
    ASSUME IInv, RP_ADC_SetFIREnabled
    PROVE  TypeInv' /\ GetDecimation' = GetDecimation
<1>1. GetDecimation \in Accepted /\ fir' \in BOOLEAN /\ register \in Nat
      /\ register' = AfterSetDecimation(GetDecimation, fir', register)
      /\ UNCHANGED <<mode, seqState>>
  BY DEF IInv, TypeInv, RateIsAccepted, RP_ADC_SetFIREnabled
<1>2. /\ AfterSetDecimation(GetDecimation, fir', register) \in Nat
      /\ DecimationOf(AfterSetDecimation(GetDecimation, fir', register), fir') = GetDecimation
  BY <1>1, SetIsReadBack
<1>3. DecimationOf(register', fir') = GetDecimation
  BY <1>1, <1>2
<1>4. GetDecimation' = GetDecimation
  BY <1>3 DEF GetDecimation
<1> QED
  BY <1>1, <1>2, <1>4 DEF IInv, TypeInv

\* The decimation after a command that does not set it.
LEMMA OthersKeepRate ==
    ASSUME UNCHANGED <<register, fir>>
    PROVE  GetDecimation' = GetDecimation
  BY DEF GetDecimation, DecimationOf

\* The decimation init() leaves.
LEMMA InitInv == Init => IInv
<1> SUFFICES ASSUME Init PROVE IInv
  OBVIOUS
<1>1. 16 \in Accepted
  BY DEF Accepted, Words
<1>2. DecimationOf(AfterSetDecimation(16, TRUE, 0), TRUE) = 16
      /\ AfterSetDecimation(16, TRUE, 0) \in Nat
  BY <1>1, SetIsReadBack
<1>3. AfterSetDecimation(16, TRUE, 0) = Internal(16, TRUE)
  BY <1>1 DEF AfterSetDecimation
<1> QED
  BY <1>1, <1>2, <1>3 DEF Init, IInv, TypeInv, RateIsAccepted, GetDecimation

\* Every step keeps the invariant.
LEMMA NextKeeps ==
    ASSUME IInv, [Next]_vars
    PROVE  IInv'
<1>1. CASE RP_ADC_SetDecimation
  <2>1. PICK d \in Words : register' = AfterSetDecimation(d, fir, register)
    BY <1>1 DEF RP_ADC_SetDecimation
  <2>2. register' \in Nat /\ DecimationOf(register', fir) \in Accepted
    BY <2>1, SetKeeps
  <2> QED
    BY <1>1, <2>2 DEF RP_ADC_SetDecimation, IInv, TypeInv, RateIsAccepted, GetDecimation
<1>2. CASE RP_ADC_SetFIREnabled
  BY <1>2, SwitchKeeps DEF IInv, RateIsAccepted
<1>3. CASE \/ RP_DAC_SetSamplesPerStep \/ RP_Counter_SetSamplesPerStep \/ RP_SetServerMode
           \/ RP_DAC_SetSequence \/ ControlThread \/ UNCHANGED vars
  <2>1. UNCHANGED <<register, fir>>
    BY <1>3 DEF RP_DAC_SetSamplesPerStep, RP_Counter_SetSamplesPerStep, RP_SetServerMode,
                RP_DAC_SetSequence, ControlThread, vars
  <2>2. TypeInv'
    BY <1>3, <2>1 DEF IInv, TypeInv, RP_DAC_SetSamplesPerStep, RP_Counter_SetSamplesPerStep,
                RP_SetServerMode, RP_DAC_SetSequence, ControlThread, vars
  <2> QED
    BY <2>1, <2>2, OthersKeepRate DEF IInv, RateIsAccepted
<1> QED
  BY <1>1, <1>2, <1>3 DEF Next

\* The decimation is an accepted one, whatever commands come in whichever order.
THEOREM RateStaysAccepted == Spec => []IInv
<1>1. IInv /\ [Next]_vars => IInv'
  BY NextKeeps
<1> QED
  BY InitInv, <1>1, PTL DEF Spec

\* getSamplesPerStep does not divide by zero, and the switch of the filter is
\* never left half done.
THEOREM RateAccepted == Spec => []RateIsAccepted
<1>1. IInv => RateIsAccepted
  BY DEF IInv
<1> QED
  BY RateStaysAccepted, <1>1, PTL

\* The filter can be switched at any time without a change of the decimation.
THEOREM SwitchKeepsTheRate == Spec => SwitchKeepsRate
<1>1. ASSUME IInv, [Next]_vars, fir' # fir
      PROVE  GetDecimation' = GetDecimation
  <2>1. RP_ADC_SetFIREnabled
    BY <1>1 DEF Next, RP_ADC_SetDecimation, RP_DAC_SetSamplesPerStep,
          RP_Counter_SetSamplesPerStep, RP_SetServerMode, RP_DAC_SetSequence, ControlThread, vars
  <2> QED
    BY <1>1, <2>1, SwitchKeeps
<1>2. IInv /\ [Next]_vars => [fir' # fir => GetDecimation' = GetDecimation]_vars
  BY <1>1
<1> QED
  BY RateStaysAccepted, <1>2, PTL DEF Spec, SwitchKeepsRate

\* The length of a step agrees with numSamplesPerStep until the client changes
\* the decimation, or asks for a product an int does not hold.
THEOREM StepsAgreeUntil == Spec => OnlyRateBreaksSteps
<1>1. ASSUME IInv, [Next]_vars, StepsAgree, ~StepsAgree'
      PROVE  /\ mode = "CONFIGURATION"
             /\ \/ GetDecimation' # GetDecimation
                \/ ~IsInt32(numSamplesPerStep' * GetDecimation')
  <2>1. CASE RP_ADC_SetDecimation
    <3>1. mode = "CONFIGURATION" /\ UNCHANGED <<stepTicks, numSamplesPerStep>>
      BY <2>1 DEF RP_ADC_SetDecimation
    <3>2. GetDecimation' # GetDecimation
      BY <1>1, <3>1 DEF StepsAgree
    <3> QED
      BY <3>1, <3>2
  <2>2. CASE RP_ADC_SetFIREnabled
    BY <1>1, <2>2, SwitchKeeps DEF RP_ADC_SetFIREnabled, StepsAgree
  <2>3. CASE RP_DAC_SetSamplesPerStep
    <3>1. /\ mode = "CONFIGURATION" /\ UNCHANGED <<register, fir>>
          /\ stepTicks' = Int32(numSamplesPerStep' * GetDecimation)
      BY <2>3 DEF RP_DAC_SetSamplesPerStep, IsSequenceConfigurable
    <3>2. GetDecimation' = GetDecimation
      BY <3>1, OthersKeepRate
    <3>3. ~IsInt32(numSamplesPerStep' * GetDecimation')
      BY <1>1, <3>1, <3>2 DEF StepsAgree, Int32
    <3> QED
      BY <3>1, <3>3
  <2>4. CASE \/ RP_Counter_SetSamplesPerStep \/ RP_SetServerMode \/ RP_DAC_SetSequence
             \/ ControlThread \/ UNCHANGED vars
    <3>1. UNCHANGED <<register, fir, stepTicks, numSamplesPerStep>>
      BY <2>4 DEF RP_Counter_SetSamplesPerStep, RP_SetServerMode, RP_DAC_SetSequence,
                  ControlThread, vars
    <3> QED
      BY <1>1, <3>1, OthersKeepRate DEF StepsAgree
  <2> QED
    BY <1>1, <2>1, <2>2, <2>3, <2>4 DEF Next
<1>2. IInv /\ [Next]_vars =>
        [(StepsAgree /\ ~StepsAgree') =>
          /\ mode = "CONFIGURATION"
          /\ \/ GetDecimation' # GetDecimation
             \/ ~IsInt32(numSamplesPerStep' * GetDecimation')]_vars
  BY <1>1
<1> QED
  BY RateStaysAccepted, <1>2, PTL DEF Spec, OnlyRateBreaksSteps
=============================================================================
