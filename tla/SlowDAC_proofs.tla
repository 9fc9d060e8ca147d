--------------------------- MODULE SlowDAC_proofs ---------------------------
(***************************************************************************)
(* Proofs about SlowDAC, for every size of the ring, every lookahead that  *)
(* fits into it, every set of shapes of sequences and every speed of the   *)
(* FPGA, with a careful client.                                            *)
(*                                                                         *)
(* The argument: a fill writes a window of at most a turn of the ring,     *)
(* which begins at the pointer the control thread read, or at 0 in a SET;  *)
(* it goes on where the window before it ends, so that no step of it is    *)
(* overwritten (Window).  This needs that the two threads do not fill at   *)
(* the same time (Exclusion), that the window moves only forward in a run  *)
(* (Pointer), and that currentSetSlowDACStepTotal says how far a fill came *)
(* (Filling).                                                              *)
(***************************************************************************)
EXTENDS SlowDAC, SequenceTheorems, TLAPS

\* who may run when: the control thread works on the LUT only in a run, a SET
\* only in CONFIGURATION, and the client lets a run come to rest in between
Exclusion ==
    /\ mode = "CONFIGURATION" =>
           ~trigger /\ seqState # "RUNNING" /\ pc \in {"check", "idle"}
    /\ fill["comm"].on => mode = "CONFIGURATION"
    /\ fill["control"].on <=> pc = "fill"
    /\ pc = "start" => seqState \in {"PREPARED", "RUNNING"}
    /\ pc \in {"read", "handle", "fill"} => seqState = "RUNNING"
    /\ pc = "rest" => seqState # "PREPARED"

\* the control thread is behind the FPGA's pointer, in the same run
Pointer ==
    /\ ~trigger => ptr = 0
    /\ cur <= MaxStep
    /\ pc \in {"handle", "fill"} => cur > old
    /\ trigger /\ seqState = "RUNNING" /\ (rewritten \/ pc \in {"handle", "fill", "rest"})
           => cur <= ptr

\* a sequence that was readied is told from NoSeq by its id, and one that can
\* be started has its value LUT
Active ==
    /\ configSeq = NoSeq \/ configSeq.id # 0
    /\ activeSeq = NoSeq \/ activeSeq.id # 0
    /\ fill["comm"].on => activeSeq.lut
    /\ seqState = "PREPARED" => activeSeq # NoSeq
    /\ trigger /\ seqState = "PREPARED" => activeSeq.lut

\* the end the control thread compares with is not before the end of the sequence
EndIsAhead == lastStep = IntMax \/ lastStep >= TotalSteps(activeSeq)

\* where a fill began to write
Begun(t) == Larger(0, setTotal - fill[t].base)

\* how far a fill is: nothing is written yet, or everything from where it began
\* up to nextSetStep
Filling ==
    /\ setTotal \in {0, 1} \/ setTotal >= Lookahead
    /\ \A t \in Threads : fill[t].on =>
           \/ fill[t].y = Begun(t) /\ fill[t].next = 0
           \/ /\ Begun(t) < fill[t].y /\ fill[t].y <= Lookahead
              /\ fill[t].next = fill[t].base + fill[t].y - 1
    /\ fill["comm"].on => fill["comm"].base = 0
    /\ fill["control"].on => fill["control"].base = cur

\* the cells of the ring hold the steps from..to of the play list
Held(cells, seq, from, to) ==
    \A step \in from..to : cells[step % BuffSize] = ExpectedAt(seq, step)

Written(from, to) == Held(lut, activeSeq, from, to)

\* a fresh client's SET writes from step 0 on, another one's at least from step 1:
\* currentSetSlowDACStepTotal is then 1 or more than the lookahead
First == IF fresh THEN 0 ELSE 1

\* what the LUT holds: after SET, in a run before and after its first fill, and
\* while a fill runs
Window ==
    /\ fill["comm"].on => Written(setTotal, fill["comm"].y - 1)
    /\ seqState = "PREPARED" /\ ~fill["comm"].on /\ activeSeq.lut
           => Written(First, setTotal - 1)
    /\ trigger /\ seqState = "RUNNING" /\ ~rewritten /\ pc # "fill"
           => Written(First, setTotal - 1)
    /\ trigger /\ seqState = "RUNNING" /\ rewritten /\ pc # "fill"
           => Written(cur, setTotal - 1)
    /\ trigger /\ pc = "fill" => Written(cur, cur + fill["control"].y - 1)

\* a fresh client's run is set exactly a lookahead ahead of the last pointer the
\* control thread handled
Ahead ==
    /\ fresh /\ fill["comm"].on => setTotal = 0
    /\ fresh /\ seqState = "PREPARED" /\ ~fill["comm"].on => setTotal = Lookahead
    /\ trigger /\ fromZero /\ seqState = "PREPARED" => old = 0
    /\ fresh /\ pc \in {"handle", "fill"} => trigger
    /\ fresh /\ trigger /\ fromZero /\ seqState = "RUNNING" =>
           /\ old <= ptr
           /\ setTotal = (IF pc = "rest" THEN cur ELSE old) + Lookahead

\* the inductive invariant
IInv ==
    TypeOK /\ Exclusion /\ Pointer /\ Active /\ EndIsAhead /\ Filling /\ Window /\ Ahead

-----------------------------------------------------------------------------
(* Lemmas about the step arithmetic.                                       *)

\* The number of steps of a series is a natural number.
LEMMA StepsType ==
    ASSUME NEW s \in Series
    PROVE  StepsOf(s) \in Nat
  BY DEF Series, StepsOf

\* The parts of a sequence are series, and one without steps was not uploaded.
LEMMA SeriesParts ==
    ASSUME NEW seq \in Sequence
    PROVE  /\ seq.up \in Series /\ seq.reg \in Series /\ seq.down \in Series
           /\ seq.up.steps = 0 => seq.up = NoSeries
           /\ seq.reg.steps = 0 => seq.reg = NoSeries
           /\ seq.down.steps = 0 => seq.down = NoSeries
           /\ seq.id \in 0..2
  BY ShapesAreSeries DEF Sequence, Series, NoSeries

\* A part that was not uploaded has no steps.
LEMMA NoSteps == StepsOf(NoSeries) = 0
  BY DEF StepsOf, NoSeries

\* So are the numbers of steps of a sequence and of its parts.
LEMMA TotalType ==
    ASSUME NEW seq \in Sequence
    PROVE  /\ StepsOf(seq.up) \in Nat /\ StepsOf(seq.reg) \in Nat
           /\ StepsOf(seq.down) \in Nat /\ TotalSteps(seq) \in Nat
  BY SeriesParts, StepsType DEF TotalSteps

\* computeInterval: a step is in an interval, it is behind the end exactly when
\* every step is before it, and otherwise the series it selects has entries, so
\* that the modulo of setLUTValuesFor divides by no zero.
LEMMA EntryInterval ==
    ASSUME NEW seq \in Sequence, NEW step \in Nat
    PROVE  /\ ComputeInterval(seq, step) \in Intervals
           /\ ComputeInterval(seq, step) = "DONE" <=> step >= TotalSteps(seq)
           /\ step - GetBaseStep(seq, ComputeInterval(seq, step)) \in Nat
           /\ ComputeInterval(seq, step) # "DONE" =>
                 SeriesOf(seq, ComputeInterval(seq, step)).steps \in Nat \ {0}
<1> DEFINE up == StepsOf(seq.up)
           reg == StepsOf(seq.reg)
           down == StepsOf(seq.down)
<1>1. up \in Nat /\ reg \in Nat /\ down \in Nat
  BY TotalType
<1>2. /\ up # 0 => seq.up.steps \in Nat \ {0}
      /\ reg # 0 => seq.reg.steps \in Nat \ {0}
      /\ down # 0 => seq.down.steps \in Nat \ {0}
  BY SeriesParts, NoSteps DEF Series
<1> HIDE DEF up, reg, down
<1>3. TotalSteps(seq) = up + reg + down
  BY DEF TotalSteps, up, reg, down
<1>4. CASE step < up
  <2>1. ComputeInterval(seq, step) = "RAMPUP"
    BY <1>1, <1>3, <1>4 DEF ComputeInterval, up, reg
  <2> QED
    BY <1>1, <1>2, <1>3, <1>4, <2>1 DEF Intervals, GetBaseStep, SeriesOf
<1>5. CASE step >= up /\ step < up + reg
  <2>1. ComputeInterval(seq, step) = "REGULAR"
    BY <1>1, <1>3, <1>5 DEF ComputeInterval, up, reg
  <2> QED
    BY <1>1, <1>2, <1>3, <1>5, <2>1 DEF Intervals, GetBaseStep, SeriesOf, up
<1>6. CASE step >= up + reg /\ step < up + reg + down
  <2>1. ComputeInterval(seq, step) = "RAMPDOWN"
    BY <1>1, <1>3, <1>6 DEF ComputeInterval, up, reg
  <2> QED
    BY <1>1, <1>2, <1>3, <1>6, <2>1 DEF Intervals, GetBaseStep, SeriesOf, up, reg
<1>7. CASE step >= up + reg + down
  <2>1. ComputeInterval(seq, step) = "DONE"
    BY <1>1, <1>3, <1>7 DEF ComputeInterval, up, reg
  <2> QED
    BY <1>1, <1>2, <1>3, <1>7, <2>1 DEF Intervals, GetBaseStep, SeriesOf
<1> QED
  BY <1>1, <1>4, <1>5, <1>6, <1>7

\* What setLUTValuesFor writes is a cell.
LEMMA EntryType ==
    ASSUME NEW seq \in Sequence, NEW step \in Nat
    PROVE  EntryFor(seq, step) \in Cell
<1> DEFINE interval == ComputeInterval(seq, step)
           local == step - GetBaseStep(seq, interval)
           steps == SeriesOf(seq, interval).steps
<1>1. seq.id \in 0..2
  BY SeriesParts
<1>2. CASE interval = "DONE"
  <2>1. EntryFor(seq, step) = [Zero EXCEPT !.part = "DONE"]
    BY <1>2 DEF EntryFor
  <2>2. EntryFor(seq, step) = [id |-> 0, part |-> "DONE", at |-> 0, rampDown |-> FALSE]
    BY <2>1 DEF Zero
  <2> QED
    BY <2>2 DEF Cell, Intervals
<1>3. CASE interval # "DONE"
  <2>1. interval \in Intervals /\ local \in Nat /\ steps \in Nat \ {0}
    BY <1>3, EntryInterval
  <2>2. local % steps \in Nat
    <3> HIDE DEF local, steps
    <3> QED
      BY <2>1
  <2>3. EntryFor(seq, step) = [id |-> seq.id, part |-> interval, at |-> local % steps,
                               rampDown |-> interval = "RAMPDOWN"]
    BY <1>3 DEF EntryFor
  <2> HIDE DEF interval, local, steps
  <2> QED
    BY <1>1, <2>1, <2>2, <2>3 DEF Cell
<1> QED
  BY <1>2, <1>3

\* Two steps less than a turn of the ring apart have different cells.
LEMMA OneTurnApart ==
    ASSUME NEW i \in Nat, NEW j \in Nat, i < j, j < i + BuffSize
    PROVE  i % BuffSize # j % BuffSize
<1> DEFINE p == i \div BuffSize
           q == j \div BuffSize
<1> SUFFICES ASSUME i % BuffSize = j % BuffSize
             PROVE  FALSE
  OBVIOUS
<1>0. BuffSize \in Nat \ {0}
  BY LookaheadFits
<1>1. /\ i = BuffSize * p + (i % BuffSize) /\ j = BuffSize * q + (j % BuffSize)
      /\ p \in Int /\ q \in Int /\ i % BuffSize \in Int
  BY <1>0
<1> HIDE DEF p, q
<1>2. PICK d \in Int : d = q - p
  BY <1>1
<1>3. BuffSize * d = BuffSize * q - BuffSize * p
  BY <1>0, <1>1, <1>2
<1>4. BuffSize * d = j - i
  BY <1>0, <1>1, <1>3
<1>5. d >= 1 => BuffSize * d >= BuffSize
  BY <1>0
<1>6. d <= 0 => BuffSize * d <= 0
  BY <1>0
<1> QED
  BY <1>0, <1>4, <1>5, <1>6

\* A part of the play list: its length and its entries.
LEMMA RepeatIs ==
    ASSUME NEW seq \in Sequence, NEW series \in Series, NEW part \in Intervals,
           series.steps = 0 => series = NoSeries
    PROVE  /\ Repeat(series, seq, part) \in Seq(Cell)
           /\ Len(Repeat(series, seq, part)) = StepsOf(series)
           /\ \A k \in 1..StepsOf(series) : Repeat(series, seq, part)[k] =
                 [id |-> seq.id, part |-> part, at |-> (k - 1) % series.steps,
                  rampDown |-> part = "RAMPDOWN"]
<1> DEFINE n == StepsOf(series)
           steps == series.steps
           cell(k) == [id |-> seq.id, part |-> part, at |-> (k - 1) % steps,
                       rampDown |-> part = "RAMPDOWN"]
           list == [k \in 1..n |-> cell(k)]
<1>1. n \in Nat /\ steps \in Nat /\ (n # 0 => steps # 0)
  BY StepsType, NoSteps DEF Series
<1>2. seq.id \in 0..2
  BY SeriesParts
<1>3. list = Repeat(series, seq, part)
  BY DEF Repeat, StepsOf
<1> HIDE DEF n, steps
<1>4. ASSUME NEW k \in 1..n
      PROVE  cell(k) \in Cell
  <2>1. k - 1 \in Nat /\ steps \in Nat \ {0}
    BY <1>1
  <2>2. (k - 1) % steps \in Nat
    BY <2>1
  <2> QED
    BY <1>2, <2>2 DEF Cell
<1> HIDE DEF cell
<1>5. list \in [1..n -> Cell]
  BY <1>4
<1>6. list \in Seq(Cell) /\ Len(list) = n
  BY <1>1, <1>5
<1>7. \A k \in 1..n : list[k] = cell(k)
  OBVIOUS
<1> QED
  BY <1>3, <1>6, <1>7 DEF cell, n, steps

\* setLUTValuesFor writes for every step of every sequence, with and without
\* ramps, the entry that the play list of the documentation has at this place:
\* computeInterval, getBaseStep and the modulo agree with playing one part after
\* the other.
THEOREM ExpectedIsEntry ==
    ASSUME NEW seq \in Sequence, NEW step \in Nat
    PROVE  ExpectedAt(seq, step) = EntryFor(seq, step)
<1> DEFINE up == StepsOf(seq.up)
           reg == StepsOf(seq.reg)
           down == StepsOf(seq.down)
           U == Repeat(seq.up, seq, "RAMPUP")
           R == Repeat(seq.reg, seq, "REGULAR")
           D == Repeat(seq.down, seq, "RAMPDOWN")
           cell(series, part, at) == [id |-> seq.id, part |-> part,
               at |-> at % series.steps, rampDown |-> part = "RAMPDOWN"]
<1>1. up \in Nat /\ reg \in Nat /\ down \in Nat /\ TotalSteps(seq) = up + reg + down
  BY TotalType DEF TotalSteps
<1>2. /\ U \in Seq(Cell) /\ Len(U) = up
      /\ \A k \in 1..up : U[k] = cell(seq.up, "RAMPUP", k - 1)
  BY SeriesParts, RepeatIs DEF Intervals
<1>3. /\ R \in Seq(Cell) /\ Len(R) = reg
      /\ \A k \in 1..reg : R[k] = cell(seq.reg, "REGULAR", k - 1)
  BY SeriesParts, RepeatIs DEF Intervals
<1>4. /\ D \in Seq(Cell) /\ Len(D) = down
      /\ \A k \in 1..down : D[k] = cell(seq.down, "RAMPDOWN", k - 1)
  BY SeriesParts, RepeatIs DEF Intervals
<1>5. PlayList(seq) = (U \o R) \o D
  BY DEF PlayList
<1>6. /\ step < up => ComputeInterval(seq, step) = "RAMPUP"
      /\ step >= up /\ step < up + reg => ComputeInterval(seq, step) = "REGULAR"
      /\ step >= up + reg /\ step < up + reg + down => ComputeInterval(seq, step) = "RAMPDOWN"
      /\ step >= up + reg + down => ComputeInterval(seq, step) = "DONE"
  BY <1>1 DEF ComputeInterval
<1>7. /\ step < up => EntryFor(seq, step) = cell(seq.up, "RAMPUP", step - 0)
      /\ step >= up /\ step < up + reg =>
             EntryFor(seq, step) = cell(seq.reg, "REGULAR", step - up)
      /\ step >= up + reg /\ step < up + reg + down =>
             EntryFor(seq, step) = cell(seq.down, "RAMPDOWN", step - (up + reg))
      /\ step >= up + reg + down => EntryFor(seq, step) = [Zero EXCEPT !.part = "DONE"]
  BY <1>1, <1>6 DEF EntryFor, GetBaseStep, SeriesOf
<1> HIDE DEF U, R, D, up, reg, down, cell
<1>8. /\ U \o R \in Seq(Cell) /\ Len(U \o R) = up + reg
      /\ \A k \in 1..(up + reg) : (U \o R)[k] = IF k <= up THEN U[k] ELSE R[k - up]
  BY <1>2, <1>3, ConcatProperties
<1>9. /\ Len((U \o R) \o D) = up + reg + down
      /\ \A k \in 1..(up + reg + down) :
             ((U \o R) \o D)[k] = IF k <= up + reg THEN (U \o R)[k] ELSE D[k - (up + reg)]
  <2> DEFINE UR == U \o R
  <2>1. UR \in Seq(Cell) /\ Len(UR) = up + reg
    BY <1>8
  <2> HIDE DEF UR
  <2>2. /\ Len(UR \o D) = Len(UR) + Len(D)
        /\ \A k \in 1..(Len(UR) + Len(D)) :
               (UR \o D)[k] = IF k <= Len(UR) THEN UR[k] ELSE D[k - Len(UR)]
    BY <1>4, <2>1, ConcatProperties
  <2>3. /\ Len(UR \o D) = up + reg + down
        /\ \A k \in 1..(up + reg + down) :
               (UR \o D)[k] = IF k <= up + reg THEN UR[k] ELSE D[k - (up + reg)]
    BY <1>4, <2>1, <2>2
  <2> QED
    BY <2>3 DEF UR
<1>10. CASE step < up
  <2>1. ((U \o R) \o D)[step + 1] = U[step + 1]
    BY <1>1, <1>8, <1>9, <1>10
  <2>2. (step + 1) - 1 = step - 0 /\ step + 1 \in 1..up
    BY <1>1, <1>10
  <2>3. U[step + 1] = cell(seq.up, "RAMPUP", step - 0)
    BY <1>2, <2>2
  <2> QED
    BY <1>1, <1>5, <1>7, <1>9, <1>10, <2>1, <2>3 DEF ExpectedAt
<1>11. CASE step >= up /\ step < up + reg
  <2>1. ((U \o R) \o D)[step + 1] = R[step + 1 - up]
    BY <1>1, <1>8, <1>9, <1>11
  <2>2. (step + 1 - up) - 1 = step - up /\ step + 1 - up \in 1..reg
    BY <1>1, <1>11
  <2>3. R[step + 1 - up] = cell(seq.reg, "REGULAR", step - up)
    BY <1>3, <2>2
  <2> QED
    BY <1>1, <1>5, <1>7, <1>9, <1>11, <2>1, <2>3 DEF ExpectedAt
<1>12. CASE step >= up + reg /\ step < up + reg + down
  <2>1. ((U \o R) \o D)[step + 1] = D[step + 1 - (up + reg)]
    BY <1>1, <1>9, <1>12
  <2>2. (step + 1 - (up + reg)) - 1 = step - (up + reg) /\ step + 1 - (up + reg) \in 1..down
    BY <1>1, <1>12
  <2>3. D[step + 1 - (up + reg)] = cell(seq.down, "RAMPDOWN", step - (up + reg))
    BY <1>4, <2>2
  <2> QED
    BY <1>1, <1>5, <1>7, <1>9, <1>12, <2>1, <2>3 DEF ExpectedAt
<1>13. CASE step >= up + reg + down
  BY <1>1, <1>5, <1>7, <1>9, <1>13 DEF ExpectedAt
<1> QED
  BY <1>1, <1>10, <1>11, <1>12, <1>13

-----------------------------------------------------------------------------
(* Types.                                                                  *)

\* INT_MAX is a number.
LEMMA IntMaxType == IntMax \in Nat
  BY SMT DEF IntMax

\* The constants of the model have their types.
LEMMA Constants ==
    /\ NoSeq \in Sequence /\ Zero \in Cell
    /\ NoFill \in [on : BOOLEAN, base : Nat, y : Nat, next : Nat]
    /\ BuffSize \in Nat \ {0} /\ Lookahead \in Nat \ {0} /\ Lookahead <= BuffSize
<1>1. NoSeq \in Sequence
  BY DEF NoSeq, Sequence
<1>2. Zero \in Cell
  BY DEF Zero, Cell
<1> QED
  BY <1>1, <1>2, LookaheadFits DEF NoFill

\* The initial state has the types.
LEMMA TypeInit == Init => TypeOK
<1> SUFFICES ASSUME Init PROVE TypeOK
  OBVIOUS
<1>1. /\ configSeq \in Sequence /\ activeSeq \in Sequence
      /\ lut \in [Cells -> Cell]
      /\ fill \in [Threads -> [on : BOOLEAN, base : Nat, y : Nat, next : Nat]]
  BY Constants DEF Init
<1>2. lastStep \in Nat /\ prevInterval \in Intervals /\ ptr \in 0..MaxStep /\ seen \in 0..MaxStep
  BY IntMaxType, BoundsAreNat DEF Init, Intervals
<1> QED
  BY <1>1, <1>2 DEF Init, TypeOK

\* readyConfigSequence gives a sequence.
LEMMA ReadyType ==
    ASSUME configSeq \in Sequence
    PROVE  ReadyConfigSequence \in Sequence
<1>1. \A i \in 0..2 : [NoSeq EXCEPT !.id = i] \in Sequence
  BY Constants DEF Sequence
<1> QED
  BY <1>1 DEF ReadyConfigSequence

\* The locals of setLUTValuesFrom have their types, at its start ...
LEMMA StartFillType ==
    ASSUME TypeOK, NEW t \in Threads, NEW base \in Nat, StartFill(t, base)
    PROVE  fill' \in [Threads -> [on : BOOLEAN, base : Nat, y : Nat, next : Nat]]
<1>1. Larger(0, setTotal - base) \in Nat
  BY DEF TypeOK, Larger
<1> QED
  BY <1>1 DEF TypeOK, StartFill

\* ... at its end ...
LEMMA FillEndType ==
    ASSUME TypeOK, NEW t \in Threads, FillEnd(t)
    PROVE  /\ fill' \in [Threads -> [on : BOOLEAN, base : Nat, y : Nat, next : Nat]]
           /\ setTotal' \in Nat
  BY Constants DEF TypeOK, FillEnd

\* ... and every step that is written is a cell.
LEMMA FillStepType ==
    ASSUME TypeOK, NEW t \in Threads, FillStep(t)
    PROVE  TypeOK'
<1> DEFINE step == fill[t].base + fill[t].y
           interval == ComputeInterval(activeSeq, step)
<1>1. /\ fill[t].base \in Nat /\ fill[t].y \in Nat /\ fill[t].next \in Nat
      /\ activeSeq \in Sequence
  BY DEF TypeOK
<1>2. step \in Nat
  BY <1>1
<1>3. interval \in Intervals
  BY <1>1, <1>2, EntryInterval
<1>4. EntryFor(activeSeq, step) \in Cell
  BY <1>1, <1>2, EntryType
<1>5. lut' \in [Cells -> Cell]
  BY <1>4 DEF FillStep, TypeOK
<1>6. fill' \in [Threads -> [on : BOOLEAN, base : Nat, y : Nat, next : Nat]]
  <2>1. Larger(fill[t].next, step) \in Nat /\ fill[t].y + 1 \in Nat
    BY <1>1, <1>2 DEF Larger
  <2> QED
    BY <2>1 DEF FillStep, TypeOK
<1>7. lastStep' \in Nat /\ prevInterval' \in Intervals /\ crashed' \in BOOLEAN
  BY <1>2, <1>3 DEF FillStep, TypeOK
<1> QED
  BY <1>5, <1>6, <1>7 DEF FillStep, TypeOK, clientVars, loopVars, fpgaVars

\* initSlowDAC, stopTx and CLEAR leave cells.
LEMMA CellsBlanked ==
    ASSUME TypeOK
    PROVE  /\ [i \in Cells |-> Zero] \in [Cells -> Cell]
           /\ [i \in Cells |-> IF lut[i].part = "DONE" THEN Zero ELSE lut[i]] \in [Cells -> Cell]
           /\ Blanked \in [Cells -> Cell]
<1>1. \A i \in Cells : [Zero EXCEPT !.rampDown = lut[i].rampDown] \in Cell
  BY Constants DEF TypeOK, Cell
<1> QED
  BY <1>1, Constants DEF TypeOK, Blanked

\* Every step keeps the types.
LEMMA TypeStep ==
    ASSUME TypeOK, CarefulNext
    PROVE  TypeOK'
<1> USE DEF clientVars, loopVars, fpgaVars
<1>1. CASE RP_SetServerMode
  BY <1>1 DEF RP_SetServerMode, TypeOK
<1>2. ReadyConfigSequence \in Sequence
  BY ReadyType DEF TypeOK
<1>3. ASSUME NEW s \in RegShapes, RP_DAC_SetValueLUT(s)
      PROVE  TypeOK'
  <2>1. configSeq' \in Sequence
    BY <1>2, <1>3 DEF RP_DAC_SetValueLUT, Sequence
  <2> QED
    BY <1>3, <2>1 DEF RP_DAC_SetValueLUT, UploadUnchanged, TypeOK
<1>4. ASSUME NEW s \in RampShapes, RP_DAC_SetUpLUT(s)
      PROVE  TypeOK'
  <2>1. configSeq' \in Sequence
    BY <1>2, <1>4 DEF RP_DAC_SetUpLUT, Sequence
  <2> QED
    BY <1>4, <2>1 DEF RP_DAC_SetUpLUT, UploadUnchanged, TypeOK
<1>5. ASSUME NEW s \in RampShapes, RP_DAC_SetDownLUT(s)
      PROVE  TypeOK'
  <2>1. configSeq' \in Sequence
    BY <1>2, <1>5 DEF RP_DAC_SetDownLUT, Sequence
  <2> QED
    BY <1>5, <2>1 DEF RP_DAC_SetDownLUT, UploadUnchanged, TypeOK
<1>6. CASE RP_DAC_Reconfigure \/ RP_DAC_RefusedUpload
  BY <1>2, <1>6 DEF RP_DAC_Reconfigure, RP_DAC_RefusedUpload, UploadUnchanged, TypeOK
<1>7. CASE RP_DAC_SetSequence
  <2>1. configSeq' \in Sequence /\ activeSeq' \in Sequence
    BY <1>7, Constants DEF RP_DAC_SetSequence, TypeOK
  <2>2. CASE activeSeq' = NoSeq
    BY <1>7, <2>1, <2>2 DEF RP_DAC_SetSequence, TypeOK
  <2>3. CASE activeSeq' # NoSeq
    <3>1. BeginPrepare
      BY <1>7, <2>3 DEF RP_DAC_SetSequence
    <3>2. fill' \in [Threads -> [on : BOOLEAN, base : Nat, y : Nat, next : Nat]]
      BY <3>1, StartFillType DEF BeginPrepare, Threads
    <3>3. lut' \in [Cells -> Cell]
      BY <3>1, CellsBlanked DEF BeginPrepare
    <3>4. lastStep' \in Nat /\ lostSteps' \in BOOLEAN
      BY <3>1, IntMaxType DEF BeginPrepare
    <3> QED
      BY <1>7, <2>1, <3>2, <3>3, <3>4 DEF RP_DAC_SetSequence, TypeOK
  <2> QED
    BY <2>2, <2>3
<1>8. CASE RP_DAC_ClearSequence
  <2>1. activeSeq' \in Sequence
    BY <1>8, Constants DEF RP_DAC_ClearSequence, TypeOK, Sequence
  <2>2. lut' \in [Cells -> Cell]
    BY <1>8, CellsBlanked DEF RP_DAC_ClearSequence
  <2> QED
    BY <1>8, <2>1, <2>2 DEF RP_DAC_ClearSequence, TypeOK
<1>9. ASSUME NEW on \in BOOLEAN, RP_SetMasterTrigger(on)
      PROVE  TypeOK'
  BY <1>9, BoundsAreNat DEF RP_SetMasterTrigger, TypeOK
<1>10. CASE Reconnect
  <2>1. lut' = Blanked /\ seqState' = "CONFIG" /\ setTotal' = 0
    BY <1>10 DEF Reconnect, CleanUpSlowDAC
  <2> QED
    BY <1>10, <2>1, CellsBlanked DEF Reconnect, TypeOK
<1>16. CASE CtlFinish
  <2>1. lut' = Blanked /\ seqState' = "CONFIG" /\ lostSteps' \in BOOLEAN
    BY <1>16 DEF CtlFinish, CleanUpSlowDAC, CheckLostSteps, TypeOK
  <2> QED
    BY <1>16, <2>1, CellsBlanked DEF CtlFinish, TypeOK
<1>17. CASE CtlIdle
  <2>1. lut' \in [Cells -> Cell] /\ seqState' \in {seqState, "CONFIG"}
    BY <1>17, CellsBlanked DEF CtlIdle, CleanUpSlowDAC, TypeOK
  <2> QED
    BY <1>17, <2>1 DEF CtlIdle, TypeOK
<1>11. CASE FillStep("comm") \/ FillStep("control")
  BY <1>11, FillStepType DEF Threads
<1>12. CASE PrepareEnd \/ CtlFillEnd
  <2>1. /\ fill' \in [Threads -> [on : BOOLEAN, base : Nat, y : Nat, next : Nat]]
        /\ setTotal' \in Nat
    BY <1>12, FillEndType DEF PrepareEnd, CtlFillEnd, Threads
  <2> QED
    BY <1>12, <2>1 DEF PrepareEnd, CtlFillEnd, TypeOK
<1>13. CASE CtlCheck \/ CtlStart \/ CtlRead \/ CtlRest
  <2>1. CASE CtlCheck
    BY <2>1 DEF CtlCheck, TypeOK
  <2>2. CASE CtlStart
    BY <2>2 DEF CtlStart, TypeOK
  <2>3. CASE CtlRead
    BY <2>3, BoundsAreNat DEF CtlRead, TypeOK
  <2>4. CASE CtlRest
    BY <2>4 DEF CtlRest, TypeOK
  <2> QED
    BY <1>13, <2>1, <2>2, <2>3, <2>4
<1>14. CASE CtlFill
  <2>1. fill' \in [Threads -> [on : BOOLEAN, base : Nat, y : Nat, next : Nat]]
    BY <1>14, StartFillType DEF CtlFill, Threads, TypeOK
  <2> QED
    BY <1>14, <2>1 DEF CtlFill, CheckLostSteps, TypeOK
<1>15. CASE PointerStep
  BY <1>15, BoundsAreNat DEF PointerStep, TypeOK
<1> QED
  BY <1>1, <1>3, <1>4, <1>5, <1>6, <1>7, <1>8, <1>9, <1>10, <1>11, <1>12, <1>13, <1>14,
     <1>15, <1>16, <1>17 DEF CarefulNext, Next, Client, ControlThread

-----------------------------------------------------------------------------
(* The threads, the pointer, the active sequence and its end.              *)

\* what the handlers that build configSequence have in common: they leave what is
\* played alone, but unprepare it
Upload ==
    /\ CommIdle /\ UploadUnchanged
    /\ configSeq' = configSeq \/ configSeq'.id # 0
    /\ \/ UNCHANGED seqState
       \/ mode = "CONFIGURATION" /\ seqState # "RUNNING" /\ seqState' = "CONFIG"

\* A readied sequence has an id.
LEMMA ReadyId ==
    ASSUME configSeq \in Sequence, configSeq = NoSeq \/ configSeq.id # 0
    PROVE  ReadyConfigSequence.id # 0
  BY DEF ReadyConfigSequence, NoSeq, Sequence

\* The handlers of uploads are uploads.
LEMMA Uploads ==
    ASSUME TypeOK, Active,
           \/ \E s \in RegShapes : RP_DAC_SetValueLUT(s)
           \/ \E s \in RampShapes : RP_DAC_SetUpLUT(s)
           \/ \E s \in RampShapes : RP_DAC_SetDownLUT(s)
           \/ RP_DAC_Reconfigure
           \/ RP_DAC_RefusedUpload
    PROVE  Upload
<1>1. ReadyConfigSequence.id # 0 /\ ReadyConfigSequence \in Sequence
  BY ReadyId, ReadyType DEF TypeOK, Active
<1>2. ASSUME NEW s \in RegShapes, RP_DAC_SetValueLUT(s) PROVE Upload
  <2>1. configSeq'.id # 0
    BY <1>1, <1>2 DEF RP_DAC_SetValueLUT, Sequence
  <2> QED
    BY <1>2, <2>1 DEF RP_DAC_SetValueLUT, IsSequenceConfigurable, Upload
<1>3. ASSUME NEW s \in RampShapes, RP_DAC_SetUpLUT(s) PROVE Upload
  <2>1. configSeq'.id # 0
    BY <1>1, <1>3 DEF RP_DAC_SetUpLUT, Sequence
  <2> QED
    BY <1>3, <2>1 DEF RP_DAC_SetUpLUT, IsSequenceConfigurable, Upload
<1>4. ASSUME NEW s \in RampShapes, RP_DAC_SetDownLUT(s) PROVE Upload
  <2>1. configSeq'.id # 0
    BY <1>1, <1>4 DEF RP_DAC_SetDownLUT, Sequence
  <2> QED
    BY <1>4, <2>1 DEF RP_DAC_SetDownLUT, IsSequenceConfigurable, Upload
<1>5. CASE RP_DAC_Reconfigure
  BY <1>1, <1>5 DEF RP_DAC_Reconfigure, IsSequenceConfigurable, Upload
<1>6. CASE RP_DAC_RefusedUpload
  BY <1>1, <1>6 DEF RP_DAC_RefusedUpload, Upload
<1> QED
  BY <1>2, <1>3, <1>4, <1>5, <1>6

\* The steps the proofs below distinguish.
LEMMA Steps ==
    ASSUME TypeOK, Active, CarefulNext
    PROVE  /\ CarefulClient
           /\ fresh' = (fresh /\ FreshClient)
           /\ \/ Upload
              \/ RP_SetServerMode \/ RP_DAC_SetSequence \/ RP_DAC_ClearSequence
              \/ \E on \in BOOLEAN : RP_SetMasterTrigger(on)
              \/ Reconnect
              \/ FillStep("comm") \/ PrepareEnd
              \/ CtlCheck \/ CtlStart \/ CtlRead \/ CtlFinish \/ CtlFill
              \/ FillStep("control") \/ CtlFillEnd \/ CtlRest \/ CtlIdle
              \/ PointerStep
  BY Uploads DEF CarefulNext, Next, Client, ControlThread

\* Every step keeps the threads apart.
LEMMA ExclusionStep ==
    ASSUME IInv, CarefulNext
    PROVE  Exclusion'
<1> USE DEF clientVars, loopVars, fpgaVars
<1>0. TypeOK /\ Exclusion /\ Active /\ CarefulClient
  BY Steps DEF IInv
<1>1. CASE Upload
  BY <1>0, <1>1 DEF Upload, UploadUnchanged, Exclusion
<1>2. CASE RP_SetServerMode
  BY <1>0, <1>2 DEF RP_SetServerMode, Exclusion, CarefulClient, AtRest, TypeOK, CommIdle
<1>3. CASE RP_DAC_SetSequence
  BY <1>0, <1>3 DEF RP_DAC_SetSequence, IsSequenceConfigurable, BeginPrepare, StartFill, Exclusion, TypeOK, Threads
<1>4. CASE RP_DAC_ClearSequence
  BY <1>0, <1>4 DEF RP_DAC_ClearSequence, Exclusion
<1>5. ASSUME NEW on \in BOOLEAN, RP_SetMasterTrigger(on)
      PROVE  Exclusion'
  BY <1>0, <1>5 DEF RP_SetMasterTrigger, Exclusion
<1>6. CASE Reconnect
  BY <1>0, <1>6 DEF Reconnect, CleanUpSlowDAC, Exclusion
<1>7. ASSUME NEW t \in Threads, FillStep(t) PROVE Exclusion'
  BY <1>0, <1>7 DEF FillStep, Exclusion, TypeOK, Threads
<1>8. CASE PrepareEnd
  BY <1>0, <1>8 DEF PrepareEnd, FillEnd, Exclusion, TypeOK, Threads, NoFill
<1>9. CASE CtlCheck \/ CtlRest
  BY <1>0, <1>9 DEF CtlCheck, CtlRest, Exclusion
<1>10. CASE CtlStart \/ CtlRead
  BY <1>0, <1>10 DEF CtlStart, CtlRead, Exclusion
<1>11. CASE CtlFinish \/ CtlIdle
  BY <1>0, <1>11 DEF CtlFinish, CtlIdle, CleanUpSlowDAC, Exclusion
<1>12. CASE CtlFill
  BY <1>0, <1>12 DEF CtlFill, StartFill, Exclusion, TypeOK, Threads
<1>13. CASE CtlFillEnd
  BY <1>0, <1>13 DEF CtlFillEnd, FillEnd, Exclusion, TypeOK, Threads, NoFill
<1>14. CASE PointerStep
  BY <1>0, <1>14 DEF PointerStep, Exclusion
<1> QED
  BY <1>0, <1>1, <1>2, <1>3, <1>4, <1>5, <1>6, <1>7, <1>8, <1>9, <1>10, <1>11, <1>12,
     <1>13, <1>14, Steps DEF Threads

\* Every step keeps the control thread behind the pointer.
LEMMA PointerStays ==
    ASSUME IInv, CarefulNext
    PROVE  Pointer'
<1> USE DEF clientVars, loopVars, fpgaVars
<1>0. TypeOK /\ Exclusion /\ Pointer /\ Active /\ CarefulClient
  BY Steps DEF IInv
<1>1. CASE Upload
  BY <1>0, <1>1 DEF Upload, UploadUnchanged, Pointer
<1>2. CASE RP_SetServerMode \/ RP_DAC_ClearSequence
  BY <1>0, <1>2 DEF RP_SetServerMode, RP_DAC_ClearSequence, Pointer
<1>3. CASE RP_DAC_SetSequence
  BY <1>0, <1>3 DEF RP_DAC_SetSequence, Pointer
<1>4. ASSUME NEW on \in BOOLEAN, RP_SetMasterTrigger(on)
      PROVE  Pointer'
  <2>1. CASE on
    <3>1. Starts
      BY <1>0, <1>4, <2>1 DEF RP_SetMasterTrigger, Starts, TypeOK
    <3> QED
      BY <1>0, <1>4, <3>1 DEF RP_SetMasterTrigger, CarefulClient, AtRest, Pointer
  <2>2. CASE ~on
    BY <1>0, <1>4, <2>2 DEF RP_SetMasterTrigger, Pointer
  <2> QED
    BY <2>1, <2>2
<1>5. CASE Reconnect
  BY <1>0, <1>5 DEF Reconnect, CleanUpSlowDAC, Pointer
<1>6. ASSUME NEW t \in Threads, FillStep(t) PROVE Pointer'
  BY <1>0, <1>6 DEF FillStep, Pointer
<1>7. CASE PrepareEnd
  BY <1>0, <1>7 DEF PrepareEnd, Exclusion, FillEnd, Pointer
<1>8. CASE CtlCheck \/ CtlRest
  BY <1>0, <1>8 DEF CtlCheck, CtlRest, Pointer
<1>9. CASE CtlStart
  BY <1>0, <1>9 DEF CtlStart, Pointer
<1>10. CASE CtlRead
  BY <1>0, <1>10 DEF CtlRead, Pointer, TypeOK
<1>11. CASE CtlFinish
  BY <1>0, <1>11 DEF CtlFinish, CleanUpSlowDAC, Pointer
<1>12. CASE CtlFill
  BY <1>0, <1>12 DEF CtlFill, Pointer
<1>13. CASE CtlFillEnd
  BY <1>0, <1>13 DEF CtlFillEnd, FillEnd, Exclusion, Pointer
<1>14. CASE CtlIdle
  BY <1>0, <1>14 DEF CtlIdle, CleanUpSlowDAC, Pointer
<1>15. CASE PointerStep
  BY <1>0, <1>15 DEF PointerStep, Pointer, TypeOK
<1> QED
  BY <1>0, <1>1, <1>2, <1>3, <1>4, <1>5, <1>6, <1>7, <1>8, <1>9, <1>10, <1>11, <1>12,
     <1>13, <1>14, <1>15, Steps DEF Threads

\* Every step keeps what can be started complete.
LEMMA ActiveStep ==
    ASSUME IInv, CarefulNext
    PROVE  Active'
<1> USE DEF clientVars, loopVars, fpgaVars
<1>0. TypeOK /\ Exclusion /\ Active /\ CarefulClient
  BY Steps DEF IInv
<1>1. CASE Upload
  BY <1>0, <1>1 DEF Upload, UploadUnchanged, Active
<1>2. CASE RP_SetServerMode
  BY <1>0, <1>2 DEF RP_SetServerMode, Active
<1>3. CASE RP_DAC_SetSequence
  <2>1. CASE activeSeq' = NoSeq
    BY <1>0, <1>3, <2>1 DEF RP_DAC_SetSequence, Active, CommIdle
  <2>2. CASE activeSeq' # NoSeq
    <3>1. CommIdle /\ fill'["comm"].on
      BY <1>0, <1>3, <2>2 DEF RP_DAC_SetSequence, BeginPrepare, StartFill, TypeOK, Threads
    <3>2. activeSeq'.lut
      BY <1>0, <1>3, <2>2, <3>1
         DEF RP_DAC_SetSequence, CarefulClient, BeginsSet, Cleared
    <3> QED
      BY <1>0, <1>3, <2>2, <3>2 DEF RP_DAC_SetSequence, Active
  <2> QED
    BY <2>1, <2>2
<1>4. CASE RP_DAC_ClearSequence
  <2>1. activeSeq # NoSeq => activeSeq'.id = activeSeq.id
    BY <1>0, <1>4 DEF RP_DAC_ClearSequence, TypeOK, Sequence
  <2>2. activeSeq' # NoSeq <=> activeSeq # NoSeq
    BY <1>0, <1>4, <2>1 DEF RP_DAC_ClearSequence, Active, NoSeq
  <2>3. UNCHANGED <<seqState, trigger, fill, configSeq>> /\ ~trigger /\ ~fill["comm"].on
    BY <1>0, <1>4 DEF RP_DAC_ClearSequence, IsSequenceConfigurable, CommIdle, Exclusion
  <2> QED
    BY <1>0, <2>1, <2>2, <2>3 DEF Active
<1>5. ASSUME NEW on \in BOOLEAN, RP_SetMasterTrigger(on)
      PROVE  Active'
  <2>1. CASE on
    <3>1. Starts
      BY <1>0, <1>5, <2>1 DEF RP_SetMasterTrigger, Starts, TypeOK
    <3> QED
      BY <1>0, <1>5, <3>1 DEF RP_SetMasterTrigger, CarefulClient, Cleared, Active
  <2>2. CASE ~on
    BY <1>0, <1>5, <2>2 DEF RP_SetMasterTrigger, Active
  <2> QED
    BY <2>1, <2>2
<1>6. CASE Reconnect
  BY <1>0, <1>6 DEF Reconnect, CleanUpSlowDAC, Active
<1>7. ASSUME NEW t \in Threads, FillStep(t) PROVE Active'
  BY <1>0, <1>7 DEF FillStep, Active, Threads, TypeOK
<1>8. CASE PrepareEnd
  <2>1. fill["comm"].on /\ ~fill'["comm"].on /\ ~trigger'
    BY <1>0, <1>8 DEF PrepareEnd, FillEnd, NoFill, Exclusion, Threads, TypeOK
  <2>2. activeSeq' = activeSeq /\ configSeq' = configSeq /\ activeSeq.lut
    BY <1>0, <1>8, <2>1 DEF PrepareEnd, Active
  <2>3. activeSeq # NoSeq
    BY <2>2 DEF NoSeq
  <2> QED
    BY <1>0, <2>1, <2>2, <2>3 DEF Active
<1>9. CASE CtlCheck \/ CtlRest \/ CtlRead \/ CtlStart
  BY <1>0, <1>9 DEF CtlCheck, CtlRest, CtlRead, CtlStart, Active
<1>10. CASE CtlFinish \/ CtlIdle
  BY <1>0, <1>10 DEF CtlFinish, CtlIdle, CleanUpSlowDAC, Active
<1>11. CASE CtlFill
  BY <1>0, <1>11 DEF CtlFill, StartFill, Active, Threads, TypeOK
<1>12. CASE CtlFillEnd
  BY <1>0, <1>12 DEF CtlFillEnd, FillEnd, NoFill, Active, Threads, TypeOK
<1>13. CASE PointerStep
  BY <1>0, <1>13 DEF PointerStep, Active
<1> QED
  BY <1>0, <1>1, <1>2, <1>3, <1>4, <1>5, <1>6, <1>7, <1>8, <1>9, <1>10, <1>11, <1>12,
     <1>13, Steps DEF Threads

\* No step puts the remembered end before the end of the sequence: SET resets it,
\* CLEAR only shortens the sequence, a fill writes it behind the end.
LEMMA EndStays ==
    ASSUME IInv, CarefulNext
    PROVE  EndIsAhead'
<1> USE DEF clientVars, loopVars, fpgaVars
<1>0. TypeOK /\ Active /\ EndIsAhead /\ TypeOK'
  BY TypeStep DEF IInv
<1>1. CASE UNCHANGED <<activeSeq, lastStep>>
  BY <1>0, <1>1 DEF EndIsAhead
<1>2. CASE RP_DAC_SetSequence
  BY <1>0, <1>1, <1>2 DEF RP_DAC_SetSequence, BeginPrepare, EndIsAhead
<1>3. CASE RP_DAC_ClearSequence
  <2>1. CASE activeSeq = NoSeq
    BY <1>1, <1>3, <2>1 DEF RP_DAC_ClearSequence
  <2>2. CASE activeSeq # NoSeq
    <3>1. activeSeq'.up = NoSeries /\ activeSeq'.down = NoSeries /\ activeSeq'.reg = activeSeq.reg
      BY <1>0, <1>3, <2>2 DEF RP_DAC_ClearSequence, TypeOK, Sequence
    <3>2. TotalSteps(activeSeq') = 0 + StepsOf(activeSeq.reg) + 0
      BY <3>1, NoSteps DEF TotalSteps
    <3>3. /\ StepsOf(activeSeq.up) \in Nat /\ StepsOf(activeSeq.reg) \in Nat
          /\ StepsOf(activeSeq.down) \in Nat
      BY <1>0, TotalType DEF TypeOK
    <3>4. TotalSteps(activeSeq') <= TotalSteps(activeSeq)
      BY <3>2, <3>3 DEF TotalSteps
    <3>5. TotalSteps(activeSeq') \in Nat /\ TotalSteps(activeSeq) \in Nat /\ lastStep \in Nat
      BY <1>0, TotalType DEF TypeOK
    <3>6. lastStep' = lastStep
      BY <1>3 DEF RP_DAC_ClearSequence
    <3>7. lastStep' = IntMax \/ lastStep' >= TotalSteps(activeSeq')
      BY <1>0, <3>4, <3>5, <3>6 DEF EndIsAhead
    <3> QED
      BY <3>7 DEF EndIsAhead, TotalSteps
  <2> QED
    BY <2>1, <2>2
<1>4. ASSUME NEW t \in Threads, FillStep(t) PROVE EndIsAhead'
  <2> DEFINE step == fill[t].base + fill[t].y
             interval == ComputeInterval(activeSeq, step)
  <2>1. step \in Nat /\ activeSeq \in Sequence
    BY <1>0 DEF TypeOK
  <2>2. activeSeq' = activeSeq
    BY <1>4 DEF FillStep
  <2>3. lastStep' = lastStep \/ (lastStep' = step /\ interval = "DONE")
    BY <1>4 DEF FillStep, EndIsReached
  <2>4. interval = "DONE" => step >= TotalSteps(activeSeq)
    BY <2>1, EntryInterval
  <2> QED
    BY <1>0, <2>2, <2>3, <2>4 DEF EndIsAhead
<1>5. CASE Upload \/ RP_SetServerMode \/ \E on \in BOOLEAN : RP_SetMasterTrigger(on)
  BY <1>1, <1>5 DEF Upload, UploadUnchanged, RP_SetServerMode, RP_SetMasterTrigger
<1>6. CASE Reconnect \/ PrepareEnd \/ PointerStep
  BY <1>1, <1>6 DEF Reconnect, PrepareEnd, PointerStep
<1>7. CASE CtlCheck \/ CtlStart \/ CtlRead \/ CtlFinish
  BY <1>1, <1>7 DEF CtlCheck, CtlStart, CtlRead, CtlFinish
<1>8. CASE CtlFill \/ CtlFillEnd \/ CtlRest \/ CtlIdle
  BY <1>1, <1>8 DEF CtlFill, CtlFillEnd, CtlRest, CtlIdle
<1> QED
  BY <1>0, <1>2, <1>3, <1>4, <1>5, <1>6, <1>7, <1>8, Steps DEF Threads

-----------------------------------------------------------------------------
(* The LUT.                                                                *)

\* What a step of a fill changes, if it does not end the process.
LEMMA FillProgress ==
    ASSUME TypeOK, NEW t \in Threads, FillStep(t)
    PROVE  /\ UNCHANGED <<clientVars, loopVars, fpgaVars, seqState, setTotal, rewritten>>
           /\ fill[t].on /\ fill[t].y < Lookahead
           /\ \A u \in Threads : /\ fill'[u].on = fill[u].on /\ fill'[u].base = fill[u].base
                                 /\ u # t => fill'[u] = fill[u]
           /\ \/ UNCHANGED <<lut, fill>>
              \/ /\ fill'[t].y = fill[t].y + 1
                 /\ fill'[t].next = Larger(fill[t].next, fill[t].base + fill[t].y)
                 /\ lut' = [lut EXCEPT ![(fill[t].base + fill[t].y) % BuffSize] =
                                EntryFor(activeSeq, fill[t].base + fill[t].y)]
<1>1. fill \in [Threads -> [on : BOOLEAN, base : Nat, y : Nat, next : Nat]]
  BY DEF TypeOK
<1>2. /\ UNCHANGED <<clientVars, loopVars, fpgaVars, seqState, setTotal, rewritten>>
      /\ fill[t].on /\ fill[t].y < Lookahead
  BY DEF FillStep
<1>3. CASE UNCHANGED <<lut, fill>>
  BY <1>1, <1>2, <1>3
<1>4. CASE /\ fill' = [fill EXCEPT ![t].y = @ + 1,
                                   ![t].next = Larger(@, fill[t].base + fill[t].y)]
           /\ lut' = [lut EXCEPT ![(fill[t].base + fill[t].y) % BuffSize] =
                                EntryFor(activeSeq, fill[t].base + fill[t].y)]
  BY <1>1, <1>2, <1>4
<1> QED
  BY <1>3, <1>4 DEF FillStep

\* Every step keeps the account of a fill.
LEMMA FillingStep ==
    ASSUME IInv, CarefulNext
    PROVE  Filling'
<1> USE DEF clientVars, loopVars, fpgaVars
<1>0. TypeOK /\ Exclusion /\ Pointer /\ Active /\ Filling /\ TypeOK'
  BY TypeStep DEF IInv
<1>1. CASE UNCHANGED <<setTotal, cur, fill>>
  BY <1>0, <1>1 DEF Filling, Begun
<1>2. CASE RP_DAC_SetSequence
  <2>1. CASE activeSeq' = NoSeq
    BY <1>1, <1>2, <2>1 DEF RP_DAC_SetSequence
  <2>2. CASE activeSeq' # NoSeq
    <3>1. fill' = [fill EXCEPT !["comm"] = [on |-> TRUE, base |-> 0,
                       y |-> Larger(0, setTotal - 0), next |-> 0]]
      BY <1>2, <2>2 DEF RP_DAC_SetSequence, BeginPrepare, StartFill
    <3>2. ~fill'["control"].on
      BY <1>0, <1>2, <3>1 DEF RP_DAC_SetSequence, IsSequenceConfigurable, Exclusion, TypeOK, Threads
    <3>3. /\ fill'["comm"].base = 0 /\ fill'["comm"].next = 0
          /\ fill'["comm"].y = Larger(0, setTotal - 0)
      BY <1>0, <3>1 DEF TypeOK, Threads
    <3>4. setTotal' = setTotal /\ cur' = cur
      BY <1>2 DEF RP_DAC_SetSequence
    <3> QED
      BY <1>0, <3>2, <3>3, <3>4 DEF Filling, Begun, Threads
  <2> QED
    BY <2>1, <2>2
<1>3. ASSUME NEW t \in Threads, FillStep(t) PROVE Filling'
  <2>1. setTotal' = setTotal /\ cur' = cur
    BY <1>0, <1>3, FillProgress
  <2>2. \A u \in Threads : (Begun(u))' = Begun(u)
    BY <1>0, <1>3, <2>1, FillProgress DEF Begun
  <2>3. fill[t].base \in Nat /\ fill[t].y \in Nat /\ fill[t].next \in Nat
    BY <1>0 DEF TypeOK
  <2>4. Begun(t) >= 0 /\ Begun(t) \in Nat
    BY <1>0, <2>3 DEF Begun, Larger, TypeOK
  <2>5. CASE UNCHANGED <<lut, fill>>
    BY <1>0, <2>1, <2>2, <2>5 DEF Filling
  <2>6. CASE /\ fill'[t].y = fill[t].y + 1
             /\ fill'[t].next = Larger(fill[t].next, fill[t].base + fill[t].y)
    <3>1. fill[t].on /\ fill[t].y < Lookahead
      BY <1>0, <1>3, FillProgress
    <3>2. /\ Begun(t) < fill[t].y + 1 /\ fill[t].y + 1 <= Lookahead
          /\ fill'[t].next = fill[t].base + (fill[t].y + 1) - 1
      BY <1>0, <2>3, <2>4, <2>6, <3>1, Constants DEF Filling, Larger
    <3> QED
      <4>0. /\ fill \in [Threads -> [on : BOOLEAN, base : Nat, y : Nat, next : Nat]]
            /\ fill' \in [Threads -> [on : BOOLEAN, base : Nat, y : Nat, next : Nat]]
        BY <1>0 DEF TypeOK
      <4>1. \A u \in Threads : /\ fill'[u].on = fill[u].on /\ fill'[u].base = fill[u].base
                               /\ u # t => fill'[u] = fill[u]
        BY <1>0, <1>3, FillProgress
      <4>2. \A u \in Threads : fill'[u].on =>
               \/ fill'[u].y = Begun(u) /\ fill'[u].next = 0
               \/ /\ Begun(u) < fill'[u].y /\ fill'[u].y <= Lookahead
                  /\ fill'[u].next = fill'[u].base + fill'[u].y - 1
        BY <1>0, <2>3, <2>4, <2>6, <3>2, <4>0, <4>1 DEF Filling
      <4>3. /\ fill'["comm"].on => fill'["comm"].base = 0
            /\ fill'["control"].on => fill'["control"].base = cur'
        <5>1. "comm" \in Threads /\ "control" \in Threads
          BY DEF Threads
        <5> QED
          BY <1>0, <2>1, <4>0, <4>1, <5>1 DEF Filling
      <4> HIDE DEF Begun
      <4> QED
        BY <1>0, <2>1, <2>2, <4>2, <4>3 DEF Filling
  <2> QED
    BY <1>0, <1>3, <2>5, <2>6, FillProgress
<1>4. CASE PrepareEnd \/ CtlFillEnd
  <2>1. PICK t \in Threads : FillEnd(t)
    BY <1>4 DEF PrepareEnd, CtlFillEnd, Threads
  <2>2. fill[t].base \in Nat /\ fill[t].y \in Nat /\ fill[t].next \in Nat
    BY <1>0 DEF TypeOK
  <2>3. setTotal' = 1 \/ setTotal' >= Lookahead
    BY <1>0, <2>1, <2>2, Constants DEF FillEnd, Filling
  <2>4. \A u \in Threads : ~fill'[u].on
    BY <1>0, <2>1 DEF FillEnd, NoFill, Exclusion, TypeOK, Threads
  <2> QED
    BY <2>3, <2>4 DEF Filling, Threads
<1>5. CASE CtlFill
  <2>1. fill' = [fill EXCEPT !["control"] = [on |-> TRUE, base |-> cur,
                     y |-> Larger(0, setTotal - cur), next |-> 0]]
    BY <1>5 DEF CtlFill, StartFill
  <2>2. fill'["comm"] = fill["comm"] /\ ~fill["comm"].on
    BY <1>0, <1>5, <2>1 DEF CtlFill, Exclusion, TypeOK, Threads
  <2>3. /\ fill'["control"].base = cur /\ fill'["control"].next = 0
        /\ fill'["control"].y = Larger(0, setTotal - cur)
    BY <1>0, <2>1 DEF TypeOK, Threads
  <2>4. setTotal' = setTotal /\ cur' = cur
    BY <1>5 DEF CtlFill
  <2> QED
    BY <1>0, <2>2, <2>3, <2>4 DEF Filling, Begun, Threads
<1>6. CASE CtlRead
  <2>1. \A u \in Threads : ~fill[u].on
    BY <1>0, <1>6 DEF CtlRead, Exclusion, Threads
  <2>2. fill' = fill /\ setTotal' = setTotal
    BY <1>6 DEF CtlRead
  <2> QED
    BY <1>0, <2>1, <2>2 DEF Filling, Threads
<1>7. CASE CtlFinish \/ Reconnect
  <2>1. \A u \in Threads : ~fill[u].on
    BY <1>0, <1>7 DEF CtlFinish, Reconnect, CommIdle, Exclusion, Threads
  <2>2. fill' = fill /\ setTotal' = 0
    BY <1>7 DEF CtlFinish, Reconnect
  <2> QED
    BY <2>1, <2>2 DEF Filling, Threads
<1>8. CASE \/ Upload \/ RP_SetServerMode \/ RP_DAC_ClearSequence
           \/ \E on \in BOOLEAN : RP_SetMasterTrigger(on)
           \/ PointerStep
  BY <1>1, <1>8 DEF Upload, UploadUnchanged, RP_SetServerMode, RP_DAC_ClearSequence,
                    RP_SetMasterTrigger, PointerStep
<1>9. CASE CtlCheck \/ CtlStart \/ CtlRest \/ CtlIdle
  BY <1>1, <1>9 DEF CtlCheck, CtlStart, CtlRest, CtlIdle
<1> QED
  <2>1. \/ Upload
        \/ RP_SetServerMode \/ RP_DAC_SetSequence \/ RP_DAC_ClearSequence
        \/ \E on \in BOOLEAN : RP_SetMasterTrigger(on)
        \/ Reconnect
        \/ \E t \in Threads : FillStep(t)
        \/ PrepareEnd
        \/ CtlCheck \/ CtlStart \/ CtlRead \/ CtlFinish \/ CtlFill
        \/ CtlFillEnd \/ CtlRest \/ CtlIdle
        \/ PointerStep
    BY <1>0, Steps DEF Threads
  <2> QED
    BY <2>1, <1>2, <1>3, <1>4, <1>5, <1>6, <1>7, <1>8, <1>9

\* A part of what is held is held.
LEMMA HeldPart ==
    ASSUME NEW cells, NEW seq, NEW from \in Nat, NEW to \in Int,
           Held(cells, seq, from, to),
           NEW a \in Nat, NEW b \in Int, from <= a, b <= to
    PROVE  Held(cells, seq, a, b)
  BY DEF Held

\* Writing the next step of a window of at most a turn adds it to what is held
\* and overwrites none of it.
LEMMA HeldGrows ==
    ASSUME NEW cells \in [Cells -> Cell], NEW seq \in Sequence,
           NEW step \in Nat, NEW from \in Nat,
           step < from + BuffSize, Held(cells, seq, from, step - 1)
    PROVE  Held([cells EXCEPT ![step % BuffSize] = EntryFor(seq, step)], seq, from, step)
<1> DEFINE after == [cells EXCEPT ![step % BuffSize] = EntryFor(seq, step)]
<1>1. BuffSize \in Nat \ {0}
  BY Constants
<1>2. SUFFICES ASSUME NEW k \in from..step
               PROVE  after[k % BuffSize] = ExpectedAt(seq, k)
  BY DEF Held
<1>3. k \in Nat /\ k % BuffSize \in Cells /\ step % BuffSize \in Cells
  BY <1>1 DEF Cells
<1>4. CASE k = step
  BY <1>1, <1>3, <1>4, ExpectedIsEntry
<1>5. CASE k # step
  <2>1. k \in from..(step - 1) /\ k < step /\ step < k + BuffSize
    BY <1>1, <1>3, <1>5
  <2>2. k % BuffSize # step % BuffSize
    BY <1>3, <2>1, OneTurnApart
  <2>3. cells[k % BuffSize] = ExpectedAt(seq, k)
    BY <2>1 DEF Held
  <2> QED
    BY <1>1, <1>3, <2>2, <2>3
<1> QED
  BY <1>4, <1>5

\* Every step keeps what the LUT holds.
LEMMA WindowStep ==
    ASSUME IInv, CarefulNext
    PROVE  Window'
<1> USE DEF clientVars, loopVars, fpgaVars
<1>0. /\ TypeOK /\ Exclusion /\ Pointer /\ Active /\ Filling /\ Window /\ Exclusion'
      /\ CarefulClient /\ (fresh' => fresh)
  BY Steps, ExclusionStep DEF IInv
<1>1. /\ setTotal \in Nat /\ setTotal - 1 \in Int /\ First \in Nat /\ First' \in Nat
      /\ First <= First' /\ cur \in Nat /\ First <= 1
      /\ fill \in [Threads -> [on : BOOLEAN, base : Nat, y : Nat, next : Nat]]
  BY <1>0 DEF TypeOK, First
<1> DEFINE y == fill["comm"].y
           z == fill["control"].y
<1>2. y \in Nat /\ z \in Nat /\ "comm" \in Threads /\ "control" \in Threads
  BY <1>1 DEF Threads
<1>16. Held(lut, activeSeq, First, setTotal - 1) => Held(lut, activeSeq, First', setTotal - 1)
  BY <1>1, HeldPart
<1>3. ASSUME UNCHANGED <<lut, activeSeq, setTotal, fill, cur, rewritten>>,
             trigger' => trigger,
             UNCHANGED seqState \/ seqState' = "CONFIG",
             pc' = "fill" <=> pc = "fill"
      PROVE  Window'
  BY <1>0, <1>3, <1>16 DEF Window, Written
<1>4. CASE \/ Upload \/ RP_SetServerMode \/ CtlCheck \/ CtlRest \/ PointerStep
  BY <1>0, <1>3, <1>4 DEF Upload, UploadUnchanged, RP_SetServerMode, CtlCheck, CtlRest,
                          PointerStep, Exclusion
<1>5. ASSUME NEW on \in BOOLEAN, RP_SetMasterTrigger(on)
      PROVE  Window'
  <2>1. CASE on
    <3>1. Starts
      BY <1>0, <1>5, <2>1 DEF RP_SetMasterTrigger, Starts, TypeOK
    <3>2. seqState # "RUNNING" /\ pc # "fill"
      BY <1>0, <3>1 DEF CarefulClient, AtRest
    <3> QED
      BY <1>0, <1>5, <1>16, <3>2 DEF RP_SetMasterTrigger, Window, Written
  <2>2. CASE ~on
    BY <1>3, <1>5, <2>2 DEF RP_SetMasterTrigger
  <2> QED
    BY <2>1, <2>2
<1>6. CASE RP_DAC_SetSequence
  <2>1. CASE activeSeq' = NoSeq
    BY <1>0, <1>3, <1>6, <2>1 DEF RP_DAC_SetSequence, Exclusion
  <2>2. CASE activeSeq' # NoSeq
    <3>1. /\ fill'["comm"].on /\ fill'["comm"].y = Larger(0, setTotal - 0)
          /\ fill'["control"] = fill["control"]
      BY <1>1, <1>6, <2>2 DEF RP_DAC_SetSequence, BeginPrepare, StartFill, Threads
    <3>2. ~trigger' /\ setTotal' = setTotal
      BY <1>0, <1>6 DEF RP_DAC_SetSequence, IsSequenceConfigurable, Exclusion
    <3>3. Held(lut', activeSeq', setTotal', fill'["comm"].y - 1)
      BY <1>1, <3>1, <3>2 DEF Held, Larger
    <3> QED
      BY <3>1, <3>2, <3>3 DEF Window, Written
  <2> QED
    BY <2>1, <2>2
<1>7. CASE RP_DAC_ClearSequence
  <2>1. ~trigger' /\ ~fill'["comm"].on
    BY <1>0, <1>7 DEF RP_DAC_ClearSequence, CommIdle, IsSequenceConfigurable, Exclusion
  <2>2. ~activeSeq'.lut
    BY <1>0, <1>7 DEF RP_DAC_ClearSequence, NoSeq, TypeOK, Sequence
  <2> QED
    BY <2>1, <2>2 DEF Window
<1>8. CASE Reconnect \/ CtlFinish \/ CtlIdle
  <2>1. CASE CtlIdle /\ seqState # "RUNNING"
    BY <1>3, <2>1 DEF CtlIdle
  <2>2. CASE ~(CtlIdle /\ seqState # "RUNNING")
    <3>1. seqState' = "CONFIG" /\ pc' # "fill" /\ fill' = fill
      BY <1>8, <2>2 DEF Reconnect, CtlFinish, CtlIdle, CleanUpSlowDAC
    <3>2. ~fill["comm"].on
      <4>1. CASE Reconnect
        BY <4>1 DEF Reconnect, CommIdle
      <4>2. CASE CtlFinish
        BY <1>0, <4>2 DEF CtlFinish, Exclusion
      <4>3. CASE CtlIdle
        BY <1>0, <2>2, <4>3 DEF CtlIdle, Exclusion
      <4> QED
        BY <1>8, <4>1, <4>2, <4>3
    <3> QED
      BY <3>1, <3>2 DEF Window
  <2> QED
    BY <2>1, <2>2
<1>9. CASE FillStep("comm")
  <2>1. /\ fill["comm"].on /\ fill["comm"].base = 0 /\ ~trigger /\ y < Lookahead
        /\ fill'["comm"].on /\ UNCHANGED <<activeSeq, setTotal, trigger>>
    BY <1>0, <1>2, <1>9, FillProgress DEF Exclusion, Filling
  <2>2. Held(lut, activeSeq, setTotal, y - 1)
    BY <1>0, <2>1 DEF Window, Written
  <2>3. CASE UNCHANGED <<lut, fill>>
    BY <2>1, <2>2, <2>3 DEF Window, Written
  <2>4. CASE /\ fill'["comm"].y = y + 1
             /\ lut' = [lut EXCEPT ![(0 + y) % BuffSize] = EntryFor(activeSeq, 0 + y)]
    <3>1. Held(lut', activeSeq, setTotal, y)
      <4>1. y < setTotal + BuffSize /\ 0 + y = y
        BY <1>1, <1>2, <2>1, Constants
      <4> QED
        BY <1>0, <1>1, <1>2, <2>2, <2>4, <4>1, HeldGrows DEF TypeOK
    <3>2. fill'["comm"].y - 1 = y
      BY <1>2, <2>4
    <3> QED
      BY <2>1, <3>1, <3>2 DEF Window, Written
  <2> QED
    BY <1>0, <1>2, <1>9, <2>1, <2>3, <2>4, FillProgress
<1>10. CASE FillStep("control")
  <2>1. /\ fill["control"].on /\ fill["control"].base = cur /\ pc = "fill"
        /\ seqState = "RUNNING" /\ ~fill["comm"].on /\ z < Lookahead
        /\ fill'["comm"] = fill["comm"]
        /\ UNCHANGED <<activeSeq, setTotal, trigger, cur, pc, seqState, rewritten>>
    BY <1>0, <1>2, <1>10, FillProgress DEF Exclusion, Filling
  <2>2. CASE ~trigger
    BY <2>1, <2>2 DEF Window
  <2>3. CASE trigger
    <3>1. Held(lut, activeSeq, cur, cur + z - 1)
      BY <1>0, <2>1, <2>3 DEF Window, Written
    <3>2. CASE UNCHANGED <<lut, fill>>
      BY <2>1, <3>1, <3>2 DEF Window, Written
    <3>3. CASE /\ fill'["control"].y = z + 1
               /\ lut' = [lut EXCEPT ![(cur + z) % BuffSize] = EntryFor(activeSeq, cur + z)]
      <4>1. cur + z < cur + BuffSize /\ cur + z \in Nat
        BY <1>1, <1>2, <2>1, Constants
      <4>2. Held(lut', activeSeq, cur, cur + z)
        <5> DEFINE step == cur + z
        <5>1. step - 1 = cur + z - 1 /\ step < cur + BuffSize /\ step \in Nat
          BY <1>1, <1>2, <4>1
        <5>2. Held(lut, activeSeq, cur, step - 1)
          BY <3>1, <5>1
        <5>3. lut' = [lut EXCEPT ![step % BuffSize] = EntryFor(activeSeq, step)]
          BY <3>3
        <5> HIDE DEF step
        <5>4. Held(lut', activeSeq, cur, step)
          BY <1>0, <1>1, <5>1, <5>2, <5>3, HeldGrows DEF TypeOK
        <5> QED
          BY <5>4 DEF step
      <4>3. cur + fill'["control"].y - 1 = cur + z
        BY <1>1, <1>2, <3>3
      <4> QED
        BY <2>1, <4>2, <4>3 DEF Window, Written
    <3> QED
      BY <1>0, <1>2, <1>10, <2>1, <3>2, <3>3, FillProgress
  <2> QED
    BY <2>2, <2>3
<1>11. CASE PrepareEnd
  <2>1. /\ fill["comm"].on /\ ~fill'["comm"].on /\ ~trigger'
        /\ fill["comm"].base = 0 /\ fill["comm"].next \in Nat
        /\ y >= Lookahead /\ setTotal' = fill["comm"].next + 1
        /\ UNCHANGED <<lut, activeSeq>>
    BY <1>0, <1>1, <1>2, <1>11 DEF PrepareEnd, FillEnd, NoFill, Exclusion, Filling
  <2>2. Held(lut, activeSeq, setTotal, y - 1)
    BY <1>0, <2>1 DEF Window, Written
  <2>3. fresh' => setTotal = 0
    BY <1>0, <2>1 DEF IInv, Ahead
  <2>4. Held(lut, activeSeq, First', setTotal' - 1)
    <3>1. CASE y = Begun("comm") /\ fill["comm"].next = 0
      <4>1. y = setTotal
        BY <1>1, <2>1, <3>1 DEF Begun, Larger
      <4>2. First' = 1 /\ setTotal' - 1 = 0
        BY <1>1, <2>1, <2>3, <3>1, <4>1, Constants DEF First
      <4> QED
        BY <4>2 DEF Held
    <3>2. CASE Begun("comm") < y /\ y <= Lookahead /\ fill["comm"].next = 0 + y - 1
      <4>1. setTotal < Lookahead
        BY <1>1, <1>2, <2>1, <3>2, Constants DEF Begun, Larger
      <4>2. setTotal \in {0, 1}
        BY <1>0, <1>1, <4>1, Constants DEF Filling
      <4>3. setTotal <= First' /\ setTotal' - 1 = y - 1
        BY <1>2, <2>1, <2>3, <3>2, <4>2 DEF First
      <4> QED
        BY <1>1, <1>2, <2>2, <4>3, HeldPart
    <3> QED
      BY <1>0, <1>2, <2>1, <3>1, <3>2 DEF Filling
  <2> QED
    BY <2>1, <2>4 DEF Window, Written
<1>12. CASE CtlStart
  <2>1. CASE seqState = "PREPARED"
    <3>1. ~fill["comm"].on /\ UNCHANGED <<lut, activeSeq, setTotal, fill, cur, trigger>>
      BY <1>0, <1>12 DEF CtlStart, Exclusion
    <3>2. trigger => Held(lut, activeSeq, First, setTotal - 1)
      BY <1>0, <2>1, <3>1 DEF Active, Window, Written
    <3> QED
      BY <1>12, <1>16, <2>1, <3>1, <3>2 DEF CtlStart, Window, Written
  <2>2. CASE seqState # "PREPARED"
    BY <1>3, <1>12, <2>2 DEF CtlStart
  <2> QED
    BY <2>1, <2>2
<1>13. CASE CtlRead
  <2>1. /\ seqState = "RUNNING" /\ cur' = ptr /\ pc' # "fill" /\ ~fill["comm"].on
        /\ UNCHANGED <<lut, activeSeq, setTotal, fill, seqState, trigger, rewritten>>
    BY <1>0, <1>13 DEF CtlRead, Exclusion
  <2>2. trigger /\ rewritten => Held(lut, activeSeq, ptr, setTotal - 1)
    <3>1. trigger /\ rewritten => Held(lut, activeSeq, cur, setTotal - 1) /\ cur <= ptr
      BY <1>0, <1>13, <2>1 DEF CtlRead, Window, Written, Pointer
    <3> QED
      BY <1>0, <1>1, <3>1, HeldPart DEF TypeOK
  <2>3. trigger /\ ~rewritten => Held(lut, activeSeq, First, setTotal - 1)
    BY <1>0, <1>13, <2>1 DEF CtlRead, Window, Written
  <2> QED
    BY <1>16, <2>1, <2>2, <2>3 DEF Window, Written
<1>14. CASE CtlFill
  <2>1. /\ seqState = "RUNNING" /\ pc = "handle" /\ pc' = "fill" /\ ~fill["comm"].on
        /\ UNCHANGED <<lut, activeSeq, setTotal, cur, seqState, trigger, rewritten>>
        /\ fill'["control"].y = Larger(0, setTotal - cur) /\ fill'["comm"] = fill["comm"]
    BY <1>0, <1>1, <1>14 DEF CtlFill, StartFill, Exclusion, Threads
  <2>2. First <= cur
    BY <1>0, <1>1, <2>1 DEF Pointer, TypeOK
  <2>3. trigger => Held(lut, activeSeq, cur, setTotal - 1)
    <3>1. trigger /\ ~rewritten => Held(lut, activeSeq, First, setTotal - 1)
      BY <1>0, <2>1 DEF Window, Written
    <3>2. trigger /\ rewritten => Held(lut, activeSeq, cur, setTotal - 1)
      BY <1>0, <2>1 DEF Window, Written
    <3> QED
      BY <1>1, <2>2, <3>1, <3>2, HeldPart
  <2>4. trigger => Held(lut, activeSeq, cur, cur + fill'["control"].y - 1)
    <3>1. CASE setTotal >= cur
      BY <1>1, <2>1, <2>3, <3>1 DEF Larger
    <3>2. CASE setTotal < cur
      BY <1>1, <2>1, <3>2 DEF Larger, Held
    <3> QED
      BY <1>1, <3>1, <3>2
  <2> QED
    BY <2>1, <2>4 DEF Window, Written
<1>15. CASE CtlFillEnd
  <2>1. /\ pc = "fill" /\ seqState = "RUNNING" /\ ~fill["comm"].on /\ pc' # "fill"
        /\ fill["control"].on /\ fill["control"].base = cur /\ rewritten'
        /\ setTotal' = fill["control"].next + 1 /\ fill["control"].next \in Nat
        /\ fill'["comm"] = fill["comm"]
        /\ UNCHANGED <<lut, activeSeq, cur, seqState, trigger>>
    BY <1>0, <1>1, <1>2, <1>15 DEF CtlFillEnd, FillEnd, NoFill, Exclusion, Filling
  <2>2. trigger => Held(lut, activeSeq, cur, cur + z - 1)
    BY <1>0, <2>1 DEF Window, Written
  <2>3. trigger => Held(lut, activeSeq, cur, setTotal' - 1)
    <3>1. CASE fill["control"].next = 0
      <4>1. cur > 0 /\ setTotal' - 1 = 0
        BY <1>0, <2>1, <3>1 DEF Pointer, TypeOK
      <4> QED
        BY <1>1, <4>1 DEF Held
    <3>2. CASE fill["control"].next = cur + z - 1
      BY <1>1, <1>2, <2>1, <2>2, <3>2
    <3> QED
      BY <1>0, <1>2, <2>1, <3>1, <3>2 DEF Filling
  <2> QED
    BY <2>1, <2>3 DEF Window, Written
<1> QED
  BY <1>0, <1>4, <1>5, <1>6, <1>7, <1>8, <1>9, <1>10, <1>11, <1>12, <1>13, <1>14, <1>15, Steps

\* Every step keeps a fresh client's run a lookahead ahead.
LEMMA AheadStep ==
    ASSUME IInv, CarefulNext
    PROVE  Ahead'
<1> USE DEF clientVars, loopVars, fpgaVars
<1>0. /\ TypeOK /\ Exclusion /\ Pointer /\ Active /\ Filling /\ Ahead
      /\ CarefulClient /\ fresh' = (fresh /\ FreshClient)
  BY Steps DEF IInv
<1>15. fresh' => fresh
  BY <1>0, Zenon
<1>1. /\ fresh' => fresh
      /\ setTotal \in Nat /\ cur \in Nat /\ old \in Nat /\ ptr \in Nat
      /\ fill \in [Threads -> [on : BOOLEAN, base : Nat, y : Nat, next : Nat]]
      /\ "comm" \in Threads /\ "control" \in Threads
  BY <1>0, <1>15 DEF TypeOK, Threads
<1>2. CASE Upload \/ RP_SetServerMode \/ RP_DAC_ClearSequence
  BY <1>0, <1>1, <1>2 DEF Upload, UploadUnchanged, RP_SetServerMode, RP_DAC_ClearSequence, Ahead
<1>3. CASE RP_DAC_SetSequence
  <2>1. UNCHANGED <<seqState, setTotal, loopVars, fpgaVars>>
    BY <1>3 DEF RP_DAC_SetSequence
  <2>2. CASE activeSeq' = NoSeq
    BY <1>0, <1>1, <1>3, <2>1, <2>2 DEF RP_DAC_SetSequence, Ahead
  <2>3. CASE activeSeq' # NoSeq
    <3>1. CommIdle /\ fill'["comm"].on
      BY <1>1, <1>3, <2>3 DEF RP_DAC_SetSequence, BeginPrepare, StartFill
    <3>2. fresh' => setTotal = 0
      BY <1>0, <3>1 DEF FreshClient, BeginsSet
    <3> QED
      BY <1>0, <1>1, <2>1, <3>1, <3>2 DEF Ahead
  <2> QED
    BY <2>2, <2>3
<1>4. ASSUME NEW on \in BOOLEAN, RP_SetMasterTrigger(on)
      PROVE  Ahead'
  <2>1. trigger' = on /\ trigger # on /\ fromZero' = (on => old = 0)
        /\ UNCHANGED <<seqState, setTotal, cur, old, pc, fill>>
    BY <1>4 DEF RP_SetMasterTrigger
  <2>2. fresh' => seqState # "RUNNING"
    BY <1>0, <2>1 DEF FreshClient
  <2>3. fresh' => pc \notin {"handle", "fill"}
    BY <1>0, <2>2 DEF Exclusion
  <2> QED
    BY <1>0, <1>1, <2>1, <2>2, <2>3 DEF Ahead
<1>5. CASE Reconnect
  BY <1>0, <1>5 DEF Reconnect, CommIdle, CleanUpSlowDAC, Ahead
<1>6. ASSUME NEW t \in Threads, FillStep(t) PROVE Ahead'
  <2>1. fill'["comm"].on = fill["comm"].on
        /\ UNCHANGED <<seqState, setTotal, loopVars, fpgaVars>>
    BY <1>0, <1>1, <1>6, FillProgress
  <2> QED
    BY <1>0, <1>1, <2>1 DEF Ahead
<1>7. CASE PrepareEnd
  <2>1. /\ fill["comm"].on /\ ~fill'["comm"].on /\ ~trigger /\ ~trigger'
        /\ fill["comm"].base = 0 /\ fill["comm"].y \in Nat
        /\ fill["comm"].y >= Lookahead /\ setTotal' = fill["comm"].next + 1
        /\ UNCHANGED <<pc, fromZero>>
    BY <1>0, <1>1, <1>7 DEF PrepareEnd, FillEnd, NoFill, Exclusion, Filling
  <2>2. ASSUME fresh PROVE setTotal' = Lookahead
    <3>1. setTotal = 0 /\ Begun("comm") = 0
      BY <1>0, <2>1, <2>2 DEF Ahead, Begun, Larger
    <3>2. fill["comm"].y <= Lookahead /\ fill["comm"].next = 0 + fill["comm"].y - 1
      BY <1>0, <1>1, <2>1, <3>1, Constants DEF Filling
    <3> QED
      BY <2>1, <3>2, Constants
  <2> QED
    BY <1>0, <1>1, <2>1, <2>2 DEF Ahead, Exclusion
<1>8. CASE CtlCheck \/ PointerStep
  BY <1>0, <1>1, <1>8 DEF CtlCheck, PointerStep, Ahead
<1>9. CASE CtlStart
  <2>1. ~fill["comm"].on
    BY <1>0, <1>9 DEF CtlStart, Exclusion
  <2>2. CASE seqState = "PREPARED"
    BY <1>0, <1>1, <1>9, <2>1, <2>2 DEF CtlStart, Ahead
  <2>3. CASE seqState # "PREPARED"
    BY <1>0, <1>1, <1>9, <2>3 DEF CtlStart, Ahead
  <2> QED
    BY <2>2, <2>3
<1>10. CASE CtlRead
  BY <1>0, <1>1, <1>10 DEF CtlRead, Pointer, Exclusion, Ahead
<1>11. CASE CtlFinish \/ CtlIdle
  <2>1. CASE CtlFinish
    BY <1>0, <1>1, <2>1 DEF CtlFinish, CleanUpSlowDAC, Exclusion, Ahead
  <2>2. CASE CtlIdle
    BY <1>0, <1>1, <2>2 DEF CtlIdle, CleanUpSlowDAC, Ahead
  <2> QED
    BY <1>11, <2>1, <2>2
<1>12. CASE CtlFill
  <2>1. fill'["comm"] = fill["comm"]
    BY <1>1, <1>12 DEF CtlFill, StartFill, Threads
  <2> QED
    BY <1>0, <1>1, <1>12, <2>1 DEF CtlFill, Ahead
<1>13. CASE CtlFillEnd
  <2>1. /\ pc = "fill" /\ pc' = "rest" /\ seqState = "RUNNING" /\ ~fill["comm"].on
        /\ fill["control"].on /\ fill["control"].base = cur /\ cur > old
        /\ fill["control"].y \in Nat /\ fill["control"].y >= Lookahead
        /\ setTotal' = fill["control"].next + 1
        /\ fill'["comm"] = fill["comm"]
        /\ UNCHANGED <<cur, old, ptr, seqState, trigger, fromZero>>
    BY <1>0, <1>1, <1>13 DEF CtlFillEnd, FillEnd, NoFill, Exclusion, Filling, Pointer
  <2>2. ASSUME fresh, trigger, fromZero PROVE setTotal' = cur + Lookahead
    <3>1. setTotal = old + Lookahead
      BY <1>0, <2>1, <2>2 DEF Ahead
    <3>2. Begun("control") < Lookahead
      BY <1>1, <2>1, <3>1, Constants DEF Begun, Larger
    <3>3. /\ fill["control"].y <= Lookahead
          /\ fill["control"].next = cur + fill["control"].y - 1
      BY <1>0, <1>1, <2>1, <3>2, Constants DEF Filling
    <3> QED
      BY <1>1, <2>1, <3>3, Constants
  <2> QED
    BY <1>0, <1>1, <2>1, <2>2 DEF Ahead
<1>14. CASE CtlRest
  BY <1>0, <1>1, <1>14 DEF CtlRest, Exclusion, Pointer, Ahead
<1> QED
  BY <1>0, <1>1, <1>2, <1>3, <1>4, <1>5, <1>6, <1>7, <1>8, <1>9, <1>10, <1>11, <1>12,
     <1>13, <1>14, Steps

-----------------------------------------------------------------------------
(* The results.                                                            *)

\* The invariant holds initially.
LEMMA Initially == Init => IInv
<1> SUFFICES ASSUME Init PROVE IInv
  OBVIOUS
<1>1. TypeOK
  BY TypeInit
<1>2. Exclusion /\ Pointer /\ Active /\ EndIsAhead /\ Filling /\ Window /\ Ahead
  BY BoundsAreNat DEF Init, NoFill, Threads, Exclusion, Pointer, Active, EndIsAhead, Filling, Window, Ahead
<1> QED
  BY <1>1, <1>2 DEF IInv

\* A step that changes nothing keeps the invariant.
LEMMA Stutters ==
    ASSUME IInv, UNCHANGED vars
    PROVE  IInv'
<1> USE DEF vars, serverVars, IInv
<1>1. TypeOK'
  BY DEF TypeOK
<1>2. Exclusion' /\ Pointer' /\ Active'
  BY DEF Exclusion, Pointer, Active
<1>3. EndIsAhead'
  BY DEF EndIsAhead
<1>4. Filling'
  BY DEF Filling, Begun
<1>5. Window' /\ Ahead'
  BY DEF Window, Written, First, Ahead
<1> QED
  BY <1>1, <1>2, <1>3, <1>4, <1>5

\* The invariant holds in every state.
LEMMA Invariance == CarefulSpec => []IInv
<1>1. Init => IInv
  BY Initially
<1>2. IInv /\ [CarefulNext]_vars => IInv'
  <2>1. IInv /\ CarefulNext => IInv'
    BY TypeStep, ExclusionStep, PointerStays, ActiveStep, EndStays, FillingStep, WindowStep,
       AheadStep DEF IInv
  <2> QED
    BY <2>1, Stutters
<1> QED
  BY <1>1, <1>2, PTL DEF CarefulSpec

\* Every variable keeps its type.
THEOREM TypeCorrect == CarefulSpec => []TypeOK
<1>1. IInv => TypeOK
  BY DEF IInv
<1> QED
  BY <1>1, Invariance, PTL

\* The control thread and a SET handler never run setLUTValuesFrom, with its
\* statics, at the same time: no lock keeps them apart, but the mode, the trigger
\* and a client that waits for a run to come to rest do.
THEOREM OneFillAtATime == CarefulSpec => []FillsAreExclusive
<1>1. IInv => FillsAreExclusive
  BY DEF IInv, Exclusion, FillsAreExclusive
<1> QED
  BY <1>1, Invariance, PTL

\* The two ways to say that steps are in their cells.
LEMMA HeldIsHolds ==
    ASSUME NEW from \in Nat, NEW to \in Int
    PROVE  Written(from, to) <=> \A step \in from..to : Holds(step)
  BY DEF Written, Held, Holds

\* From the first fill of the control thread on, the steps from the pointer it
\* read to currentSetSlowDACStepTotal are in their cells, for every size of the
\* ring, every lookahead that fits into it and every set of sequences.
THEOREM WindowIsWritten == CarefulSpec => []WindowMatchesPlayList
<1>1. IInv => WindowMatchesPlayList
  <2> SUFFICES ASSUME IInv, trigger, seqState = "RUNNING", rewritten
               PROVE  \A step \in cur..(setTotal - 1) : Holds(step)
    BY DEF WindowMatchesPlayList
  <2>1. cur \in Nat /\ setTotal \in Nat
    BY DEF IInv, TypeOK
  <2>2. CASE pc # "fill"
    BY <2>1, <2>2, HeldIsHolds DEF IInv, Window
  <2>3. CASE pc = "fill"
    <3>1. fill["control"].on /\ fill["control"].base = cur /\ fill["control"].y \in Nat
      BY <2>3 DEF IInv, Exclusion, Filling, TypeOK, Threads
    <3>2. Begun("control") <= fill["control"].y
      BY <2>1, <3>1 DEF IInv, Filling, Threads, Begun, Larger
    <3>3. setTotal - 1 <= cur + fill["control"].y - 1
      BY <2>1, <3>1, <3>2 DEF Begun, Larger
    <3>4. Held(lut, activeSeq, cur, cur + fill["control"].y - 1)
      BY <2>3 DEF IInv, Window, Written
    <3>5. Held(lut, activeSeq, cur, setTotal - 1)
      BY <2>1, <3>1, <3>3, <3>4, HeldPart
    <3> QED
      BY <2>1, <3>5, HeldIsHolds DEF Written
  <2> QED
    BY <2>2, <2>3
<1> QED
  BY <1>1, Invariance, PTL

\* What a fresh client's sequence plays is its play list, from step 0 on, as long
\* as the FPGA is not ahead of what was set.
THEOREM PlayListIsPlayed == CarefulSpec => []PlaysThePlayList
<1>1. IInv => PlaysThePlayList
  <2> SUFFICES ASSUME IInv, fresh, trigger, seqState \in {"PREPARED", "RUNNING"},
                      ptr < setTotal
               PROVE  Holds(ptr)
    BY DEF PlaysThePlayList
  <2>1. cur \in Nat /\ setTotal \in Nat /\ ptr \in Nat /\ First = 0
    BY DEF IInv, TypeOK, First
  <2>2. CASE Held(lut, activeSeq, First, setTotal - 1)
    BY <2>1, <2>2 DEF Held, Holds
  <2>3. CASE Held(lut, activeSeq, cur, setTotal - 1) /\ cur <= ptr
    BY <2>1, <2>3 DEF Held, Holds
  <2>4. CASE seqState = "PREPARED"
    BY <2>2, <2>4 DEF IInv, Exclusion, Active, Window, Written
  <2>5. CASE seqState = "RUNNING" /\ pc # "fill"
    BY <2>2, <2>3, <2>5 DEF IInv, Window, Written, Pointer
  <2>6. CASE seqState = "RUNNING" /\ pc = "fill"
    <3>1. fill["control"].on /\ fill["control"].base = cur /\ fill["control"].y \in Nat
      BY <2>6 DEF IInv, Exclusion, Filling, TypeOK, Threads
    <3>2. Begun("control") <= fill["control"].y
      BY <2>1, <3>1 DEF IInv, Filling, Threads, Begun, Larger
    <3>3. setTotal - 1 <= cur + fill["control"].y - 1
      BY <2>1, <3>1, <3>2 DEF Begun, Larger
    <3>4. Held(lut, activeSeq, cur, cur + fill["control"].y - 1) /\ cur <= ptr
      BY <2>6 DEF IInv, Window, Written, Pointer
    <3>5. Held(lut, activeSeq, cur, setTotal - 1)
      BY <2>1, <3>1, <3>3, <3>4, HeldPart
    <3> QED
      BY <2>3, <3>4, <3>5
  <2> QED
    BY <2>4, <2>5, <2>6
<1> QED
  BY <1>1, Invariance, PTL

\* A run ends only behind the last step of its sequence, whatever sequences ran
\* before it, as long as the step pointer is below INT_MAX, which lastStep has
\* while no end is known.
THEOREM EndIsNeverCutShort ==
    ASSUME MaxStep < IntMax
    PROVE  CarefulSpec => NeverCutShort
<1>1. IInv => (CtlFinish => cur >= TotalSteps(activeSeq))
  <2> SUFFICES ASSUME IInv, CtlFinish PROVE cur >= TotalSteps(activeSeq)
    OBVIOUS
  <2>1. cur >= lastStep /\ cur <= MaxStep /\ cur \in Nat /\ lastStep \in Nat
        /\ activeSeq \in Sequence
    BY DEF IInv, TypeOK, Pointer, CtlFinish
  <2>2. TotalSteps(activeSeq) \in Nat
    BY <2>1, TotalType
  <2>3. lastStep # IntMax
    BY <2>1, BoundsAreNat, IntMaxType
  <2>4. lastStep >= TotalSteps(activeSeq)
    BY <2>3 DEF IInv, EndIsAhead
  <2> QED
    BY <2>1, <2>2, <2>4
<1> QED
  BY <1>1, Invariance, PTL DEF NeverCutShort

\* Steps that a fresh client's run skipped because the control thread was late
\* raise lostSteps, in a run entered with a zero pointer.
THEOREM SkippedStepsAreFlagged == CarefulSpec => SkippedFromZeroAreFlagged
<1> DEFINE A == (fresh /\ pc = "handle" /\ pc' # "handle" /\ fromZero
                 /\ setTotal < TotalSteps(activeSeq) /\ cur > setTotal) => lostSteps'
<1>1. IInv /\ [CarefulNext]_vars => A
  <2> SUFFICES ASSUME IInv, [CarefulNext]_vars, fresh, pc = "handle", pc' # "handle", fromZero,
                      cur > setTotal
               PROVE  lostSteps'
    OBVIOUS
  <2>1. CarefulNext
    BY DEF vars, serverVars
  <2>2. trigger /\ seqState = "RUNNING"
    BY DEF IInv, Exclusion, Ahead
  <2>3. setTotal = old + Lookahead
    BY <2>2 DEF IInv, Ahead
  <2>4. CtlFinish \/ CtlFill
    <3> USE DEF clientVars, loopVars, fpgaVars
    <3>1. ~Upload /\ ~RP_SetServerMode /\ ~RP_DAC_SetSequence /\ ~RP_DAC_ClearSequence
      BY DEF Upload, UploadUnchanged, RP_SetServerMode, RP_DAC_SetSequence, RP_DAC_ClearSequence
    <3>2. ~(\E on \in BOOLEAN : RP_SetMasterTrigger(on)) /\ ~Reconnect /\ ~PointerStep
      BY DEF RP_SetMasterTrigger, Reconnect, PointerStep
    <3>3. ~FillStep("comm") /\ ~FillStep("control") /\ ~PrepareEnd /\ ~CtlFillEnd
      BY <2>2 DEF FillStep, PrepareEnd, CtlFillEnd, FillEnd, IInv, Exclusion
    <3>4. ~CtlCheck /\ ~CtlStart /\ ~CtlRead /\ ~CtlRest /\ ~CtlIdle
      BY DEF CtlCheck, CtlStart, CtlRead, CtlRest, CtlIdle
    <3> QED
      BY <2>1, <3>1, <3>2, <3>3, <3>4, Steps DEF IInv
  <2>5. CheckLostSteps
    BY <2>4 DEF CtlFinish, CtlFill
  <2> QED
    BY <2>3, <2>5 DEF CheckLostSteps
<1> QED
  BY <1>1, Invariance, PTL DEF SkippedFromZeroAreFlagged, CarefulSpec

=============================================================================
