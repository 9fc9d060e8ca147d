-------------------------- MODULE SignalRamp_proofs --------------------------
(***************************************************************************)
(* Proofs about SignalRamp, for every width of the phase and of the        *)
(* accumulator, every set of increments that stay four cycles at a phase,  *)
(* every length of the reset from five cycles on, and every distance of    *)
(* the commands that lets it end.                                          *)
(*                                                                         *)
(* The argument: phase and phasePrev follow the accumulator at a distance  *)
(* of less than one value (Climbing), so that they are both at the last    *)
(* value when it wraps; three cycles later phaseRising falls (Turning) and *)
(* ends the ramp, which therefore was whole.  The factor is the phase, or  *)
(* what is left of it, and the phase moves by at most one.                 *)
(***************************************************************************)
EXTENDS SignalRamp, TLAPS

\* the phase rises, and the registers behind the accumulator are at most a value
\* of the phase behind it
Climbing ==
    /\ phaseRising /\ phasePrev <= phase /\ phasePrev <= top
    /\ phase * Unit <= acc /\ 4 * acc < (4 * (phase + 1) + 1) * Unit
    /\ 4 * acc < (4 * (phasePrev + 1) + 2) * Unit

\* the accumulator has wrapped: the three cycles until phaseRising shows it
Turning ==
    \/ phaseRising /\ phase = P - 1 /\ phasePrev = P - 1 /\ 4 * acc < Unit
    \/ phaseRising /\ phase = 0 /\ phasePrev = P - 1 /\ 4 * acc < 2 * Unit
    \/ ~phaseRising /\ phase = 0 /\ phasePrev = 0 /\ 4 * acc < 3 * Unit

\* a ramp on its way, or a whole one
Course == Climbing \/ (top = P - 1 /\ Turning)

\* the registers of the pipeline in every state, and while a reset empties them
Pipeline ==
    /\ Running /\ state \in {"UP", "DOWN"} => Course
    /\ Running /\ state = "NORMAL" =>
           phaseRising /\ phase = 0 /\ phasePrev = 0 /\ acc < Unit
    /\ ~Running /\ held < Hold => state = "UP" /\ acc = 0
    /\ ~Running /\ held < Hold - 1 => phase = 0
    /\ ~Running /\ held < Hold - 2 => phasePrev = 0
    /\ ~Running /\ held < Hold - 3 => phaseRising

\* between two commands a channel comes out of its reset while the trigger is on
\* and ramping enabled; gap counts from the last command
Settled ==
    trig /\ enable /\ gap < Gap =>
        /\ fourier_synth_aresetn
        /\ held = 0 \/ held + Gap <= Hold + gap + 1

\* what a client that has seen rampDownDone relies on
Done ==
    done => enable /\ (trig => state = "DONE" /\ Running /\ fourier_synth_aresetn)

\* the history has seen every reason for a ramp down
WasAsked == startRampDown => asked

IInv == TypeOK /\ Pipeline /\ Settled /\ Done /\ WasAsked

-----------------------------------------------------------------------------
(* The phase of an accumulator.                                            *)

\* The constants are natural numbers, and a value of the phase is four
\* increments of the accumulator or more.
LEMMA Sizes ==
    /\ P \in Nat \ {0} /\ Unit \in Nat \ {0} /\ Hold \in Nat /\ Gap \in Nat
    /\ Hold >= 5 /\ Gap > Hold
    /\ \A i \in Incs : i \in Nat \ {0} /\ 4 * i <= Unit
    /\ P * Unit \in Nat /\ P * Unit >= Unit
<1>1. P \in Nat \ {0} /\ Unit \in Nat \ {0} /\ Hold \in Nat /\ Gap \in Nat
  BY RampAssumption
<1>2. P * Unit \in Nat /\ P * Unit >= Unit
  BY <1>1
<1> QED
  BY <1>1, <1>2, RampAssumption

\* The phase of an accumulator: the whole units in it.
LEMMA Quotient ==
    ASSUME NEW a \in Nat
    PROVE  /\ a \div Unit \in Nat
           /\ (a \div Unit) * Unit <= a /\ a < (a \div Unit) * Unit + Unit
<1> DEFINE q == a \div Unit
           r == a % Unit
<1>1. a = Unit * q + r /\ q \in Int /\ r \in Nat /\ r < Unit
  BY Sizes
<1>2. q \in Nat
  BY Sizes
<1> HIDE DEF q, r
<1>3. Unit * q = q * Unit /\ Unit * q \in Int
  BY <1>1, Sizes
<1>4. q * Unit <= a /\ a < q * Unit + Unit
  BY <1>1, <1>3, Sizes
<1> QED
  BY <1>2, <1>4 DEF q

\* Multiples of the unit are a unit apart.
LEMMA Multiples ==
    ASSUME NEW a \in Int, NEW b \in Int
    PROVE  /\ a * Unit \in Int
           /\ a < b => a * Unit + Unit <= b * Unit
           /\ (a + 1) * Unit = a * Unit + Unit
<1>1. \A d \in Nat \ {0} : d * Unit >= Unit
  BY Sizes
<1>2. a * Unit \in Int /\ b * Unit \in Int /\ (b - a) * Unit = b * Unit - a * Unit
  BY Sizes
<1>3. a < b => (b - a) * Unit >= Unit
  BY <1>1
<1>4. (a + 1) * Unit = a * Unit + Unit
  BY Sizes
<1> QED
  BY <1>2, <1>3, <1>4, Sizes

\* The accumulator wraps at most once in a cycle.
LEMMA Wraps ==
    ASSUME NEW a \in 0..(P * Unit - 1), NEW i \in Incs
    PROVE  /\ (a + i) % (P * Unit) = IF a + i < P * Unit THEN a + i ELSE a + i - P * Unit
           /\ (a + i) % (P * Unit) \in 0..(P * Unit - 1)
<1> DEFINE W == P * Unit
<1>1. W \in Nat /\ W >= Unit /\ i \in Nat /\ i < W /\ a \in Nat /\ a < W
  BY Sizes
<1> HIDE DEF W
<1>2. a + i < W => (a + i) % W = a + i
  BY <1>1
<1>3. a + i >= W => (a + i) % W = a + i - W
  BY <1>1
<1> QED
  BY <1>1, <1>2, <1>3 DEF W

-----------------------------------------------------------------------------
(* Types.                                                                  *)

\* Every step keeps the types: the phase of an accumulator is below P.
LEMMA TypeStep ==
    ASSUME TypeOK, [Next]_vars
    PROVE  TypeOK'
<1> USE DEF ramper, resets, config, server
<1>0. /\ P * Unit \in Nat /\ P * Unit >= 1 /\ P \in Nat \ {0}
      /\ Hold \in Nat /\ Gap \in Nat /\ Gap > 0
  BY Sizes
<1>1. CASE Tick
  <2>1. acc' \in 0..(P * Unit - 1)
    <3>1. acc' = 0 \/ acc' = (acc + inc) % (P * Unit)
      BY <1>1 DEF Tick, Phase
    <3> QED
      BY <1>0, <3>1, Wraps DEF TypeOK
  <2>2. phase' \in 0..(P - 1)
    <3>1. phase' = acc \div Unit /\ acc \in Nat /\ acc < P * Unit
      BY <1>0, <1>1 DEF Tick, Ramper, TypeOK
    <3>2. phase' \in Nat /\ phase' * Unit <= acc
      BY <3>1, Quotient
    <3>3. ~(P < phase' \/ P = phase')
      BY <1>0, <3>1, <3>2, Multiples, Sizes
    <3> QED
      BY <1>0, <3>2, <3>3
  <2>3. /\ phasePrev' \in 0..(P - 1) /\ phaseRising' \in BOOLEAN
        /\ state' \in States
        /\ top' \in 0..(P - 1)
    <3>1. state' \in States
      BY <1>1 DEF Tick, Ramper, stateNext, TypeOK, States
    <3>2. phasePrev' = phase /\ phaseRising' = (phasePrev <= phase)
          /\ (top' = 0 \/ top' = top \/ top' = phase)
      BY <1>1 DEF Tick, Ramper
    <3> QED
      BY <1>0, <3>1, <3>2 DEF TypeOK
  <2>4. held' \in 0..Hold /\ gap' \in 0..Gap
    BY <1>0, <1>1 DEF Tick, Resets, TypeOK
  <2>5. {stateOutputOn', stateOutputOnNext', fourier_synth_aresetn', seqDown', asked'}
            \subseteq BOOLEAN
    BY <1>1 DEF Tick, Resets, OutputOff, Running, TypeOK
  <2>6. UNCHANGED <<trig, armed, enable, down, inc, mode, clearing, pin, done>>
    BY <1>1 DEF Tick
  <2> QED
    BY <2>1, <2>2, <2>3, <2>4, <2>5, <2>6 DEF TypeOK
<1>2. CASE PinChanges
  BY <1>2 DEF PinChanges, TypeOK
<1>3. CASE SequenceStep
  BY <1>3 DEF SequenceStep, TypeOK
<1>4. CASE Command /\ Server
  <2>1. gap' \in 0..Gap
    BY <1>0, <1>4 DEF Command
  <2>2. UNCHANGED <<ramper, resets, seqDown, pin>>
    BY <1>4 DEF Command
  <2>3. /\ inc' \in Incs /\ mode' \in {"CONFIGURATION", "ACQUISITION"}
        /\ {trig', armed', enable', down', clearing', done', asked'} \subseteq BOOLEAN
    BY <1>4 DEF TypeOK, Server, RP_SetServerMode, RP_DAC_SetRampingFast,
                RP_DAC_SetEnableRamping, RP_DAC_SetEnableRampDown,
                RP_SetInstantResetMode, RP_DAC_GetRampingStatus,
                RP_SetMasterTrigger, ClearRampDown
  <2> QED
    BY <2>1, <2>2, <2>3 DEF TypeOK
<1>5. CASE ClearRampDown
  <2>1. gap' \in 0..Gap
    BY <1>0, <1>5 DEF ClearRampDown
  <2>2. clearing' = FALSE /\ down' = FALSE
    BY <1>5 DEF ClearRampDown
  <2>3. asked' \in BOOLEAN
    BY <1>5 DEF ClearRampDown
  <2>4. UNCHANGED <<ramper, resets, trig, armed, enable, inc, mode, seqDown, pin, done>>
    BY <1>5 DEF ClearRampDown
  <2> QED
    BY <2>1, <2>3, <2>4, <2>2 DEF TypeOK
<1>6. CASE UNCHANGED vars
  BY <1>6 DEF vars, TypeOK
<1> QED
  BY <1>1, <1>2, <1>3, <1>4, <1>5, <1>6
     DEF Next, Server, RP_SetServerMode, RP_DAC_SetRampingFast, RP_DAC_SetEnableRamping,
         RP_DAC_SetEnableRampDown, RP_SetInstantResetMode, RP_DAC_GetRampingStatus,
         RP_SetMasterTrigger

-----------------------------------------------------------------------------
(* The pipeline of a ramp.                                                 *)

\* The phase is zero in the first unit.
LEMMA Zero == /\ 0 \div Unit = 0 /\ 0 * Unit = 0 /\ 1 * Unit = Unit
              /\ \A a \in Nat : a < Unit => a \div Unit = 0
<1>1. ASSUME NEW a \in Nat, a < Unit
      PROVE  a \div Unit = 0
  <2>1. a \div Unit \in Nat /\ (a \div Unit) * Unit <= a
    BY Quotient
  <2>2. 0 < a \div Unit => 0 * Unit + Unit <= (a \div Unit) * Unit
    BY <2>1, Multiples
  <2>3. 0 * Unit = 0 /\ (a \div Unit) * Unit \in Int
    BY <2>1, Multiples, Sizes
  <2> QED
    BY <1>1, <2>1, <2>2, <2>3, Sizes
<1> QED
  BY <1>1, Sizes

\* After a reset, or at the begin of a ramp down, a ramp starts at zero.
LEMMA Restarts ==
    ASSUME acc' = 0, phase' = 0, phasePrev' = 0, phaseRising', top' \in Nat
    PROVE  Climbing'
<1>1. (4 * (0 + 1) + 1) * Unit = 5 * Unit /\ (4 * (0 + 1) + 2) * Unit = 6 * Unit
  BY Sizes
<1> QED
  BY <1>1, Zero, Sizes DEF Climbing

\* When the accumulator wraps, phase and phasePrev have reached the last value,
\* as they are less than a value behind.
LEMMA TurnsAtTheTop ==
    ASSUME TypeOK, Climbing, acc + inc >= P * Unit
    PROVE  phase = P - 1 /\ phasePrev = P - 1 /\ acc \div Unit = P - 1
<1> DEFINE q == acc \div Unit
<1>1. /\ phase \in Int /\ phasePrev \in Int /\ acc \in Nat /\ inc \in Nat /\ P \in Int
      /\ phase <= P - 1 /\ phasePrev <= P - 1 /\ 4 * inc <= Unit /\ acc < P * Unit
      /\ Unit \in Nat \ {0} /\ P * Unit \in Int
  BY Sizes DEF TypeOK
<1>2. q \in Nat /\ q * Unit <= acc /\ acc < q * Unit + Unit /\ q * Unit \in Int
  BY <1>1, Quotient, Multiples
<1> HIDE DEF q
<1>3. ASSUME NEW x \in Int, x <= P - 1, 4 * acc < (4 * (x + 1) + 2) * Unit
      PROVE  x = P - 1
  <2>1. /\ x * Unit \in Int /\ (x + 1) * Unit = x * Unit + Unit
        /\ (4 * (x + 1) + 2) * Unit = 4 * ((x + 1) * Unit) + 2 * Unit
    BY <1>1, <1>3, Multiples
  <2>2. x + 1 < P => (x + 1) * Unit + Unit <= P * Unit
    BY <1>1, <1>3, Multiples
  <2> QED
    BY <1>1, <1>3, <2>1, <2>2
<1>4. phasePrev = P - 1
  BY <1>1, <1>3 DEF Climbing
<1>5. ASSUME NEW x \in Int, x <= P - 1, 4 * acc < (4 * (x + 1) + 1) * Unit
      PROVE  x = P - 1
  <2>1. /\ x * Unit \in Int /\ (x + 1) * Unit = x * Unit + Unit
        /\ (4 * (x + 1) + 1) * Unit = 4 * ((x + 1) * Unit) + Unit
    BY <1>1, <1>5, Multiples
  <2>2. x + 1 < P => (x + 1) * Unit + Unit <= P * Unit
    BY <1>1, <1>5, Multiples
  <2> QED
    BY <1>1, <1>5, <2>1, <2>2
<1>6. phase = P - 1
  BY <1>1, <1>5 DEF Climbing
<1>7. q = P - 1
  <2>1. q + 1 < P => (q + 1) * Unit + Unit <= P * Unit
    BY <1>1, <1>2, Multiples
  <2>2. (q + 1) * Unit = q * Unit + Unit
    BY <1>1, <1>2, Multiples
  <2>3. P <= q => P * Unit <= q * Unit
    <3>1. P < q => P * Unit + Unit <= q * Unit
      BY <1>1, <1>2, Multiples
    <3> QED
      BY <1>1, <1>2, <3>1
  <2> QED
    BY <1>1, <1>2, <2>1, <2>2, <2>3
<1> QED
  BY <1>4, <1>6, <1>7 DEF q

\* A ramp whose accumulator does not wrap goes on to climb.
LEMMA Climbs ==
    ASSUME TypeOK, Climbing, Ramper, acc' = acc + inc, state' = state, Running
    PROVE  Climbing'
<1> DEFINE q == acc \div Unit
<1>1. /\ phase \in Nat /\ phasePrev \in Nat /\ acc \in Nat /\ inc \in Nat /\ top \in Nat
      /\ 4 * inc <= Unit /\ Unit \in Nat \ {0}
  BY Sizes DEF TypeOK
<1>2. q \in Nat /\ q * Unit <= acc /\ acc < q * Unit + Unit /\ q * Unit \in Int
  BY <1>1, Quotient, Multiples
<1>3. phase' = q /\ phasePrev' = phase /\ phaseRising'
  BY <1>1 DEF Ramper, Climbing
<1>4. phase <= top'
  BY <1>1 DEF Ramper
<1> HIDE DEF q
<1>5. phase <= q
  <2>1. q < phase => q * Unit + Unit <= phase * Unit
    BY <1>1, <1>2, Multiples
  <2> QED
    BY <1>1, <1>2, <2>1, Multiples DEF Climbing
<1>6. \A x \in Nat : /\ (4 * (x + 1) + 1) * Unit = 4 * (x * Unit) + 5 * Unit
                     /\ (4 * (x + 1) + 2) * Unit = 4 * (x * Unit) + 6 * Unit
                     /\ x * Unit \in Int
  BY <1>1
<1>7. 4 * (acc + inc) < (4 * (q + 1) + 1) * Unit
  BY <1>1, <1>2, <1>6
<1>8. 4 * (acc + inc) < (4 * (phase + 1) + 2) * Unit
  BY <1>1, <1>2, <1>6 DEF Climbing
<1> QED
  BY <1>1, <1>2, <1>3, <1>5, <1>7, <1>8, <1>4 DEF Climbing

\* phaseRising compares the phases of the cycle before.
LEMMA Rising ==
    ASSUME Ramper
    PROVE  /\ phasePrev <= phase => phaseRising'
           /\ ~(phasePrev <= phase) => ~phaseRising'
BY Zenon DEF Ramper

\* The three cycles follow each other, and only the last one ends the state: the
\* ramp is then at rest at zero, for a ramp down to begin there.
LEMMA Turns ==
    ASSUME TypeOK, Running, state \in {"UP", "DOWN"}, top = P - 1, Turning, Ramper, Phase
    PROVE  /\ state' = state => Course'
           /\ state' # state => /\ ~phaseRising /\ phase = 0 /\ phasePrev = 0
                                /\ phase' = 0 /\ acc' < Unit
<1>1. /\ acc \in Nat /\ inc \in Nat /\ 4 * inc <= Unit /\ Unit \in Nat \ {0} /\ P \in Nat \ {0}
      /\ P * Unit \in Nat /\ Unit <= P * Unit /\ 4 * acc < 3 * Unit
  BY Sizes DEF TypeOK, Turning
<1>2. acc' = acc + inc
  <2>1. acc + inc < P * Unit
    BY <1>1
  <2> QED
    BY <2>1, Wraps DEF Phase, TypeOK
<1>3. phase' = 0 /\ phasePrev' = phase
  BY <1>1, Zero DEF Ramper
<1>4. state' = state => top' = P - 1
  <2>1. phase \in 0..(P - 1)
    BY DEF TypeOK
  <2> QED
    BY <1>1, <2>1 DEF Ramper
<1>5. phaseRising => state' = state
  BY DEF Ramper, stateNext
<1>6. CASE phaseRising /\ phase = P - 1 /\ phasePrev = P - 1 /\ 4 * acc < Unit
  <2>1. phaseRising' /\ phase' = 0 /\ phasePrev' = P - 1 /\ 4 * acc' < 2 * Unit
    BY <1>1, <1>2, <1>3, <1>6, Rising
  <2> QED
    BY <1>3, <1>4, <1>5, <1>6, <2>1 DEF Course, Turning
<1>7. CASE phaseRising /\ phase = 0 /\ phasePrev = P - 1 /\ 4 * acc < 2 * Unit
  <2>1. 4 * acc' < 3 * Unit /\ phase' = 0 /\ phasePrev' = 0
    BY <1>1, <1>2, <1>3, <1>7
  <2>2. CASE P = 1
    <3>1. phaseRising' /\ top' = 0
      BY <1>3, <1>4, <1>5, <1>7, <2>2, Rising
    <3>2. /\ 0 * Unit <= acc' /\ 4 * acc' < (4 * (0 + 1) + 1) * Unit
          /\ 4 * acc' < (4 * (0 + 1) + 2) * Unit
      BY <1>1, <1>2, <2>1
    <3> QED
      BY <1>3, <1>5, <1>7, <2>1, <3>1, <3>2 DEF Course, Climbing
  <2>3. CASE P # 1
    <3>1. ~phaseRising'
      BY <1>1, <1>3, <1>7, <2>3, Rising
    <3> QED
      BY <1>3, <1>4, <1>5, <1>7, <2>1, <3>1 DEF Course, Turning
  <2> QED
    BY <2>2, <2>3
<1>8. CASE ~phaseRising /\ phase = 0 /\ phasePrev = 0 /\ 4 * acc < 3 * Unit
  <2>1. state' # state
    BY <1>8 DEF Ramper, stateNext
  <2>2. acc' < Unit
    BY <1>1, <1>2, <1>8
  <2> QED
    BY <1>3, <1>8, <2>1, <2>2
<1> QED
  BY <1>6, <1>7, <1>8 DEF Turning

\* A cycle of a ramp keeps its course; a ramp ends whole, with a phase of zero.
LEMMA CourseStep ==
    ASSUME TypeOK, Running, state \in {"UP", "DOWN"}, Course, Ramper, Phase
    PROVE  /\ state' = state => Course'
           /\ state' # state => /\ top = P - 1 /\ ~phaseRising
                                /\ phase = 0 /\ phasePrev = 0 /\ phase' = 0 /\ acc' < Unit
<1>1. CASE Climbing
  <2>1. phaseRising /\ phasePrev <= phase
    BY <1>1 DEF Climbing
  <2>2. state' = state
    BY <2>1 DEF Ramper, stateNext
  <2>3. CASE acc + inc < P * Unit
    <3>1. acc' = acc + inc
      BY <2>3, Wraps DEF Phase, TypeOK
    <3> QED
      BY <1>1, <2>2, <3>1, Climbs DEF Course
  <2>4. CASE ~(acc + inc < P * Unit)
    <3>1. /\ acc \in Nat /\ inc \in Nat /\ 4 * inc <= Unit /\ P * Unit \in Nat /\ acc < P * Unit
          /\ Unit \in Nat \ {0} /\ P \in Nat \ {0} /\ top \in 0..(P - 1)
      BY Sizes DEF TypeOK
    <3>2. acc' = acc + inc - P * Unit
      BY <2>4, Wraps DEF Phase, TypeOK
    <3>3. phase = P - 1 /\ acc \div Unit = P - 1
      BY <1>1, <2>4, <3>1, TurnsAtTheTop
    <3>4. phase' = P - 1 /\ phasePrev' = P - 1 /\ phaseRising'
      BY <2>1, <3>3 DEF Ramper
    <3>5. 4 * acc' < Unit
      BY <3>1, <3>2
    <3>6. top' = P - 1
      BY <2>2, <3>1, <3>3 DEF Ramper
    <3> QED
      BY <2>2, <3>4, <3>5, <3>6 DEF Course, Turning
  <2> QED
    BY <2>3, <2>4
<1>2. CASE top = P - 1 /\ Turning
  BY <1>2, Turns
<1> QED
  BY <1>1, <1>2 DEF Course

\* Only the clock changes the ramper and the resets.
LEMMA Apart ==
    ASSUME [Next]_vars
    PROVE  Tick \/ UNCHANGED <<ramper, resets>>
BY DEF Next, Server, vars, PinChanges, SequenceStep, RP_SetServerMode, RP_DAC_SetRampingFast,
       RP_DAC_SetEnableRamping, RP_DAC_SetEnableRampDown, RP_SetInstantResetMode,
       RP_DAC_GetRampingStatus, RP_SetMasterTrigger, ClearRampDown, Command

\* Every step keeps the pipeline consistent.  A reset holds for five cycles or
\* more, so that each register is emptied in its turn before the channel runs.
LEMMA PipelineStep ==
    ASSUME TypeOK, Pipeline, [Next]_vars
    PROVE  Pipeline'
<1>0. TypeOK'
  BY TypeStep
<1>1. ASSUME UNCHANGED <<ramper, resets>>
      PROVE  Pipeline'
  BY <1>1 DEF Pipeline, ramper, resets, Running, Course, Climbing, Turning
<1>2. CASE Tick
  <2>1. /\ held \in 0..Hold /\ Hold \in Nat /\ Hold >= 5 /\ state \in States /\ top' \in Nat
        /\ acc \in Nat /\ Unit \in Nat \ {0}
    BY <1>0, Sizes DEF TypeOK
  <2>2. Ramper /\ Phase
    BY <1>2 DEF Tick
  <2>3. CASE ~fourier_synth_aresetn
    <3>1. held' = Hold
      BY <1>2, <2>3 DEF Tick, Resets
    <3> QED
      BY <2>1, <3>1 DEF Pipeline, Running
  <2>4. CASE fourier_synth_aresetn /\ held > 0
    <3>1. held' = held - 1 /\ held # 0
      BY <1>2, <2>1, <2>4 DEF Tick, Resets
    <3>2. state' = "UP" /\ acc' = 0
      BY <2>2, <3>1 DEF Ramper, Phase, Running
    <3>3. held < Hold => phase' = 0
      BY <2>2, <3>1, Zero DEF Ramper, Pipeline, Running
    <3>4. held < Hold - 1 => phasePrev' = 0
      BY <2>2, <3>1 DEF Ramper, Pipeline, Running
    <3>5. held < Hold - 2 => phaseRising'
      <4>1. held < Hold - 2 => phasePrev = 0 /\ phase = 0
        BY <2>1, <3>1 DEF Pipeline, Running
      <4> QED
        BY <2>2, <4>1, Rising
    <3>6. held' = 0 => Climbing'
      <4>1. held' = 0 => held < Hold /\ held < Hold - 1 /\ held < Hold - 2
        BY <2>1, <3>1
      <4> QED
        BY <2>1, <3>2, <3>3, <3>4, <3>5, <4>1, Restarts
    <3> QED
      BY <2>1, <3>1, <3>2, <3>3, <3>4, <3>5, <3>6 DEF Pipeline, Running, Course
  <2>5. CASE fourier_synth_aresetn /\ held = 0
    <3>1. held' = 0 /\ Running
      BY <1>2, <2>5 DEF Tick, Resets, Running
    <3>2. SUFFICES /\ state' \in {"UP", "DOWN"} => Course'
                   /\ state' = "NORMAL" => /\ phaseRising' /\ phase' = 0
                                           /\ phasePrev' = 0 /\ acc' < Unit
      BY <2>1, <3>1 DEF Pipeline, Running, Course
    <3>3. CASE state \in {"UP", "DOWN"}
      <4>1. Course
        BY <3>1, <3>3 DEF Pipeline, Course
      <4>2. state' # state => state' \in {"NORMAL", "DONE"}
        BY <2>2, <3>1, <3>3 DEF Ramper, stateNext
      <4>3. ASSUME state' # state
            PROVE  phase' = 0 /\ phasePrev' = 0 /\ acc' < Unit /\ phasePrev = 0 /\ phase = 0
        BY <2>2, <3>1, <3>3, <4>1, <4>3, CourseStep DEF Ramper
      <4>4. state' # state => phaseRising'
        BY <2>2, <4>3, Rising
      <4>5. state' = state => Course'
        BY <2>2, <3>1, <3>3, <4>1, CourseStep
      <4> QED
        BY <3>3, <4>2, <4>3, <4>4, <4>5
    <3>4. CASE state = "NORMAL"
      <4>1. phaseRising /\ phase = 0 /\ phasePrev = 0 /\ acc < Unit
        BY <3>1, <3>4 DEF Pipeline
      <4>2. acc' = 0 /\ phase' = 0 /\ phasePrev' = 0 /\ phaseRising'
        <5>1. acc' = 0 /\ phase' = 0 /\ phasePrev' = 0
          BY <2>1, <2>2, <3>4, <4>1, Zero DEF Ramper, Phase
        <5> QED
          BY <2>2, <4>1, <5>1, Rising
      <4>3. Climbing'
        BY <2>1, <4>2, Restarts
      <4> QED
        BY <2>1, <4>2, <4>3 DEF Course
    <3>5. CASE state = "DONE"
      BY <2>2, <3>1, <3>5 DEF Ramper, stateNext
    <3> QED
      BY <2>1, <3>3, <3>4, <3>5 DEF States
  <2> QED
    BY <2>1, <2>3, <2>4, <2>5
<1> QED
  BY <1>1, <1>2, Apart

-----------------------------------------------------------------------------
(* The resets, the client and the requests.                                *)

\* Every step keeps Settled: a command restarts the count, and each cycle after
\* it brings the reset a cycle nearer to its end.
LEMMA SettledStep ==
    ASSUME TypeOK, Settled, [Next]_vars
    PROVE  Settled'
<1> USE DEF resets
<1>0. /\ Hold \in Nat /\ Gap \in Nat /\ Gap > Hold /\ held \in 0..Hold /\ gap \in 0..Gap
  BY Sizes DEF TypeOK
<1>1. CASE Tick
  <2>1. UNCHANGED <<trig, enable>>
    BY <1>1 DEF Tick, config
  <2>2. SUFFICES ASSUME trig, enable, gap' < Gap
                 PROVE  fourier_synth_aresetn' /\ (held' = 0 \/ held' + Gap <= Hold + gap' + 1)
    BY <2>1 DEF Settled
  <2>3. fourier_synth_aresetn'
    BY <1>1, <2>2 DEF Tick, Resets
  <2>4. gap' = IF gap > 0 THEN gap - 1 ELSE 0
    BY <1>1 DEF Tick
  <2>5. /\ held' \in {Hold, 0, held - 1} /\ held' <= Hold
        /\ fourier_synth_aresetn => held' = IF held > 0 THEN held - 1 ELSE 0
    BY <1>0, <1>1 DEF Tick, Resets
  <2>6. CASE gap < Gap
    <3>1. fourier_synth_aresetn /\ (held = 0 \/ held + Gap <= Hold + gap + 1)
      BY <2>2, <2>6 DEF Settled
    <3>2. held' = IF held > 0 THEN held - 1 ELSE 0
      BY <2>5, <3>1
    <3>3. held' = 0 \/ held' + Gap <= Hold + gap' + 1
      BY <1>0, <2>4, <3>1, <3>2
    <3> QED
      BY <2>3, <3>3
  <2>7. CASE gap = Gap
    <3>1. gap' = Gap - 1 /\ held' <= Hold /\ held' \in Int
      BY <1>0, <2>4, <2>5, <2>7
    <3>2. Hold + gap' + 1 = Hold + Gap
      BY <1>0, <3>1
    <3>3. held' + Gap <= Hold + Gap
      <4>1. \A x, y, z \in Int : x <= y => x + z <= y + z
        OBVIOUS
      <4>2. Hold \in Int /\ Gap \in Int
        BY <1>0
      <4>3. held' \in Int
        BY <3>1
      <4>4. held' <= Hold
        BY <3>1
      <4> QED
        BY <4>1, <4>2, <4>3, <4>4
    <3> QED
      BY <2>3, <3>2, <3>3
  <2> QED
    BY <1>0, <2>6, <2>7
<1>2. CASE gap' = Gap
  BY <1>0, <1>2 DEF Settled
<1>3. CASE UNCHANGED <<resets, gap, trig, enable>>
  BY <1>3 DEF Settled
<1> QED
  BY <1>1, <1>2, <1>3
     DEF Next, Server, vars, config, PinChanges, SequenceStep, RP_SetServerMode,
         RP_DAC_SetRampingFast, RP_DAC_SetEnableRamping, RP_DAC_SetEnableRampDown,
         RP_SetInstantResetMode, RP_DAC_GetRampingStatus, RP_SetMasterTrigger, ClearRampDown,
         Command

\* Every step keeps Done: the client concludes it from a channel out of its
\* reset, and nothing puts the channel into a reset while the trigger is on.
LEMMA DoneStep ==
    ASSUME TypeOK, Settled, Done, [Next]_vars
    PROVE  Done'
<1>0. /\ Hold \in Nat /\ Gap \in Nat /\ Gap > Hold /\ held \in 0..Hold /\ gap \in 0..Gap
  BY Sizes DEF TypeOK
<1>1. CASE Tick
  <2>1. UNCHANGED <<trig, enable, done>>
    BY <1>1 DEF Tick, config
  <2>2. ASSUME done, trig
        PROVE  state' = "DONE" /\ Running' /\ fourier_synth_aresetn'
    <3>1. enable /\ state = "DONE" /\ Running /\ fourier_synth_aresetn
      BY <2>2 DEF Done
    <3>2. state' = "DONE"
      BY <1>1, <3>1 DEF Tick, Ramper, stateNext
    <3>3. held' = 0
      BY <1>1, <3>1 DEF Tick, Resets, Running
    <3>4. fourier_synth_aresetn'
      BY <1>1, <2>2, <3>1 DEF Tick, Resets
    <3> QED
      BY <3>2, <3>3, <3>4 DEF Running
  <2> QED
    BY <2>1, <2>2 DEF Done
<1>2. CASE RP_DAC_GetRampingStatus
  <2>1. /\ gap = 0 /\ done' = (enable /\ state = "DONE")
        /\ UNCHANGED <<ramper, resets, trig, enable>>
    BY <1>2 DEF RP_DAC_GetRampingStatus, Command, config
  <2>2. trig /\ enable => held = 0 /\ fourier_synth_aresetn
    BY <1>0, <2>1 DEF Settled
  <2> QED
    BY <2>1, <2>2 DEF Done, Running, ramper, resets
<1>3. CASE ~done'
  BY <1>3 DEF Done
<1>4. CASE UNCHANGED <<ramper, resets, trig, enable, done>>
  BY <1>4 DEF Done, Running, ramper, resets
<1>5. CASE \E on \in BOOLEAN : RP_SetMasterTrigger(on)
  <2>1. UNCHANGED <<ramper, resets, enable>> /\ (done' => done /\ ~trig')
    <3>1. PICK on \in BOOLEAN : RP_SetMasterTrigger(on)
      BY <1>5
    <3>2. trig' = on /\ done' = (done /\ ~on)
      BY <3>1 DEF RP_SetMasterTrigger
    <3>3. UNCHANGED <<ramper, resets, enable>>
      BY <3>1 DEF RP_SetMasterTrigger, Command
    <3> QED
      BY <3>2, <3>3, Zenon
  <2> QED
    BY <2>1 DEF Done
<1> QED
  BY <1>1, <1>2, <1>3, <1>4, <1>5
     DEF Next, Server, vars, config, PinChanges, SequenceStep, RP_SetServerMode,
         RP_DAC_SetRampingFast, RP_DAC_SetEnableRamping, RP_DAC_SetEnableRampDown,
         RP_SetInstantResetMode, ClearRampDown, Command

\* Every step that gives a reason for a ramp down is seen by the history.
LEMMA WasAskedStep ==
    ASSUME TypeOK, WasAsked, [Next]_vars
    PROVE  WasAsked'
<1> USE DEF resets
<1>1. CASE Tick
  <2>1. /\ down' = down /\ (seqDown' => seqDown)
        /\ asked \/ ~stateOutputOn' => asked'
    BY <1>1 DEF Tick, config
  <2> QED
    BY <2>1 DEF WasAsked, startRampDown
<1>2. CASE SequenceStep
  <2>1. UNCHANGED <<down, stateOutputOn>> /\ (asked \/ seqDown' => asked')
    BY <1>2 DEF SequenceStep, config
  <2> QED
    BY <2>1 DEF WasAsked, startRampDown
<1>3. CASE RP_DAC_SetEnableRampDown
  <2>1. UNCHANGED <<seqDown, stateOutputOn>> /\ (asked \/ down' => asked')
    BY <1>3 DEF RP_DAC_SetEnableRampDown, Command
  <2> QED
    BY <2>1 DEF WasAsked, startRampDown
<1>4. CASE ClearRampDown
  <2>1. UNCHANGED <<seqDown, stateOutputOn>> /\ ~down' /\ (seqDown \/ ~stateOutputOn => asked')
    BY <1>4 DEF ClearRampDown
  <2> QED
    BY <2>1 DEF WasAsked, startRampDown
<1>5. CASE UNCHANGED <<down, seqDown, stateOutputOn, asked>>
  BY <1>5 DEF WasAsked, startRampDown
<1> QED
  BY <1>1, <1>2, <1>3, <1>4, <1>5
     DEF Next, Server, vars, config, PinChanges, RP_SetServerMode, RP_DAC_SetRampingFast,
         RP_DAC_SetEnableRamping, RP_SetInstantResetMode, RP_DAC_GetRampingStatus,
         RP_SetMasterTrigger, Command

-----------------------------------------------------------------------------
(* The invariant and the results.                                          *)

\* The invariant holds at first: the channel is held in reset.
LEMMA Initially == Init => IInv
<1> SUFFICES ASSUME Init
             PROVE  IInv
  OBVIOUS
<1>1. /\ P * Unit \in Nat /\ P * Unit >= 1 /\ P \in Nat \ {0} /\ Hold \in Nat /\ Gap \in Nat
      /\ Hold >= 5 /\ Gap > Hold
  BY Sizes
<1>2. TypeOK
  <2>1. /\ acc \in 0..(P * Unit - 1) /\ inc \in Incs
        /\ phase \in 0..(P - 1) /\ phasePrev \in 0..(P - 1) /\ top \in 0..(P - 1)
        /\ held \in 0..Hold /\ gap \in 0..Gap
    BY <1>1 DEF Init
  <2>2. /\ state \in States /\ mode \in {"CONFIGURATION", "ACQUISITION"}
        /\ {phaseRising, seqDown, stateOutputOn, stateOutputOnNext,
            fourier_synth_aresetn, pin, trig, armed, enable, down, clearing,
            done, asked} \subseteq BOOLEAN
    BY DEF Init, States
  <2> QED
    BY <2>1, <2>2 DEF TypeOK
<1>3. Pipeline
  BY <1>1 DEF Init, Pipeline, Running
<1>4. Settled /\ Done /\ WasAsked
  BY DEF Init, Settled, Done, WasAsked, startRampDown
<1> QED
  BY <1>2, <1>3, <1>4 DEF IInv

\* Every step keeps the invariant.
LEMMA Preserved ==
    ASSUME IInv, [Next]_vars
    PROVE  IInv'
BY TypeStep, PipelineStep, SettledStep, DoneStep, WasAskedStep DEF IInv

\* The invariant holds in every reachable state; fairness is not needed.
LEMMA Invariance == Spec => []IInv
<1>1. IInv /\ [Next]_vars => IInv'
  BY Preserved
<1> QED
  BY Initially, <1>1, PTL DEF Spec

\* Type correctness: every register keeps its width, above all the phase (below
\* P) and the counter of the reset.
THEOREM TypeCorrect == Spec => []TypeOK
<1>1. IInv => TypeOK
  BY DEF IInv
<1> QED
  BY Invariance, <1>1, PTL

\* A client that has seen rampDownDone finds the output at zero for as long as
\* the trigger is on, whatever the pin, the steps and other commands do.
THEOREM DoneStays == Spec => []DoneStaysZero
<1>1. IInv => DoneStaysZero
  BY DEF IInv, Done, DoneStaysZero, ramp
<1> QED
  BY Invariance, <1>1, PTL

\* While it climbs, the phase grows by at most one in a cycle.
LEMMA ByOne ==
    ASSUME TypeOK, Climbing, Ramper
    PROVE  phase' = phase \/ phase' = phase + 1
<1> DEFINE q == acc \div Unit
<1>1. /\ phase \in Nat /\ acc \in Nat /\ Unit \in Nat \ {0}
      /\ phase * Unit <= acc /\ 4 * acc < (4 * (phase + 1) + 1) * Unit
  BY Sizes DEF TypeOK, Climbing
<1>2. q \in Nat /\ q * Unit <= acc /\ acc < q * Unit + Unit
  BY <1>1, Quotient
<1> HIDE DEF q
<1>3. q * Unit \in Int /\ phase * Unit \in Int
  BY <1>1, <1>2, Multiples
<1>4. q < phase => q * Unit + Unit <= phase * Unit
  BY <1>1, <1>2, Multiples
<1>5. phase + 1 < q => (phase + 1) * Unit + Unit <= q * Unit
  BY <1>1, <1>2, Multiples
<1>6. /\ (phase + 1) * Unit = phase * Unit + Unit
      /\ (4 * (phase + 1) + 1) * Unit = 4 * (phase * Unit) + 5 * Unit
  BY <1>1
<1>7. q = phase \/ q = phase + 1
  BY <1>1, <1>2, <1>3, <1>4, <1>5, <1>6
<1> QED
  BY <1>7 DEF q, Ramper

\* The factor of each state, before and after a step.
LEMMA Factor ==
    ASSUME enable
    PROVE  /\ state = "UP" => ramp = IF phaseRising THEN phase ELSE P
           /\ state = "NORMAL" => ramp = P
           /\ state = "DOWN" => ramp = IF phaseRising THEN P - 1 - phase ELSE 0
           /\ state = "DONE" => ramp = 0
           /\ enable' => /\ state' = "UP" => ramp' = IF phaseRising' THEN phase' ELSE P
                         /\ state' = "NORMAL" => ramp' = P
                         /\ state' = "DOWN" => ramp' = IF phaseRising' THEN P - 1 - phase'
                                                        ELSE 0
                         /\ state' = "DONE" => ramp' = 0
BY DEF ramp

\* what NoJumps says of a step of a running channel
Jumps ==
    IF Wrapping THEN ramp' \in {ramp, IF state = "UP" THEN P ELSE 0}
    ELSE Wrapping' \/ (ramp' - ramp) \in {-1, 0, 1}

\* The factor moves by at most one in a step; it is the cycle in which the phase
\* wraps that phaseRising does not show, and the next has the final value.
LEMMA JumpsStep ==
    ASSUME IInv, [Next]_vars, Running, enable, enable'
    PROVE  Jumps
<1>0. TypeOK /\ Pipeline /\ TypeOK'
  BY TypeStep DEF IInv
<1>1. /\ P \in Nat \ {0} /\ phase \in 0..(P - 1) /\ phasePrev \in 0..(P - 1)
      /\ state \in States /\ phase' \in 0..(P - 1)
  BY <1>0, Sizes DEF TypeOK
<1>2. ramp \in Int
  BY <1>1, Factor DEF States
<1>3. CASE UNCHANGED <<ramper, resets>>
  <2>1. ramp' = ramp
    BY <1>3 DEF ramp, ramper
  <2> QED
    BY <1>2, <2>1 DEF Jumps
<1>4. CASE Tick
  <2>1. Ramper /\ state' = stateNext /\ phasePrev' = phase
    BY <1>4 DEF Tick, Ramper
  <2>2. CASE state \in {"UP", "DOWN"} /\ Climbing
    <3>1. /\ phaseRising /\ phaseRising' /\ phasePrev <= phase
      BY <2>1, <2>2, Rising DEF Climbing
    <3>2. state' = state
      BY <2>1, <2>2, <3>1 DEF stateNext
    <3>3. phase' = phase \/ phase' = phase + 1
      BY <1>0, <2>1, <2>2, ByOne
    <3> QED
      BY <1>1, <2>2, <3>1, <3>2, <3>3, Factor DEF Jumps, Wrapping
  <2>3. CASE state \in {"UP", "DOWN"} /\ Turning
    <3>1. phase' = 0
      <4>1. 4 * acc < 3 * Unit /\ acc \in Nat /\ Unit \in Nat
        BY <1>0, <2>3, Sizes DEF Turning, TypeOK
      <4> QED
        BY <2>1, <4>1, Zero DEF Ramper
    <3>2. CASE phaseRising /\ phase = P - 1 /\ phasePrev = P - 1
      <4>1. state' = state /\ phaseRising'
        BY <1>1, <2>1, <2>3, <3>2, Rising DEF stateNext
      <4>2. P # 1 => Wrapping'
        BY <1>1, <2>1, <3>1, <3>2 DEF Wrapping
      <4>3. P = 1 => ramp' = ramp
        BY <2>3, <3>1, <3>2, <4>1, Factor
      <4> QED
        BY <1>1, <1>2, <3>2, <4>2, <4>3 DEF Jumps, Wrapping
    <3>3. CASE phaseRising /\ phase = 0 /\ phasePrev = P - 1
      <4>1. state' = state
        BY <2>1, <2>3, <3>3 DEF stateNext
      <4>2. CASE P = 1
        <5>1. phaseRising'
          BY <2>1, <3>3, <4>2, Rising
        <5>2. ramp' = ramp
          BY <2>3, <3>1, <3>3, <4>1, <5>1, Factor
        <5> QED
          BY <1>2, <5>2, <3>3, <4>2 DEF Jumps, Wrapping
      <4>3. CASE P # 1
        <5>1. ~phaseRising' /\ Wrapping
          BY <1>1, <2>1, <3>3, <4>3, Rising DEF Wrapping
        <5>2. ramp' = IF state = "UP" THEN P ELSE 0
          BY <2>3, <4>1, <5>1, Factor
        <5> QED
          BY <5>1, <5>2 DEF Jumps
      <4> QED
        BY <4>2, <4>3
    <3>4. CASE ~phaseRising /\ phase = 0 /\ phasePrev = 0
      <4>1. state' = IF state = "UP" THEN "NORMAL" ELSE "DONE"
        BY <2>1, <2>3, <3>4 DEF stateNext
      <4>2. ramp' = ramp
        BY <2>3, <3>4, <4>1, Factor
      <4> QED
        BY <1>2, <3>4, <4>2 DEF Jumps, Wrapping
    <3> QED
      BY <2>3, <3>2, <3>3, <3>4 DEF Turning
  <2>4. CASE state = "NORMAL"
    <3>1. phaseRising /\ phase = 0 /\ phasePrev = 0 /\ acc < Unit
      BY <1>0, <2>4 DEF Pipeline
    <3>2. phaseRising'
      BY <2>1, <3>1, Rising
    <3>3. phase' = 0
      BY <1>0, <2>1, <3>1, Zero, Sizes DEF Ramper, TypeOK
    <3>4. state' \in {"NORMAL", "DOWN"}
      BY <2>1, <2>4 DEF stateNext
    <3>5. ramp = P /\ ramp' \in {P, P - 1}
      BY <1>1, <2>4, <3>2, <3>3, <3>4, Factor
    <3>6. P - P = 0 /\ (P - 1) - P = -1
      BY <1>1
    <3>7. ramp' - ramp \in {-1, 0, 1}
      BY <3>5, <3>6
    <3> QED
      BY <3>1, <3>7 DEF Jumps, Wrapping
  <2>5. CASE state = "DONE"
    <3>1. state' = "DONE"
      BY <2>1, <2>5 DEF stateNext
    <3>2. ramp = 0 /\ ramp' = 0
      BY <2>5, <3>1, Factor
    <3> QED
      BY <3>2 DEF Jumps
  <2> QED
    BY <1>0, <1>1, <2>2, <2>3, <2>4, <2>5 DEF Pipeline, Course, States
<1> QED
  BY <1>3, <1>4, Apart

\* The output of a channel that runs with ramping enabled never jumps, except in
\* the one cycle in which the phase wraps.
THEOREM NoJumps == Spec => JumpsOnlyWhenItWraps
<1>1. IInv /\ [Next]_vars => (Running /\ enable /\ enable' => Jumps)
  BY JumpsStep
<1>2. IInv /\ [Next]_vars =>
        [Running /\ enable /\ enable' =>
           IF Wrapping THEN ramp' \in {ramp, IF state = "UP" THEN P ELSE 0}
           ELSE Wrapping' \/ (ramp' - ramp) \in {-1, 0, 1}]_vars
  BY <1>1 DEF Jumps
<1> QED
  BY Invariance, <1>2, PTL DEF Spec, JumpsOnlyWhenItWraps

\* A ramp that ends has been at the last value of the phase.
LEMMA WholeStep ==
    ASSUME IInv, [Next]_vars, Running, state \in {"UP", "DOWN"}, state' # state
    PROVE  top = P - 1
<1>1. Tick
  BY Apart DEF ramper
<1>2. TypeOK /\ Course /\ Ramper /\ Phase
  BY <1>1 DEF IInv, Pipeline, Course, Tick
<1> QED
  BY <1>2, CourseStep

\* A ramp that ends by itself, not by a reset, went through all values of the
\* phase, also one asked to turn down before the ramp up had ended.
THEOREM RampsAreWhole == Spec => WholeRamps
<1>1. IInv /\ [Next]_vars =>
        [Running /\ state \in {"UP", "DOWN"} /\ state' # state => top = P - 1]_vars
  BY WholeStep
<1> QED
  BY Invariance, <1>1, PTL DEF Spec, WholeRamps

\* A channel begins to ramp down only if one of the reasons holds.
LEMMA AskedStep ==
    ASSUME IInv, [Next]_vars, state # "DOWN", state' = "DOWN"
    PROVE  asked
<1>1. Ramper /\ state \in States
  BY Apart DEF Tick, ramper, IInv, TypeOK
<1>2. Running /\ stateNext = "DOWN"
  BY <1>1 DEF Ramper
<1>3. startRampDown
  BY <1>1, <1>2 DEF stateNext, States
<1> QED
  BY <1>3 DEF IInv, WasAsked

\* A ramp down begins only when it was asked for since the trigger was switched
\* off: no request is left over from the acquisition before.
THEOREM DownWasAsked == Spec => RampDownWasAsked
<1>1. IInv /\ [Next]_vars => [state # "DOWN" /\ state' = "DOWN" => asked]_vars
  BY AskedStep
<1> QED
  BY Invariance, <1>1, PTL DEF Spec, RampDownWasAsked
=============================================================================
