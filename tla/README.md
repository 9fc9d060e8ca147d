# A formal model of RedPitayaDAQServer

TLA+ modules that model the server's control logic and the FPGA logic it talks
to, TLC configurations that check them on small instances, and proofs that TLAPS
checks for every value of the constants. Paths are relative to the repository
(`src/server/...`, `src/lib/...`, `src/fpga/...`, `src/client/...`, `docs/src/...`).

## 1. The system

A RedPitaya runs a C server beside an FPGA image. A client (Julia or Python)
opens two sockets: SCPI text commands on one, binary data (samples, look-up
tables) on the other.

| part | code | state it keeps | operations |
|---|---|---|---|
| main thread | `server/daq_server_scpi.c` | `clifd`, `newdatasockfd`, `pComm`, `pControl`, the two running flags, `serverMode` | accept both sockets of a client, end and join the threads of the last one, create new ones |
| communication thread | `server/communication.c` | `transmissionState`, `reqWP`, `numSamples`, `chunkSize`, `userspaceBuffer` | receive and run commands, send samples, clean up when the client leaves |
| SCPI handlers | `server/scpi_commands.c` | none of their own | check the mode, parse, call the library or the sequence engine |
| sequence engine (control thread) | `server/control.c` | `configSeq`, `activeSequence`, `seqState`, `currentSetSlowDACStepTotal`, `lastStep`, `prevInterval`, `err.lostSteps` | prepare, set and clear a sequence, keep the FPGA's table filled ahead of its pointer, end the run |
| hardware library | `lib/rp-daq-lib.c` | the mapped registers, `calib` | register accesses, calibration record and EEPROM |
| FPGA | `fpga/hdl`, `fpga/cores` | write pointer of the sample ring, step pointer and table of the slow DAC, trigger, counter trigger, limiter | sample, play the table, delay a trigger, limit the output |
| Julia client | `client/julia/src` | the two sockets, cached settings and calibration, the sequences it built | queries, batches, uploads of sequences, `readSamples`, cluster trigger |
| logging, GUI, build files, images | `server/logger.c`, ... | | not modelled |

Interactions. The control thread and the handlers (on the communication thread)
share every global of `control.c` and the registers without a lock. The
communication thread runs handlers also *inside* a transmission, when a write
would block (`writeAll` polls the command socket) and between the chunks of a
pipelined one. The FPGA moves its two pointers at all times, and both threads
only poll them. Main takes a new connection while the threads of the last one
may still be ending. The client matches replies to commands by their order alone,
and the tables of a sequence to its commands by their length alone.

What is hard: the two threads filling one table through static variables; a
pointer that restarts when the trigger does, while the statics keep their
values; samples overwritten while they are copied; commands that arrive inside a
transmission; threads that outlive their connection and work on descriptors the
kernel has given to the next one; a power failure while the calibration is
written; a trigger that must fire in phase in whatever cycle it is armed; writers
of several boards that must not be reset in the middle of a burst; an output that
must ramp, and not jump, whenever it is told to stop; a word of several fields
that two threads load, change and store; a reply that is late, a line that comes
in parts, a client that leaves in the middle of an upload; registers computed
from one another.

Correctness of each part, in a sentence: the sequence engine plays every entry
of the play list at its step, or reports it; the transmission sends each
requested sample once, in order and framed as the client expects, or reports it;
each connection is served by its own threads on its own sockets; the stored
calibration changes as a whole or not at all and the outputs follow it; the
counter trigger fires at one and the same distance from the last edge; a cluster
starts and stops in step without cutting a burst off; an output that ramps goes
through the whole ramp and stays at zero once it is there; a call of the client
gets the reply to its own command, and a sequence it uploaded with success is the
one the server plays; a thread that changes a field of a shared word leaves the
others, so that whatever ends a sequence or a session leaves the outputs silent;
a step takes the time the server believes, at a decimation that is never zero.

## 2. Modules

| module | models | lines of code it stands for |
|---|---|---|
| `SequenceSteps` | step arithmetic of a sequence: interval of a step, value to play, `isFirstStepOfInterval`; `PlayList` is the reference definition | `control.c` |
| `SlowDAC` | the sequence engine: control thread, handlers that configure, FPGA pointer | `control.c`, `scpi_commands.c`, `sequence_stepper.v` |
| `SamplePlan` | layout of the data socket for a request | `Acquisition.jl` |
| `SampleStream` | abstract promise of a transmission | |
| `Transmission` | communication thread while it sends, the ring, and handlers in it | `communication.c`, `scpi_commands.c`, `axis_ram_writer.v` |
| `ServerLifecycle` | main, communication and control threads, sockets and descriptors over successive connections | `daq_server_scpi.c`, `communication.c`, `control.c` |
| `CounterTrigger` | the Verilog module cycle by cycle and its handlers | `counter_delayed_trigger.v`, `rp-daq-lib.c`, `scpi_commands.c` |
| `CalibrationStore` | abstract promise of the EEPROM | |
| `Calibration` | calibration record, EEPROM, registers and amplitudes, power failures and restarts | `rp-daq-lib.c`, `scpi_commands.c` |
| `ClusterTrigger` | reset managers and sample writers of a chain of boards, their trigger handlers, and the cluster calls of the Julia client | `reset_manager.v`, `axis_ram_writer.v`, `scpi_commands.c`, `rp-daq-lib.c`, `Cluster.jl` |
| `SignalRamp` | the ramping factor of one fast DAC channel cycle by cycle, its resets and its handlers | `signal_ramper.v`, `signal_ramp.tcl`, `reset_manager.v`, `scpi_commands.c`, `DAC.jl` |
| `SequenceCell` | one cell of the sequence table, as the library writes its fields and the FPGA reads them | `rp-daq-lib.c`, `control.c`, `sequence_slice.v` |
| `ClientSession` | a Julia client and the receive loop at the two ends of both sockets: queries, batches, uploads of sequences | `RedPitayaDAQServer.jl`, `Sequence.jl`, `communication.c`, `scpi_commands.c` |
| `SharedWords` | words that two threads load, modify and store: the components of the fast DACs and the status byte, with both threads that do so | `rp-daq-lib.c`, `control.c`, `communication.c`, `scpi_commands.c`, `daq_server_scpi.c` |
| `Decimation` | decimation, FIR filter and the lengths of a step, which are computed from one another | `rp-daq-lib.c`, `scpi_commands.c` |
| `SlowDAC_proofs`, `Transmission_proofs`, `ServerLifecycle_proofs`, `Calibration_proofs`, `ClusterTrigger_proofs`, `SignalRamp_proofs`, `SharedWords_proofs`, `Library_proofs` (SequenceCell and Decimation) | theorems | |
| `MC*` | instances for TLC | |

`Transmission` instantiates `SampleStream` and `Calibration` instantiates
`CalibrationStore` with a refinement mapping. `PROJECT.json` maps each
definition to its lines.

### SlowDAC

State: the globals of `control.c` under their own names (shortened: `setTotal`
is `currentSetSlowDACStepTotal`, `cur` and `old` are the two step totals), the
FPGA's table `lut` of `BuffSize` cells, its pointer `ptr` and `trigger`, and for
each thread the locals of a running `setLUTValuesFrom` (`fill`). The control
loop is split at each access to shared state: `CtlCheck`, `CtlStart`, `CtlRead`
(reads the pointer), `CheckLostSteps`, `CtlFinish`, `CtlFill`, `FillStep` (one
step of the table), `CtlFillEnd`, `CtlRest`, `CtlIdle`. A handler that sets a
sequence is `BeginPrepare`, `FillStep("comm")` ..., `PrepareEnd`. The pointer may
move up to `Slip` steps between two reads, so late wake-ups are included. A cell
holds the identity of an entry (sequence, part, position), not its voltages.

Two clients are named. *Careful* configures only at rest and starts only a
sequence that has a table; *Fresh* also lets each sequence run to its end before
it sets the next. Both are constraints on the general client, because the code
accepts more than it handles (section 5).

### Transmission

State: `W`, the FPGA's write pointer as a count of samples (`W % Buff` is the
cell); `tx` (`transmissionState`), `asked` (the request variables), `mode`;
`pc`, `pl`, `calls`, `seg` for the locals of `sendPipelinedDataToClient`,
`sendDataToClient` (the recursion at the end of the ring) and
`sendADCDataToClient` (blocks of `Blk` samples); `flags` (`overwritten`,
`corrupted`). `CopySample` copies one sample and the FPGA may write between any
two. `WriteSample` is a socket that takes data; `WriteBlocked` is one that does
not, in which case `writeAll` runs a handler. `stream` is what the client
receives, `overrun` the largest number of newer samples in the ring over a
sample that was copied.

### ServerLifecycle

State: `fds`, the descriptor table (lowest free number first, as the kernel
assigns them); the globals of `daq_server_scpi.c`; a program counter for main
and for the communication thread of every connection; the control threads. Main
is split at each access to a global another thread uses. A thread that survives
its connection works on the globals as they are then. There are two `clifd`: the
global one, which main assigns and replies are written to, and the static one of
`communication.c` (`commClifd`), which every communication thread sets as it
starts, reads from and closes. The signal is stopped by the communication thread
that is told to end (`CommStop`) and by the control thread as it ends
(`ControlEnd`, its `cleanUpSlowDAC`).

### CounterTrigger

`Tick` is one clock edge: all registers take new values from old ones, in the
order of the Verilog blocks. The handlers write registers between two ticks, two
writes for the pulse-like ones (`SecondWrite`), `WriteTime` ticks apart or more.
The source is a pin or the sign of an ADC channel whose edges are
`MinGap..MaxGap` ticks apart.

### Calibration

State: the record in the EEPROM, the cached record, the record a handler is
writing (`params`), the offset, limit and amplitude registers, and the amplitude
the client asked for. A set or reset is `StartsWriting` and then
`WriteAndApply(end, got)`, `PowerCycle(end, got)` or `RestartServer(end, got)`:
`end` is how far the write came and `got` how far the read that follows it, in
the order of the fields of `rp_calib_params_t`, from nothing (the file was not
opened) to the whole record. The two fail independently, the handler uses neither
result, and a start may fail to read, too. Some of these failures do harm that the
code does not prevent; `Harmless(end, got)` are the others, and the history `lost`
marks that one of the first kind has happened. `lost` is not a restriction of the
behaviours: the code goes on, and the properties say what is promised until a
power cycle or a reset goes well. Floats are
integers in units of 1 V / `Full`, so comparisons and clipping are exact and the
truncation to 16 bits is left out.

### ClusterTrigger

State: per board its configuration register by bit (`cfg`), `stateOutputOn`, and
the writer of its samples (`fifo`, `addr`, `wvalid`: words waiting, words written,
a burst under way); the server's mode and the place of its handler (`pc`,
`wp_old` for the loop in `setKeepAliveReset` that waits for the write pointer to
rest); and `calls`, the rounds of commands the client has still to make. A call
on a cluster is a list of rounds, and a round ends when every board in it has
answered. A board that is in TRANSMISSION when a round reaches it refuses it.
What a register write changes in the FPGAs (the trigger state along the chain,
the reset of a writer) takes a few cycles that no command observes, so it is part
of the step that writes the register (`Settles`). The three setups are the
`ClusterTriggerSetup`s of the client; a device triggers the master in
`MASTER_EXTERNAL`.

The *careful* client begins a call when no board transmits any more, and its
device changes the trigger line between calls, with no writer kept alive when the
trigger begins and every one when it ends.

### SignalRamp

`Tick` is a cycle of the 125 MHz clock: the state machine, the pipeline of phases
(`acc`, `phase`, `phasePrev`, `phaseRising`), the reset manager's flags of the
instant reset (`stateOutputOn`, `stateOutputOnNext`) and the reset of the channel
all take the values their inputs had before. Between two ticks come the pin, the
steps of the sequence (`seqDown`) and the handlers; a handler takes at least
`Gap` cycles, longer than a reset is held (`Hold`). RP:TRIGger OFF is two
actions, since the ramp-down flag is cleared after the trigger. `done` is what a
client concludes from `rampDownDone`.

### SequenceCell

`SlowDAC` takes a cell for the entry written into it, all channels at once.
`SequenceCell` is the layer below: eight 16-bit words, written field by field
with read-modify-write calls, of which the FPGA cuts out values and flags. The
resync bit of a fast channel lies in the word of its value, so that a negative
value sets it. No run uses the module; its theorems hold for every content of a
cell and every step, and are the reason why the abstraction is sound.

### ClientSession

State of the client: the list `todo` of the steps its call has left (send a line,
write a table, take a reply), `awaiting`, the commands whose replies it has still
to take, `asked` and `ok` for an upload. Between the two: `wire` (lines), `data`
(units of table data, known by the sequence, table and place they were written
for) and `replies`. State of the server: the first part of a line the parser
holds (`buf`), the handler of an upload that blocks in `readAll` (`reading`), the
mode, the number of channels, and the sequences `conf` and `active` as the data
their tables were read from. `Timeout` is the timer that closes the channel of a
reply while the task that reads the socket stays; `Pause` is the empty read at
which `SCPI_Input` is called without data, which the parser takes for the end of
a command; `HangUp` may come at any step of a call. The configured sequence and
the parser are kept over a reconnect, as in the code.

The *careful* client uploads only if the server's channel count is the one of its
sequence, and does not upload again after an upload that was refused, nor after
one that a client before it broke off (`left`: only the server can still clear
what is in `configSeq`). `sequence!` does neither for it: section 5 says what
happens to other clients.

### SharedWords

State: the fields `mem` of the shared words; per thread the list `todo` of writes
it has left and `reg`, what it has loaded and not yet stored. `Load` copies the
whole word, `Store` one access of it: the two 32-bit halves of a component in
either order, the status byte at once. What the threads do around their writes
(the commands, a transmission that clears `overwritten`, the end of a connection,
main that joins, the control loop with `cleanUpSlowDAC`) is in the places `comm`
and `control`. The *careful* client sets outputs only while no sequence runs or
waits for the trigger, and lets a prepared sequence start before it takes the
trigger back.

### Decimation

State: the registers `cfg + 2`, bit 7 of `cfg + 1`, `cfg + 4` and `cfg + 12`, the
server's `numSamplesPerStep` and the mode. One action per handler; a number is cut
to 16 bits before it is checked, and a product to the width of an `int`. No run
uses the module, since what is said of it holds for any numbers and is proved.

## 3. Runs

| run | client | properties | shows |
|---|---|---|---|
| `slowdac` | Careful | `FillsAreExclusive`, `WindowMatchesPlayList`, `PlaysThePlayList`, `NeverCutShort`, `SequenceEnds`, `SkippedFromZeroAreFlagged` | the unlocked statics are never used by both threads at once; every step in the filled window is the play list's; the FPGA plays the play list as long as it does not pass the window; no run is ended by the end of another sequence and each ends; skipped steps are flagged |
| `transmission_safe` | any | `LargeOverrunIsFlagged`, `OnlyWrittenSamples`, `CopiesInBounds`, `StopIsFinal` | the sending loops under every command that can run inside them |
| `transmission_quiet` | sends no competing requests | `KeepsThePromise`, `TransmissionEnds`, `ThreadCanBeJoined` | refinement of `SampleStream`; ends; can be joined in every wait |
| `lifecycle_orderly` | orderly | `LastThreadsEnded`, `ServesOneClient`, `NoDescriptorLeft`, `DialledIsServed` | handover between connections |
| `lifecycle_reconnect` | any | `LastThreadsEnded` violated | a thread outlives its connection |
| `counter_trigger` | careful | `FiresInPhase`, `StaysFired`, `ArmedFires` | phase and liveness of the trigger |
| `cluster_careful` | careful | `BurstsComplete`, `InStep`, `StartsFresh`, `StopStops` | no writer is reset in a burst, boards sample in step from a reset pointer, and a stop ends on every board |
| `ramp_any` | any | `DoneStaysZero`, `JumpsOnlyWhenItWraps`, `WholeRamps`, `RampDownWasAsked` | ramps are whole, jump only in one known cycle, and stay down |
| `calibration_careful` | careful | `RestartChangesNothing`, `OutputsAreInScale`, `StoresAtomically` | refinement of `CalibrationStore`, and a cache and registers that a restart does not change, under power failures and under writes and reads of the EEPROM that fail each on its own |
| `session` | careful | `RepliesMatch`, `LateRepliesAreOlder`, `UploadIsMeant`, `CallsReturn`, `LeftIsReplaced` | replies belong to the commands they are taken for, and after a timeout at worst to earlier ones; an uploaded sequence is the one the client meant; calls return and a client that left is replaced |
| `outputs` | careful | `OnlyMeantChanges`, `EndIsSilent`, `NewClientFindsSilence`, `LeavingSilences` | no store puts an old value of an output back, also with stopTx in both threads at once; the end of a sequence or a session leaves the outputs at zero |
| `outputs_flags` | any | `LostStepsStay` violated | a request for data can wipe out a `lostSteps` that is raised at the same time |

The modules state some properties that no run lists: a `TypeOK` in the modules
that have one, `TransmissionModeIsServing` and `PipelineKeepsRequest` (proved
instead, theorems `ModeFollowsTransmission` and `PipelinedRequestIsKept`), the
properties of Decimation (proved), and those section 5 names because the code
does not have them.

Deadlock is checked except where the model may stop: when the process has gone
down or the pointer has reached `MaxStep` (SlowDAC), when all `MaxConn`
connections were used (ServerLifecycle), and when a reply that was lost to a pause
within a line would be given up by a timer and `MaxFaults` is used up
(ClientSession).

### Bounds

- SlowDAC: `BuffSize = 3`, `Lookahead = 2`, `Slip = 3`, `MaxStep = 8`. A
  sequence has four to six steps, more than the ring, so cells are reused; a slip of a whole ring makes every late wake-up occur; `MaxStep`
  lets the pointer pass the end of the longest sequence. The regular part has two
  steps and two repetitions, a ramp one step, and each ramp may be missing.
- Transmission: a ring of four, blocks of two. Requests of four from pointer 3
  cross the end of the ring; those of six (quiet) cross it twice. `MaxW` is 8 or
  10: at least two turns of the ring, so a sample can be overwritten twice.
  Chunks include 0 (answered with nothing), a divisor and a non-divisor.
- ServerLifecycle: three connections (four in the orderly run): a thread of the
  first can meet the threads of the second while the third dials.
- CounterTrigger: a counter of twelve values with edges 8 or 9 cycles apart, so it
  wraps soon after the edges stop counting; references 1 and 4, presamples 0
  and 2.
- Calibration: five settable fields, of every kind that has code of its own on
  the DAC's side and one of the ADC's; `Full = 2`, so that an offset of 2 is in
  range with a scale of 1 and out of range with a scale of 2. A write can end
  before the first byte, after the id, after the flags, between any two fields that
  are set, and at the end; a read before the first byte, after the flags and some of
  the values, and at the end. `FailsAgain = FALSE`: after a failure that does
  harm the next commands succeed, until that one is mended, since nothing is
  promised in between (without the bound, on two settable fields, the same
  properties hold; the proofs do not need it). There is no bound on the length
  of a behaviour.
- ClusterTrigger: two boards, a master and a slave; bursts of two words and at
  most three words after a trigger, so that a stop finds a whole burst, half a
  burst or one and a half; all three setups. Three rounds are the longest call.
- SignalRamp: a phase of three values, each held for eight or four cycles (ramps
  of 0.27 ms and longer), a reset held for five cycles (16 and more in the
  hardware) and commands eight cycles apart. The counts are small but in the
  order of the real ones, which is what the properties depend on: a reset is held
  longer than the pipeline is deep, and a command takes longer than a reset.
- ClientSession: two sequences of one and two channels, one with an enable table
  and one with a ramp, so that each lacks a table the other leaves behind; two
  queries and a batch of two lines; at most four lines without a pause, which
  lets two calls overlap after a timeout; two faults, so that a second one can
  hit what the first left behind (a timeout and then a client that hangs up in
  the middle of an upload, for instance).
- SharedWords: two components with two amplitudes and two signal types. A race is
  between two threads on one word, and the second component makes stopTx a list.
  There is no bound on the length of a behaviour.

### Fairness

- SlowDAC: weak fairness of the control thread, of a handler that has begun, and
  of the pointer while the trigger is on (`Progress`): two threads of a
  preemptive scheduler, and a clock. None is assumed of commands.
- Transmission: weak fairness of what the thread does without a command. That
  the client reads and that the trigger is on are hypotheses of
  `TransmissionEnds` and not of `ThreadCanBeJoined`.
- ServerLifecycle: weak fairness per thread; of clients only that one that
  opened its command socket opens its data socket.
- CounterTrigger: the clock ticks, and a handler does its second write.
- ClusterTrigger: weak fairness of each server's handlers, of each writer, and of
  the end of a transmission (see `TransmissionEnds` of Transmission). None of the
  client or of the device.
- SignalRamp: the clock ticks.
- ClientSession: weak fairness of the client's task in a call, of the thread, and
  of main that accepts a client that dials. Nobody has to call, to time out or to
  hang up.
- SharedWords: weak fairness of both threads, on two processors of a preemptive
  scheduler. No command and no connection is assumed.

## 4. Proofs

A theorem holds for every value of the constants, a run for one instance. The
inductive invariants below were first checked by TLC on the instances of section
3 and on smaller or larger ones. Only the initial state and the steps enter the
proofs: fairness is not used.

`SlowDAC_proofs` holds for every ring, every lookahead that fits into it, every
set of shapes of sequences, and a pointer that may slip by any number of steps.
That a cell holds its step is not inductive: what a fill leaves valid depends on
where it began, on how far the one before it came and on what the other thread
can do meanwhile. `IInv` has `TypeOK` and

- `Exclusion`: which thread may fill in which mode and state of the sequence;
- `Pointer`: the control thread is behind the FPGA, within the same run;
- `Active`, `EndIsAhead`: a readied sequence has its table, and the end that is
  compared with is not one of an earlier sequence;
- `Filling`: nothing of a fill is written yet, or everything from where it began;
- `Window`: the steps the ring holds, at each place of the two threads;
- `Ahead`: a fresh run is set a lookahead ahead of the last pointer handled.

Theorems, all for the careful client: `TypeCorrect`, `OneFillAtATime`,
`WindowIsWritten`, `PlayListIsPlayed`, `EndIsNeverCutShort` (under `MaxStep <
IntMax`: the code takes INT_MAX for "no end known"), `SkippedStepsAreFlagged`. They rest
on `ExpectedIsEntry`: `setLUTValuesFor` (interval, base step and modulo) computes the
entry that the reference `PlayList` has at that place, for every sequence.

`Transmission_proofs` holds for every ring size, block size and request.
`CopiesInBounds`, the flags and the written samples are not inductive: that the
copy of a block stays in the ring depends on how the segment was cut, which
depends on what the pipelined sender asked for. The inductive invariant `IInv`
therefore adds to `TypeOK`:

- `Control`: which kind of request is served at each place of the code;
- `Locals`: how far a pipelined request and its current chunk have come;
- `Blocks`, `OneTurn`: counters of the block loop are ordered, and the segment
  lies in one turn of the ring;
- `Written`: the calls still to be made and the current segment end at or
  before the write pointer;
- `Overruns`: an overrun of more than a block has been flagged, or the check
  that flags it is still to come and will.

Theorems: `TypeCorrect`, `LargeOverrunsAreFlagged`, `CopiesStayInBounds`,
`SendsOnlyWrittenSamples`, `ModeFollowsTransmission`, `PipelinedRequestIsKept`,
`StoppedStaysStopped` (an action property).

`PromiseIsKept` is the refinement: under a quiet client the thread implements
`SampleStream`. `IInv` says how much is sent, not in which order, so a second
invariant, `Layout`, places the thread in the plan of the request. For a pipelined
one it counts the complete frames (`Frames`, `Base`) and how far the current one
has come; for both kinds, `Ahead` and `Carry` say that the open block and the pending
calls carry on from the last sample sent, without a gap or an overlap, up to the part
that was waited for, also when a call is split in two at the end of the ring. It
holds as long as nobody gave up the request (`Uncut`); a request that was cut is
never revived (`QuietCommand`). `InFrame` and `AfterFrame` are the arithmetic: the
item the plan has at a place, computed there with a quotient by the frame length, is
the one the sender's counters stand at. Then every step appends the next item of
the plan (`SampleInPlan`, `TrailerInPlan`), begins or ends a request, or sends nothing
(`NothingSent`).

`ServerLifecycle_proofs` holds for any number of connections of orderly clients.
The thread of one connection, the control threads of two and main pass globals to
each other (`clifd`, `newdatasockfd`, two flags, two thread ids), and the kernel
hands out the lowest free descriptor, so a number that was closed early is soon
somebody else's. `IInv` has `TypeOK`, `OneThread` (at most one communication
thread is alive, and main is past its join only when there is none), `Joins` (who
cleared the control thread's flag joins it, and nobody else), `Sockets` (every
open descriptor has one owner) and `Calling` (the one client that dials: while
main looks at `commThreadRunning`, a thread that is alive still has it set). The
last one is where the orderly client is needed: `lifecycle_reconnect` shows what
happens without it. `Signal` adds that a signal is on only while a control thread
runs. Theorems: `TypeCorrect`, `ThreadsHaveEnded`, `OneClientIsServed`,
`DescriptorsAreClosed`, and `SignalIsOff`: when the threads of a connection are
created, the signal of the last one is off (`docs/src/architecture.md:26`), also
when its `recv` failed and only the control thread that main joins has stopped it.

`Calibration_proofs` holds for every set of values clients may set, every `Full`,
and a write and a read that end at any place of the record, as often as they like.
The inductive invariant is `Records` (all three records have their type; unless a
failure did harm, the cached one is the validation of the EEPROM's; the one
being written is the cached one, the cached one with one field set, or the
default) with `TypeOK` and `Registers` (while no harm is done, offsets are in range
in the cached and the requested record and the registers are those the cached
record gives; outputs are in scale always). The heart is `TornReset` and
`TornSet`: since the flags are written before the values, and values that are not
flagged are the defaults, a record cut off anywhere is read as the old one or the
new one. `NoHarmIsDone` carries that over to the handler: after a set that was
written in part and read back, what it has cached and applied is what the next
start will read, although it asked for neither result; `ResetMends` that a reset
that goes well ends the harm of an earlier failure. Theorems: `RecordsAgree`,
`CalibrationIsStored` (the refinement: initial states map to initial states, each
step to a step or a stutter), `CalibrationTypes`, `RestartIsHarmless`,
`OutputsKeepScale`.

`ClusterTrigger_proofs` holds for a chain of any length, bursts of any size and
every setup. The state of a trigger is a recursive function along the chain.
`AllOff` and `AllFollow` show by induction that it is the same for every board:
off while the constructor still builds the chain, and afterwards that of the
first (`TriggersTogether`). The invariant follows the rounds of commands of a call
over all servers: `Rounds` (what is left of the call), `Chain` (registers),
`Alike` (the servers are in one mode but for a round that changes it, so that
they accept or refuse a stop alike), `Handlers`, `KeptAlive` (what a stop has
done so far), and `Writers` (a writer that does not run is reset; the others have
taken equally many words, and a burst under way has all its words). Theorems, for
the careful client: `TypeCorrect`, `NoBurstIsCut`, `PointersAgree`, `BeginsFresh`,
`TriggersTogether`, and `AliveBeforeClear`, which is what the documentation of
`masterTrigger!` promises (section 5 has the client for which it fails).

`SignalRamp_proofs` holds for every width of phase and accumulator, every set of
increments that stay at least four cycles at a phase, and every reset of five
cycles or more that ends before the next command. `phaseRising` sees the phase two
cycles late, so the properties of a ramp need what the registers in between hold:
`Climbing` (phase and `phasePrev` are less than one value behind the accumulator;
this is where the four cycles are needed), `Turning` (the three cycles from the
wrap of the accumulator to the fall of `phaseRising`, each with its contents), and
`Pipeline` (one of the two in UP and DOWN, zeros in NORMAL, and what a reset has
emptied after each of its cycles, so that a ramp starts at zero). `TurnsAtTheTop`
is the heart: when the accumulator wraps, both phases are at the last value, so the
ramp was whole. `Settled` counts the cycles since the last command against those
of the reset; with it a client that saw `rampDownDone` saw a channel that is out of
its reset (`Done`). Theorems: `TypeCorrect`, `DoneStays`, `NoJumps`,
`RampsAreWhole`, `DownWasAsked`.

The part of `Library_proofs` about SequenceCell needs no invariant: its theorems are
about what the setters return for any cell. Each setter has a lemma that says what it changes and what it
leaves (`ValueWritten`, `EnableWritten`, `ResyncWritten`, `RampDownWritten`), and
`StepIsDecoded` chains them in the order of `setLUTValuesFor`: the FPGA takes the
clipped value and the flags of the step written last from the channel, whatever
the cell held, and the other channels are as they were. `StopLeaves` and
`ClearLeaves` say what stopTx and CLEAR do to a cell, including what they leave
(section 5); `RampDownIsNotReadBack` that the getter of the ramp-down bit reads
other bits than its setter writes.

`SharedWords_proofs` holds for any number of components, amplitudes and signal
types. That a store undoes nothing is a statement about what was loaded earlier,
so the inductive invariant `IInv` speaks of the registers: a register holds what
the memory holds but for the field its write is for (`RegistersAreCurrent`), and a
half that was stored is in the memory (`StoredIsThere`). A store of the other
thread would break the first if it wrote the neighbouring field. It does not,
because of where the threads can be at the same time (`ControlIsSafe`,
`CommIsSafe`): while the control thread stops outputs a sequence is running or its
thread is ending, and then the careful client writes no output, so that all the
communication thread may do to one is to stop it too (lemma `NoConflict`).
`StoppedAreSilent` follows stopTx along its list. Theorems: `Invariance`, `Meant`
(no store puts an old value back), `EndSilences`, `NewClientInSilence`.

The part about Decimation holds for every number a client may send and every width of
an `int`. The invariant is the types and that the decimation is an accepted one:
then it is even, at least 8 and at most 8192, so that `setFIREnabled`, which
ignores the answer of `setDecimation`, finds its value accepted again, and no
`getSamplesPerStep` divides by zero (`RateAccepted`). The filter can be switched
while samples are taken without a change of the rate (`SwitchKeepsTheRate`), and
the ticks of a step agree with `numSamplesPerStep` until a client changes the
decimation or asks for a product that no `int` holds, at either end
(`StepsAgreeUntil`).

The proofs rest on the assumptions named in the modules: positive ring, block and
burst sizes, a lookahead that fits into the ring, natural counts and bounds; integer
values, a positive full scale; a list of components and natural values; a chain of
at least one board; the increments and the reset of SignalRamp as above.

The library states induction for an operator, which the provers cannot be given.
Where a proof needs it, it is stated for a set (`Reached` of
`ClusterTrigger_proofs`) and follows from the well-foundedness of the natural
numbers.

Only model-checked: everything under fairness (`SequenceEnds`, `StopStops`,
`ArmedFires`, `CallsReturn`, `LeavingSilences` and the like), since the provers
have no rules for `ENABLED`; ClientSession and CounterTrigger. That the fixed bounds
of section 3 stop the models (`MaxStep`, `MaxConn`, `MaxWords`) is part of the
theorems too: they hold for every value of each bound.

## 5. Where the code and its documentation disagree

Checked by a run that finds the violation:

- `daq_server_scpi.c:279` `commThreadRunning` is cleared before the thread has
  ended (`lifecycle_reconnect`; comment at line 278).
- `communication.c:252` a request for data clears and sets two bits of the status
  byte by load, modify and store, while the control thread on the other processor
  raises `lostSteps` in the same byte: the store takes it back (`outputs_flags`;
  `docs/src/generation.md:28`).

In the models, without a run of its own (a property in parentheses is stated in
the module, and violated there or without the constraint that excludes the case):

- `communication.c:232` the pointers are compared once per block, before its copy,
  so that an overrun of a block or less goes out unflagged (`OverrunIsFlagged`;
  `docs/src/acquisition.md:15`);
- `reset_manager.v:261` with the trigger off and ramping enabled, the pin of the
  instant reset takes the channel out of its reset, and the generator ramps up
  (`PinKeepsOff`; `docs/src/connections.md:11`);
- an upload that was refused leaves its table on the data socket, where the next
  upload takes it for its own, and one that was broken off leaves its tables in
  `configSeq`, which survives a reconnect (`scpi_commands.c:52`): a later
  `sequence!` can return true for a sequence with tables the client did not send
  (`left`: `UploadIsMeant` and `CallsReturn` fail without that condition of the
  careful client);
- the server takes the size of a table from its own channel count
  (`scpi_commands.c:1118`), the client from its sequence (`Sequence.jl:280`), and
  `sequence!` does not compare the two, on a connection without any fault. A sequence of
  two channels sent to a server with one returns true with half of each table
  taken, the rest left on the socket (`UploadIsMeant`). A sequence of one channel sent to a
  server with two never returns: `readAll` (`scpi_commands.c:41`) waits for the other
  half, and the client for the reply, without a timeout (`Sequence.jl:294`;
  `CallsReturn`). Both fail without the condition `asked'.chans = chans` of the
  careful client, who calls `seqChan!` first;
- a reply that comes after its query ran into its timeout stays on the socket
  (`RedPitayaDAQServer.jl:94`), and every later call takes the reply to the one
  before (`LateRepliesAreOlder` bounds the damage);
- a command that arrives in two parts with a pause is taken for two commands, of
  which the first is cut (`communication.c:419`), and the first part a client left
  behind is completed by the next client's line (`cut`);
- a client that sets an output while the control thread stops a sequence can have
  its value taken back, or take back that of stopTx (`OnlyMeantChanges` without
  the careful client);
- `control.c:274` `setSequence` fills from step 0 without resetting
  `currentSetSlowDACStepTotal`; after an earlier run nothing is written
  (`PlaysThePlayList` of SlowDAC, which holds for *Fresh*; `docs/src/scpi.md:42`);
- `rp-daq-lib.c:50` the offset of channel 1 is returned for channel 2, so that a
  limit of channel 2 does not bound its voltage (`LimitBoundsVoltage`;
  `EEPROM.jl:70`);
- `scpi_commands.c:997` a server in TRANSMISSION refuses the keep-alive reset, and
  the client sends the master's stop all the same (`KeptAliveFirst`;
  `Cluster.jl:175`);
- `masterTrigger!(rpc, false)` with a `MASTER_EXTERNAL` master leaves the trigger
  on, and the writers it released are cut off when the device ends it
  (`Stopping` excludes the setup);
- at the end of a ramp the factor jumps to its other end for one cycle, because
  `phaseRising` shows the wrap of the phase one cycle late (`Wrapping`;
  `signal_ramper.v:72`, `docs/src/generation.md:15`);
- a ramp down asked for while a ramp up of less than 0.27 ms ends is cut: the
  phases of the ramp up are still in the pipeline (`RampAssumption`);
- `stopTx` stops five channels (`rp-daq-lib.c:1429`) of six
  (`docs/src/generation.md:2`): the last PDM output keeps the value in the table;
  CLEAR zeroes four (`control.c:100`) and enables all (`StopLeaves`,
  `ClearLeaves`);
- `getRampDownDAC` (`rp-daq-lib.c:725`) reads the value of channel 4, not the
  ramp-down word (`RampDownIsNotReadBack`);
- RAMPing is accepted in every mode (`scpi_commands.c:184`), not in CONFIGURATION
  only (`docs/src/scpi.md:32`);
- a simple request accepted inside a simple transmission is answered true, and
  overwritten with IDLE when that one ends (`communication.c:161`; `Finish`);
- the step the pointer stands on when the fill is exactly exhausted is not
  counted as lost (`control.c:380`), and the pointer of the last run takes part
  in the comparison of the next (`control.c:376`);
- the control thread divides by `numSamplesPerStep` (`control.c:331`), which is 0
  until a client sets it, and the register with the ticks of a step keeps its value
  when the decimation changes (`rp-daq-lib.c:832`; `StepsAgreeUntil`);
- CLEAR of a prepared sequence frees its tables and keeps it prepared
  (`control.c:95`): the next trigger reads freed memory (`crashed`);
- ramp-down bits stay in the table after a run (`rp-daq-lib.c:1411`);
- MODE CONFIGURATION with the trigger on lets a handler and the control thread
  fill the table at once; *Careful* excludes it;
- performance data can be requested inside a transmission, and then lies between
  its samples;
- the two sockets main accepts may be of two clients
  (`daq_server_scpi.c:297`), and the trigger stays on between connections
  (`communication.c:410`, commented out);
- counter trigger: presamples above the reference wrap the threshold; a reset
  keeps the last count; a negative sample counts as an edge after enabling;
- calibration: a scale that takes the offset out of range leaves the offset
  register as it was until a restart (`KeepsOffset` excludes it); a first write
  over foreign data, or a set after a reset that was cut off, can bring stale
  values into force if it is cut off in turn (`MayBeCut` excludes both); the
  waveform of channel 2 is scaled with the scale of channel 1
  (`rp-daq-lib.c:549`);
- the results of the write and of the read-back of the calibration are not used
  (`scpi_commands.c:1575`), so that every set or reset is answered with success. What
  was written in part is found by the read-back; the cases that are not caught
  set `lost`. After a good write and a failed read-back the EEPROM is new and cache
  and registers are old: a restart changes them, and the next set, built from the
  old cache, writes the old value back (`RestartNeverChanges`, which the code
  violates; `RestartChangesNothing` is the same until such a failure). Over foreign
  data a write that fails and a read-back that succeeds put values into the cache that
  nothing has validated (`calib_Init` of a handler, unlike that of `init`, is not followed
  by `calib_validate`); a reset whose write is cut off is cached in part; and a start
  that cannot read its record takes the defaults, or a part of the record, which the
  next set then writes.

## 6. Not modelled

The watchdog, the alive signal and the continuous mode of the reset manager;
floating point values, waveforms, the FIR filter and the analog path; the
averages and extremes of the performance data, and the logger; the parser library,
which is a submodule; GUI, examples and firmware images; the Python client. In
SharedWords the rest of `stopTx` is left out: the waveforms, which it overwrites
as a whole, and the cells of the table, which are in SequenceCell (what two
threads that write one cell at once can leave there is not modelled). The client
is modelled by the commands it sends and, for samples, by the layout it reads.

Most of the lines of the repository are not this program: the Linux image contains
the sources of an interpreter and its widgets (`linux-image/kitgen`), which this
program does not use. The models cover the server, the parts of the
library and the FPGA that keep state, and the client's side of each protocol.
Getters and setters of one register are one assignment with a range check, and
are modelled where another component depends on the register.

## 7. Plan

1. The reads of a cluster: `readSamples` of several boards, and the order in which
   the tasks of the client empty the data sockets (`Acquisition.jl`, `Cluster.jl`).
2. SlowDAC composed with ServerLifecycle, and Calibration with SlowDAC.
3. Proofs, in this order: the types and `StaysFired` of CounterTrigger;
   `RepliesMatch` of ClientSession.
