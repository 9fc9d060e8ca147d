----------------------------- MODULE Transmission -----------------------------
(***************************************************************************)
(* The communication thread (communication.c) with the SCPI handlers of    *)
(* scpi_commands.c that start, stop and interleave with a transmission of  *)
(* samples, the FPGA that writes samples into a ring buffer in the         *)
(* meantime (axis_ram_writer.v), and the client at the two sockets.        *)
(*                                                                         *)
(* The thread polls the command socket in three places: its main loop,     *)
(* after every chunk of a pipelined transmission, and inside writeAll when *)
(* the data socket would block.  There the handlers run re-entrantly, in   *)
(* the middle of the transmission whose state they change.  An action is   *)
(* the code between two accesses to what the FPGA, the client or the       *)
(* accepting thread can change: the write pointer, the sockets and         *)
(* commThreadRunning.                                                      *)
(*                                                                         *)
(* Abstracted: sample values (a copied sample is right or overwritten),    *)
(* byte offsets within a sample, log output.  The write pointer counts     *)
(* samples from the start of the acquisition and is not reset here: the    *)
(* trigger cannot be switched in TRANSMISSION mode.                        *)
(***************************************************************************)
EXTENDS SamplePlan

CONSTANTS
    Buff,      \* ADC_BUFF_SIZE: samples in the ring buffer
    Blk,       \* userspaceSizeSamples: samples copied at a time
    Pointers,  \* read pointers a client asks for
    Counts,    \* numbers of samples a client asks for
    Chunks,    \* chunk sizes a client asks for
    MaxW,      \* bound: largest write pointer explored
    MaxItems   \* bound: performance data is asked for up to this many items

ASSUME SizesArePositive == Buff \in Nat \ {0} /\ Blk \in Nat \ {0}

ASSUME RequestsAreNat ==
    Pointers \subseteq Nat /\ Counts \subseteq Nat /\ Chunks \subseteq Nat

ASSUME BoundsAreNat == MaxW \in Nat /\ MaxItems \in Nat

VARIABLES
    W,           \* getTotalWritePointer()
    mode,        \* serverMode
    tx,          \* transmissionState
    asked,       \* reqWP, numSamples, chunkSize as the last accepted request
    running,     \* commThreadRunning
    connected,   \* the client is still at the other end of both sockets
    pc,          \* where the communication thread is
    pl,          \* locals of sendPipelinedDataToClient
    calls,       \* pending calls of sendDataToClient (its recursion)
    seg,         \* locals of sendBufferedSamplesToClient
    flags        \* err.overwritten, err.corrupted

VARIABLES
    serving,     \* history: the request being served
    stream,      \* history: what the client received of it, or before it
    overrun      \* history: the most samples by which a copied one was too late

txVars   == <<tx, asked, mode>>
sendVars == <<pl, calls, seg, flags>>
hist     == <<serving, stream, overrun>>
vars     == <<W, mode, tx, asked, running, connected, pc, pl, calls, seg, flags,
              serving, stream, overrun>>

Smaller(a, b) == IF a < b THEN a ELSE b
Larger(a, b)  == IF a < b THEN b ELSE a

NoPl  == [sent |-> 0, part |-> 0, want |-> 0, clear |-> TRUE]
NoSeg == [wp |-> 0, num |-> 0, sent |-> 0, blk |-> 0, copied |-> 0,
          written |-> 0, corrupt |-> FALSE]

\* the arguments of a call of sendDataToClient
DataCall(wp, num, clear) == [wp |-> wp, num |-> num, clear |-> clear]

\* serving as the pipelined sender's arguments
Total     == serving.num
ChunkNow  == Smaller(serving.num - pl.sent, serving.chunk)
\* mutant: forgets the part of the chunk that is sent
ReadWPOfChunk == serving.wp + pl.sent
ReadWP    == serving.wp + pl.sent + pl.part

\* the condition of every sending loop
Sending == running /\ tx # "IDLE"

-----------------------------------------------------------------------------
Init ==
    /\ W = 0
    /\ mode \in {"CONFIGURATION", "ACQUISITION"}
    /\ tx = "IDLE" /\ asked = NoRequest
    /\ running = TRUE /\ connected = TRUE
    /\ pc = "recv"
    /\ pl = NoPl /\ calls = <<>> /\ seg = NoSeg
    /\ flags = [overwritten |-> FALSE, corrupted |-> FALSE]
    /\ serving = NoRequest /\ stream = <<>> /\ overrun = 0

-----------------------------------------------------------------------------
(* SCPI handlers: run wherever the thread polls the command socket.        *)

\* mutant: without the check of the mode
RP_ADC_GetDataAnyMode(wp, num) ==
    /\ asked' = [kind |-> "SIMPLE", wp |-> wp, num |-> num, chunk |-> 0]
    /\ tx' = "SIMPLE"
    /\ UNCHANGED <<mode, stream>>

RP_ADC_GetData(wp, num) ==
    /\ mode = "ACQUISITION"
    /\ asked' = [kind |-> "SIMPLE", wp |-> wp, num |-> num, chunk |-> 0]
    /\ tx' = "SIMPLE"
    /\ UNCHANGED <<mode, stream>>

RP_ADC_GetPipelinedData(wp, num, chunk) ==
    /\ mode = "ACQUISITION"
    /\ asked' = [kind |-> "PIPELINE", wp |-> wp, num |-> num, chunk |-> chunk]
    /\ tx' = "PIPELINE"
    /\ UNCHANGED <<mode, stream>>

RP_ADC_StopData ==
    /\ tx' = "IDLE"
    /\ UNCHANGED <<asked, mode, stream>>

RP_SetServerMode ==
    /\ mode # "TRANSMISSION"
    /\ mode' \in {"CONFIGURATION", "ACQUISITION"} \ {mode}
    /\ UNCHANGED <<tx, asked, stream>>

\* writeAll sends the performance data only while a transmission runs
RP_GetPerformance ==
    /\ Len(stream) < MaxItems
    /\ stream' = IF Sending /\ connected THEN Append(stream, Perf) ELSE stream
    /\ UNCHANGED txVars

Command ==
    \/ \E wp \in Pointers, num \in Counts : RP_ADC_GetData(wp, num)
    \/ \E wp \in Pointers, num \in Counts, chunk \in Chunks :
           RP_ADC_GetPipelinedData(wp, num, chunk)
    \/ RP_ADC_StopData
    \/ RP_SetServerMode
    \/ RP_GetPerformance

-----------------------------------------------------------------------------
(* communicationThread: the main loop.                                     *)

\* rc > 0: run the handlers, then look at the transmission state
Receive ==
    /\ pc = "recv" /\ running /\ connected
    /\ Command
    /\ pc' = "dispatch"
    /\ UNCHANGED <<W, running, connected, sendVars, serving, overrun>>

\* SCPI_Input runs every command of the buffer before the state is looked at
ReceiveMore ==
    /\ pc = "dispatch" /\ connected
    /\ Command
    /\ UNCHANGED <<W, running, connected, pc, sendVars, serving, overrun>>

\* rc < 0: the thread leaves its loop and commThreadRunning as it is
ReceiveFailed ==
    /\ pc = "recv" /\ running /\ ~connected
    /\ pc' = "done"
    /\ UNCHANGED <<W, txVars, running, connected, sendVars, hist>>

\* rc == 0: the client closed the command socket
ReceiveClosed ==
    /\ pc = "recv" /\ running /\ ~connected
    /\ running' = FALSE
    /\ UNCHANGED <<W, txVars, connected, pc, sendVars, hist>>

Exit ==
    /\ pc = "recv" /\ ~running
    /\ pc' = "done"
    /\ UNCHANGED <<W, txVars, running, connected, sendVars, hist>>

DispatchIdle ==
    /\ pc = "dispatch" /\ tx = "IDLE"
    /\ pc' = "recv"
    /\ UNCHANGED <<W, txVars, running, connected, sendVars, hist>>

DispatchSimple ==
    /\ pc = "dispatch" /\ tx = "SIMPLE"
    /\ calls' = <<DataCall(asked.wp, asked.num, TRUE)>>
    /\ pc' = "call"
    /\ serving' = asked /\ stream' = <<>>
    /\ UNCHANGED <<W, txVars, running, connected, pl, seg, flags, overrun>>

DispatchPipeline ==
    /\ pc = "dispatch" /\ tx = "PIPELINE"
    /\ mode' = "TRANSMISSION"
    /\ pl' = NoPl
    /\ pc' = "chunk"
    /\ serving' = asked /\ stream' = <<>>
    /\ UNCHANGED <<W, tx, asked, running, connected, calls, seg, flags,
                   overrun>>

\* transmissionState = IDLE after either sender returned
Finish ==
    /\ pc = "finish"
    /\ tx' = "IDLE"
    /\ pc' = "recv"
    /\ serving' = NoRequest /\ stream' = <<>> /\ overrun' = 0
    /\ UNCHANGED <<W, asked, mode, running, connected, sendVars>>

-----------------------------------------------------------------------------
(* sendPipelinedDataToClient.                                              *)

\* the outer loop, and the mode it restores on leaving it
ChunkLoop ==
    /\ pc = "chunk"
    /\ IF pl.sent < Total /\ serving.chunk > 0 /\ Sending
       THEN pc' = "part" /\ UNCHANGED <<mode, pl>>
       ELSE pc' = "finish" /\ mode' = "ACQUISITION" /\ pl' = NoPl
    /\ UNCHANGED <<W, tx, asked, running, connected, calls, seg, flags, hist>>

\* the inner loop: how much to wait for
PartLoop ==
    /\ pc = "part"
    /\ IF pl.part < ChunkNow /\ Sending
       THEN /\ pl' = [pl EXCEPT !.want = Smaller(Blk, ChunkNow - pl.part)]
            /\ pc' = "wait"
       ELSE pc' = "status" /\ UNCHANGED pl
    /\ UNCHANGED <<W, txVars, running, connected, calls, seg, flags, hist>>

\* mutant: a thread told to stop waits on
WaitIsOverWritten == ReadWP + pl.want < W

\* a thread told to stop leaves the wait without samples
WaitIsOver == ReadWP + pl.want < W \/ ~running

\* mutant: the whole rest of the chunk
AvailableChunk  == ChunkNow - pl.part

\* MIN(writeWP - readWP, chunk - sendSamples) of unsigned numbers: a negative
\* difference wraps around and the minimum is the rest of the chunk
Available == IF W < ReadWP THEN ChunkNow - pl.part
             ELSE Smaller(W - ReadWP, ChunkNow - pl.part)

WaitEnd ==
    /\ pc = "wait" /\ WaitIsOver
    /\ calls' = <<DataCall(ReadWP, Available, pl.clear)>>
    /\ pl' = [pl EXCEPT !.part = @ + Available, !.clear = FALSE]
    /\ pc' = "call"
    /\ UNCHANGED <<W, txVars, running, connected, seg, flags, hist>>

\* writeAll of a whole item: nothing if the loop condition fails or the
\* client is gone; otherwise the item arrives
Write(item) ==
    stream' = IF Sending /\ connected THEN Append(stream, item) ELSE stream

SendStatus ==
    /\ pc = "status"
    /\ Write(Status)
    /\ pc' = "perf"
    /\ UNCHANGED <<W, txVars, running, connected, sendVars, serving, overrun>>

SendPerformance ==
    /\ pc = "perf"
    /\ Write(Perf)
    /\ pl' = [pl EXCEPT !.part = 0, !.clear = TRUE, !.sent = @ + ChunkNow]
    /\ pc' = "poll"
    /\ UNCHANGED <<W, txVars, running, connected, calls, seg, flags, serving,
                   overrun>>

\* the commands that wait after a chunk
PollCommand ==
    /\ pc = "poll" /\ connected
    /\ Command
    /\ UNCHANGED <<W, running, connected, pc, sendVars, serving, overrun>>

PollNothing ==
    /\ pc = "poll"
    /\ pc' = "chunk"
    /\ UNCHANGED <<W, txVars, running, connected, sendVars, hist>>

-----------------------------------------------------------------------------
(* sendDataToClient.                                                       *)

Call == Head(calls)

\* mutant: one sample too far
SizeToEndAndOne(wp) == Buff - (wp % Buff) + 1

\* size1: the samples from wp to the end of the ring
SizeToEnd(wp) == Buff - (wp % Buff)

\* flags, then either the buffered send or, across the end of the ring, two
\* calls of its own
SendData ==
    /\ pc = "call" /\ calls # <<>>
    /\ LET size1 == SizeToEnd(Call.wp)
           late  == W - Call.wp > Buff
           kept  == ~Call.clear /\ flags.overwritten
       IN  /\ flags' = [overwritten |-> late \/ kept,
                        corrupted   |-> ~Call.clear /\ flags.corrupted]
           /\ IF Call.num <= size1
              THEN /\ seg' = [NoSeg EXCEPT !.wp = Call.wp, !.num = Call.num]
                   /\ calls' = Tail(calls)
                   /\ pc' = "block"
              ELSE /\ calls' = <<DataCall(Call.wp, size1, FALSE),
                                 DataCall(Call.wp + size1, Call.num - size1, FALSE)>>
                               \o Tail(calls)
                   /\ UNCHANGED <<seg, pc>>
    /\ overrun' = IF Call.clear THEN 0 ELSE overrun
    /\ UNCHANGED <<W, txVars, running, connected, pl, serving, stream>>

\* the outermost call returns to its caller
SendDataReturn ==
    /\ pc = "call" /\ calls = <<>>
    /\ pc' = IF serving.kind = "PIPELINE" THEN "part" ELSE "finish"
    /\ UNCHANGED <<W, txVars, running, connected, sendVars, hist>>

-----------------------------------------------------------------------------
(* sendBufferedSamplesToClient.                                            *)

\* the loop: next block, or set corrupted and return
BlockLoop ==
    /\ pc = "block"
    /\ IF seg.sent < seg.num /\ Sending
       THEN /\ seg' = [seg EXCEPT !.blk = Smaller(seg.num - seg.sent, Blk),
                                  !.copied = 0, !.written = 0]
            /\ pc' = "copy"
            /\ UNCHANGED flags
       ELSE /\ flags' = [flags EXCEPT !.corrupted =
                            @ \/ (~flags.overwritten /\ seg.corrupt)]
            /\ pc' = "call"
            /\ seg' = NoSeg
    /\ UNCHANGED <<W, txVars, running, connected, pl, calls, hist>>

\* copySamplesToBuffer, one sample; the ring cell of sample n holds sample
\* n + Buff once the write pointer is beyond that
CopySample ==
    /\ pc = "copy" /\ Sending /\ seg.copied < seg.blk
    /\ seg' = [seg EXCEPT !.copied = @ + 1]
    /\ overrun' = Larger(overrun, W - (seg.wp + seg.sent + seg.copied + Buff))
    /\ UNCHANGED <<W, txVars, running, connected, pc, pl, calls, flags, serving,
                   stream>>

\* mutant: each block's check replaces that of the blocks before
CopyEndLastBlock ==
    /\ pc = "copy" /\ (seg.copied = seg.blk \/ ~Sending)
    /\ seg' = [seg EXCEPT !.corrupt = W > seg.wp + seg.sent + seg.blk + Buff]
    /\ pc' = "write"
    /\ UNCHANGED <<W, txVars, running, connected, pl, calls, flags, hist>>

\* the check after the copy compares with the end of the block
CopyEnd ==
    /\ pc = "copy" /\ (seg.copied = seg.blk \/ ~Sending)
    /\ seg' = [seg EXCEPT !.corrupt =
                  @ \/ W > seg.wp + seg.sent + seg.blk + Buff]
    /\ pc' = "write"
    /\ UNCHANGED <<W, txVars, running, connected, pl, calls, flags, hist>>

\* writeAll: send a sample ...
WriteSample ==
    /\ pc = "write" /\ Sending /\ connected /\ seg.written < seg.copied
    /\ stream' = Append(stream, Sample(seg.wp + seg.sent + seg.written))
    /\ seg' = [seg EXCEPT !.written = @ + 1]
    /\ UNCHANGED <<W, txVars, running, connected, pc, pl, calls, flags, serving,
                   overrun>>

\* ... or find the socket full, also before the status byte or the performance
\* data, and run a waiting command ...
WriteBlocked ==
    /\ \/ pc = "write" /\ seg.written < seg.copied
       \/ pc \in {"status", "perf"}
    /\ Sending /\ connected
    /\ Command
    /\ UNCHANGED <<W, running, connected, pc, sendVars, serving, overrun>>

\* mutant: a block whose send failed is tried again
WriteEndRetry ==
    /\ pc = "write" /\ (seg.written = seg.copied \/ ~Sending \/ ~connected)
    /\ seg' = IF connected THEN [seg EXCEPT !.sent = @ + seg.blk] ELSE seg
    /\ pc' = "block"
    /\ UNCHANGED <<W, txVars, running, connected, pl, calls, flags, hist>>

\* ... until all is sent, the loop condition fails, or send fails; in each
\* case the block counts as sent
WriteEnd ==
    /\ pc = "write" /\ (seg.written = seg.copied \/ ~Sending \/ ~connected)
    /\ seg' = [seg EXCEPT !.sent = @ + seg.blk]
    /\ pc' = "block"
    /\ UNCHANGED <<W, txVars, running, connected, pl, calls, flags, hist>>

-----------------------------------------------------------------------------
(* The environment of the thread.                                          *)

\* the FPGA writes a sample
FPGAWrite ==
    /\ W < MaxW
    /\ W' = W + 1
    /\ UNCHANGED <<txVars, running, connected, pc, sendVars, hist>>

Disconnect ==
    /\ connected /\ connected' = FALSE
    /\ UNCHANGED <<W, txVars, running, pc, sendVars, hist>>

\* the accepting thread got a new connection (daq_server_scpi.c)
TakeOver ==
    /\ running /\ running' = FALSE
    /\ UNCHANGED <<W, txVars, connected, pc, sendVars, hist>>

Comm ==
    \/ Receive \/ ReceiveMore \/ ReceiveClosed \/ ReceiveFailed \/ Exit
    \/ DispatchIdle \/ DispatchSimple \/ DispatchPipeline \/ Finish
    \/ ChunkLoop \/ PartLoop \/ WaitEnd
    \/ SendStatus \/ SendPerformance \/ PollCommand \/ PollNothing
    \/ SendData \/ SendDataReturn
    \/ BlockLoop \/ CopySample \/ CopyEnd
    \/ WriteSample \/ WriteBlocked \/ WriteEnd

Terminated == pc = "done" /\ UNCHANGED vars

Next == Comm \/ FPGAWrite \/ Disconnect \/ TakeOver \/ Terminated

Spec == Init /\ [][Next]_vars

-----------------------------------------------------------------------------
(* Clients and fairness.                                                   *)

\* a step that runs a handler: no local of the senders changes
Asks == /\ pc \in {"recv", "dispatch", "write", "status", "perf", "poll"}
        /\ pc' \in {pc, "dispatch"}
        /\ seg' = seg

\* A client that asks for performance data and further transmissions only
\* between two transmissions; it may stop one or change the mode at any time.
QuietClient == Asks => /\ stream' = stream
                       /\ serving # NoRequest => asked' = asked

\* what the thread does without a command: it is always scheduled, and the
\* client does not flood the command socket
Unprompted ==
    \/ ReceiveClosed \/ Exit
    \/ DispatchIdle \/ DispatchSimple \/ DispatchPipeline \/ Finish
    \/ ChunkLoop \/ PartLoop \/ WaitEnd
    \/ SendStatus \/ SendPerformance \/ PollNothing
    \/ SendData \/ SendDataReturn
    \/ BlockLoop \/ CopySample \/ CopyEnd
    \/ WriteEnd

ThreadIsScheduled == WF_vars(Unprompted)
ClientReads       == WF_vars(WriteSample)
TriggerIsOn       == WF_vars(FPGAWrite)

QuietNext == Next /\ QuietClient

QuietSpec == Init /\ [][QuietNext]_vars /\ ThreadIsScheduled

-----------------------------------------------------------------------------
(* Properties.                                                             *)

Kinds   == {"SIMPLE", "PIPELINE"}
Request == [kind : {"IDLE"} \cup Kinds, wp : Nat, num : Nat, chunk : Nat]
Item    == [kind : {"sample", "status", "perf"}, at : Nat]

PipelineLocals == [sent : Nat, part : Nat, want : Nat, clear : BOOLEAN]
DataArgs       == [wp : Nat, num : Nat, clear : BOOLEAN]
BlockLocals    == [wp : Nat, num : Nat, sent : Nat, blk : Nat, copied : Nat,
                   written : Nat, corrupt : BOOLEAN]
Flags          == [overwritten : BOOLEAN, corrupted : BOOLEAN]

\* The values each variable takes.
TypeOK ==
    /\ W \in Nat
    /\ mode \in {"CONFIGURATION", "ACQUISITION", "TRANSMISSION"}
    /\ tx \in {"IDLE"} \cup Kinds
    /\ asked \in Request
    /\ running \in BOOLEAN /\ connected \in BOOLEAN
    /\ pc \in {"recv", "dispatch", "chunk", "part", "wait", "call", "block",
               "copy", "write", "status", "perf", "poll", "finish", "done"}
    /\ pl \in PipelineLocals
    /\ calls \in Seq(DataArgs)
    /\ seg \in BlockLocals
    /\ flags \in Flags
    /\ serving \in Request
    /\ stream \in Seq(Item)
    /\ overrun \in Nat

\* When the status byte goes out, a chunk with a sample that the FPGA had
\* overwritten by more than a block of others when it was copied carries
\* overwritten or corrupted (the checks of sendDataToClient before and of
\* sendBufferedSamplesToClient after each block, over split calls).
LargeOverrunIsFlagged ==
    (pc = "status" /\ overrun > Blk) => flags.overwritten \/ flags.corrupted

\* The same for every overwritten sample: docs/src/acquisition.md, "If during
\* the transmission the requested samples are overwritten the `corrupted`
\* flag is set."
OverrunIsFlagged ==
    (pc = "status" /\ overrun > 0) => flags.overwritten \/ flags.corrupted

\* A pipelined transmission sends no sample the FPGA has not written yet,
\* whatever part of a chunk it was woken up for.
OnlyWrittenSamples ==
    serving.kind = "PIPELINE" =>
        \A k \in DOMAIN stream : stream[k].kind = "sample" => stream[k].at < W

\* The copy stays inside the mapped ring and inside the userspace buffer: a
\* request that crosses the end of the ring is split there, however often.
CopiesInBounds ==
    pc \in {"copy", "write"} =>
        /\ (seg.wp % Buff) + seg.sent + seg.blk <= Buff
        /\ seg.blk <= Blk

\* The server is in TRANSMISSION mode exactly while it serves a pipelined
\* request, however the transmission ends: the mode guards of all other
\* handlers rest on it.
TransmissionModeIsServing ==
    (mode = "TRANSMISSION") <=>
        (serving.kind = "PIPELINE" /\ pc # "finish")

\* Once a transmission is stopped nothing more of it is written, and no
\* handler that runs within it restarts it.
StopIsFinal ==
    [][(serving.kind = "PIPELINE" /\ tx = "IDLE" /\ pc # "finish")
         => stream' = stream /\ tx' = "IDLE"]_vars

\* While a pipelined transmission runs no handler replaces its parameters.
PipelineKeepsRequest ==
    (serving.kind = "PIPELINE" /\ tx # "IDLE") => asked = serving

\* What a quiet client receives is what the plan says: each sample once and in
\* order, each chunk followed by its status and performance data, across
\* blocks, partial chunks, the end of the ring and full sockets.
Promise == INSTANCE SampleStream
    WITH request <- serving, out <- stream, cut <- ~(Sending /\ connected)
KeepsThePromise == Promise!Spec

\* With the trigger on and a client that reads, a transmission ends: with all
\* its samples, or because the client or the accepting thread ended it.
TransmissionEnds ==
    (ClientReads /\ TriggerIsOn) => ((serving # NoRequest) ~> (serving = NoRequest))

\* A thread told to stop ends, also in the wait for samples with the trigger
\* off and in front of a client that does not read: main joins it before it
\* serves the next client.
ThreadCanBeJoined == ~running ~> pc = "done"
=============================================================================
