------------------------- MODULE Transmission_proofs -------------------------
(***************************************************************************)
(* Proofs about module Transmission, for every ring, block and request     *)
(* size.  The inductive invariant IInv adds to the types where the thread  *)
(* is in which request (Control), how far the pipelined sender (Locals)    *)
(* and the block loop (Blocks, OneTurn) have come, that what is scheduled  *)
(* to be sent is written (Written), and which check has seen or will still *)
(* see a large overrun (Overruns).  The last section proves that what a    *)
(* quiet client receives is the stream module SampleStream promises.       *)
(***************************************************************************)
EXTENDS Transmission, SequenceTheorems, TLAPS

InSender == {"call", "block", "copy", "write"}
InChunk  == {"part", "wait", "status", "perf"}

Control ==
    /\ pc \in {"recv", "dispatch", "done"} => serving = NoRequest
    /\ pc \in {"chunk", "poll"} \cup InChunk => serving.kind = "PIPELINE"
    /\ pc \in InSender \cup {"finish"} => serving.kind \in Kinds
    /\ tx # "IDLE" => asked.kind = tx

Locals ==
    /\ pc \in InChunk \/ (pc \in InSender /\ serving.kind = "PIPELINE")
         => pl.sent < serving.num /\ pl.part <= ChunkNow
    /\ pc = "wait" => pl.part < ChunkNow
    /\ pc \in {"chunk", "poll"} => pl.part = 0

Blocks ==
    pc \in {"copy", "write"} =>
        /\ seg.sent + seg.blk <= seg.num
        /\ seg.blk <= Blk
        /\ seg.copied <= seg.blk
        /\ seg.written <= seg.copied

\* the segment being sent lies in one turn of the ring
OneTurn == pc \in {"block", "copy", "write"} => (seg.wp % Buff) + seg.num <= Buff

Written ==
    (serving.kind = "PIPELINE" /\ running) =>
        /\ pc \in InSender => \A k \in DOMAIN calls : calls[k].wp + calls[k].num <= W
        /\ pc \in {"block", "copy", "write"} => seg.wp + seg.num <= W

Overruns ==
    overrun > Blk =>
        \/ flags.overwritten \/ flags.corrupted
        \/ pc \in {"block", "copy", "write"} /\ seg.corrupt
        \/ pc = "copy" /\ W > seg.wp + seg.sent + seg.blk + Buff

IInv == /\ TypeOK
        /\ Control
        /\ Locals
        /\ Blocks
        /\ OneTurn
        /\ Written
        /\ Overruns
        /\ TransmissionModeIsServing
        /\ PipelineKeepsRequest
        /\ OnlyWrittenSamples

-----------------------------------------------------------------------------

LEMMA ItemTypes ==
    /\ Status \in Item /\ Perf \in Item
    /\ \A n \in Nat : Sample(n) \in Item
  BY DEF Status, Perf, Sample, Item

LEMMA AppendItem ==
    ASSUME NEW s \in Seq(Item), NEW e \in Item PROVE Append(s, e) \in Seq(Item)
  OBVIOUS

\* The types of the fields of the senders' locals.
LEMMA PipelineFields ==
    ASSUME NEW p \in PipelineLocals
    PROVE  p.sent \in Nat /\ p.part \in Nat /\ p.want \in Nat /\ p.clear \in BOOLEAN
  BY DEF PipelineLocals

LEMMA BlockFields ==
    ASSUME NEW s \in BlockLocals
    PROVE  /\ s.wp \in Nat /\ s.num \in Nat /\ s.sent \in Nat /\ s.blk \in Nat
           /\ s.copied \in Nat /\ s.written \in Nat /\ s.corrupt \in BOOLEAN
  BY DEF BlockLocals

LEMMA FreshLocals == NoPl \in PipelineLocals /\ NoSeg \in BlockLocals
  BY DEF NoPl, NoSeg, PipelineLocals, BlockLocals

\* What a handler leaves of the thread's state, wherever it runs.
LEMMA CommandStep ==
    ASSUME TypeOK, Command, tx # "IDLE" => asked.kind = tx
    PROVE  /\ mode' \in {"CONFIGURATION", "ACQUISITION", "TRANSMISSION"}
           /\ tx' \in {"IDLE"} \cup Kinds
           /\ asked' \in Request
           /\ stream' \in Seq(Item)
           /\ tx' # "IDLE" => asked'.kind = tx'
           /\ (mode' = "TRANSMISSION") <=> (mode = "TRANSMISSION")
           /\ mode = "TRANSMISSION" => asked' = asked /\ tx' \in {tx, "IDLE"}
           /\ stream' = stream \/ (Sending /\ connected /\ stream' = Append(stream, Perf))
  <1>1. CASE \E wp \in Pointers, num \in Counts : RP_ADC_GetData(wp, num)
    BY <1>1, RequestsAreNat DEF RP_ADC_GetData, TypeOK, Request, Kinds
  <1>2. CASE \E wp \in Pointers, num \in Counts, chunk \in Chunks :
                 RP_ADC_GetPipelinedData(wp, num, chunk)
    BY <1>2, RequestsAreNat DEF RP_ADC_GetPipelinedData, TypeOK, Request, Kinds
  <1>3. CASE RP_ADC_StopData
    BY <1>3 DEF RP_ADC_StopData, TypeOK
  <1>4. CASE RP_SetServerMode
    BY <1>4 DEF RP_SetServerMode, TypeOK
  <1>5. CASE RP_GetPerformance
    BY <1>5, ItemTypes, AppendItem DEF RP_GetPerformance, TypeOK, txVars
  <1> QED BY <1>1, <1>2, <1>3, <1>4, <1>5 DEF Command

\* The types hold after every step.
LEMMA TypeStep ==
    ASSUME TypeOK, Control, Locals, [Next]_vars PROVE TypeOK'
  <1> USE DEF txVars, sendVars, hist
  <1>0. /\ pl \in PipelineLocals /\ seg \in BlockLocals /\ serving \in Request
        /\ W \in Nat /\ stream \in Seq(Item)
    BY DEF TypeOK
  <1>b. /\ pl.sent \in Nat /\ pl.part \in Nat /\ pl.want \in Nat
        /\ pl.clear \in BOOLEAN
    BY <1>0, PipelineFields
  <1>c. /\ seg.wp \in Nat /\ seg.num \in Nat /\ seg.sent \in Nat /\ seg.blk \in Nat
        /\ seg.copied \in Nat /\ seg.written \in Nat /\ seg.corrupt \in BOOLEAN
    BY <1>0, BlockFields
  <1>a. /\ serving.num \in Nat /\ serving.chunk \in Nat /\ serving.wp \in Nat
    BY <1>0 DEF Request
  <1>1. CASE Receive \/ ReceiveMore \/ PollCommand \/ WriteBlocked
    BY <1>1, CommandStep
       DEF TypeOK, Receive, ReceiveMore, PollCommand, WriteBlocked, Control
  <1>2. CASE ReceiveClosed \/ ReceiveFailed \/ Exit \/ DispatchIdle
    BY <1>2 DEF TypeOK, ReceiveClosed, ReceiveFailed, Exit, DispatchIdle
  <1>3. CASE DispatchSimple
    BY <1>3 DEF TypeOK, DispatchSimple, DataCall, DataArgs, Request
  <1>4. CASE DispatchPipeline
    <2>1. pl' \in PipelineLocals
      BY <1>4 DEF DispatchPipeline, NoPl, PipelineLocals
    <2> QED BY <1>4, <2>1 DEF TypeOK, DispatchPipeline
  <1>5. CASE Finish
    BY <1>5 DEF TypeOK, Finish, NoRequest, Request
  <1>6. CASE ChunkLoop
    <2>1. pl' \in PipelineLocals
      BY <1>6, <1>0, FreshLocals DEF ChunkLoop
    <2> QED BY <1>6, <2>1 DEF TypeOK, ChunkLoop
  <1>7. CASE PartLoop
    <2>1. CASE pc' = "wait"
      <3>1. pl' = [pl EXCEPT !.want = Smaller(Blk, ChunkNow - pl.part)]
        BY <1>7, <2>1 DEF PartLoop
      <3>2. pl.part < ChunkNow
        BY <1>7, <2>1 DEF PartLoop
      <3>3. ChunkNow \in Int
        BY <1>a, <1>b DEF ChunkNow, Smaller
      <3>4. Smaller(Blk, ChunkNow - pl.part) \in Nat
        BY <3>2, <3>3, <1>b, SizesArePositive DEF Smaller
      <3>5. pl' \in PipelineLocals
        BY <3>1, <3>4, <1>0 DEF PipelineLocals
      <3> QED BY <1>7, <2>1, <3>5 DEF TypeOK, PartLoop
    <2> QED BY <1>7, <2>1 DEF TypeOK, PartLoop
  <1>8. CASE WaitEnd
    <2>0. pc = "wait" /\ pl.sent < serving.num /\ pl.part < ChunkNow
      BY <1>8 DEF WaitEnd, Locals, InChunk
    <2>1. Available \in Nat /\ ReadWP \in Nat
      <3>1. ReadWP \in Nat
        BY <1>a, <1>b DEF ReadWP
      <3>2. ChunkNow - pl.part \in Nat
        BY <2>0, <1>a, <1>b DEF ChunkNow, Smaller
      <3> QED BY <3>1, <3>2, <1>0 DEF Available, Smaller
    <2>2. /\ pl' = [pl EXCEPT !.part = pl.part + Available, !.clear = FALSE]
          /\ calls' = <<DataCall(ReadWP, Available, pl.clear)>>
          /\ pc' = "call"
          /\ UNCHANGED <<W, txVars, running, connected, seg, flags, hist>>
      BY <1>8 DEF WaitEnd
    <2>3. pl' \in PipelineLocals
      <3>1. pl.part + Available \in Nat
        BY <2>1, <1>b
      <3> QED BY <2>2, <3>1, <1>0 DEF PipelineLocals
    <2>4. DataCall(ReadWP, Available, pl.clear) \in DataArgs
      BY <2>1, <1>b DEF DataCall, DataArgs
    <2> QED BY <2>2, <2>3, <2>4 DEF TypeOK
  <1>9. CASE SendStatus
    BY <1>9, ItemTypes, AppendItem DEF TypeOK, SendStatus, Write
  <1>10. CASE SendPerformance
    <2>1. pl.sent + ChunkNow \in Nat
      <3>1. pl.sent < serving.num
        BY <1>10 DEF SendPerformance, Locals, InChunk
      <3> QED BY <3>1, <1>a, <1>b DEF ChunkNow, Smaller
    <2>2. pl' = [pl EXCEPT !.part = 0, !.clear = TRUE, !.sent = pl.sent + ChunkNow]
      BY <1>10 DEF SendPerformance
    <2>3. pl' \in PipelineLocals
      BY <2>1, <2>2, <1>0 DEF PipelineLocals
    <2> QED BY <1>10, <2>3, ItemTypes, AppendItem DEF TypeOK, SendPerformance, Write
  <1>11. CASE PollNothing
    BY <1>11 DEF TypeOK, PollNothing
  <1>12. CASE SendData
    <2>1. Call \in DataArgs /\ Tail(calls) \in Seq(DataArgs)
      BY <1>12 DEF TypeOK, SendData, Call
    <2>2. SizeToEnd(Call.wp) \in Nat
      BY <2>1, SizesArePositive DEF SizeToEnd, DataArgs
    <2>3. flags' \in Flags
      BY <1>12 DEF SendData, Flags
    <2>4. overrun' \in Nat
      BY <1>12 DEF TypeOK, SendData
    <2>5. CASE Call.num <= SizeToEnd(Call.wp)
      <3>1. /\ NoSeg \in BlockLocals /\ Call.wp \in Nat /\ Call.num \in Nat
            /\ seg' = [NoSeg EXCEPT !.wp = Call.wp, !.num = Call.num]
        BY <1>12, <2>1, <2>5 DEF SendData, NoSeg, BlockLocals, DataArgs
      <3>2. seg' \in BlockLocals
        BY <3>1 DEF BlockLocals
      <3> QED BY <1>12, <2>1, <2>3, <2>4, <2>5, <3>2 DEF TypeOK, SendData
    <2>6. CASE ~(Call.num <= SizeToEnd(Call.wp))
      <3> DEFINE size1 == SizeToEnd(Call.wp)
                 first == DataCall(Call.wp, size1, FALSE)
                 rest  == DataCall(Call.wp + size1, Call.num - size1, FALSE)
      <3>1. first \in DataArgs /\ rest \in DataArgs
        BY <2>1, <2>2, <2>6 DEF DataCall, DataArgs
      <3>2. calls' = <<first, rest>> \o Tail(calls)
        BY <1>12, <2>6 DEF SendData
      <3> HIDE DEF first, rest
      <3>3. <<first, rest>> \in Seq(DataArgs)
        BY <3>1
      <3>4. calls' \in Seq(DataArgs)
        BY <2>1, <3>2, <3>3, ConcatProperties
      <3> QED BY <1>12, <2>3, <2>4, <2>6, <3>4 DEF TypeOK, SendData
    <2> QED BY <2>5, <2>6
  <1>13. CASE SendDataReturn
    BY <1>13 DEF TypeOK, SendDataReturn
  <1>14. CASE BlockLoop
    <2>1. CASE pc' = "copy"
      <3> DEFINE len == Smaller(seg.num - seg.sent, Blk)
      <3>1. /\ seg.sent < seg.num
            /\ seg' = [seg EXCEPT !.blk = len, !.copied = 0, !.written = 0]
            /\ flags' = flags
        BY <1>14, <2>1 DEF BlockLoop
      <3>a. len \in Nat
        BY <3>1, <1>c, SizesArePositive DEF Smaller
      <3> HIDE DEF len
      <3>2. seg' \in BlockLocals
        BY <3>1, <3>a, <1>0 DEF BlockLocals
      <3> QED BY <1>14, <3>1, <3>2 DEF TypeOK, BlockLoop
    <2>2. CASE pc' # "copy"
      <3>1. seg' = NoSeg /\ seg' \in BlockLocals
        BY <1>14, <2>2, FreshLocals DEF BlockLoop
      <3>2. flags' \in Flags
        BY <1>14, <2>2, <1>c DEF BlockLoop, TypeOK, Flags
      <3> QED BY <1>14, <3>1, <3>2 DEF TypeOK, BlockLoop
    <2> QED BY <2>1, <2>2
  <1>15. CASE CopySample
    <2>1. seg' = [seg EXCEPT !.copied = @ + 1]
      BY <1>15 DEF CopySample
    <2>a. overrun' = Larger(overrun, W - (seg.wp + seg.sent + seg.copied + Buff))
      BY <1>15 DEF CopySample
    <2>2. seg' \in BlockLocals
      BY <2>1, <1>0 DEF BlockLocals
    <2>3. W - (seg.wp + seg.sent + seg.copied + Buff) \in Int /\ overrun \in Nat
      BY <1>0, <1>c, SizesArePositive DEF TypeOK
    <2>4. overrun' \in Nat
      BY <2>a, <2>3 DEF Larger
    <2> QED BY <1>15, <2>2, <2>4 DEF TypeOK, CopySample
  <1>16. CASE CopyEnd
    <2> DEFINE late == seg.corrupt \/ W > seg.wp + seg.sent + seg.blk + Buff
    <2>1. seg' = [seg EXCEPT !.corrupt = late]
      BY <1>16 DEF CopyEnd
    <2>a. late \in BOOLEAN
      OBVIOUS
    <2> HIDE DEF late
    <2>2. seg' \in BlockLocals
      BY <2>1, <2>a, <1>0 DEF BlockLocals
    <2> QED BY <1>16, <2>2 DEF TypeOK, CopyEnd
  <1>17. CASE WriteSample
    <2>1. seg' = [seg EXCEPT !.written = @ + 1]
      BY <1>17 DEF WriteSample
    <2>2. seg' \in BlockLocals
      BY <2>1, <1>0 DEF BlockLocals
    <2>3. seg.wp + seg.sent + seg.written \in Nat
      BY <1>0, <1>c
    <2> QED BY <1>17, <2>2, <2>3, ItemTypes, AppendItem DEF TypeOK, WriteSample
  <1>18. CASE WriteEnd
    <2>1. seg' = [seg EXCEPT !.sent = @ + seg.blk]
      BY <1>18 DEF WriteEnd
    <2>2. seg' \in BlockLocals
      BY <2>1, <1>0 DEF BlockLocals
    <2> QED BY <1>18, <2>2 DEF TypeOK, WriteEnd
  <1>19. CASE FPGAWrite
    BY <1>19 DEF TypeOK, FPGAWrite
  <1>20. CASE Disconnect \/ TakeOver
    BY <1>20 DEF TypeOK, Disconnect, TakeOver
  <1>21. CASE UNCHANGED vars
    BY <1>21 DEF TypeOK, vars
  <1> QED
    BY <1>1, <1>2, <1>3, <1>4, <1>5, <1>6, <1>7, <1>8, <1>9, <1>10, <1>11,
       <1>12, <1>13, <1>14, <1>15, <1>16, <1>17, <1>18, <1>19, <1>20, <1>21
       DEF Next, Comm, Terminated

\* The thread is in a request exactly where Control says.
LEMMA ControlStep ==
    ASSUME TypeOK, Control, [Next]_vars PROVE Control'
  <1> USE DEF Control, InChunk, InSender, txVars, sendVars, hist
  <1>1. CASE Receive \/ ReceiveMore \/ PollCommand \/ WriteBlocked
    BY <1>1, CommandStep DEF Receive, ReceiveMore, PollCommand, WriteBlocked
  <1>2. CASE ReceiveClosed \/ ReceiveFailed \/ Exit \/ DispatchIdle
    BY <1>2 DEF ReceiveClosed, ReceiveFailed, Exit, DispatchIdle
  <1>3. CASE DispatchSimple \/ DispatchPipeline
    BY <1>3 DEF DispatchSimple, DispatchPipeline, Kinds
  <1>4. CASE Finish
    BY <1>4 DEF Finish
  <1>5. CASE ChunkLoop \/ PartLoop \/ WaitEnd
    BY <1>5 DEF ChunkLoop, PartLoop, WaitEnd, Kinds
  <1>6. CASE SendStatus \/ SendPerformance \/ PollNothing
    BY <1>6 DEF SendStatus, SendPerformance, PollNothing
  <1>7. CASE SendData
    BY <1>7 DEF SendData
  <1>8. CASE SendDataReturn
    BY <1>8 DEF SendDataReturn
  <1>9. CASE BlockLoop \/ CopySample \/ CopyEnd
    BY <1>9 DEF BlockLoop, CopySample, CopyEnd
  <1>10. CASE WriteSample \/ WriteEnd
    BY <1>10 DEF WriteSample, WriteEnd
  <1>11. CASE FPGAWrite \/ Disconnect \/ TakeOver
    BY <1>11 DEF FPGAWrite, Disconnect, TakeOver
  <1>12. CASE UNCHANGED vars
    BY <1>12 DEF vars
  <1> QED
    BY <1>1, <1>2, <1>3, <1>4, <1>5, <1>6, <1>7, <1>8, <1>9, <1>10, <1>11,
       <1>12 DEF Next, Comm, Terminated

\* The server is in TRANSMISSION mode exactly in a pipelined request.
LEMMA ModeStep ==
    ASSUME TypeOK, Control, TransmissionModeIsServing, [Next]_vars
    PROVE  TransmissionModeIsServing'
  <1> USE DEF Control, TransmissionModeIsServing, InChunk, InSender, txVars,
              sendVars, hist
  <1>1. CASE Receive \/ ReceiveMore \/ PollCommand \/ WriteBlocked
    BY <1>1, CommandStep DEF Receive, ReceiveMore, PollCommand, WriteBlocked
  <1>2. CASE ReceiveClosed \/ ReceiveFailed \/ Exit \/ DispatchIdle
    BY <1>2 DEF ReceiveClosed, ReceiveFailed, Exit, DispatchIdle
  <1>3. CASE DispatchSimple \/ DispatchPipeline
    <2>1. /\ pc' # "finish" /\ serving' = asked
          /\ asked.kind = tx /\ serving = NoRequest
      BY <1>3 DEF DispatchSimple, DispatchPipeline
    <2>a. mode # "TRANSMISSION"
      BY <2>1 DEF NoRequest
    <2>2. CASE DispatchSimple
      BY <2>1, <2>a, <2>2 DEF DispatchSimple
    <2>3. CASE DispatchPipeline
      BY <2>1, <2>3 DEF DispatchPipeline
    <2> QED BY <1>3, <2>2, <2>3
  <1>4. CASE Finish
    BY <1>4 DEF Finish, NoRequest
  <1>5. CASE ChunkLoop \/ PartLoop \/ WaitEnd
    BY <1>5 DEF ChunkLoop, PartLoop, WaitEnd
  <1>6. CASE SendStatus \/ SendPerformance \/ PollNothing
    BY <1>6 DEF SendStatus, SendPerformance, PollNothing
  <1>7. CASE SendData
    BY <1>7 DEF SendData
  <1>8. CASE SendDataReturn
    BY <1>8 DEF SendDataReturn
  <1>9. CASE BlockLoop \/ CopySample \/ CopyEnd
    BY <1>9 DEF BlockLoop, CopySample, CopyEnd
  <1>10. CASE WriteSample \/ WriteEnd
    BY <1>10 DEF WriteSample, WriteEnd
  <1>11. CASE FPGAWrite \/ Disconnect \/ TakeOver
    BY <1>11 DEF FPGAWrite, Disconnect, TakeOver
  <1>12. CASE UNCHANGED vars
    BY <1>12 DEF vars
  <1> QED
    BY <1>1, <1>2, <1>3, <1>4, <1>5, <1>6, <1>7, <1>8, <1>9, <1>10, <1>11,
       <1>12 DEF Next, Comm, Terminated

\* No handler replaces the request of a pipelined transmission.
LEMMA RequestStep ==
    ASSUME TypeOK, Control, TransmissionModeIsServing, PipelineKeepsRequest,
           [Next]_vars
    PROVE  PipelineKeepsRequest'
  <1> USE DEF Control, PipelineKeepsRequest, InChunk, InSender, txVars,
              sendVars, hist
  <1>1. CASE Receive \/ ReceiveMore \/ PollCommand \/ WriteBlocked
    <2>1. UNCHANGED serving
      BY <1>1 DEF Receive, ReceiveMore, PollCommand, WriteBlocked
    <2>2. CASE serving.kind = "PIPELINE"
      <3>1. mode = "TRANSMISSION" /\ Command
        BY <1>1, <2>2 DEF Receive, ReceiveMore, PollCommand, WriteBlocked,
                          TransmissionModeIsServing, NoRequest
      <3> QED BY <2>1, <3>1, CommandStep
    <2> QED BY <2>1, <2>2
  <1>2. CASE ReceiveClosed \/ ReceiveFailed \/ Exit \/ DispatchIdle
    BY <1>2 DEF ReceiveClosed, ReceiveFailed, Exit, DispatchIdle
  <1>3. CASE DispatchSimple \/ DispatchPipeline
    BY <1>3 DEF DispatchSimple, DispatchPipeline
  <1>4. CASE Finish
    BY <1>4 DEF Finish
  <1>5. CASE ChunkLoop \/ PartLoop \/ WaitEnd
    BY <1>5 DEF ChunkLoop, PartLoop, WaitEnd
  <1>6. CASE SendStatus \/ SendPerformance \/ PollNothing
    BY <1>6 DEF SendStatus, SendPerformance, PollNothing
  <1>7. CASE SendData
    BY <1>7 DEF SendData
  <1>8. CASE SendDataReturn
    BY <1>8 DEF SendDataReturn
  <1>9. CASE BlockLoop \/ CopySample \/ CopyEnd
    BY <1>9 DEF BlockLoop, CopySample, CopyEnd
  <1>10. CASE WriteSample \/ WriteEnd
    BY <1>10 DEF WriteSample, WriteEnd
  <1>11. CASE FPGAWrite \/ Disconnect \/ TakeOver
    BY <1>11 DEF FPGAWrite, Disconnect, TakeOver
  <1>12. CASE UNCHANGED vars
    BY <1>12 DEF vars
  <1> QED
    BY <1>1, <1>2, <1>3, <1>4, <1>5, <1>6, <1>7, <1>8, <1>9, <1>10, <1>11,
       <1>12 DEF Next, Comm, Terminated

\* The pipelined sender and the block loop stay within their bounds.
LEMMA LocalsStep ==
    ASSUME TypeOK, Control, Locals, [Next]_vars PROVE Locals'
  <1> USE DEF Control, InChunk, InSender, txVars, sendVars, hist
  <1>0. /\ pl.sent \in Nat /\ pl.part \in Nat /\ serving.num \in Nat
        /\ serving.chunk \in Nat /\ serving.wp \in Nat /\ W \in Nat
        /\ pl \in PipelineLocals
    BY PipelineFields DEF TypeOK, Request
  <1>1. CASE \/ Receive \/ ReceiveMore \/ PollCommand \/ WriteBlocked
             \/ ReceiveClosed \/ ReceiveFailed \/ Exit \/ DispatchIdle
    BY <1>1 DEF Receive, ReceiveMore, PollCommand, WriteBlocked, ReceiveClosed,
                ReceiveFailed, Exit, DispatchIdle, Locals, ChunkNow
  <1>2. CASE DispatchSimple \/ DispatchPipeline \/ Finish
    <2>1. CASE DispatchSimple
      BY <2>1 DEF DispatchSimple, Locals
    <2>2. CASE DispatchPipeline
      BY <2>2 DEF DispatchPipeline, Locals, NoPl
    <2>3. CASE Finish
      BY <2>3 DEF Finish, Locals
    <2> QED BY <1>2, <2>1, <2>2, <2>3
  <1>3. CASE ChunkLoop
    <2>1. CASE pc' = "part"
      <3>1. /\ pl.sent < serving.num /\ serving.chunk > 0 /\ serving.kind = "PIPELINE"
            /\ UNCHANGED <<pl, serving>>
        BY <1>3, <2>1 DEF ChunkLoop, Total
      <3>2. pl.part = 0
        BY <1>3 DEF ChunkLoop, Locals
      <3> QED BY <2>1, <3>1, <3>2, <1>0 DEF Locals, ChunkNow, Smaller
    <2>2. CASE pc' # "part"
      BY <1>3, <2>2 DEF ChunkLoop, Locals
    <2> QED BY <2>1, <2>2
  <1>4. CASE PartLoop
    <2>1. CASE pc' = "wait"
      <3>1. /\ pl.part < ChunkNow /\ pl.sent < serving.num
            /\ serving' = serving
            /\ pl' = [pl EXCEPT !.want = Smaller(Blk, ChunkNow - pl.part)]
        BY <1>4, <2>1 DEF PartLoop, Locals
      <3>2. pl'.part = pl.part /\ pl'.sent = pl.sent
        BY <3>1, <1>0 DEF PipelineLocals
      <3>3. ChunkNow' = ChunkNow /\ ChunkNow \in Int
        BY <3>1, <3>2, <1>0 DEF ChunkNow, Smaller
      <3> QED BY <2>1, <3>1, <3>2, <3>3, <1>0 DEF Locals
    <2>2. CASE pc' # "wait"
      BY <1>4, <2>2 DEF PartLoop, Locals, ChunkNow
    <2> QED BY <2>1, <2>2
  <1>5. CASE WaitEnd
    <2>1. /\ pl.part < ChunkNow /\ pl.sent < serving.num
          /\ serving' = serving /\ pc' = "call"
          /\ pl' = [pl EXCEPT !.part = pl.part + Available, !.clear = FALSE]
      BY <1>5 DEF WaitEnd, Locals
    <2>2. ChunkNow \in Int /\ ReadWP \in Int
      BY <1>0 DEF ChunkNow, ReadWP, Smaller
    <2>3. Available \in Int /\ pl.part + Available <= ChunkNow
      BY <2>1, <2>2, <1>0 DEF Available, Smaller
    <2>4. pl'.part = pl.part + Available /\ pl'.sent = pl.sent
      BY <2>1, <1>0 DEF PipelineLocals
    <2>5. ChunkNow' = ChunkNow
      BY <2>1, <2>4 DEF ChunkNow
    <2> QED BY <2>1, <2>3, <2>4, <2>5 DEF Locals
  <1>6. CASE SendStatus \/ SendPerformance \/ PollNothing
    <2>1. CASE SendPerformance
      <3>1. pl' = [pl EXCEPT !.part = 0, !.clear = TRUE, !.sent = pl.sent + ChunkNow]
        BY <2>1 DEF SendPerformance
      <3>2. pl'.part = 0
        BY <3>1, <1>0 DEF PipelineLocals
      <3> QED BY <2>1, <3>2 DEF SendPerformance, Locals
    <2>2. CASE SendStatus \/ PollNothing
      BY <2>2 DEF SendStatus, PollNothing, Locals, ChunkNow
    <2> QED BY <1>6, <2>1, <2>2
  <1>7. CASE SendData \/ SendDataReturn
    BY <1>7 DEF SendData, SendDataReturn, Locals, ChunkNow
  <1>8. CASE BlockLoop \/ CopySample \/ CopyEnd \/ WriteSample \/ WriteEnd
    BY <1>8 DEF BlockLoop, CopySample, CopyEnd, WriteSample, WriteEnd, Locals,
                ChunkNow
  <1>9. CASE FPGAWrite \/ Disconnect \/ TakeOver \/ UNCHANGED vars
    BY <1>9 DEF FPGAWrite, Disconnect, TakeOver, Locals, ChunkNow, vars
  <1> QED
    BY <1>1, <1>2, <1>3, <1>4, <1>5, <1>6, <1>7, <1>8, <1>9
       DEF Next, Comm, Terminated

LEMMA BlocksStep ==
    ASSUME TypeOK, Blocks, [Next]_vars PROVE Blocks'
  <1> USE DEF Blocks, txVars, sendVars, hist
  <1>0. /\ seg.wp \in Nat /\ seg.num \in Nat /\ seg.sent \in Nat /\ seg.blk \in Nat
        /\ seg.copied \in Nat /\ seg.written \in Nat /\ seg \in BlockLocals
    BY BlockFields DEF TypeOK
  <1>1. CASE \/ Receive \/ ReceiveMore \/ PollCommand \/ WriteBlocked
             \/ ReceiveClosed \/ ReceiveFailed \/ Exit \/ DispatchIdle
    BY <1>1 DEF Receive, ReceiveMore, PollCommand, WriteBlocked, ReceiveClosed,
                ReceiveFailed, Exit, DispatchIdle
  <1>2. CASE DispatchSimple \/ DispatchPipeline \/ Finish
    BY <1>2 DEF DispatchSimple, DispatchPipeline, Finish
  <1>3. CASE ChunkLoop \/ PartLoop \/ WaitEnd
    BY <1>3 DEF ChunkLoop, PartLoop, WaitEnd
  <1>4. CASE SendStatus \/ SendPerformance \/ PollNothing
    BY <1>4 DEF SendStatus, SendPerformance, PollNothing
  <1>5. CASE SendData \/ SendDataReturn
    BY <1>5 DEF SendData, SendDataReturn
  <1>6. CASE BlockLoop
    <2> DEFINE len == Smaller(seg.num - seg.sent, Blk)
    <2>1. CASE pc' = "copy"
      <3>1. /\ seg.sent < seg.num
            /\ seg' = [seg EXCEPT !.blk = len, !.copied = 0, !.written = 0]
        BY <1>6, <2>1 DEF BlockLoop
      <3>2. len \in Nat /\ len <= Blk /\ seg.sent + len <= seg.num
        BY <3>1, <1>0, SizesArePositive DEF Smaller
      <3> HIDE DEF len
      <3>3. /\ seg'.blk = len /\ seg'.copied = 0 /\ seg'.written = 0
            /\ seg'.sent = seg.sent /\ seg'.num = seg.num
        BY <3>1, <1>0 DEF BlockLocals
      <3> QED BY <3>2, <3>3
    <2>2. CASE pc' # "copy"
      BY <1>6, <2>2 DEF BlockLoop
    <2> QED BY <2>1, <2>2
  <1>7. CASE CopySample
    BY <1>7, <1>0 DEF CopySample, BlockLocals
  <1>8. CASE CopyEnd
    BY <1>8, <1>0 DEF CopyEnd, BlockLocals
  <1>9. CASE WriteSample
    BY <1>9, <1>0 DEF WriteSample, BlockLocals
  <1>10. CASE WriteEnd
    BY <1>10 DEF WriteEnd
  <1>11. CASE FPGAWrite \/ Disconnect \/ TakeOver \/ UNCHANGED vars
    BY <1>11 DEF FPGAWrite, Disconnect, TakeOver, vars
  <1> QED
    BY <1>1, <1>2, <1>3, <1>4, <1>5, <1>6, <1>7, <1>8, <1>9, <1>10, <1>11
       DEF Next, Comm, Terminated

\* A segment is split where it would leave the ring.
LEMMA OneTurnStep ==
    ASSUME TypeOK, OneTurn, [Next]_vars PROVE OneTurn'
  <1> USE DEF OneTurn, txVars, sendVars, hist
  <1>0. seg \in BlockLocals /\ calls \in Seq(DataArgs)
    BY DEF TypeOK
  <1>1. CASE \/ Receive \/ ReceiveMore \/ PollCommand \/ WriteBlocked
             \/ ReceiveClosed \/ ReceiveFailed \/ Exit \/ DispatchIdle
    BY <1>1 DEF Receive, ReceiveMore, PollCommand, WriteBlocked, ReceiveClosed,
                ReceiveFailed, Exit, DispatchIdle
  <1>2. CASE DispatchSimple \/ DispatchPipeline \/ Finish
    BY <1>2 DEF DispatchSimple, DispatchPipeline, Finish
  <1>3. CASE ChunkLoop \/ PartLoop \/ WaitEnd
    BY <1>3 DEF ChunkLoop, PartLoop, WaitEnd
  <1>4. CASE SendStatus \/ SendPerformance \/ PollNothing \/ SendDataReturn
    BY <1>4 DEF SendStatus, SendPerformance, PollNothing, SendDataReturn
  <1>5. CASE SendData
    <2>1. CASE Call.num <= SizeToEnd(Call.wp)
      <3>1. seg' = [NoSeg EXCEPT !.wp = Call.wp, !.num = Call.num]
        BY <1>5, <2>1 DEF SendData
      <3>2. seg'.wp = Call.wp /\ seg'.num = Call.num
        BY <3>1 DEF NoSeg
      <3>a. Call \in DataArgs
        BY <1>5, <1>0 DEF SendData, Call
      <3>3. Call.wp \in Nat /\ Call.num \in Nat
        BY <3>a DEF DataArgs
      <3> QED BY <2>1, <3>2, <3>3, SizesArePositive DEF SizeToEnd
    <2>2. CASE ~(Call.num <= SizeToEnd(Call.wp))
      BY <1>5, <2>2 DEF SendData
    <2> QED BY <2>1, <2>2
  <1>6. CASE BlockLoop
    <2>1. CASE pc' = "copy"
      <3>1. /\ seg' = [seg EXCEPT !.blk = Smaller(seg.num - seg.sent, Blk),
                                  !.copied = 0, !.written = 0]
            /\ pc = "block"
        BY <1>6, <2>1 DEF BlockLoop
      <3>2. seg'.wp = seg.wp /\ seg'.num = seg.num
        BY <3>1, <1>0 DEF BlockLocals
      <3> QED BY <3>1, <3>2
    <2>2. CASE pc' # "copy"
      BY <1>6, <2>2 DEF BlockLoop
    <2> QED BY <2>1, <2>2
  <1>7. CASE CopySample \/ CopyEnd \/ WriteSample \/ WriteEnd
    <2>1. seg'.wp = seg.wp /\ seg'.num = seg.num /\ pc \in {"copy", "write"}
      BY <1>7, <1>0 DEF CopySample, CopyEnd, WriteSample, WriteEnd, BlockLocals
    <2> QED BY <2>1
  <1>8. CASE FPGAWrite \/ Disconnect \/ TakeOver \/ UNCHANGED vars
    BY <1>8 DEF FPGAWrite, Disconnect, TakeOver, vars
  <1> QED
    BY <1>1, <1>2, <1>3, <1>4, <1>5, <1>6, <1>7, <1>8 DEF Next, Comm, Terminated

\* What a pipelined transmission has scheduled to be sent is written.
LEMMA WrittenStep ==
    ASSUME TypeOK, Control, Blocks, Written, [Next]_vars PROVE Written'
  <1> USE DEF Control, InChunk, InSender, txVars, sendVars, hist
  <1>0. /\ W \in Nat /\ calls \in Seq(DataArgs) /\ serving \in Request
        /\ running \in BOOLEAN
    BY DEF TypeOK
  <1>1. CASE \/ Receive \/ ReceiveMore \/ PollCommand \/ WriteBlocked
             \/ ReceiveClosed \/ ReceiveFailed \/ Exit \/ DispatchIdle
    BY <1>1 DEF Receive, ReceiveMore, PollCommand, WriteBlocked, ReceiveClosed,
                ReceiveFailed, Exit, DispatchIdle, Written
  <1>2. CASE DispatchSimple \/ DispatchPipeline \/ Finish
    BY <1>2 DEF DispatchSimple, DispatchPipeline, Finish, Written, NoRequest
  <1>3. CASE ChunkLoop \/ PartLoop
    BY <1>3 DEF ChunkLoop, PartLoop, Written
  <1>4. CASE WaitEnd
    <2>1. /\ pl.want \in Nat /\ ReadWP \in Nat /\ ChunkNow - pl.part \in Int
      BY PipelineFields DEF TypeOK, Request, ReadWP, ChunkNow, Smaller
    <2>2. /\ running => ReadWP + pl.want < W
          /\ calls' = <<DataCall(ReadWP, Available, pl.clear)>>
          /\ pc' = "call"
          /\ UNCHANGED <<W, running>>
      BY <1>4, <1>0 DEF WaitEnd, WaitIsOver
    <2>3. running => ReadWP + Available <= W
      BY <2>1, <2>2, <1>0 DEF Available, Smaller
    <2>4. running => \A k \in DOMAIN calls' : calls'[k].wp + calls'[k].num <= W
      BY <2>2, <2>3 DEF DataCall
    <2> QED BY <2>2, <2>4 DEF Written
  <1>5. CASE SendStatus \/ SendPerformance \/ PollNothing
    BY <1>5 DEF SendStatus, SendPerformance, PollNothing, Written
  <1>6. CASE SendData
    <2> SUFFICES ASSUME serving.kind = "PIPELINE", running PROVE Written'
      BY <1>6 DEF SendData, Written
    <2> DEFINE size1 == SizeToEnd(Call.wp)
               first == DataCall(Call.wp, size1, FALSE)
               rest  == DataCall(Call.wp + size1, Call.num - size1, FALSE)
    <2>1. /\ calls # <<>> /\ Call = calls[1] /\ Call \in DataArgs
          /\ Len(calls) \in Nat /\ Len(calls) >= 1
          /\ UNCHANGED <<W, running, serving>>
      BY <1>6, <1>0 DEF SendData, Call
    <2>2. \A k \in DOMAIN calls : calls[k].wp + calls[k].num <= W
      BY <1>6 DEF SendData, Written
    <2>3. Call.wp \in Nat /\ Call.num \in Nat /\ Call.wp + Call.num <= W
      BY <2>1, <2>2, <1>0 DEF DataArgs
    <2>4. /\ Tail(calls) \in Seq(DataArgs)
          /\ Len(Tail(calls)) = Len(calls) - 1
          /\ \A k \in 1..Len(Tail(calls)) : Tail(calls)[k] = calls[k + 1]
      BY <2>1, <1>0, HeadTailProperties
    <2>5. \A k \in DOMAIN Tail(calls) : Tail(calls)[k].wp + Tail(calls)[k].num <= W
      <3> SUFFICES ASSUME NEW k \in DOMAIN Tail(calls)
                   PROVE  Tail(calls)[k].wp + Tail(calls)[k].num <= W
        OBVIOUS
      <3>1. k \in 1..Len(Tail(calls)) /\ k + 1 \in DOMAIN calls
        BY <2>1, <2>4, <1>0
      <3> QED BY <2>2, <2>4, <3>1
    <2>6. CASE Call.num <= size1
      <3>1. seg' = [NoSeg EXCEPT !.wp = Call.wp, !.num = Call.num]
        BY <1>6, <2>6 DEF SendData
      <3>2. seg'.wp = Call.wp /\ seg'.num = Call.num
        BY <3>1 DEF NoSeg
      <3>3. calls' = Tail(calls) /\ pc' = "block"
        BY <1>6, <2>6 DEF SendData
      <3> QED BY <2>1, <2>3, <2>5, <3>2, <3>3 DEF Written
    <2>7. CASE ~(Call.num <= size1)
      <3>1. pc' = "call" /\ calls' = <<first, rest>> \o Tail(calls)
        BY <1>6, <2>7 DEF SendData
      <3>2. size1 \in Nat /\ size1 < Call.num
        BY <2>3, <2>7, SizesArePositive DEF SizeToEnd
      <3>3. first.wp + first.num <= W /\ rest.wp + rest.num <= W
        BY <2>3, <3>2, <1>0 DEF DataCall
      <3>4. first \in DataArgs /\ rest \in DataArgs
        BY <2>3, <3>2 DEF DataCall, DataArgs
      <3> HIDE DEF first, rest
      <3>5. /\ <<first, rest>> \in Seq(DataArgs) /\ Len(<<first, rest>>) = 2
        BY <3>4
      <3>6. \A k \in DOMAIN calls' : calls'[k].wp + calls'[k].num <= W
        <4> SUFFICES ASSUME NEW k \in DOMAIN calls'
                     PROVE  calls'[k].wp + calls'[k].num <= W
          OBVIOUS
        <4>1. /\ Len(calls') = 2 + Len(Tail(calls)) /\ calls' \in Seq(DataArgs)
              /\ calls'[k] = IF k <= 2 THEN <<first, rest>>[k] ELSE Tail(calls)[k - 2]
          BY <3>1, <3>5, <2>4, ConcatProperties
        <4>2. CASE k <= 2
          <5>1. k = 1 \/ k = 2
            BY <4>1, <4>2
          <5> QED BY <5>1, <4>1, <3>3
        <4>3. CASE ~(k <= 2)
          <5>1. k - 2 \in DOMAIN Tail(calls)
            BY <4>1, <4>3, <2>4
          <5> QED BY <4>1, <4>3, <5>1, <2>5
        <4> QED BY <4>2, <4>3
      <3> QED BY <3>1, <3>6, <2>1 DEF Written
    <2> QED BY <2>6, <2>7
  <1>7. CASE SendDataReturn
    BY <1>7 DEF SendDataReturn, Written
  <1>8. CASE BlockLoop
    <2>1. CASE pc' = "copy"
      <3>1. seg' = [seg EXCEPT !.blk = Smaller(seg.num - seg.sent, Blk),
                               !.copied = 0, !.written = 0]
        BY <1>8, <2>1 DEF BlockLoop
      <3>2. seg'.wp = seg.wp /\ seg'.num = seg.num
        BY <3>1 DEF TypeOK, BlockLocals
      <3> QED BY <1>8, <2>1, <3>2 DEF BlockLoop, Written
    <2>2. CASE pc' # "copy"
      BY <1>8, <2>2 DEF BlockLoop, Written
    <2> QED BY <2>1, <2>2
  <1>9. CASE CopySample \/ CopyEnd \/ WriteSample \/ WriteEnd
    <2>1. seg'.wp = seg.wp /\ seg'.num = seg.num
      BY <1>9 DEF CopySample, CopyEnd, WriteSample, WriteEnd, TypeOK, BlockLocals
    <2> QED BY <1>9, <2>1 DEF CopySample, CopyEnd, WriteSample, WriteEnd, Written
  <1>10. CASE FPGAWrite
    <2>1. W' = W + 1 /\ UNCHANGED <<pc, calls, seg, serving, running>>
      BY <1>10 DEF FPGAWrite
    <2>2. \A k \in DOMAIN calls : calls[k].wp \in Nat /\ calls[k].num \in Nat
      <3> TAKE k \in DOMAIN calls
      <3>1. calls[k] \in DataArgs
        BY <1>0
      <3> QED BY <3>1 DEF DataArgs
    <2>3. seg.wp \in Nat /\ seg.num \in Nat
      BY BlockFields DEF TypeOK
    <2> QED BY <2>1, <2>2, <2>3, <1>0 DEF Written
  <1>11. CASE Disconnect \/ TakeOver \/ UNCHANGED vars
    BY <1>11 DEF Disconnect, TakeOver, vars, Written
  <1> QED
    BY <1>1, <1>2, <1>3, <1>4, <1>5, <1>6, <1>7, <1>8, <1>9, <1>10, <1>11
       DEF Next, Comm, Terminated

\* A pipelined transmission sends only what is written: a sample of the block
\* being sent lies before the end of the segment that was scheduled.
LEMMA OnlyWrittenStep ==
    ASSUME TypeOK, Control, Blocks, Written, OnlyWrittenSamples, [Next]_vars
    PROVE  OnlyWrittenSamples'
  <1> USE DEF Control, InChunk, InSender, txVars, sendVars, hist
  <1>0. /\ W \in Nat /\ stream \in Seq(Item)
    BY DEF TypeOK
  <1>a. ASSUME NEW e \in Item, e.kind # "sample", UNCHANGED <<W, serving>>,
               stream' = Append(stream, e)
        PROVE  OnlyWrittenSamples'
    BY <1>0, <1>a DEF OnlyWrittenSamples
  <1>b. ASSUME UNCHANGED <<W, serving, stream>> PROVE OnlyWrittenSamples'
    BY <1>b DEF OnlyWrittenSamples
  <1>c. Perf \in Item /\ Status \in Item /\ Perf.kind # "sample"
        /\ Status.kind # "sample"
    BY ItemTypes DEF Perf, Status
  <1>1. CASE Receive \/ ReceiveMore \/ PollCommand \/ WriteBlocked
    <2>1. /\ stream' = stream \/ stream' = Append(stream, Perf)
          /\ UNCHANGED <<W, serving>>
      BY <1>1, CommandStep DEF Receive, ReceiveMore, PollCommand, WriteBlocked
    <2> QED BY <2>1, <1>a, <1>b, <1>c
  <1>2. CASE ReceiveClosed \/ ReceiveFailed \/ Exit \/ DispatchIdle
    BY <1>2, <1>b DEF ReceiveClosed, ReceiveFailed, Exit, DispatchIdle
  <1>3. CASE DispatchSimple \/ DispatchPipeline \/ Finish
    <2>1. stream' = <<>>
      BY <1>3 DEF DispatchSimple, DispatchPipeline, Finish
    <2> QED BY <2>1 DEF OnlyWrittenSamples
  <1>4. CASE ChunkLoop \/ PartLoop \/ WaitEnd \/ PollNothing
    BY <1>4, <1>b DEF ChunkLoop, PartLoop, WaitEnd, PollNothing
  <1>5. CASE SendStatus \/ SendPerformance
    <2>1. /\ stream' \in {stream, Append(stream, Perf), Append(stream, Status)}
          /\ UNCHANGED <<W, serving>>
      BY <1>5 DEF SendStatus, SendPerformance, Write
    <2> QED BY <2>1, <1>a, <1>b, <1>c
  <1>6. CASE SendData \/ SendDataReturn \/ BlockLoop
    BY <1>6, <1>b DEF SendData, SendDataReturn, BlockLoop
  <1>7. CASE CopySample \/ CopyEnd \/ WriteEnd
    BY <1>7, <1>b DEF CopySample, CopyEnd, WriteEnd
  <1>8. CASE WriteSample
    <2> DEFINE n == seg.wp + seg.sent + seg.written
    <2>1. /\ pc = "write" /\ running /\ seg.written < seg.copied
          /\ stream' = Append(stream, Sample(n))
          /\ UNCHANGED <<W, serving>>
      BY <1>8 DEF WriteSample, Sending
    <2>2. /\ seg.wp \in Nat /\ seg.num \in Nat /\ seg.sent \in Nat
          /\ seg.blk \in Nat /\ seg.copied \in Nat /\ seg.written \in Nat
      BY BlockFields DEF TypeOK
    <2>3. seg.sent + seg.blk <= seg.num /\ seg.copied <= seg.blk
      BY <2>1 DEF Blocks
    <2>4. serving.kind = "PIPELINE" => seg.wp + seg.num <= W
      BY <2>1 DEF Written
    <2>5. n \in Nat /\ (serving.kind = "PIPELINE" => n < W)
      BY <2>1, <2>2, <2>3, <2>4, <1>0
    <2> HIDE DEF n
    <2>6. Sample(n) \in Item /\ Sample(n).at = n
      BY <2>5, ItemTypes DEF Sample
    <2> QED BY <2>1, <2>5, <2>6, <1>0 DEF OnlyWrittenSamples
  <1>9. CASE FPGAWrite
    <2>1. W' = W + 1 /\ UNCHANGED <<serving, stream>>
      BY <1>9 DEF FPGAWrite
    <2>2. \A k \in DOMAIN stream : stream[k].at \in Nat
      <3> TAKE k \in DOMAIN stream
      <3>1. stream[k] \in Item
        BY <1>0
      <3> QED BY <3>1 DEF Item
    <2> QED BY <2>1, <2>2, <1>0 DEF OnlyWrittenSamples
  <1>10. CASE Disconnect \/ TakeOver \/ UNCHANGED vars
    BY <1>10, <1>b DEF Disconnect, TakeOver, vars
  <1> QED
    BY <1>1, <1>2, <1>3, <1>4, <1>5, <1>6, <1>7, <1>8, <1>9, <1>10
       DEF Next, Comm, Terminated

\* A large overrun has been seen by a check or will be by the one that ends
\* the block: the write pointer does not go back, and a block is no longer
\* than Blk.
LEMMA OverrunsStep ==
    ASSUME TypeOK, Control, Blocks, Overruns, [Next]_vars PROVE Overruns'
  <1> USE DEF Control, InChunk, InSender, txVars, sendVars, hist
  <1>0. /\ W \in Nat /\ overrun \in Nat /\ Buff \in Nat /\ Blk \in Nat
        /\ seg \in BlockLocals /\ flags \in Flags
    BY SizesArePositive DEF TypeOK
  <1>c. /\ seg.wp \in Nat /\ seg.num \in Nat /\ seg.sent \in Nat /\ seg.blk \in Nat
        /\ seg.copied \in Nat /\ seg.written \in Nat /\ seg.corrupt \in BOOLEAN
    BY <1>0, BlockFields
  <1>1. CASE \/ Receive \/ ReceiveMore \/ PollCommand \/ WriteBlocked
             \/ ReceiveClosed \/ ReceiveFailed \/ Exit \/ DispatchIdle
    BY <1>1 DEF Receive, ReceiveMore, PollCommand, WriteBlocked, ReceiveClosed,
                ReceiveFailed, Exit, DispatchIdle, Overruns
  <1>2. CASE DispatchSimple \/ DispatchPipeline
    BY <1>2 DEF DispatchSimple, DispatchPipeline, Overruns
  <1>3. CASE Finish
    BY <1>3, <1>0 DEF Finish, Overruns
  <1>4. CASE ChunkLoop \/ PartLoop \/ WaitEnd
    BY <1>4 DEF ChunkLoop, PartLoop, WaitEnd, Overruns
  <1>5. CASE SendStatus \/ SendPerformance \/ PollNothing
    BY <1>5 DEF SendStatus, SendPerformance, PollNothing, Overruns
  <1>6. CASE SendData
    <2>1. CASE Call.clear
      BY <1>6, <2>1, <1>0 DEF SendData, Overruns
    <2>2. CASE ~Call.clear
      <3>1. /\ pc = "call" /\ overrun' = overrun
            /\ flags.overwritten => flags'.overwritten
            /\ flags.corrupted => flags'.corrupted
        BY <1>6, <2>2 DEF SendData
      <3> QED BY <3>1 DEF Overruns
    <2> QED BY <2>1, <2>2
  <1>7. CASE SendDataReturn
    BY <1>7 DEF SendDataReturn, Overruns
  <1>8. CASE BlockLoop
    <2>1. CASE pc' = "copy"
      <3>1. /\ seg' = [seg EXCEPT !.blk = Smaller(seg.num - seg.sent, Blk),
                                  !.copied = 0, !.written = 0]
            /\ pc = "block" /\ UNCHANGED <<flags, overrun>>
        BY <1>8, <2>1 DEF BlockLoop
      <3>2. seg'.corrupt = seg.corrupt
        BY <3>1, <1>0 DEF BlockLocals
      <3> QED BY <2>1, <3>1, <3>2 DEF Overruns
    <2>2. CASE pc' # "copy"
      <3> DEFINE corrupted == flags.corrupted \/ (~flags.overwritten /\ seg.corrupt)
      <3>1. /\ flags' = [flags EXCEPT !.corrupted = corrupted]
            /\ pc = "block" /\ overrun' = overrun
        BY <1>8, <2>2 DEF BlockLoop
      <3>2. flags'.overwritten = flags.overwritten /\ flags'.corrupted = corrupted
        BY <3>1, <1>0 DEF Flags
      <3> QED BY <3>1, <3>2 DEF Overruns
    <2> QED BY <2>1, <2>2
  <1>9. CASE CopySample
    <2> DEFINE late == W - (seg.wp + seg.sent + seg.copied + Buff)
    <2>1. /\ pc = "copy" /\ pc' = "copy" /\ UNCHANGED <<W, flags>>
          /\ seg.copied < seg.blk
          /\ seg' = [seg EXCEPT !.copied = seg.copied + 1]
      BY <1>9 DEF CopySample
    <2>a. overrun' = Larger(overrun, late)
      BY <1>9 DEF CopySample
    <2>2. /\ seg'.wp = seg.wp /\ seg'.sent = seg.sent /\ seg'.blk = seg.blk
          /\ seg'.corrupt = seg.corrupt
      BY <2>1, <1>0 DEF BlockLocals
    <2>3. seg.blk <= Blk
      BY <2>1 DEF Blocks
    <2>4. CASE overrun > Blk
      BY <2>1, <2>2, <2>4 DEF Overruns
    <2>5. CASE late > Blk
      <3>1. W > seg.wp + seg.sent + seg.blk + Buff
        BY <2>1, <2>3, <2>5, <1>0, <1>c
      <3> QED BY <2>1, <2>2, <3>1 DEF Overruns
    <2>6. overrun' > Blk => overrun > Blk \/ late > Blk
      BY <2>a DEF Larger
    <2> QED BY <2>4, <2>5, <2>6 DEF Overruns
  <1>10. CASE CopyEnd
    <2> DEFINE late == seg.corrupt \/ W > seg.wp + seg.sent + seg.blk + Buff
    <2>1. /\ pc = "copy" /\ pc' = "write" /\ UNCHANGED <<W, flags, overrun>>
          /\ seg' = [seg EXCEPT !.corrupt = late]
      BY <1>10 DEF CopyEnd
    <2>2. seg'.corrupt = late
      BY <2>1, <1>0 DEF BlockLocals
    <2> QED BY <2>1, <2>2 DEF Overruns
  <1>11. CASE WriteSample \/ WriteEnd
    <2>1. seg'.corrupt = seg.corrupt
      BY <1>11, <1>0 DEF WriteSample, WriteEnd, BlockLocals
    <2>2. pc = "write" /\ pc' \in {"write", "block"} /\ UNCHANGED <<flags, overrun>>
      BY <1>11 DEF WriteSample, WriteEnd
    <2> QED BY <2>1, <2>2 DEF Overruns
  <1>12. CASE FPGAWrite
    <2>1. W' = W + 1 /\ UNCHANGED <<pc, seg, flags, overrun>>
      BY <1>12 DEF FPGAWrite
    <2> QED BY <2>1, <1>0, <1>c DEF Overruns
  <1>13. CASE Disconnect \/ TakeOver \/ UNCHANGED vars
    BY <1>13 DEF Disconnect, TakeOver, vars, Overruns
  <1> QED
    BY <1>1, <1>2, <1>3, <1>4, <1>5, <1>6, <1>7, <1>8, <1>9, <1>10, <1>11,
       <1>12, <1>13 DEF Next, Comm, Terminated

-----------------------------------------------------------------------------
\* The invariant holds initially and is kept by every step.
LEMMA InitInv == Init => IInv
  <1> SUFFICES ASSUME Init PROVE IInv
    OBVIOUS
  <1> USE DEF Init
  <1>1. TypeOK
    BY FreshLocals DEF TypeOK, Kinds, Request, NoRequest, Flags
  <1>2. Control /\ Locals /\ Blocks /\ OneTurn
    BY DEF Control, Locals, Blocks, OneTurn, InChunk, InSender
  <1>3. Written /\ Overruns
    BY SizesArePositive DEF Written, Overruns, NoRequest
  <1>4. TransmissionModeIsServing /\ PipelineKeepsRequest /\ OnlyWrittenSamples
    BY DEF TransmissionModeIsServing, PipelineKeepsRequest, OnlyWrittenSamples,
           NoRequest
  <1> QED BY <1>1, <1>2, <1>3, <1>4 DEF IInv

LEMMA StepInv == IInv /\ [Next]_vars => IInv'
  BY TypeStep, ControlStep, LocalsStep, BlocksStep, OneTurnStep, WrittenStep,
     OverrunsStep, ModeStep, RequestStep, OnlyWrittenStep DEF IInv

LEMMA Invariance == Spec => []IInv
  BY InitInv, StepInv, PTL DEF Spec

\* Every variable keeps its type, for every ring, block and request size: in
\* particular no count of samples left to copy, wait for or send goes below
\* zero.  The one difference of unsigned numbers of the code that can, of the
\* write pointer and the read pointer, wraps around in Available.
THEOREM TypeCorrect == Spec => []TypeOK
  <1>1. IInv => TypeOK
    BY DEF IInv
  <1> QED BY Invariance, <1>1, PTL

\* A chunk with a sample that was overwritten by more than a block of others
\* when it was copied goes out with overwritten or corrupted set.
THEOREM LargeOverrunsAreFlagged == Spec => []LargeOverrunIsFlagged
  <1>1. IInv => LargeOverrunIsFlagged
    BY DEF IInv, Overruns, LargeOverrunIsFlagged
  <1> QED BY Invariance, <1>1, PTL

\* A copy never runs over the end of the ring or of the userspace buffer.
THEOREM CopiesStayInBounds == Spec => []CopiesInBounds
  <1>1. IInv => CopiesInBounds
    <2> SUFFICES ASSUME IInv, pc \in {"copy", "write"}
                 PROVE  (seg.wp % Buff) + seg.sent + seg.blk <= Buff /\ seg.blk <= Blk
      BY DEF CopiesInBounds
    <2>1. /\ seg.sent + seg.blk <= seg.num /\ seg.blk <= Blk
          /\ (seg.wp % Buff) + seg.num <= Buff
      BY DEF IInv, Blocks, OneTurn
    <2>2. /\ seg.wp % Buff \in Nat /\ Buff \in Nat
          /\ seg.num \in Nat /\ seg.sent \in Nat /\ seg.blk \in Nat
      BY BlockFields, SizesArePositive DEF IInv, TypeOK
    <2> QED BY <2>1, <2>2
  <1> QED BY Invariance, <1>1, PTL

\* A pipelined transmission never sends a sample that is not written yet.
THEOREM SendsOnlyWrittenSamples == Spec => []OnlyWrittenSamples
  <1>1. IInv => OnlyWrittenSamples
    BY DEF IInv
  <1> QED BY Invariance, <1>1, PTL

\* TRANSMISSION mode is entered and left with each pipelined request.
THEOREM ModeFollowsTransmission == Spec => []TransmissionModeIsServing
  <1>1. IInv => TransmissionModeIsServing
    BY DEF IInv
  <1> QED BY Invariance, <1>1, PTL

\* The parameters of a running pipelined transmission stay what they were.
THEOREM PipelinedRequestIsKept == Spec => []PipelineKeepsRequest
  <1>1. IInv => PipelineKeepsRequest
    BY DEF IInv
  <1> QED BY Invariance, <1>1, PTL

\* A stopped pipelined transmission stays stopped and writes nothing more.
THEOREM StoppedStaysStopped == Spec => StopIsFinal
  <1> DEFINE Stopped == serving.kind = "PIPELINE" /\ tx = "IDLE" /\ pc # "finish"
             Final   == Stopped => stream' = stream /\ tx' = "IDLE"
  <1>1. IInv /\ [Next]_vars => [Final]_vars
    <2> SUFFICES ASSUME IInv, Next, Stopped PROVE stream' = stream /\ tx' = "IDLE"
      OBVIOUS
    <2> USE DEF txVars, sendVars, hist
    <2>1. /\ TypeOK /\ Control /\ mode = "TRANSMISSION" /\ ~Sending
          /\ serving # NoRequest
      BY DEF IInv, TransmissionModeIsServing, Sending, NoRequest
    <2>2. CASE Receive \/ ReceiveMore \/ PollCommand \/ WriteBlocked
      BY <2>1, <2>2, CommandStep
         DEF Receive, ReceiveMore, PollCommand, WriteBlocked, Control
    <2>3. CASE \/ DispatchSimple \/ DispatchPipeline \/ Finish
      BY <2>3 DEF DispatchSimple, DispatchPipeline, Finish
    <2>4. CASE \/ ReceiveClosed \/ ReceiveFailed \/ Exit \/ DispatchIdle
               \/ ChunkLoop \/ PartLoop \/ WaitEnd
      BY <2>4 DEF ReceiveClosed, ReceiveFailed, Exit, DispatchIdle, ChunkLoop,
                  PartLoop, WaitEnd
    <2>5. CASE SendStatus \/ SendPerformance \/ PollNothing
      BY <2>5, <2>1 DEF SendStatus, SendPerformance, PollNothing, Write
    <2>6. CASE SendData \/ SendDataReturn \/ BlockLoop
      BY <2>6 DEF SendData, SendDataReturn, BlockLoop
    <2>7. CASE CopySample \/ CopyEnd \/ WriteSample \/ WriteEnd
      BY <2>7, <2>1 DEF CopySample, CopyEnd, WriteSample, WriteEnd
    <2>8. CASE FPGAWrite \/ Disconnect \/ TakeOver \/ Terminated
      BY <2>8 DEF FPGAWrite, Disconnect, TakeOver, Terminated, vars
    <2> QED BY <2>2, <2>3, <2>4, <2>5, <2>6, <2>7, <2>8 DEF Next, Comm
  <1>2. Spec => [][Final]_vars
    BY Invariance, <1>1, PTL DEF Spec
  <1> QED BY <1>2 DEF StopIsFinal

-----------------------------------------------------------------------------
(***************************************************************************)
(* The refinement of SampleStream.  KeepsThePromise is about the order of  *)
(* what is sent; IInv only about how much.  Layout says where in the plan  *)
(* the thread is: how many frames are complete, how far the current one    *)
(* has come, and that the pending calls and the open block carry on from   *)
(* there up to the part of the chunk that was waited for.                  *)
(***************************************************************************)

\* frames sent so far, and the items of the stream they are
Frames == pl.sent \div serving.chunk
Base   == Frames * (serving.chunk + 2)

\* the pending calls carry the samples between from and to
Carry(from, to) ==
    \/ calls = <<>> /\ from = to
    \/ Len(calls) = 1 /\ calls[1].wp = from /\ from + calls[1].num = to
    \/ /\ Len(calls) = 2 /\ calls[1].wp = from /\ calls[2].wp = from + calls[1].num
       /\ calls[2].wp + calls[2].num = to
       /\ calls[1].num <= SizeToEnd(from)

\* sample x is the next one to send, and the last one is before to
Ahead(x, to) ==
    /\ pc = "call" => Carry(x, to)
    /\ pc = "block" => seg.sent <= seg.num
    /\ pc = "copy" => seg.written = 0
    /\ pc \in {"block", "copy"} => seg.wp + seg.sent = x
    /\ pc = "write" => seg.wp + seg.sent + seg.written = x /\ seg.copied = seg.blk
    /\ pc \in {"block", "copy", "write"} => Carry(seg.wp + seg.num, to)

\* how far a simple request has come ...
SimpleLayout ==
    /\ pc \in InSender => Ahead(serving.wp + Len(stream), serving.wp + serving.num)
    /\ pc = "finish" => Len(stream) = serving.num

\* ... and a pipelined one: at the start of each chunk whole frames are sent,
\* within a chunk its samples up to the part that is waited for
FrameLayout ==
    /\ pc \in {"chunk", "poll"} /\ pl.sent < serving.num /\ serving.chunk > 0 =>
           pl.sent = Frames * serving.chunk /\ Len(stream) = Base
    /\ pc \in {"chunk", "poll"} /\ ~(pl.sent < serving.num /\ serving.chunk > 0) =>
           Len(stream) = PlanLen(serving)
    /\ pc \in InChunk \cup InSender =>
           serving.chunk > 0 /\ pl.sent = Frames * serving.chunk /\ Base <= Len(stream)
    /\ pc \in {"part", "wait"} => Len(stream) = Base + pl.part
    /\ pc \in InSender => Ahead(serving.wp + pl.sent + (Len(stream) - Base), ReadWP)
    /\ pc = "status" => Len(stream) = Base + ChunkNow
    /\ pc = "perf" => Len(stream) = Base + ChunkNow + 1
    /\ pc = "finish" => Len(stream) = PlanLen(serving)

\* nobody gave up the request
Uncut == Sending /\ connected

\* While nobody gave up the request the stream is as long as the counters say,
\* and what is pending follows it without a gap.
Layout ==
    /\ serving.kind = "SIMPLE" /\ Uncut => SimpleLayout
    /\ serving.kind = "PIPELINE" /\ Uncut => FrameLayout

\* Multiples of a frame length.
LEMMA Products ==
    ASSUME NEW D \in Nat \ {0}, NEW a \in Int, NEW b \in Int
    PROVE  /\ a * D \in Int /\ (a + 1) * D = a * D + D
           /\ a < b => a * D + D <= b * D
<1>1. \A d \in Nat \ {0} : d * D >= D
  OBVIOUS
<1>2. a * D \in Int /\ b * D \in Int /\ (b - a) * D = b * D - a * D
  OBVIOUS
<1>3. a < b => (b - a) * D >= D
  BY <1>1
<1>4. (a + 1) * D = a * D + D
  OBVIOUS
<1> QED
  BY <1>2, <1>3, <1>4

\* The frames before an item, in the words of multiplication ...
LEMMA Quotients ==
    ASSUME NEW D \in Nat \ {0}, NEW a \in Nat
    PROVE  /\ a \div D \in Nat
           /\ (a \div D) * D <= a /\ a < (a \div D) * D + D
<1> DEFINE q == a \div D
           r == a % D
<1>1. a = D * q + r /\ q \in Int /\ r \in Nat /\ r < D
  OBVIOUS
<1>2. q \in Nat
  OBVIOUS
<1> HIDE DEF q, r
<1>3. D * q = q * D /\ D * q \in Int
  BY <1>1
<1>4. q * D <= a /\ a < q * D + D
  BY <1>1, <1>3
<1> QED
  BY <1>2, <1>4 DEF q

\* ... and what they are when the item is known to lie in frame q.
LEMMA QuotientIs ==
    ASSUME NEW D \in Nat \ {0}, NEW q \in Nat, NEW a \in Nat, q * D <= a, a < q * D + D
    PROVE  a \div D = q
<1> DEFINE p == a \div D
<1>1. p \in Nat /\ p * D <= a /\ a < p * D + D
  BY Quotients
<1> HIDE DEF p
<1>2. q * D \in Int /\ p * D \in Int
  BY <1>1
<1>3. p < q => p * D + D <= q * D
  BY <1>1, Products
<1>4. q < p => q * D + D <= p * D
  BY <1>1, Products
<1> QED
  BY <1>1, <1>2, <1>3, <1>4 DEF p

\* In a frame of len samples the plan has these samples, then the status byte,
\* then the performance data.
LEMMA InFrame ==
    ASSUME NEW r \in Request, r.kind = "PIPELINE", r.chunk > 0,
           NEW f \in Nat, f * r.chunk < r.num,
           NEW x \in Nat, NEW len \in Nat, len = Smaller(r.num - f * r.chunk, r.chunk),
           x <= len + 1
    PROVE  /\ f * (r.chunk + 2) + x < PlanLen(r)
           /\ PlanItem(r, f * (r.chunk + 2) + x + 1)
                = IF x < len THEN Sample(r.wp + f * r.chunk + x)
                  ELSE IF x = len THEN Status ELSE Perf
<1> DEFINE C == r.chunk
           n == r.num
           m == (n + C - 1) \div C
           k == f * (C + 2) + x
<1>1. C \in Nat \ {0} /\ n \in Nat /\ r.wp \in Nat /\ f * C < n
      /\ len = (IF n - f * C < C THEN n - f * C ELSE C)
  BY DEF Request, Smaller
<1>2. PlanLen(r) = n + 2 * m
  BY DEF PlanLen
<1>3. PlanItem(r, k + 1) = FrameItem(r.wp + (((k + 1) - 1) \div (C + 2)) * C,
          IF n - (((k + 1) - 1) \div (C + 2)) * C < C
          THEN n - (((k + 1) - 1) \div (C + 2)) * C ELSE C,
          (k + 1) - (((k + 1) - 1) \div (C + 2)) * (C + 2))
  BY DEF PlanItem
<1>4. m \in Nat /\ m * C <= n + C - 1 /\ n + C - 1 < m * C + C
  <2>1. n + C - 1 \in Nat
    BY <1>1
  <2> QED
    BY <1>1, <2>1, Quotients
<1> HIDE DEF C, n, m
<1>5. f * C \in Int /\ f * (C + 2) = f * C + 2 * f /\ f * (C + 2) \in Nat
  BY <1>1
<1>6. f < m
  <2>1. m < f => m * C + C <= f * C
    BY <1>1, <1>4, Products
  <2> QED
    BY <1>1, <1>4, <1>5, <2>1
<1>7. k < n + 2 * m
  BY <1>1, <1>4, <1>5, <1>6
<1>8. k \in Nat /\ (k + 1) - 1 = k /\ k \div (C + 2) = f
  <2>1. k \in Nat /\ C + 2 \in Nat \ {0} /\ f * (C + 2) <= k /\ k < f * (C + 2) + (C + 2)
    BY <1>1, <1>5
  <2> QED
    BY <2>1, QuotientIs
<1>9. (k + 1) - f * (C + 2) = x + 1
  BY <1>5
<1> HIDE DEF k
<1>10. PlanItem(r, k + 1) = FrameItem(r.wp + f * C, len, x + 1)
  BY <1>1, <1>3, <1>8, <1>9
<1>11. FrameItem(r.wp + f * C, len, x + 1)
         = IF x < len THEN Sample(r.wp + f * C + x)
           ELSE IF x = len THEN Status ELSE Perf
  <2>1. r.wp + f * C + (x + 1) - 1 = r.wp + f * C + x
    BY <1>1, <1>5
  <2>2. (x + 1 <= len <=> x < len) /\ (x + 1 = len + 1 <=> x = len)
    BY <1>1
  <2> QED
    BY <2>1, <2>2 DEF FrameItem
<1> QED
  BY <1>2, <1>7, <1>10, <1>11 DEF k, C, n

\* After a frame the samples sent are whole chunks, and the items whole frames,
\* unless it was the last frame: then they are all of the plan.
LEMMA AfterFrame ==
    ASSUME NEW r \in Request, r.kind = "PIPELINE", r.chunk > 0,
           NEW f \in Nat, f * r.chunk < r.num,
           NEW len \in Nat, len = Smaller(r.num - f * r.chunk, r.chunk)
    PROVE  LET sent == f * r.chunk + len
               out  == f * (r.chunk + 2) + len + 2
           IN  /\ sent <= r.num
               /\ sent < r.num => /\ sent = (sent \div r.chunk) * r.chunk
                                  /\ out = (sent \div r.chunk) * (r.chunk + 2)
               /\ sent = r.num => out = PlanLen(r)
<1> DEFINE C == r.chunk
           n == r.num
           m == (n + C - 1) \div C
           sent == f * C + len
           out  == f * (C + 2) + len + 2
<1>1. C \in Nat \ {0} /\ n \in Nat /\ f * C < n
      /\ len = (IF n - f * C < C THEN n - f * C ELSE C)
  BY DEF Request, Smaller
<1>2. PlanLen(r) = n + 2 * m
  BY DEF PlanLen
<1>3. \A q \in Nat : q * C <= n + C - 1 /\ n + C - 1 < q * C + C => m = q
  <2>1. n + C - 1 \in Nat
    BY <1>1
  <2> QED
    BY <1>1, <2>1, QuotientIs
<1> HIDE DEF C, n, m
<1>4. f * C \in Int /\ f * (C + 2) = f * C + 2 * f /\ (f + 1) * C = f * C + C
      /\ (f + 1) * (C + 2) = f * C + 2 * f + C + 2
  BY <1>1
<1>5. sent <= n
  BY <1>1, <1>4
<1>6. ASSUME sent < n
      PROVE  sent = (sent \div C) * C /\ out = (sent \div C) * (C + 2)
  <2>1. len = C
    BY <1>1, <1>4, <1>6
  <2>2. sent = (f + 1) * C /\ out = (f + 1) * (C + 2)
    BY <1>1, <1>4, <2>1
  <2>3. sent \div C = f + 1
    <3>1. f + 1 \in Nat /\ sent \in Nat /\ (f + 1) * C <= sent /\ sent < (f + 1) * C + C
      BY <1>1, <1>4, <2>1
    <3> HIDE DEF sent
    <3> QED
      BY <1>1, <3>1, QuotientIs
  <2> QED
    BY <2>2, <2>3
<1>7. ASSUME sent = n
      PROVE  out = n + 2 * m
  <2>1. f + 1 \in Nat /\ (f + 1) * C <= n + C - 1 /\ n + C - 1 < (f + 1) * C + C
    BY <1>1, <1>4, <1>7
  <2>2. m = f + 1
    BY <1>3, <2>1
  <2> QED
    BY <1>1, <1>4, <1>7, <2>2
<1> QED
  BY <1>2, <1>5, <1>6, <1>7 DEF C, n

\* Of the pending calls the first begins with the next sample, and the second
\* where the first ends.
LEMMA CarryForward ==
    ASSUME NEW from \in Nat, NEW to \in Nat, calls \in Seq(DataArgs), Carry(from, to)
    PROVE  /\ from <= to
           /\ calls # <<>> =>
                /\ Call \in DataArgs /\ Call = calls[1] /\ Call.wp = from
                /\ Tail(calls) \in Seq(DataArgs)
                /\ \/ Len(calls) = 1 /\ Tail(calls) = <<>> /\ from + Call.num = to
                   \/ /\ Len(calls) = 2 /\ Call.num <= SizeToEnd(from)
                      /\ Len(Tail(calls)) = 1 /\ Tail(calls)[1] = calls[2]
                      /\ calls[2].wp = from + Call.num /\ calls[2].wp + calls[2].num = to
<1>1. CASE calls = <<>>
  BY <1>1 DEF Carry
<1>2. CASE calls # <<>>
  <2>1. /\ Call = calls[1] /\ Call \in DataArgs /\ Len(calls) \in Nat /\ Len(calls) >= 1
        /\ Tail(calls) \in Seq(DataArgs) /\ Len(Tail(calls)) = Len(calls) - 1
        /\ \A k \in 1..Len(Tail(calls)) : Tail(calls)[k] = calls[k + 1]
    BY <1>2, HeadTailProperties DEF Call
  <2>2. Call.wp \in Nat /\ Call.num \in Nat
    BY <2>1 DEF DataArgs
  <2>3. CASE Len(calls) = 1
    <3>1. Tail(calls) = <<>>
      <4>1. Len(Tail(calls)) = 0
        BY <2>1, <2>3
      <4>2. Tail(calls) # <<>> => Len(Tail(calls)) \in Nat \ {0}
        BY <2>1, EmptySeq, Zenon
      <4> QED
        BY <4>1, <4>2
    <3>2. Call.wp = from /\ from + Call.num = to
      BY <1>2, <2>1, <2>3 DEF Carry
    <3> QED
      BY <2>1, <2>2, <2>3, <3>1, <3>2
  <2>4. CASE Len(calls) = 2
    <3>1. /\ Call.wp = from /\ calls[2].wp = from + Call.num
          /\ calls[2].wp + calls[2].num = to /\ Call.num <= SizeToEnd(from)
      BY <1>2, <2>1, <2>4 DEF Carry
    <3>2. calls[2] \in DataArgs
      BY <2>4
    <3>3. calls[2].num \in Nat
      BY <3>2 DEF DataArgs
    <3>4. Len(Tail(calls)) = 1
      BY <2>1, <2>4
    <3>5. Tail(calls)[1] = calls[2]
      <4>1. \A k \in 1..1 : Tail(calls)[k] = calls[k + 1]
        BY <2>1, <3>4, Zenon
      <4>2. 1 \in 1..1 /\ 1 + 1 = 2
        OBVIOUS
      <4> QED
        BY <4>1, <4>2, Zenon
    <3> QED
      BY <2>1, <2>2, <2>4, <3>1, <3>3, <3>4, <3>5
  <2> QED
    BY <1>2, <2>3, <2>4 DEF Carry
<1> QED
  BY <1>1, <1>2

\* Taking or splitting a call moves the next sample nowhere ...
LEMMA AheadCalls ==
    ASSUME TypeOK, NEW x \in Nat, NEW to \in Nat, SendData, Ahead(x, to)
    PROVE  Ahead(x, to)' /\ pc' \in InSender
<1>0. pc = "call" /\ calls # <<>> /\ calls \in Seq(DataArgs) /\ Carry(x, to)
  BY DEF SendData, Ahead, TypeOK
<1>1. /\ Call \in DataArgs /\ Call = calls[1] /\ Call.wp = x
      /\ Tail(calls) \in Seq(DataArgs)
      /\ \/ Len(calls) = 1 /\ Tail(calls) = <<>> /\ x + Call.num = to
         \/ /\ Len(calls) = 2 /\ Call.num <= SizeToEnd(x)
            /\ Len(Tail(calls)) = 1 /\ Tail(calls)[1] = calls[2]
            /\ calls[2].wp = x + Call.num /\ calls[2].wp + calls[2].num = to
  BY <1>0, CarryForward
<1>2. Call.num \in Nat
  BY <1>1 DEF DataArgs
<1>3. CASE Call.num <= SizeToEnd(Call.wp)
  <2>1. /\ seg' = [NoSeg EXCEPT !.wp = Call.wp, !.num = Call.num]
        /\ calls' = Tail(calls) /\ pc' = "block"
    BY <1>0, <1>3 DEF SendData
  <2>2. PICK num \in Nat : num = Call.num
    BY <1>2
  <2>3. seg'.wp = x /\ seg'.num = num /\ seg'.sent = 0
    BY <1>1, <2>1, <2>2 DEF NoSeg
  <2>4. Carry(x + num, to)'
    <3>1. CASE Len(calls) = 1
      BY <1>1, <2>1, <2>2, <3>1 DEF Carry
    <3>2. CASE Len(calls) = 2
      BY <1>1, <2>1, <2>2, <3>2 DEF Carry
    <3> QED
      BY <1>1, <3>1, <3>2
  <2> QED
    BY <2>1, <2>3, <2>4 DEF Ahead, InSender
<1>4. CASE ~(Call.num <= SizeToEnd(Call.wp))
  <2> DEFINE size1 == SizeToEnd(Call.wp)
             first == DataCall(Call.wp, size1, FALSE)
             rest  == DataCall(Call.wp + size1, Call.num - size1, FALSE)
  <2>1. pc' = "call" /\ calls' = <<first, rest>> \o Tail(calls)
    BY <1>0, <1>4 DEF SendData
  <2>2. Tail(calls) = <<>> /\ x + Call.num = to
    BY <1>1, <1>4
  <2>3. calls' = <<first, rest>>
    <3>1. <<first, rest>> \in Seq({first, rest})
      <4> HIDE DEF first, rest
      <4> QED
        OBVIOUS
    <3> HIDE DEF first, rest
    <3> QED
      BY <2>1, <2>2, <3>1, ConcatEmptySeq
  <2>4. size1 \in Nat
    BY <1>1, SizesArePositive DEF SizeToEnd
  <2>5. /\ first.wp = x /\ first.num = size1
        /\ rest.wp = x + size1 /\ rest.num = Call.num - size1
    BY <1>1 DEF DataCall
  <2> HIDE DEF first, rest
  <2>6. Len(calls') = 2 /\ calls'[1] = first /\ calls'[2] = rest
    BY <2>3
  <2>7. rest.wp + rest.num = to
    BY <1>2, <2>2, <2>4, <2>5
  <2>8. size1 = SizeToEnd(x)
    BY <1>1
  <2>9. Carry(x, to)'
    BY <2>4, <2>5, <2>6, <2>7, <2>8 DEF Carry, SizeToEnd
  <2> QED
    BY <2>1, <2>9 DEF Ahead, InSender
<1> QED
  BY <1>3, <1>4

\* ... and neither do the ends of a block and of its copy, nor the end of a
\* write that was not cut short ...
LEMMA AheadBlocks ==
    ASSUME TypeOK, Blocks, Uncut, NEW x \in Nat, NEW to \in Nat, Ahead(x, to),
           BlockLoop \/ CopySample \/ CopyEnd \/ WriteEnd
    PROVE  Ahead(x, to)' /\ pc' \in InSender
<1>0. /\ seg.wp \in Nat /\ seg.num \in Nat /\ seg.sent \in Nat /\ seg.blk \in Nat
      /\ seg.copied \in Nat /\ seg.written \in Nat
  BY BlockFields DEF TypeOK
<1>1. CASE BlockLoop
  <2>1. CASE seg.sent < seg.num
    <3>1. /\ seg' = [seg EXCEPT !.blk = Smaller(seg.num - seg.sent, Blk),
                                !.copied = 0, !.written = 0]
          /\ pc' = "copy" /\ calls' = calls
      BY <1>1, <2>1 DEF BlockLoop, Uncut
    <3>2. seg'.wp = seg.wp /\ seg'.num = seg.num /\ seg'.sent = seg.sent /\ seg'.written = 0
      BY <3>1 DEF TypeOK, BlockLocals
    <3> QED
      BY <1>1, <3>1, <3>2 DEF Ahead, Carry, BlockLoop, InSender
  <2>2. CASE ~(seg.sent < seg.num)
    <3>1. pc = "block" /\ pc' = "call" /\ calls' = calls
      BY <1>1, <2>2 DEF BlockLoop
    <3>2. seg.wp + seg.num = x
      BY <1>0, <2>2, <3>1 DEF Ahead
    <3> QED
      BY <3>1, <3>2 DEF Ahead, Carry, InSender
  <2> QED
    BY <2>1, <2>2
<1>2. CASE CopySample
  <2>1. /\ seg' = [seg EXCEPT !.copied = seg.copied + 1]
        /\ pc = "copy" /\ pc' = "copy" /\ calls' = calls
    BY <1>2 DEF CopySample
  <2>2. /\ seg'.wp = seg.wp /\ seg'.num = seg.num /\ seg'.sent = seg.sent
        /\ seg'.written = seg.written
    BY <2>1 DEF TypeOK, BlockLocals
  <2> QED
    BY <2>1, <2>2 DEF Ahead, Carry, InSender
<1>3. CASE CopyEnd
  <2>1. /\ seg' = [seg EXCEPT !.corrupt = seg.corrupt \/ W > seg.wp + seg.sent + seg.blk + Buff]
        /\ pc = "copy" /\ pc' = "write" /\ calls' = calls /\ seg.copied = seg.blk
    BY <1>3 DEF CopyEnd, Uncut
  <2>2. /\ seg'.wp = seg.wp /\ seg'.num = seg.num /\ seg'.sent = seg.sent
        /\ seg'.written = seg.written /\ seg'.copied = seg.copied /\ seg'.blk = seg.blk
    BY <2>1 DEF TypeOK, BlockLocals
  <2>3. seg.written = 0 /\ seg.wp + seg.sent = x
    BY <2>1 DEF Ahead
  <2> QED
    BY <1>0, <2>1, <2>2, <2>3 DEF Ahead, Carry, InSender
<1>4. CASE WriteEnd
  <2>1. /\ seg' = [seg EXCEPT !.sent = seg.sent + seg.blk]
        /\ pc = "write" /\ pc' = "block" /\ calls' = calls /\ seg.written = seg.copied
    BY <1>4 DEF WriteEnd, Uncut
  <2>2. seg'.wp = seg.wp /\ seg'.num = seg.num /\ seg'.sent = seg.sent + seg.blk
    BY <2>1 DEF TypeOK, BlockLocals
  <2>3. seg.copied = seg.blk /\ seg.wp + seg.sent + seg.written = x
        /\ seg.sent + seg.blk <= seg.num
    BY <2>1 DEF Ahead, Blocks
  <2> QED
    BY <1>0, <2>1, <2>2, <2>3 DEF Ahead, Carry, InSender
<1> QED
  BY <1>1, <1>2, <1>3, <1>4

\* ... while a sample written moves it by one.
LEMMA AheadSample ==
    ASSUME TypeOK, NEW x \in Nat, NEW to \in Nat, Ahead(x, to), WriteSample
    PROVE  Ahead(x + 1, to)' /\ pc' \in InSender
<1>0. /\ seg.wp \in Nat /\ seg.num \in Nat /\ seg.sent \in Nat /\ seg.blk \in Nat
      /\ seg.copied \in Nat /\ seg.written \in Nat
  BY BlockFields DEF TypeOK
<1>1. /\ seg' = [seg EXCEPT !.written = seg.written + 1]
      /\ pc = "write" /\ pc' = "write" /\ calls' = calls
  BY DEF WriteSample
<1>2. /\ seg'.wp = seg.wp /\ seg'.num = seg.num /\ seg'.sent = seg.sent
      /\ seg'.written = seg.written + 1 /\ seg'.copied = seg.copied /\ seg'.blk = seg.blk
  BY <1>1 DEF TypeOK, BlockLocals
<1> QED
  BY <1>0, <1>1, <1>2 DEF Ahead, Carry, InSender

\* The sample that is written is the next one, and one of those pending.
LEMMA SampleIsAhead ==
    ASSUME TypeOK, Blocks, NEW x \in Nat, NEW to \in Nat, Ahead(x, to), WriteSample
    PROVE  x < to /\ seg.wp + seg.sent + seg.written = x
<1>1. /\ seg.wp \in Nat /\ seg.num \in Nat /\ seg.sent \in Nat /\ seg.blk \in Nat
      /\ seg.copied \in Nat /\ seg.written \in Nat /\ calls \in Seq(DataArgs)
  BY BlockFields DEF TypeOK
<1>2. /\ seg.written < seg.copied /\ seg.copied = seg.blk /\ seg.sent + seg.blk <= seg.num
      /\ seg.wp + seg.sent + seg.written = x /\ Carry(seg.wp + seg.num, to)
  BY DEF WriteSample, Ahead, Blocks
<1>3. seg.wp + seg.num <= to
  <2>1. PICK from \in Nat : from = seg.wp + seg.num
    BY <1>1
  <2> QED
    BY <1>1, <1>2, <2>1, CarryForward
<1> QED
  BY <1>1, <1>2, <1>3

\* What a quiet client's command can do to a transmission: stop it.
LEMMA QuietCommand ==
    ASSUME IInv, QuietClient, Receive \/ ReceiveMore \/ PollCommand \/ WriteBlocked
    PROVE  /\ UNCHANGED <<stream, serving, pl, calls, seg>>
           /\ \/ pc' = "dispatch" /\ serving = NoRequest
              \/ pc' = pc /\ (Uncut' => Uncut)
<1> USE DEF sendVars
<1>1. TypeOK /\ Control /\ TransmissionModeIsServing
  BY DEF IInv
<1>2. Command /\ UNCHANGED <<running, connected, serving, pl, calls, seg>>
  BY DEF Receive, ReceiveMore, PollCommand, WriteBlocked
<1>3. stream' = stream
  BY <1>2 DEF Receive, ReceiveMore, PollCommand, WriteBlocked, QuietClient, Asks
<1>4. CASE Receive \/ ReceiveMore
  BY <1>1, <1>2, <1>3, <1>4 DEF Receive, ReceiveMore, Control
<1>5. CASE PollCommand
  <2>1. pc = "poll" /\ pc' = pc /\ connected
    BY <1>5 DEF PollCommand
  <2>2. mode = "TRANSMISSION"
    BY <1>1, <2>1 DEF Control, TransmissionModeIsServing
  <2>3. tx' \in {tx, "IDLE"}
    BY <1>1, <1>2, <2>2, CommandStep DEF Control
  <2> QED
    BY <1>2, <1>3, <2>1, <2>3 DEF Uncut, Sending
<1>6. CASE WriteBlocked
  BY <1>2, <1>3, <1>6 DEF WriteBlocked, Uncut
<1> QED
  BY <1>4, <1>5, <1>6

\* A step that touches neither the thread nor the stream, and does not undo a
\* cut, keeps the layout.
LEMMA SameLayout ==
    ASSUME Layout, UNCHANGED <<pc, pl, calls, seg, serving, stream>>, Uncut' => Uncut
    PROVE  Layout'
BY DEF Layout, SimpleLayout, FrameLayout, Ahead, Carry, Frames, Base, ReadWP, ChunkNow, Smaller,
       SizeToEnd, PlanLen

\* Between two requests there is nothing to keep.
LEMMA NoLayout ==
    ASSUME serving'.kind \notin Kinds
    PROVE  Layout'
BY DEF Layout, Kinds

\* The first frame begins with nothing sent; a plan without samples or without
\* a chunk size is empty.
LEMMA FirstLayout ==
    ASSUME TypeOK, Control, DispatchSimple \/ DispatchPipeline
    PROVE  Layout'
<1>1. /\ asked \in Request /\ serving' = asked /\ stream' = <<>> /\ Len(stream') = 0
  BY DEF TypeOK, DispatchSimple, DispatchPipeline
<1>2. asked.wp \in Nat /\ asked.num \in Nat /\ asked.chunk \in Nat
  BY <1>1 DEF Request
<1>3. CASE DispatchSimple
  <2>1. asked.kind = "SIMPLE" /\ pc' = "call"
    BY <1>3 DEF DispatchSimple, Control
  <2>2. Len(calls') = 1 /\ calls'[1].wp = asked.wp /\ calls'[1].num = asked.num
    BY <1>3 DEF DispatchSimple, DataCall
  <2>3. serving'.wp + Len(stream') = asked.wp
    BY <1>1, <1>2
  <2>4. Ahead(serving.wp + Len(stream), serving.wp + serving.num)'
    BY <1>1, <2>1, <2>2, <2>3 DEF Ahead, Carry
  <2> QED
    BY <1>1, <2>1, <2>4 DEF Layout, SimpleLayout
<1>4. CASE DispatchPipeline
  <2>1. asked.kind = "PIPELINE" /\ pc' = "chunk" /\ pl'.sent = 0
    BY <1>4 DEF DispatchPipeline, Control, NoPl
  <2>2. CASE 0 < asked.num /\ asked.chunk > 0
    <3>1. 0 \div asked.chunk = 0
      BY <1>2, <2>2
    <3> QED
      BY <1>1, <1>2, <2>1, <2>2, <3>1 DEF Layout, FrameLayout, Frames, Base, InChunk, InSender
  <2>3. CASE ~(0 < asked.num /\ asked.chunk > 0)
    <3>1. PlanLen(asked) = 0
      <4>1. CASE asked.chunk > 0
        <5>1. asked.num = 0
          BY <1>2, <2>3, <4>1
        <5>2. /\ 0 * asked.chunk <= 0 + asked.chunk - 1
              /\ 0 + asked.chunk - 1 < 0 * asked.chunk + asked.chunk
              /\ 0 + asked.chunk - 1 \in Nat /\ asked.chunk \in Nat \ {0}
          BY <1>2, <4>1
        <5>3. (0 + asked.chunk - 1) \div asked.chunk = 0
          BY <5>2, QuotientIs
        <5> QED
          BY <2>1, <4>1, <5>1, <5>3 DEF PlanLen
      <4>2. CASE ~(asked.chunk > 0)
        BY <2>1, <4>2 DEF PlanLen
      <4> QED
        BY <4>1, <4>2
    <3> QED
      BY <1>1, <1>2, <2>1, <2>3, <3>1 DEF Layout, FrameLayout, InChunk, InSender
  <2> QED
    BY <2>2, <2>3
<1> QED
  BY <1>3, <1>4

\* The values of what FrameLayout is made of.
LEMMA FrameValues ==
    ASSUME TypeOK, serving.chunk > 0
    PROVE  /\ Frames \in Nat /\ Base \in Nat /\ Frames * serving.chunk \in Nat
           /\ pl.sent \in Nat /\ pl.part \in Nat /\ serving.chunk \in Nat \ {0}
           /\ serving.num \in Nat /\ serving.wp \in Nat
           /\ ChunkNow \in Int /\ Len(stream) \in Nat
<1>1. /\ pl.sent \in Nat /\ pl.part \in Nat /\ serving.chunk \in Nat \ {0}
      /\ serving.num \in Nat /\ serving.wp \in Nat /\ Len(stream) \in Nat
  BY PipelineFields DEF TypeOK, Request
<1>2. Frames \in Nat
  BY <1>1, Quotients DEF Frames
<1>3. ChunkNow \in Int
  BY <1>1 DEF ChunkNow, Smaller
<1>4. \A f, c \in Nat : f * c \in Nat /\ f * (c + 2) \in Nat
  OBVIOUS
<1> QED
  BY <1>1, <1>2, <1>3, <1>4 DEF Base

\* sendPipelinedDataToClient keeps the layout from wait to wait and from chunk
\* to chunk.
LEMMA ChunkLayout ==
    ASSUME IInv, FrameLayout, Uncut, serving.kind = "PIPELINE",
           \/ ChunkLoop \/ PartLoop \/ WaitEnd \/ SendStatus \/ SendPerformance \/ PollNothing
           \/ SendDataReturn
    PROVE  FrameLayout'
<1> USE DEF InChunk, InSender, sendVars, hist
<1>0. TypeOK /\ Locals /\ pl \in PipelineLocals /\ stream \in Seq(Item) /\ W \in Nat
  BY DEF IInv, TypeOK
<1>1. CASE ChunkLoop
  <2>1. pc = "chunk" /\ pl.part = 0 /\ UNCHANGED <<stream, serving, calls, seg>>
    BY <1>0, <1>1 DEF ChunkLoop, Locals
  <2>2. CASE pl.sent < Total /\ serving.chunk > 0
    <3>1. pc' = "part" /\ pl' = pl
      BY <1>1, <2>2 DEF ChunkLoop, Uncut
    <3>2. pl.sent = Frames * serving.chunk /\ Len(stream) = Base /\ Base \in Nat
      BY <1>0, <2>1, <2>2, FrameValues DEF FrameLayout, Total
    <3> QED
      BY <2>1, <2>2, <3>1, <3>2 DEF FrameLayout, Frames, Base
  <2>3. CASE ~(pl.sent < Total /\ serving.chunk > 0)
    <3>1. pc' = "finish" /\ Len(stream) = PlanLen(serving)
      BY <1>1, <2>1, <2>3 DEF ChunkLoop, FrameLayout, Total
    <3> QED
      BY <2>1, <3>1 DEF FrameLayout, PlanLen
  <2> QED
    BY <2>2, <2>3
<1>2. CASE PartLoop
  <2>1. pc = "part" /\ UNCHANGED <<stream, serving, calls, seg>>
    BY <1>2 DEF PartLoop
  <2>2. /\ serving.chunk > 0 /\ pl.sent = Frames * serving.chunk /\ Base <= Len(stream)
        /\ Len(stream) = Base + pl.part /\ pl.part <= ChunkNow
    BY <1>0, <2>1 DEF FrameLayout, Locals
  <2>3. CASE pl.part < ChunkNow
    <3>1. pc' = "wait" /\ pl' = [pl EXCEPT !.want = Smaller(Blk, ChunkNow - pl.part)]
      BY <1>2, <2>3 DEF PartLoop, Uncut
    <3>2. pl'.sent = pl.sent /\ pl'.part = pl.part
      BY <1>0, <3>1 DEF PipelineLocals
    <3> QED
      BY <2>1, <2>2, <3>1, <3>2 DEF FrameLayout, Frames, Base
  <2>4. CASE ~(pl.part < ChunkNow)
    <3>1. pc' = "status" /\ pl' = pl
      BY <1>2, <2>4 DEF PartLoop
    <3>2. pl.part = ChunkNow
      BY <1>0, <2>2, <2>4, FrameValues
    <3> QED
      BY <2>1, <2>2, <3>1, <3>2 DEF FrameLayout, Frames, Base, ChunkNow, Smaller
  <2> QED
    BY <2>3, <2>4
<1>3. CASE WaitEnd
  <2>1. /\ pc = "wait" /\ pc' = "call" /\ UNCHANGED <<stream, serving, seg>>
        /\ calls' = <<DataCall(ReadWP, Available, pl.clear)>>
        /\ pl' = [pl EXCEPT !.part = pl.part + Available, !.clear = FALSE]
        /\ ReadWP + pl.want < W
    BY <1>3 DEF WaitEnd, WaitIsOver, Uncut, Sending
  <2>2. /\ serving.chunk > 0 /\ pl.sent = Frames * serving.chunk /\ Base <= Len(stream)
        /\ Len(stream) = Base + pl.part
    BY <1>0, <2>1 DEF FrameLayout
  <2>3. pl'.sent = pl.sent /\ pl'.part = pl.part + Available
    BY <1>0, <2>1 DEF PipelineLocals
  <2>4. Len(calls') = 1 /\ calls'[1].wp = ReadWP /\ calls'[1].num = Available
    BY <2>1 DEF DataCall
  <2>5. /\ Available \in Int /\ ReadWP \in Int /\ Base \in Int /\ pl.part \in Int
        /\ serving.wp \in Int /\ pl.sent \in Int /\ Len(stream) \in Int
    <3>1. /\ serving.wp \in Int /\ pl.sent \in Int /\ pl.part \in Int /\ ChunkNow \in Int
          /\ Base \in Int /\ Len(stream) \in Int
      BY <1>0, <2>2, FrameValues
    <3>2. ReadWP \in Int
      BY <3>1 DEF ReadWP
    <3>3. ChunkNow - pl.part \in Int /\ W - ReadWP \in Int
      BY <1>0, <3>1, <3>2
    <3>4. Available \in Int
      BY <3>3 DEF Available, Smaller
    <3> QED
      BY <3>1, <3>2, <3>4
  <2>6. Carry(serving.wp + pl.sent + (Len(stream) - Base), ReadWP)'
    <3>1. Base' = Base
      BY <2>1, <2>3 DEF Base, Frames
    <3>2. (serving.wp + pl.sent + (Len(stream) - Base))'
            = serving.wp + pl.sent + (Len(stream) - Base)
      BY <2>1, <2>3, <3>1
    <3>3. serving.wp + pl.sent + (Len(stream) - Base) = ReadWP
      BY <2>2, <2>5 DEF ReadWP
    <3>4. ReadWP' = serving.wp + pl.sent + (pl.part + Available)
      BY <2>1, <2>3 DEF ReadWP
    <3>5. serving.wp + pl.sent + (pl.part + Available) = ReadWP + Available
      BY <2>5 DEF ReadWP
    <3> QED
      BY <2>4, <3>2, <3>3, <3>4, <3>5 DEF Carry
  <2> QED
    BY <2>1, <2>2, <2>3, <2>6 DEF FrameLayout, Ahead, Frames, Base
<1>4. CASE SendStatus
  <2>1. /\ pc = "status" /\ pc' = "perf" /\ UNCHANGED <<serving, seg, pl, calls>>
        /\ stream' = Append(stream, Status)
    BY <1>4 DEF SendStatus, Write, Uncut
  <2>2. /\ serving.chunk > 0 /\ pl.sent = Frames * serving.chunk /\ Base <= Len(stream)
        /\ Len(stream) = Base + ChunkNow
    BY <1>0, <2>1 DEF FrameLayout
  <2>3. Len(stream') = Len(stream) + 1
    BY <1>0, <2>1
  <2>4. Base <= Len(stream) + 1 /\ Len(stream) + 1 = Base + ChunkNow + 1
    BY <1>0, <2>2, FrameValues
  <2> QED
    BY <2>1, <2>2, <2>3, <2>4 DEF FrameLayout, Frames, Base, ChunkNow, Smaller
<1>5. CASE SendPerformance
  <2>1. /\ pc = "perf" /\ pc' = "poll" /\ UNCHANGED <<serving, seg, calls>>
        /\ stream' = Append(stream, Perf)
        /\ pl' = [pl EXCEPT !.part = 0, !.clear = TRUE, !.sent = pl.sent + ChunkNow]
    BY <1>5 DEF SendPerformance, Write, Uncut
  <2>2. /\ serving.chunk > 0 /\ pl.sent = Frames * serving.chunk
        /\ Len(stream) = Base + ChunkNow + 1 /\ pl.sent < serving.num
    BY <1>0, <2>1 DEF FrameLayout, Locals
  <2>3. Len(stream') = Len(stream) + 1 /\ pl'.sent = pl.sent + ChunkNow
    BY <1>0, <2>1 DEF PipelineLocals
  <2>4. PICK f \in Nat : f = Frames
    BY <1>0, <2>2, FrameValues
  <2>5. PICK len \in Nat : len = ChunkNow
    BY <1>0, <2>2, FrameValues DEF ChunkNow, Smaller
  <2>6. serving \in Request /\ len = Smaller(serving.num - f * serving.chunk, serving.chunk)
        /\ f * serving.chunk < serving.num
    BY <1>0, <2>2, <2>4, <2>5 DEF TypeOK, ChunkNow
  <2>7. pl'.sent = f * serving.chunk + len
    BY <2>2, <2>3, <2>4, <2>5
  <2>8. Len(stream') = f * (serving.chunk + 2) + len + 2
    <3>1. Base = f * (serving.chunk + 2)
      BY <2>4 DEF Base
    <3> QED
      BY <1>0, <2>2, <2>3, <2>5, <3>1, FrameValues
  <2>9. /\ pl'.sent <= serving.num
        /\ pl'.sent < serving.num =>
               /\ pl'.sent = (pl'.sent \div serving.chunk) * serving.chunk
               /\ Len(stream') = (pl'.sent \div serving.chunk) * (serving.chunk + 2)
        /\ pl'.sent = serving.num => Len(stream') = PlanLen(serving)
    BY <2>2, <2>6, <2>7, <2>8, AfterFrame
  <2>10. pl'.sent \in Nat /\ serving.num \in Nat
    BY <1>0, <2>2, <2>5, <2>3, FrameValues
  <2> QED
    BY <2>1, <2>2, <2>9, <2>10 DEF FrameLayout, Frames, Base, PlanLen
<1>6. CASE PollNothing
  BY <1>6 DEF PollNothing, FrameLayout, Frames, Base, PlanLen
<1>7. CASE SendDataReturn
  <2>1. /\ pc = "call" /\ pc' = "part" /\ calls = <<>>
        /\ UNCHANGED <<serving, seg, pl, calls, stream>>
    BY <1>7 DEF SendDataReturn
  <2>2. /\ serving.chunk > 0 /\ pl.sent = Frames * serving.chunk /\ Base <= Len(stream)
        /\ Carry(serving.wp + pl.sent + (Len(stream) - Base), ReadWP)
    BY <1>0, <2>1 DEF FrameLayout, Ahead
  <2>3. serving.wp + pl.sent + (Len(stream) - Base) = ReadWP
    BY <2>1, <2>2 DEF Carry
  <2>4. Len(stream) = Base + pl.part
    <3>1. /\ serving.wp \in Nat /\ pl.sent \in Nat /\ pl.part \in Nat
          /\ Base \in Nat /\ Len(stream) \in Nat
      BY <1>0, <2>2, FrameValues
    <3>2. serving.wp + pl.sent + (Len(stream) - Base) = serving.wp + pl.sent + pl.part
      BY <2>3 DEF ReadWP
    <3> QED
      BY <3>1, <3>2
  <2> QED
    BY <2>1, <2>2, <2>4 DEF FrameLayout, Frames, Base
<1> QED
  BY <1>1, <1>2, <1>3, <1>4, <1>5, <1>6, <1>7

\* So do sendDataToClient and sendBufferedSamplesToClient, for both callers.
LEMMA SenderLayout ==
    ASSUME IInv, Layout, Uncut,
           SendData \/ BlockLoop \/ CopySample \/ CopyEnd \/ WriteSample \/ WriteEnd
    PROVE  Layout'
<1> USE DEF sendVars, hist
<1>0. /\ TypeOK /\ Blocks /\ stream \in Seq(Item) /\ Len(stream) \in Nat
      /\ UNCHANGED <<serving, pl>> /\ pc \in InSender
  BY DEF IInv, TypeOK, SendData, BlockLoop, CopySample, CopyEnd, WriteSample, WriteEnd, InSender
<1>1. PICK d \in {0, 1} : Len(stream') = Len(stream) + d /\ d = (IF WriteSample THEN 1 ELSE 0)
  <2>1. CASE WriteSample
    BY <1>0, <2>1 DEF WriteSample
  <2>2. CASE ~WriteSample
    <3>1. stream' = stream
      BY <2>2 DEF SendData, BlockLoop, CopySample, CopyEnd, WriteEnd
    <3> QED
      BY <1>0, <2>2, <3>1
  <2> QED
    BY <2>1, <2>2
<1>2. ASSUME NEW x \in Nat, NEW to \in Nat, Ahead(x, to)
      PROVE  Ahead(x + d, to)' /\ pc' \in InSender
  <2>1. CASE WriteSample
    BY <1>0, <1>1, <1>2, <2>1, AheadSample
  <2>2. CASE ~WriteSample
    <3>1. Ahead(x, to)' /\ pc' \in InSender
      BY <1>0, <1>2, <2>2, AheadCalls, AheadBlocks
    <3>2. x + d = x
      BY <1>1, <2>2
    <3> QED
      BY <3>1, <3>2
  <2> QED
    BY <2>1, <2>2
<1>3. CASE serving.kind = "SIMPLE"
  <2>1. PICK x \in Nat, to \in Nat :
            x = serving.wp + Len(stream) /\ to = serving.wp + serving.num
    BY <1>0 DEF TypeOK, Request
  <2>2. Ahead(x, to)
    BY <1>0, <1>3, <2>1 DEF Layout, SimpleLayout
  <2>3. Ahead(x + d, to)' /\ pc' \in InSender
    BY <1>2, <2>2
  <2>4. serving'.wp + Len(stream') = x + d /\ serving'.wp + serving'.num = to
    BY <1>0, <1>1, <2>1 DEF TypeOK, Request
  <2>5. SimpleLayout'
    BY <2>3, <2>4 DEF SimpleLayout, Ahead, Carry, InSender
  <2> QED
    BY <1>0, <1>3, <2>5 DEF Layout
<1>4. CASE serving.kind = "PIPELINE"
  <2>1. /\ serving.chunk > 0 /\ pl.sent = Frames * serving.chunk /\ Base <= Len(stream)
        /\ Ahead(serving.wp + pl.sent + (Len(stream) - Base), ReadWP)
    BY <1>0, <1>4 DEF Layout, FrameLayout
  <2>2. /\ Frames \in Nat /\ Base \in Nat
        /\ pl.sent \in Nat /\ pl.part \in Nat /\ serving.wp \in Nat
    BY <1>0, <2>1, FrameValues
  <2>3. PICK x \in Nat, to \in Nat :
            x = serving.wp + pl.sent + (Len(stream) - Base) /\ to = ReadWP
    BY <1>0, <2>1, <2>2 DEF ReadWP
  <2>4. Ahead(x + d, to)' /\ pc' \in InSender
    BY <1>2, <2>1, <2>3
  <2>5. Base' = Base /\ Frames' = Frames /\ ReadWP' = ReadWP
    BY <1>0 DEF Base, Frames, ReadWP
  <2>6. (serving.wp + pl.sent + (Len(stream) - Base))' = x + d /\ Base <= Len(stream')
    BY <1>0, <1>1, <2>1, <2>2, <2>3, <2>5
  <2>7. Ahead(serving.wp + pl.sent + (Len(stream) - Base), ReadWP)'
    BY <2>3, <2>4, <2>5, <2>6 DEF Ahead, Carry
  <2>8. FrameLayout'
    BY <1>0, <2>1, <2>4, <2>5, <2>6, <2>7 DEF FrameLayout, InChunk, InSender
  <2> QED
    BY <1>0, <1>4, <2>8 DEF Layout
<1> QED
  BY <1>0, <1>3, <1>4 DEF Layout

\* When the outermost call of sendDataToClient returns, the part or the whole
\* simple request has been sent.
LEMMA ReturnLayout ==
    ASSUME IInv, Layout, Uncut, SendDataReturn
    PROVE  Layout'
<1> USE DEF sendVars, hist, txVars
<1>1. /\ pc = "call" /\ calls = <<>>
      /\ pc' = (IF serving.kind = "PIPELINE" THEN "part" ELSE "finish")
      /\ UNCHANGED <<serving, stream>>
  BY DEF SendDataReturn
<1>2. CASE serving.kind = "PIPELINE"
  <2>1. FrameLayout'
    BY <1>2, ChunkLayout DEF Layout
  <2> QED
    BY <1>1, <1>2, <2>1 DEF Layout
<1>3. CASE serving.kind # "PIPELINE"
  <2>1. serving.kind = "SIMPLE"
    BY <1>1, <1>3 DEF IInv, Control, InSender, Kinds
  <2>2. serving.wp + Len(stream) = serving.wp + serving.num
    BY <1>1, <2>1 DEF Layout, SimpleLayout, Ahead, Carry, InSender
  <2>3. Len(stream) = serving.num
    <3>1. Len(stream) \in Nat /\ serving.wp \in Nat /\ serving.num \in Nat
      BY DEF IInv, TypeOK, Request
    <3> QED
      BY <2>2, <3>1
  <2> QED
    BY <1>1, <2>1, <2>3 DEF Layout, SimpleLayout, InSender
<1> QED
  BY <1>2, <1>3

\* Every step of the thread, the FPGA, the accepting thread and a quiet client
\* keeps the layout.
LEMMA LayoutStep ==
    ASSUME IInv, Layout, [QuietNext]_vars
    PROVE  Layout'
<1> USE DEF sendVars, hist, txVars
<1>0. TypeOK /\ Control
  BY DEF IInv
<1>1. CASE Receive \/ ReceiveMore \/ PollCommand \/ WriteBlocked
  <2>1. CASE QuietClient
    <3>1. /\ UNCHANGED <<stream, serving, pl, calls, seg>>
          /\ \/ pc' = "dispatch" /\ serving = NoRequest
             \/ pc' = pc /\ (Uncut' => Uncut)
      BY <1>1, <2>1, QuietCommand
    <3>2. CASE serving = NoRequest
      BY <3>1, <3>2, NoLayout DEF NoRequest, Kinds
    <3>3. CASE serving # NoRequest
      BY <3>1, <3>3, SameLayout
    <3> QED
      BY <3>2, <3>3
  <2>2. CASE ~QuietClient
    <3>1. UNCHANGED vars
      BY <2>2 DEF QuietNext
    <3> QED
      BY <3>1, SameLayout DEF vars, Uncut, Sending
  <2> QED
    BY <2>1, <2>2
<1>2. CASE ReceiveFailed \/ Exit \/ DispatchIdle
  <2>1. serving' = NoRequest
    BY <1>0, <1>2 DEF Control, ReceiveFailed, Exit, DispatchIdle
  <2> QED
    BY <2>1, NoLayout DEF NoRequest, Kinds
<1>3. CASE Finish
  <2>1. serving' = NoRequest
    BY <1>3 DEF Finish
  <2> QED
    BY <2>1, NoLayout DEF NoRequest, Kinds
<1>4. CASE DispatchSimple \/ DispatchPipeline
  BY <1>0, <1>4, FirstLayout
<1>5. CASE ReceiveClosed \/ FPGAWrite \/ Disconnect \/ TakeOver
  <2>1. UNCHANGED <<pc, pl, calls, seg, serving, stream>> /\ tx' = tx
        /\ (running' => running) /\ (connected' => connected)
    BY <1>5 DEF ReceiveClosed, FPGAWrite, Disconnect, TakeOver
  <2> QED
    BY <2>1, SameLayout DEF Uncut, Sending
<1>6. CASE ChunkLoop \/ PartLoop \/ WaitEnd \/ SendStatus \/ SendPerformance \/ PollNothing
  <2>1. UNCHANGED <<serving, tx, running, connected>> /\ serving.kind = "PIPELINE"
    BY <1>0, <1>6 DEF ChunkLoop, PartLoop, WaitEnd, SendStatus, SendPerformance, PollNothing,
         Control, InChunk
  <2>2. Uncut => FrameLayout'
    BY <1>6, <2>1, ChunkLayout DEF Layout
  <2> QED
    BY <2>1, <2>2 DEF Layout, Uncut, Sending
<1>7. CASE SendDataReturn
  <2>1. UNCHANGED <<tx, running, connected>>
    BY <1>7 DEF SendDataReturn
  <2>2. Uncut => Layout'
    BY <1>7, ReturnLayout
  <2> QED
    BY <2>1, <2>2 DEF Layout, Uncut, Sending
<1>8. CASE SendData \/ BlockLoop \/ CopySample \/ CopyEnd \/ WriteSample \/ WriteEnd
  <2>1. UNCHANGED <<tx, running, connected>>
    BY <1>8 DEF SendData, BlockLoop, CopySample, CopyEnd, WriteSample, WriteEnd
  <2>2. Uncut => Layout'
    BY <1>8, SenderLayout
  <2> QED
    BY <2>1, <2>2 DEF Layout, Uncut, Sending
<1>9. CASE UNCHANGED vars
  BY <1>9, SameLayout DEF vars, Uncut, Sending
<1> QED
  BY <1>1, <1>2, <1>3, <1>4, <1>5, <1>6, <1>7, <1>8, <1>9 DEF QuietNext, Next, Comm, Terminated

\* The layout holds as long as nobody gave up the request.
LEMMA QuietInvariance == QuietSpec => [](IInv /\ Layout)
<1>1. Init => IInv /\ Layout
  BY InitInv, NoLayout DEF Init, Layout, NoRequest
<1>2. IInv /\ Layout /\ [QuietNext]_vars => (IInv /\ Layout)'
  <2>1. [QuietNext]_vars => [Next]_vars
    BY DEF QuietNext
  <2> QED
    BY <2>1, StepInv, LayoutStep
<1> QED
  BY <1>1, <1>2, PTL DEF QuietSpec

\* The abstract specification computes the same plan.
LEMMA SamePlan ==
    /\ \A r : Promise!PlanLen(r) = PlanLen(r)
    /\ \A r, k : Promise!PlanItem(r, k) = PlanItem(r, k)
    /\ Promise!NoRequest = NoRequest
BY DEF Promise!PlanLen, PlanLen, Promise!PlanItem, PlanItem, Promise!FrameItem, FrameItem,
       Promise!Sample, Sample, Promise!Status, Status, Promise!Perf, Perf,
       Promise!NoRequest, NoRequest

\* A step that sends nothing begins, ends and revives no transmission: to the
\* client it is a stutter, a client that gives up, or one that comes or goes
\* between two requests.
LEMMA NothingSent ==
    ASSUME UNCHANGED <<serving, stream>>, serving # NoRequest => (Uncut' => Uncut)
    PROVE  [Promise!Next]_<<serving, stream, ~(Sending /\ connected)>>
<1>1. CASE serving = NoRequest
  <2>1. Promise!Idle
    BY <1>1, SamePlan, Zenon DEF Promise!Idle
  <2> QED
    BY <2>1 DEF Promise!Next
<1>2. CASE serving # NoRequest /\ ~Uncut'
  <2>1. Promise!GiveUp
    BY <1>2, SamePlan, Zenon DEF Promise!GiveUp, Uncut
  <2> QED
    BY <2>1 DEF Promise!Next
<1>3. CASE serving # NoRequest /\ Uncut'
  <2>1. Uncut' /\ Uncut
    BY <1>3
  <2>2. (~(Sending /\ connected))' = ~(Sending /\ connected)
    BY <2>1, Zenon DEF Uncut
  <2> QED
    BY <2>2
<1> QED
  BY <1>1, <1>2, <1>3

\* A step that appends the next item of the plan is the abstract Emit.
LEMMA NextItem ==
    ASSUME Uncut, UNCHANGED <<serving, tx, running, connected>>, serving # NoRequest,
           Len(stream) < PlanLen(serving),
           stream' = Append(stream, PlanItem(serving, Len(stream) + 1))
    PROVE  Promise!Next
<1>1. UNCHANGED <<serving, ~(Sending /\ connected)>>
  BY DEF Sending
<1>2. Promise!Emit
  BY <1>1, SamePlan, Zenon DEF Promise!Emit, Uncut
<1> QED
  BY <1>2 DEF Promise!Next

\* The plan, in the sender's own counters.
LEMMA FrameItems ==
    ASSUME TypeOK, Locals, FrameLayout, serving.kind = "PIPELINE",
           pc \in InChunk \cup InSender,
           NEW x \in Nat, Len(stream) = Base + x, x <= ChunkNow + 1
    PROVE  /\ Len(stream) < PlanLen(serving)
           /\ PlanItem(serving, Len(stream) + 1)
                = IF x < ChunkNow THEN Sample(serving.wp + pl.sent + x)
                  ELSE IF x = ChunkNow THEN Status ELSE Perf
<1>1. /\ serving.chunk > 0 /\ pl.sent = Frames * serving.chunk /\ pl.sent < serving.num
  BY DEF FrameLayout, Locals
<1>2. PICK f \in Nat : f = Frames
  BY <1>1, FrameValues
<1>3. PICK len \in Nat : len = ChunkNow
  BY <1>1, FrameValues DEF ChunkNow, Smaller
<1>4. serving \in Request /\ len = Smaller(serving.num - f * serving.chunk, serving.chunk)
      /\ f * serving.chunk < serving.num /\ x <= len + 1
  BY <1>1, <1>2, <1>3 DEF TypeOK, ChunkNow
<1>5. Len(stream) = f * (serving.chunk + 2) + x
  BY <1>2 DEF Base
<1> QED
  BY <1>1, <1>2, <1>3, <1>4, <1>5, InFrame

\* The sample writeAll sends is the next item of the plan ...
LEMMA SampleInPlan ==
    ASSUME IInv, Layout, WriteSample
    PROVE  Promise!Next
<1>1. /\ TypeOK /\ Control /\ Locals /\ Blocks /\ Uncut /\ pc = "write" /\ pc \in InSender
      /\ UNCHANGED <<serving, tx, running, connected>>
      /\ stream' = Append(stream, Sample(seg.wp + seg.sent + seg.written))
  BY DEF IInv, WriteSample, Uncut, InSender, txVars
<1>2. serving.kind \in Kinds /\ serving # NoRequest
  BY <1>1 DEF Control, NoRequest, Kinds
<1>3. /\ serving.wp \in Nat /\ serving.num \in Nat /\ Len(stream) \in Nat
  BY <1>1 DEF TypeOK, Request
<1>4. CASE serving.kind = "SIMPLE"
  <2>1. PICK x \in Nat, to \in Nat :
            x = serving.wp + Len(stream) /\ to = serving.wp + serving.num
    BY <1>3
  <2>2. Ahead(x, to)
    BY <1>1, <1>4, <2>1 DEF Layout, SimpleLayout
  <2>3. x < to /\ seg.wp + seg.sent + seg.written = x
    BY <1>1, <2>2, SampleIsAhead
  <2>4. Len(stream) < PlanLen(serving)
    BY <1>3, <1>4, <2>1, <2>3 DEF PlanLen
  <2>5. serving.wp + (Len(stream) + 1) - 1 = x
    BY <1>3, <2>1
  <2>6. PlanItem(serving, Len(stream) + 1) = Sample(seg.wp + seg.sent + seg.written)
    BY <1>4, <2>3, <2>5 DEF PlanItem
  <2> QED
    BY <1>1, <1>2, <2>4, <2>6, NextItem
<1>5. CASE serving.kind = "PIPELINE"
  <2>1. /\ FrameLayout /\ serving.chunk > 0 /\ Base <= Len(stream)
        /\ Ahead(serving.wp + pl.sent + (Len(stream) - Base), ReadWP)
        /\ pl.part <= ChunkNow
    BY <1>1, <1>5 DEF Layout, FrameLayout, Locals
  <2>2. /\ Base \in Nat /\ pl.sent \in Nat /\ pl.part \in Nat /\ ChunkNow \in Int
    BY <1>1, <2>1, FrameValues
  <2>3. PICK y \in Nat : y = Len(stream) - Base
    <3>1. Len(stream) \in Nat /\ Base \in Nat /\ Base <= Len(stream)
      BY <1>3, <2>1, <2>2
    <3>2. Len(stream) - Base \in Nat
      BY <3>1
    <3> QED
      BY <3>2
  <2>4. PICK x \in Nat, to \in Nat : x = serving.wp + pl.sent + y /\ to = ReadWP
    <3>1. serving.wp \in Nat /\ pl.sent \in Nat /\ pl.part \in Nat
      BY <1>3, <2>2
    <3>2. serving.wp + pl.sent + y \in Nat /\ serving.wp + pl.sent + pl.part \in Nat
      BY <3>1
    <3> QED
      BY <3>2 DEF ReadWP
  <2>5. Ahead(x, to)
    BY <2>1, <2>3, <2>4
  <2>6. x < to /\ seg.wp + seg.sent + seg.written = x
    BY <1>1, <2>5, SampleIsAhead
  <2>7. to = serving.wp + pl.sent + pl.part
    BY <2>4 DEF ReadWP
  <2>8. y < ChunkNow /\ y <= ChunkNow + 1 /\ Len(stream) = Base + y
    BY <1>3, <2>1, <2>2, <2>3, <2>4, <2>6, <2>7
  <2>9. /\ Len(stream) < PlanLen(serving)
        /\ PlanItem(serving, Len(stream) + 1) = Sample(serving.wp + pl.sent + y)
    BY <1>1, <1>5, <2>1, <2>8, FrameItems
  <2> QED
    BY <1>1, <1>2, <2>4, <2>6, <2>9, NextItem
<1> QED
  BY <1>2, <1>4, <1>5 DEF Kinds

\* ... and so are the status byte and the performance data.
LEMMA TrailerInPlan ==
    ASSUME IInv, Layout, Uncut, SendStatus \/ SendPerformance
    PROVE  Promise!Next
<1>1. /\ TypeOK /\ Locals /\ pc \in InChunk
      /\ UNCHANGED <<serving, tx, running, connected>>
      /\ serving.kind = "PIPELINE" /\ serving # NoRequest
  BY DEF IInv, SendStatus, SendPerformance, InChunk, Control, NoRequest, txVars
<1>2. FrameLayout /\ serving.chunk > 0
  BY <1>1 DEF Layout, FrameLayout
<1>3. PICK len \in Nat : len = ChunkNow
  <2>1. pl.sent < serving.num
    BY <1>1 DEF Locals
  <2> QED
    BY <1>1, <1>2, <2>1, FrameValues DEF ChunkNow, Smaller
<1>4. CASE SendStatus
  <2>1. Len(stream) = Base + len /\ stream' = Append(stream, Status)
    BY <1>2, <1>3, <1>4 DEF FrameLayout, SendStatus, Write, Uncut
  <2>2. len <= ChunkNow + 1 /\ ~(len < ChunkNow)
    BY <1>3
  <2>3. /\ Len(stream) < PlanLen(serving)
        /\ PlanItem(serving, Len(stream) + 1) = Status
    BY <1>1, <1>2, <1>3, <2>1, <2>2, FrameItems
  <2> QED
    BY <1>1, <2>1, <2>3, NextItem
<1>5. CASE SendPerformance
  <2>1. Len(stream) = Base + ChunkNow + 1 /\ stream' = Append(stream, Perf)
    BY <1>2, <1>5 DEF FrameLayout, SendPerformance, Write, Uncut
  <2>2. Base \in Nat
    BY <1>1, <1>2, FrameValues
  <2>3. PICK x \in Nat : x = len + 1
    BY <1>3
  <2>4. Len(stream) = Base + x /\ x <= ChunkNow + 1 /\ ~(x < ChunkNow) /\ x # ChunkNow
    BY <1>3, <2>1, <2>2, <2>3
  <2>5. /\ Len(stream) < PlanLen(serving)
        /\ PlanItem(serving, Len(stream) + 1) = Perf
    BY <1>1, <1>2, <2>4, FrameItems
  <2> QED
    BY <1>1, <2>1, <2>5, NextItem
<1> QED
  BY <1>4, <1>5

\* Every step of the server is a step of the abstract transmission, or none.
LEMMA PromiseStep ==
    ASSUME IInv, Layout, [QuietNext]_vars
    PROVE  [Promise!Next]_<<serving, stream, ~(Sending /\ connected)>>
<1> USE DEF sendVars, hist, txVars
<1>0. TypeOK /\ Control
  BY DEF IInv
<1>1. CASE Receive \/ ReceiveMore \/ PollCommand \/ WriteBlocked
  <2>1. CASE QuietClient
    <3>1. /\ UNCHANGED <<stream, serving>>
          /\ serving = NoRequest \/ (Uncut' => Uncut)
      BY <1>1, <2>1, QuietCommand
    <3> QED
      BY <3>1, NothingSent
  <2>2. CASE ~QuietClient
    <3>1. UNCHANGED vars
      BY <2>2 DEF QuietNext
    <3> QED
      BY <3>1, NothingSent DEF vars, Uncut, Sending
  <2> QED
    BY <2>1, <2>2
<1>2. CASE DispatchSimple \/ DispatchPipeline
  <2>1. /\ pc = "dispatch" /\ tx \in Kinds
        /\ serving' = asked /\ stream' = <<>> /\ UNCHANGED <<tx, running, connected>>
    BY <1>2 DEF DispatchSimple, DispatchPipeline, Kinds
  <2>2. serving = NoRequest /\ asked # NoRequest
    BY <1>0, <2>1 DEF Control, NoRequest, Kinds
  <2>3. (~(Sending /\ connected))' = ~(Sending /\ connected)
    BY <2>1 DEF Sending
  <2>4. Promise!Begin
    BY <2>1, <2>2, <2>3, SamePlan, Zenon DEF Promise!Begin
  <2> QED
    BY <2>4 DEF Promise!Next
<1>3. CASE Finish
  <2>1. /\ pc = "finish" /\ serving.kind \in Kinds /\ serving # NoRequest
        /\ serving' = NoRequest /\ stream' = <<>>
    BY <1>0, <1>3 DEF Finish, Control, Kinds, NoRequest
  <2>2. ~Uncut \/ Len(stream) = PlanLen(serving)
    BY <2>1 DEF Layout, SimpleLayout, FrameLayout, PlanLen, Kinds
  <2>3. Promise!End
    BY <2>1, <2>2, SamePlan, Zenon DEF Promise!End, Uncut
  <2> QED
    BY <2>3 DEF Promise!Next
<1>4. CASE SendStatus \/ SendPerformance
  <2>1. CASE Uncut
    BY <1>4, <2>1, TrailerInPlan
  <2>2. CASE ~Uncut
    <3>1. UNCHANGED <<serving, stream, tx, running, connected>>
      BY <1>4, <2>2 DEF SendStatus, SendPerformance, Write, Uncut
    <3> QED
      BY <3>1, NothingSent DEF Uncut, Sending
  <2> QED
    BY <2>1, <2>2
<1>5. CASE WriteSample
  BY <1>5, SampleInPlan
<1>6. CASE ReceiveClosed \/ FPGAWrite \/ Disconnect \/ TakeOver
  <2>1. UNCHANGED <<serving, stream>> /\ (Uncut' => Uncut)
    BY <1>6 DEF ReceiveClosed, FPGAWrite, Disconnect, TakeOver, Uncut, Sending
  <2> QED
    BY <2>1, NothingSent
<1>7. CASE \/ ReceiveFailed \/ Exit \/ DispatchIdle \/ ChunkLoop \/ PartLoop \/ WaitEnd
           \/ PollNothing \/ SendData \/ SendDataReturn \/ BlockLoop \/ CopySample
           \/ CopyEnd \/ WriteEnd \/ UNCHANGED vars
  <2>1. UNCHANGED <<serving, stream, tx, running, connected>>
    BY <1>7 DEF ReceiveFailed, Exit, DispatchIdle, ChunkLoop, PartLoop, WaitEnd, PollNothing,
         SendData, SendDataReturn, BlockLoop, CopySample, CopyEnd, WriteEnd, vars
  <2> QED
    BY <2>1, NothingSent DEF Uncut, Sending
<1> QED
  BY <1>1, <1>2, <1>3, <1>4, <1>5, <1>6, <1>7 DEF QuietNext, Next, Comm, Terminated

\* What a quiet client receives of a request, simple or pipelined, is a prefix
\* of the plan at every moment and all of the plan when the transmission ends
\* by itself: communicationThread with its three nested senders implements the
\* abstract stream, for every ring, block, chunk and request size.
THEOREM PromiseIsKept == QuietSpec => KeepsThePromise
<1>1. Init => Promise!Init
  BY SamePlan DEF Init, Promise!Init
<1>2. IInv /\ Layout /\ [QuietNext]_vars
        => [Promise!Next]_<<serving, stream, ~(Sending /\ connected)>>
  BY PromiseStep
<1> QED
  BY <1>1, <1>2, QuietInvariance, PTL DEF QuietSpec, KeepsThePromise, Promise!Spec
=============================================================================
