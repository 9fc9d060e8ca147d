---------------------------- MODULE SampleStream ----------------------------
(***************************************************************************)
(* What a transmission promises a client on the data socket, abstracted    *)
(* from how the server produces it (docs/src/scpi.md, RP:ADC:DATa? and     *)
(* RP:ADC:DATa:PIPElined?; the Julia client's readSamples computes the     *)
(* same layout): the samples from the read pointer on, once each and in    *)
(* order, for a pipelined request in chunks of chunkSize, each followed by *)
(* the status byte and the performance data of that chunk.                 *)
(***************************************************************************)
EXTENDS SamplePlan

VARIABLES
    request,   \* the request being served, NoRequest between two
    out,       \* what the client received of it
    cut        \* the client gave up: it stopped the transmission or left

Init == request = NoRequest /\ out = <<>> /\ cut \in BOOLEAN

Begin == /\ request = NoRequest
         /\ request' # NoRequest
         /\ out' = <<>>
         /\ cut' = cut

Emit == /\ request # NoRequest /\ ~cut
        /\ Len(out) < PlanLen(request)
        /\ out' = Append(out, PlanItem(request, Len(out) + 1))
        /\ UNCHANGED <<request, cut>>

\* once the client gives up a request, nothing more of it follows
GiveUp == /\ request # NoRequest
          /\ cut' = TRUE
          /\ UNCHANGED <<request, out>>

End == /\ request # NoRequest
       /\ cut \/ Len(out) = PlanLen(request)
       /\ request' = NoRequest
       /\ out' = <<>>
       /\ cut' \in BOOLEAN

\* between two requests clients come and go
Idle == /\ request = NoRequest
        /\ cut' \in BOOLEAN
        /\ UNCHANGED <<request, out>>

Next == Begin \/ Emit \/ GiveUp \/ End \/ Idle

Spec == Init /\ [][Next]_<<request, out, cut>>
=============================================================================
