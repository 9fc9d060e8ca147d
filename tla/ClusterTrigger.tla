---------------------------- MODULE ClusterTrigger ----------------------------
(***************************************************************************)
(* The trigger of a cluster: the reset managers of the FPGAs               *)
(* (reset_manager.v), each with the writer that moves its samples to the   *)
(* ring buffer in bursts (axis_ram_writer.v); the SCPI handlers that write *)
(* their configuration registers; and the Julia client, whose calls on a   *)
(* cluster are rounds of commands to its RedPitayas.                       *)
(*                                                                         *)
(* The RedPitayas 1..N are a chain: a trigger state reaches the next one   *)
(* within a few cycles, which no command observes, so a register write and *)
(* what follows from it in the FPGAs are one step.  They share one clock:  *)
(* a Tick is a sample of every RedPitaya whose trigger is on.              *)
(***************************************************************************)
EXTENDS Naturals, Sequences

CONSTANTS
    N,          \* length of the chain
    Setups,     \* the ClusterTriggerSetups of the instance
    Burst,      \* words of an AXI burst
    MaxWords    \* bound: words sampled after a trigger

RPs   == 1..N
Modes == {"CONFIGURATION", "ACQUISITION", "TRANSMISSION"}

ASSUME ClusterAssumption ==
    /\ {N, Burst, MaxWords} \subseteq Nat \ {0}
    /\ Setups \subseteq {"ALL_INTERNAL", "ALL_EXTERNAL", "MASTER_EXTERNAL"}

VARIABLES
    setup,      \* triggerMode of the cluster's constructor
    calls,      \* rounds of commands the client has still to make
    mode,       \* serverMode of each RedPitaya
    cfg,        \* its configuration register, by bit
    pc, wp_old, \* where its handler is; the write pointer it last read
    outside,    \* level of the trigger input of a MASTER_EXTERNAL master
    output,     \* stateOutputOn
    fifo, addr, \* words waiting in the writer; int_addr_reg_total
    wvalid,     \* whether a burst is under way
    cut         \* history: RedPitayas whose writer was reset in a burst

client  == <<setup, calls>>
server  == <<mode, pc, wp_old>>
writer  == <<fifo, addr, wvalid, cut>>
vars    == <<setup, calls, mode, cfg, pc, wp_old, outside, output,
             fifo, addr, wvalid, cut>>

-----------------------------------------------------------------------------
(* The reset managers.                                                     *)

\* DIO0_P of all is cabled to DIO5_P of the master, or the master's to a device
TriggerInput(c, level) ==
    IF setup = "MASTER_EXTERNAL" THEN level ELSE c[1].trig

\* triggerState: the counter trigger is not enabled
TriggerState(c, level) ==
    LET On[r \in RPs] ==
          IF c[r].external
          THEN TriggerInput(c, level)
          ELSE \/ c[r].trig
               \/ r > 1 /\ On[r - 1] /\ c[r - 1].prop  \* sata_out
    IN  On

Triggered == TriggerState(cfg, outside)

\* stateOutputOn, the pins r \in pins of the instant reset being high
OutputOn(c, level, pins) ==
    [r \in RPs |->
        LET on == TriggerState(c, level)[r] IN
        IF (r \in pins /\ c[r].instant) \/ ~output[r] THEN ~on ELSE TRUE]

\* mutant: the write pointer is not reset with the writer
SettlesKeepsPointer(c, level, pins) ==
    LET on      == TriggerState(c, level)
        runs(r) == on[r] \/ c[r].alive
    IN  /\ cfg' = c /\ outside' = level
        /\ output' = OutputOn(c, level, pins)
        /\ fifo'   = [r \in RPs |-> IF runs(r) THEN fifo[r] ELSE 0]
        /\ wvalid' = [r \in RPs |-> wvalid[r] /\ runs(r)]
        /\ cut'    = cut \cup {r \in RPs : wvalid[r] /\ ~runs(r)}
        /\ UNCHANGED addr

\* a writer that neither samples nor is kept alive is reset
Settles(c, level, pins) ==
    LET on      == TriggerState(c, level)
        runs(r) == on[r] \/ c[r].alive
    IN  /\ cfg' = c /\ outside' = level
        /\ output' = OutputOn(c, level, pins)
        /\ fifo'   = [r \in RPs |-> IF runs(r) THEN fifo[r] ELSE 0]
        /\ addr'   = [r \in RPs |-> IF runs(r) THEN addr[r] ELSE 0]
        /\ wvalid' = [r \in RPs |-> wvalid[r] /\ runs(r)]
        /\ cut'    = cut \cup {r \in RPs : wvalid[r] /\ ~runs(r)}

InstantReset(r) ==
    /\ Settles(cfg, outside, {r})
    /\ UNCHANGED <<client, server>>

\* the device the master's trigger input is connected to
OutsideTrigger ==
    /\ setup = "MASTER_EXTERNAL"
    /\ Settles(cfg, ~outside, {})
    /\ UNCHANGED <<client, server>>

-----------------------------------------------------------------------------
(* Sampling, and the writers.                                              *)

\* a writer is fast enough for its samples
Tick ==
    /\ \E r \in RPs : Triggered[r]
    /\ \A r \in RPs : Triggered[r] => fifo[r] <= Burst /\ addr[r] + fifo[r] < MaxWords
    /\ fifo' = [r \in RPs |-> IF Triggered[r] THEN fifo[r] + 1 ELSE fifo[r]]
    /\ UNCHANGED <<client, server, cfg, outside, output, addr, wvalid, cut>>

\* ~int_almost_empty_wire
BurstIsThere(r) == fifo[r] >= Burst

WriterIdle(r) == ~wvalid[r] /\ ~BurstIsThere(r)

BurstBegins(r) ==
    /\ ~wvalid[r] /\ BurstIsThere(r)
    /\ wvalid' = [wvalid EXCEPT ![r] = TRUE]
    /\ UNCHANGED <<client, server, cfg, outside, output, fifo, addr, cut>>

\* the last word of a burst is followed by the next burst, if it is there
WriteWord(r) ==
    /\ wvalid[r]
    /\ fifo' = [fifo EXCEPT ![r] = @ - 1]
    /\ addr' = [addr EXCEPT ![r] = @ + 1]
    /\ wvalid' = [wvalid EXCEPT ![r] = addr'[r] % Burst = 0 => fifo'[r] >= Burst]
    /\ UNCHANGED <<client, server, cfg, outside, output, cut>>

-----------------------------------------------------------------------------
(* The handlers of the server of r.  A command the mode does not allow is  *)
(* answered INVALID_MODE, which the client logs.                           *)

Called(r, name) == /\ calls # <<>> /\ r \in calls[1].rps /\ calls[1].name = name
                   /\ pc[r] = "idle"

Arg == calls[1].arg

\* the client's next round waits for the answers of this one
Answers(r) ==
    /\ calls' = IF calls[1].rps = {r} THEN Tail(calls)
                ELSE [calls EXCEPT ![1].rps = @ \ {r}]
    /\ UNCHANGED setup

Unheard == UNCHANGED <<cfg, outside, output, writer>>

Allowed(name) == CASE name \in {"serverMode!", "connect"}  -> Modes \ {"TRANSMISSION"}
                   [] name = "triggerPropagation!"         -> {"CONFIGURATION"}
                   [] name = "enableInstantReset!"         -> Modes
                   [] OTHER                                -> {"ACQUISITION"}

Refuse(r) ==
    /\ calls # <<>> /\ Called(r, calls[1].name)
    /\ mode[r] \notin Allowed(calls[1].name)
    /\ Answers(r) /\ Unheard /\ UNCHANGED server

Accepted(r, name) == Called(r, name) /\ mode[r] \in Allowed(name)

RP_SetServerMode(r) ==
    /\ Accepted(r, "serverMode!")
    /\ mode' = [mode EXCEPT ![r] = Arg]
    /\ Answers(r) /\ Unheard /\ UNCHANGED <<pc, wp_old>>

\* the constructor: serverMode!, triggerMode! and triggerPropagation! of r
Connect(r) ==
    /\ Accepted(r, "connect")
    /\ mode' = [mode EXCEPT ![r] = "CONFIGURATION"]
    /\ Settles([cfg EXCEPT ![r].external = \/ setup = "ALL_EXTERNAL"
                                           \/ setup = "MASTER_EXTERNAL" /\ r = 1,
                           ![r].prop = TRUE], outside, {})
    /\ Answers(r) /\ UNCHANGED <<pc, wp_old>>

RP_DAC_SetTriggerPropagation(r) ==
    /\ Accepted(r, "triggerPropagation!")
    /\ Settles([cfg EXCEPT ![r].prop = Arg = "ON"], outside, {})
    /\ Answers(r) /\ UNCHANGED server

RP_SetInstantResetMode(r) ==
    /\ Accepted(r, "enableInstantReset!")
    /\ Settles([cfg EXCEPT ![r].instant = Arg = "ON"], outside, {})
    /\ Answers(r) /\ UNCHANGED server

\* the client has its samples when the server is still in TRANSMISSION
RP_ADC_StartPipelinedData(r) ==
    /\ Accepted(r, "startPipelinedData")
    /\ mode' = [mode EXCEPT ![r] = "TRANSMISSION"]
    /\ Answers(r) /\ Unheard /\ UNCHANGED <<pc, wp_old>>

TransmissionEnds(r) ==
    /\ mode[r] = "TRANSMISSION"
    /\ mode' = [mode EXCEPT ![r] = "ACQUISITION"]
    /\ Unheard /\ UNCHANGED <<client, pc, wp_old>>

At(r, from, to) == pc[r] = from /\ pc' = [pc EXCEPT ![r] = to] /\ UNCHANGED mode

RP_SetKeepAliveReset(r) ==
    /\ Accepted(r, "keepAliveReset!")
    /\ IF Arg = "ON"
       THEN /\ Settles([cfg EXCEPT ![r].alive = TRUE], outside, {})
            /\ Answers(r) /\ UNCHANGED server
       ELSE /\ At(r, "idle", "release")
            /\ Unheard /\ UNCHANGED <<client, wp_old>>

\* setMasterTrigger keeps the writer alive before it clears the trigger
RP_SetMasterTrigger(r) ==
    /\ Accepted(r, "masterTrigger!")
    /\ IF Arg = "ON"
       THEN /\ Settles([cfg EXCEPT ![r].trig = TRUE], outside, {})
            /\ Answers(r) /\ UNCHANGED server
       ELSE /\ At(r, "idle", "clear")
            /\ Settles([cfg EXCEPT ![r].alive = TRUE], outside, {})
            /\ UNCHANGED <<client, wp_old>>

ClearTrigger(r) ==
    /\ At(r, "clear", "release")
    /\ Settles([cfg EXCEPT ![r].trig = FALSE], outside, {})
    /\ UNCHANGED <<client, wp_old>>

\* mutant: the bit is cleared while the writer may still have words
ReleaseAtOnce(r) ==
    /\ At(r, "release", "idle")
    /\ Settles([cfg EXCEPT ![r].alive = Triggered[r]], outside, {})
    /\ Answers(r) /\ UNCHANGED wp_old

\* setKeepAliveReset(OFF) leaves the bit alone while the trigger is on
Release(r) ==
    IF Triggered[r]
    THEN /\ At(r, "release", "idle")
         /\ Answers(r) /\ Unheard /\ UNCHANGED wp_old
    ELSE /\ At(r, "release", "drain")
         /\ wp_old' = [wp_old EXCEPT ![r] = addr[r]]
         /\ Unheard /\ UNCHANGED client

\* mutant: gives up when the write pointer has moved
PollOnce(r) ==
    /\ WriterIdle(r)
    /\ At(r, "drain", "idle")
    /\ Settles([cfg EXCEPT ![r].alive = addr[r] # wp_old[r]], outside, {})
    /\ Answers(r) /\ UNCHANGED wp_old

\* 100 microseconds are enough for the writer to write what it can
Poll(r) ==
    /\ pc[r] = "drain" /\ WriterIdle(r)
    /\ IF addr[r] = wp_old[r]
       THEN /\ At(r, "drain", "idle")
            /\ Settles([cfg EXCEPT ![r].alive = FALSE], outside, {})
            /\ Answers(r) /\ UNCHANGED wp_old
       ELSE /\ wp_old' = [wp_old EXCEPT ![r] = addr[r]]
            /\ Unheard /\ UNCHANGED <<client, mode, pc>>

-----------------------------------------------------------------------------
(* The client.                                                             *)

Round(name, arg, rps) == [name |-> name, arg |-> arg, rps |-> rps]

Call(rounds) ==
    /\ calls = <<>> /\ calls' = rounds
    /\ UNCHANGED <<setup, server, cfg, outside, output, writer>>

\* mutant: only the master is released again
StopReleasesMaster == Call(<<Round("keepAliveReset!", "ON", RPs),
                             Round("masterTrigger!", "OFF", {1}),
                             Round("keepAliveReset!", "OFF", {1})>>)

StopTrigger == Call(<<Round("keepAliveReset!", "ON", RPs),
                      Round("masterTrigger!", "OFF", {1}),
                      Round("keepAliveReset!", "OFF", RPs)>>)

StartTrigger == Call(<<Round("masterTrigger!", "ON", {1})>>)

SetServerMode(m)       == Call(<<Round("serverMode!", m, RPs)>>)
EnableInstantReset(on) == Call(<<Round("enableInstantReset!", on, RPs)>>)
ReadSamples            == Call(<<Round("startPipelinedData", "ON", RPs)>>)

Client ==
    \/ StartTrigger \/ StopTrigger \/ ReadSamples
    \/ \E m \in {"CONFIGURATION", "ACQUISITION"} : SetServerMode(m)
    \/ \E on \in {"ON", "OFF"} : EnableInstantReset(on)

\* the constructor of the cluster finds the servers as their init left them, the
\* trigger mode and the propagation as they were before
Init ==
    /\ setup \in Setups
    /\ calls = <<Round("connect", "ON", RPs),
                 Round("triggerPropagation!", "OFF", {N})>>
    /\ mode = [r \in RPs |-> "CONFIGURATION"]
    /\ pc = [r \in RPs |-> "idle"] /\ wp_old = [r \in RPs |-> 0]
    /\ \E external, prop \in BOOLEAN :
         cfg = [r \in RPs |-> [external |-> external, prop |-> prop, trig |-> FALSE,
                               alive |-> FALSE, instant |-> FALSE]]
    /\ outside = FALSE
    /\ output = [r \in RPs |-> TRUE]
    /\ fifo = [r \in RPs |-> 0] /\ addr = [r \in RPs |-> 0]
    /\ wvalid = [r \in RPs |-> FALSE] /\ cut = {}

Server(r) ==
    \/ Refuse(r) \/ RP_SetServerMode(r) \/ Connect(r)
    \/ RP_DAC_SetTriggerPropagation(r) \/ RP_SetInstantResetMode(r)
    \/ RP_SetKeepAliveReset(r) \/ RP_SetMasterTrigger(r)
    \/ ClearTrigger(r) \/ Release(r) \/ Poll(r)

Writer(r) == BurstBegins(r) \/ WriteWord(r)

Next ==
    \/ Client
    \/ Tick \/ OutsideTrigger
    \/ \E r \in RPs : Server(r) \/ RP_ADC_StartPipelinedData(r)
                      \/ TransmissionEnds(r) \/ Writer(r) \/ InstantReset(r)

Spec == Init /\ [][Next]_vars

-----------------------------------------------------------------------------
(* A careful client calls a cluster when every server has left the         *)
(* transmission before; a device that triggers the master is operated      *)
(* between calls, with no writer kept alive when the trigger begins and    *)
(* every one when it ends.                                                 *)
Quiet == \A r \in RPs : mode[r] # "TRANSMISSION"

CarefulNext ==
    \/ Client /\ Quiet
    \/ Tick
    \/ /\ OutsideTrigger /\ calls = <<>>
       /\ \A r \in RPs : cfg[r].alive = outside
    \/ \E r \in RPs : Server(r) \/ RP_ADC_StartPipelinedData(r)
                      \/ TransmissionEnds(r) \/ Writer(r) \/ InstantReset(r)

\* a server answers, and a writer writes
CarefulSpec ==
    /\ Init /\ [][CarefulNext]_vars
    /\ \A r \in RPs : WF_vars(Server(r)) /\ WF_vars(Writer(r)) /\ WF_vars(TransmissionEnds(r))

-----------------------------------------------------------------------------
(* Properties.                                                             *)

\* The values each variable takes.
TypeOK ==
    /\ setup \in Setups
    /\ Len(calls) <= 3
    /\ \A i \in 1..Len(calls) :
         calls[i].rps \in (SUBSET RPs) \ {{}} /\ calls[i].arg \in {"ON", "OFF"} \cup Modes
    /\ mode \in [RPs -> Modes]
    /\ cfg \in [RPs -> [external : BOOLEAN, prop : BOOLEAN, trig : BOOLEAN,
                        alive : BOOLEAN, instant : BOOLEAN]]
    /\ pc \in [RPs -> {"idle", "clear", "release", "drain"}]
    /\ wp_old \in [RPs -> 0..MaxWords]
    /\ outside \in BOOLEAN
    /\ output \in [RPs -> BOOLEAN] /\ wvalid \in [RPs -> BOOLEAN]
    /\ fifo \in [RPs -> 0..(Burst + 1)] /\ addr \in [RPs -> 0..MaxWords]
    /\ cut \subseteq RPs

\* No writer of the cluster is reset in the middle of a burst, which the memory
\* controller would wait for: keepAliveReset holds every writer until it has
\* written the bursts it has the words for, on the slaves too, which lose the
\* trigger within cycles after the master.
BurstsComplete == cut = {}

\* The write pointers of a cluster are a common clock: RedPitayas that sample
\* have taken the same number of samples.
InStep ==
    \A r, s \in RPs :
        Triggered[r] /\ Triggered[s] => addr[r] + fifo[r] = addr[s] + fifo[s]

\* A trigger finds the writers reset: the first frame of an acquisition begins
\* with the trigger, whatever was acquired before.
StartsFresh ==
    [][\A r \in RPs : ~Triggered[r] /\ Triggered'[r] => addr[r] + fifo[r] = 0]_vars

\* masterTrigger!(rpc, false) stops the cluster and leaves no writer alive, when
\* the cluster triggers itself and its servers are in ACQUISITION.
Stopping == /\ setup # "MASTER_EXTERNAL" /\ calls # <<>>
            /\ calls[1].name = "masterTrigger!" /\ calls[1].arg = "OFF"
            /\ \A r \in RPs : mode[r] = "ACQUISITION"

Stopped == \A r \in RPs : ~Triggered[r] /\ ~cfg[r].alive

StopStops == Stopping ~> Stopped

\* "If `val` is false then the keepAliveReset is set to true for all RedPitayas
\* in the cluster before the master trigger is disabled" (Cluster.jl:175): the
\* master's trigger goes off only with every writer kept alive.
KeptAliveFirst ==
    [][cfg[1].trig /\ ~cfg'[1].trig => \A r \in RPs : cfg[r].alive]_vars
=============================================================================
