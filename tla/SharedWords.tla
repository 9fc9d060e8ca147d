----------------------------- MODULE SharedWords -----------------------------
(***************************************************************************)
(* Words that the communication thread and the control thread, each on a   *)
(* processor of its own, both change by loading, modifying and storing     *)
(* them (rp-daq-lib.c, control.c, communication.c):                        *)
(*   - the first word of a component of the fast DACs, with its amplitude  *)
(*     and its signal type, which stopTx at the end of a sequence and the  *)
(*     handlers of the client's commands write, and                        *)
(*   - the byte with the bit fields of struct status.                      *)
(* There is no lock.  A store puts back what its load saw in the fields    *)
(* it does not mean to change.                                             *)
(*                                                                         *)
(* A thread has a list of writes left to do, todo.  A write loads its word *)
(* in one step and stores it in one per access: the processor moves the    *)
(* 64 bits of a component in two halves, in either order, and the byte at  *)
(* once.  The amplitude lies in one half and the type in the other.        *)
(*                                                                         *)
(* Abstracted: what a sequence plays (see SlowDAC), the scaling of values, *)
(* and the words only one thread writes.                                   *)
(***************************************************************************)
EXTENDS Naturals, Sequences

CONSTANTS
    Order,       \* the components in the order in which stopTx stops them
    Amplitudes,  \* values of an amplitude, with 0
    Types        \* values of a signal type

Comps == {Order[i] : i \in DOMAIN Order}
Names == {"overwritten", "corrupted", "lostSteps"}

ASSUME OrderIsSequence == Order \in Seq(Comps) /\ Order # <<>>
ASSUME ErrIsNoComponent == "err" \notin Comps
ASSUME ValuesAreNumbers == Amplitudes \subseteq Nat /\ 0 \in Amplitudes
                             /\ Types \subseteq Nat /\ Types # {}

Threads == {"comm", "control"}

Amp(c)  == <<c, "amplitude">>
Type(c) == <<c, "type">>
Flag(n) == <<"err", n>>

Outputs == {Amp(c) : c \in Comps} \cup {Type(c) : c \in Comps}
Flags   == {Flag(n) : n \in Names}
Fields  == Outputs \cup Flags

\* the fields of the word of f, and those of one access to it
Word(f)   == {g \in Fields : g[1] = f[1]}
Access(f) == IF f \in Flags THEN Flags ELSE {f}

VARIABLES
    mem,      \* the fields
    todo,     \* of each thread: writes it has left to do
    reg,      \* of each thread: what it has left to store of the first of them
    seqState,
    trigger,  \* master trigger
    mode,     \* serverMode
    comm,     \* where the communication thread is
    control,  \* where the control thread is
    controlThreadRunning

threads == <<comm, control, controlThreadRunning>>
vars    == <<mem, todo, reg, seqState, trigger, mode, threads>>

NoReg == [f \in {} |-> 0]

Init ==
    /\ mem = [f \in Fields |-> IF f \in {Type(c) : c \in Comps}
                               THEN CHOOSE t \in Types : TRUE ELSE 0]
    /\ todo = [t \in Threads |-> <<>>] /\ reg = [t \in Threads |-> NoReg]
    /\ seqState = "CONFIG" /\ trigger = FALSE /\ mode = "CONFIGURATION"
    /\ comm = "serve" /\ control = "check" /\ controlThreadRunning = TRUE

-----------------------------------------------------------------------------
(* A write: register_value = *p; register_value = (register_value & mask)  *)
(* | value; *p = register_value.                                           *)

W(f, v) == [to |-> f, value |-> v]

Load(t) ==
    /\ todo[t] # <<>> /\ reg[t] = NoReg
    /\ LET w == Head(todo[t])
       IN  reg' = [reg EXCEPT ![t] = [g \in Word(w.to) |->
                                         IF g = w.to THEN w.value ELSE mem[g]]]
    /\ UNCHANGED <<mem, todo, seqState, trigger, mode, threads>>

Store(t) ==
    /\ \E f \in DOMAIN reg[t] :
          /\ mem' = [g \in Fields |-> IF g \in Access(f) THEN reg[t][g] ELSE mem[g]]
          /\ reg' = [reg EXCEPT ![t] = [g \in DOMAIN reg[t] \ Access(f) |-> reg[t][g]]]
    /\ todo' = IF DOMAIN reg'[t] = {} THEN [todo EXCEPT ![t] = Tail(todo[t])] ELSE todo
    /\ UNCHANGED <<seqState, trigger, mode, threads>>

Do(t, writes) == todo[t] = <<>> /\ todo' = [todo EXCEPT ![t] = writes]

\* mutant: stops all components but the last
StopTxOneLess == [i \in 1..(Len(Order) - 1) |-> W(Amp(Order[i]), 0)]

StopTx == [i \in DOMAIN Order |-> W(Amp(Order[i]), 0)]

-----------------------------------------------------------------------------
(* The communication thread: commands of the client.                       *)

Command(writes) == comm = "serve" /\ Do("comm", writes)
Done            == UNCHANGED <<mem, reg>>

RP_DAC_SetAmplitude ==
    /\ \E c \in Comps, v \in Amplitudes : Command(<<W(Amp(c), v)>>)
    /\ Done /\ UNCHANGED <<seqState, trigger, mode, threads>>

RP_DAC_SetSignalType ==
    /\ \E c \in Comps, v \in Types : Command(<<W(Type(c), v)>>)
    /\ Done /\ UNCHANGED <<seqState, trigger, mode, threads>>

RP_SetServerMode ==
    /\ Command(<<>>)
    /\ mode' \in {"CONFIGURATION", "ACQUISITION"}
    /\ Done /\ UNCHANGED <<seqState, trigger, threads>>

RP_SetMasterTrigger ==
    /\ mode = "ACQUISITION" /\ Command(<<>>)
    /\ trigger' \in BOOLEAN
    /\ Done /\ UNCHANGED <<seqState, mode, threads>>

IsSequenceConfigurable == mode = "CONFIGURATION" /\ seqState # "RUNNING"

\* the handlers that configure a sequence
RP_DAC_Configure ==
    /\ IsSequenceConfigurable /\ Command(<<>>)
    /\ seqState' = "CONFIG"
    /\ Done /\ UNCHANGED <<trigger, mode, threads>>

\* initSlowDAC, from SET
RP_DAC_SetSequence ==
    /\ IsSequenceConfigurable
    /\ Command(<<W(Flag("lostSteps"), 0)>>)
    /\ comm' = "prepare"
    /\ Done /\ UNCHANGED <<seqState, trigger, mode, control, controlThreadRunning>>

\* the end of prepareSequence
Prepared ==
    /\ comm = "prepare" /\ todo["comm"] = <<>>
    /\ seqState' = "PREPARED" /\ comm' = "serve"
    /\ UNCHANGED <<mem, todo, reg, trigger, mode, control, controlThreadRunning>>

\* sendDataToClient, called for a request
SendDataToClient ==
    /\ mode = "ACQUISITION"
    /\ \E overwritten \in BOOLEAN, corrupted \in BOOLEAN :
          Command(<<W(Flag("overwritten"), 0), W(Flag("corrupted"), 0)>>
                    \o (IF overwritten THEN <<W(Flag("overwritten"), 1)>> ELSE <<>>)
                    \o (IF corrupted THEN <<W(Flag("corrupted"), 1)>> ELSE <<>>))
    /\ Done /\ UNCHANGED <<seqState, trigger, mode, threads>>

-----------------------------------------------------------------------------
(* The communication thread and main: the end of a session.                *)

\* the client closed the connection, or main asks the thread to end
Leave ==
    /\ Command(StopTx)
    /\ comm' = "stop"
    /\ Done /\ UNCHANGED <<seqState, trigger, mode, control, controlThreadRunning>>

\* joinControlThread
LeaveJoins ==
    /\ comm = "stop" /\ todo["comm"] = <<>>
    /\ controlThreadRunning' = FALSE /\ comm' = "join"
    /\ UNCHANGED <<mem, todo, reg, seqState, trigger, mode, control>>

\* recv failed: the thread ends, and nothing else does
Fail ==
    /\ Command(<<>>)
    /\ comm' = "failed"
    /\ Done /\ UNCHANGED <<seqState, trigger, mode, control, controlThreadRunning>>

\* main, for the next client: joins the one thread, then the other
MainJoins ==
    /\ comm = "failed"
    /\ controlThreadRunning' = FALSE /\ comm' = "join"
    /\ UNCHANGED <<mem, todo, reg, seqState, trigger, mode, control>>

\* mutant: does not wait for the control thread
CreateThreadsUnjoined ==
    /\ comm = "join"
    /\ comm' = "serve" /\ control' = "check" /\ controlThreadRunning' = TRUE
    /\ UNCHANGED <<mem, todo, reg, seqState, trigger, mode>>

\* createThreads, once both are joined
CreateThreads ==
    /\ comm = "join" /\ control = "ended"
    /\ comm' = "serve" /\ control' = "check" /\ controlThreadRunning' = TRUE
    /\ UNCHANGED <<mem, todo, reg, seqState, trigger, mode>>

-----------------------------------------------------------------------------
(* The control thread.                                                     *)

Clean == Do("control", StopTx) /\ UNCHANGED <<mem, reg>>

\* mutant: looks for its end only while no sequence runs
CtlCheckSequenceFirst ==
    /\ control = "check" /\ todo["control"] = <<>>
    /\ \/ /\ ~controlThreadRunning /\ ~(trigger /\ seqState \in {"PREPARED", "RUNNING"})
          /\ Clean /\ control' = "exit"
       \/ /\ trigger /\ seqState \in {"PREPARED", "RUNNING"}
          /\ control' = "handle" /\ UNCHANGED <<mem, todo, reg>>
       \/ /\ controlThreadRunning /\ ~trigger /\ seqState = "RUNNING"
          /\ Clean /\ control' = "clean"
    /\ UNCHANGED <<seqState, trigger, mode, comm, controlThreadRunning>>

\* the conditions of the loop
CtlCheck ==
    /\ control = "check" /\ todo["control"] = <<>>
    /\ \/ /\ ~controlThreadRunning
          /\ Clean /\ control' = "exit"
       \/ /\ controlThreadRunning /\ trigger /\ seqState \in {"PREPARED", "RUNNING"}
          /\ control' = "handle" /\ UNCHANGED <<mem, todo, reg>>
       \/ /\ controlThreadRunning /\ ~trigger /\ seqState = "RUNNING"
          /\ Clean /\ control' = "clean"
    /\ UNCHANGED <<seqState, trigger, mode, comm, controlThreadRunning>>

\* mutant: gives the sequence free first
CtlHandleFreesFirst ==
    /\ control = "handle"
    /\ \E late \in BOOLEAN, last \in BOOLEAN :
          /\ Do("control", (IF late THEN <<W(Flag("lostSteps"), 1)>> ELSE <<>>)
                             \o (IF last THEN StopTx ELSE <<>>))
          /\ control' = IF last THEN "clean" ELSE "check"
          /\ seqState' = IF last THEN "CONFIG" ELSE "RUNNING"
    /\ UNCHANGED <<mem, reg, trigger, mode, comm, controlThreadRunning>>

\* a step of the sequence: it may be too late, and it may be the last
CtlHandle ==
    /\ control = "handle"
    /\ seqState' = IF seqState = "PREPARED" THEN "RUNNING" ELSE seqState
    /\ \E late \in BOOLEAN, last \in BOOLEAN :
          /\ Do("control", (IF late THEN <<W(Flag("lostSteps"), 1)>> ELSE <<>>)
                             \o (IF last THEN StopTx ELSE <<>>))
          /\ control' = IF last THEN "clean" ELSE "check"
    /\ UNCHANGED <<mem, reg, trigger, mode, comm, controlThreadRunning>>

\* the end of cleanUpSlowDAC
CtlCleaned ==
    /\ control \in {"clean", "exit"} /\ todo["control"] = <<>>
    /\ seqState' = "CONFIG"
    /\ control' = IF control = "clean" THEN "check" ELSE "ended"
    /\ UNCHANGED <<mem, todo, reg, trigger, mode, comm, controlThreadRunning>>

Client  == \/ RP_DAC_SetAmplitude \/ RP_DAC_SetSignalType \/ RP_SetServerMode
           \/ RP_SetMasterTrigger \/ RP_DAC_Configure \/ RP_DAC_SetSequence
           \/ SendDataToClient \/ Leave \/ Fail
Comm    == Load("comm") \/ Store("comm") \/ Prepared \/ LeaveJoins \/ CreateThreads
Control == Load("control") \/ Store("control") \/ CtlCheck \/ CtlHandle \/ CtlCleaned

Next == Client \/ MainJoins \/ Comm \/ Control

\* both threads are scheduled; nobody has to send a command or to connect
Fairness == WF_vars(Comm) /\ WF_vars(Control)

Spec == Init /\ [][Next]_vars

-----------------------------------------------------------------------------
(* Clients.                                                                *)

\* no sequence runs, and none can start
AtRest == seqState = "CONFIG" \/ (seqState = "PREPARED" /\ ~trigger)

\* A client that sets outputs only while the status byte shows no active
\* sequence and none waits for the trigger, that prepares sequences with the
\* trigger off, and that lets a prepared sequence start before it takes the
\* trigger back.
CarefulClient ==
    /\ (RP_DAC_SetAmplitude \/ RP_DAC_SetSignalType) => AtRest
    /\ (RP_DAC_Configure \/ RP_DAC_SetSequence) => ~trigger
    /\ (trigger /\ ~trigger') => seqState # "PREPARED"

CarefulSpec == Init /\ [][Next /\ CarefulClient]_vars /\ Fairness

-----------------------------------------------------------------------------
(* Properties.                                                             *)

Silent == \A c \in Comps : mem[Amp(c)] = 0

\* A field of an output changes only to the value that a write under way
\* means for it: no store of either thread puts back an old value of the
\* neighbouring field, also while stopTx runs in both threads at once.
OnlyMeantChanges ==
    [][\A f \in Outputs : mem'[f] # mem[f] =>
          \E t \in Threads : todo[t] # <<>> /\ Head(todo[t]) = W(f, mem'[f])]_vars

\* When cleanUpSlowDAC gives the sequence free, its amplitudes are zero.
EndIsSilent == [][(seqState = "RUNNING" /\ seqState' = "CONFIG") => Silent]_vars

\* A new client finds all amplitudes zero, whichever way the last one went
\* and whatever the control thread was doing.
NewClientFindsSilence == [][(comm = "join" /\ comm' = "serve") => Silent]_vars

\* A client that closes its connection within a sequence silences the outputs.
LeavingSilences == (comm = "stop") ~> (control = "ended" /\ Silent)

\* docs/src/generation.md: "the server ... also features a status flag
\* `lostSteps` for exactly this case".  Once raised it stays until a sequence is
\* prepared.
LostStepsStay ==
    [][(mem[Flag("lostSteps")] = 1 /\ mem'[Flag("lostSteps")] = 0)
         => comm = "prepare"]_vars
=============================================================================
