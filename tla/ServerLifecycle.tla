--------------------------- MODULE ServerLifecycle ---------------------------
(***************************************************************************)
(* How the server passes from one client to the next: the accepting main   *)
(* thread (daq_server_scpi.c), the communication threads (communication.c) *)
(* and the control threads (control.c) it creates, the globals they share, *)
(* and the sockets.                                                        *)
(*                                                                         *)
(* newdatasockfd, userspaceBuffer, pComm, pControl and the two running     *)
(* flags are globals: a thread that outlives its connection works on those *)
(* of the next.  There are two clifd: the global one main assigns, which   *)
(* replies are written to, and a static one of communication.c, which each *)
(* communication thread sets as it starts, reads from and closes at last.  *)
(* A descriptor is a number, taken lowest first as the kernel does, so a   *)
(* number closed twice is someone else's.                                  *)
(*                                                                         *)
(* What a thread does while it serves a client is modelled by its effect   *)
(* on what the next one is to find: whether a signal is generated.  Its    *)
(* inner loops end once commThreadRunning is cleared (module Transmission, *)
(* ThreadCanBeJoined).                                                     *)
(***************************************************************************)
EXTENDS Integers, Sequences, FiniteSets

CONSTANT MaxConn   \* bound: connections made

ASSUME MaxConnIsNat == MaxConn \in Nat \ {0}

Conn == 1 .. MaxConn
FD   == 1 .. 2 * MaxConn

Free     == [conn |-> 0, kind |-> "free"]
Cmd(c)   == [conn |-> c, kind |-> "cmd"]
Data(c)  == [conn |-> c, kind |-> "data"]
Sock     == {Free} \cup {Cmd(c) : c \in Conn} \cup {Data(c) : c \in Conn}

VARIABLES
    client,       \* how far each connection got: away, cmd, both, gone
    cmdQ, dataQ,  \* connections the two listening sockets hold
    fds,          \* the process's descriptor table
    main,         \* where the main thread is
    clifdTmp,     \* its local: the accepted command socket
    clifd, newdatasockfd,                  \* globals: descriptors in use
    commClifd,                             \* communication.c's static clifd
    commThreadRunning, controlThreadRunning,
    pComm, pControl,                       \* handles: the threads last created
    userspaceBuffer                        \* its owner, 0 for NULL

VARIABLES
    comm,         \* where each communication thread is
    arg,          \* the descriptor it was created with
    joining,      \* the control thread it waits for
    ctl,          \* each control thread: none, run, done, joined
    generating,   \* a signal is on
    badJoin       \* history: a thread was joined twice (undefined)

socks   == <<client, cmdQ, dataQ>>
globals == <<clifd, commClifd, newdatasockfd, commThreadRunning,
             controlThreadRunning, pComm, pControl, userspaceBuffer>>
threads == <<comm, arg, joining, ctl, badJoin>>
vars    == <<socks, fds, main, clifdTmp, globals, threads, generating>>

LowestFree == CHOOSE f \in FD : /\ fds[f] = Free
                                /\ \A g \in FD : g < f => fds[g] # Free

Alive(t)   == comm[t] \notin {"none", "done"}

\* pthread_join(t): undefined when t is joined already or being joined
BadTarget(t) == ctl[t] = "joined" \/ \E u \in Conn : joining[u] = t

Init ==
    /\ client = [c \in Conn |-> "away"]
    /\ cmdQ = <<>> /\ dataQ = <<>>
    /\ fds = [f \in FD |-> Free]
    /\ main = "accept" /\ clifdTmp = 0
    /\ clifd = 0 /\ commClifd = 0 /\ newdatasockfd = 0
    /\ commThreadRunning = FALSE /\ controlThreadRunning = FALSE
    /\ pComm = 0 /\ pControl = 0
    /\ userspaceBuffer = 0
    /\ comm = [t \in Conn |-> "none"]
    /\ arg = [t \in Conn |-> 0]
    /\ joining = [t \in Conn |-> 0]
    /\ ctl = [t \in Conn |-> "none"]
    /\ generating = FALSE
    /\ badJoin = FALSE

-----------------------------------------------------------------------------
(* Clients: connect opens the command socket, then the data socket.        *)

Dial(c) ==
    /\ client[c] = "away"
    /\ \A b \in Conn : b < c => client[b] # "away"
    /\ client' = [client EXCEPT ![c] = "cmd"]
    /\ cmdQ' = Append(cmdQ, c)
    /\ UNCHANGED <<dataQ, fds, main, clifdTmp, globals, threads, generating>>

DialData(c) ==
    /\ client[c] = "cmd"
    /\ client' = [client EXCEPT ![c] = "both"]
    /\ dataQ' = Append(dataQ, c)
    /\ UNCHANGED <<cmdQ, fds, main, clifdTmp, globals, threads, generating>>

HangUp(c) ==
    /\ client[c] \in {"cmd", "both"}
    /\ client' = [client EXCEPT ![c] = "gone"]
    /\ UNCHANGED <<cmdQ, dataQ, fds, main, clifdTmp, globals, threads, generating>>

-----------------------------------------------------------------------------
(* main: the accepting loop.                                               *)

MainAccept ==
    /\ main = "accept" /\ cmdQ # <<>>
    /\ clifdTmp' = LowestFree
    /\ fds' = [fds EXCEPT ![LowestFree] = Cmd(Head(cmdQ))]
    /\ cmdQ' = Tail(cmdQ)
    /\ main' = "check"
    /\ UNCHANGED <<client, dataQ, globals, threads, generating>>

\* mutants: no join; the descriptor replaced before the join; the flag kept
MainCheckCommNoJoin ==
    /\ main = "check"
    /\ main' = "adopt"
    /\ commThreadRunning' = FALSE
    /\ UNCHANGED <<socks, fds, clifdTmp, clifd, commClifd, newdatasockfd, pComm, pControl,
                   controlThreadRunning, userspaceBuffer, threads, generating>>

MainCheckCommEarly ==
    /\ main = "check"
    /\ main' = IF commThreadRunning THEN "join" ELSE "adopt"
    /\ commThreadRunning' = FALSE
    /\ clifd' = clifdTmp
    /\ UNCHANGED <<socks, fds, clifdTmp, commClifd, newdatasockfd, pComm, pControl,
                   controlThreadRunning, userspaceBuffer, threads, generating>>

MainCheckCommFlagKept ==
    /\ main = "check"
    /\ main' = IF commThreadRunning THEN "join" ELSE "adopt"
    /\ UNCHANGED <<socks, fds, clifdTmp, globals, threads, generating>>

MainCheckComm ==
    /\ main = "check"
    /\ main' = IF commThreadRunning THEN "join" ELSE "adopt"
    /\ commThreadRunning' = FALSE
    /\ UNCHANGED <<socks, fds, clifdTmp, clifd, commClifd, newdatasockfd, pComm, pControl,
                   controlThreadRunning, userspaceBuffer, threads, generating>>

MainJoinComm ==
    /\ main = "join" /\ comm[pComm] = "done"
    /\ main' = "adopt"
    /\ UNCHANGED <<socks, fds, clifdTmp, globals, threads, generating>>

\* clifd is replaced, then the control thread joined unless another join began
MainAdopt ==
    /\ main = "adopt"
    /\ clifd' = clifdTmp
    /\ main' = "checkctl"
    /\ UNCHANGED <<socks, fds, clifdTmp, commClifd, newdatasockfd, commThreadRunning,
                   controlThreadRunning, pComm, pControl, userspaceBuffer,
                   threads, generating>>

MainCheckControl ==
    /\ main = "checkctl"
    /\ main' = IF controlThreadRunning THEN "joinctl" ELSE "data"
    /\ controlThreadRunning' = FALSE
    /\ badJoin' = (badJoin \/ (controlThreadRunning /\ BadTarget(pControl)))
    /\ UNCHANGED <<socks, fds, clifdTmp, clifd, commClifd, newdatasockfd, pComm,
                   commThreadRunning, pControl, userspaceBuffer, comm, arg, joining,
                   ctl, generating>>

MainJoinControl ==
    /\ main = "joinctl" /\ ctl[pControl] \in {"done", "joined"}
    /\ ctl' = [ctl EXCEPT ![pControl] = "joined"]
    /\ main' = "data"
    /\ UNCHANGED <<socks, fds, clifdTmp, globals, comm, arg, joining, badJoin, generating>>

MainAcceptData ==
    /\ main = "data" /\ dataQ # <<>>
    /\ newdatasockfd' = LowestFree
    /\ fds' = [fds EXCEPT ![LowestFree] = Data(Head(dataQ))]
    /\ dataQ' = Tail(dataQ)
    /\ main' = "create"
    /\ UNCHANGED <<client, cmdQ, clifdTmp, clifd, commClifd, commThreadRunning, pComm,
                   controlThreadRunning, pControl, userspaceBuffer, threads,
                   generating>>

\* accept fails: the client went away before
MainAcceptDataFails ==
    /\ main = "data" /\ dataQ # <<>> /\ client[Head(dataQ)] = "gone"
    /\ newdatasockfd' = -1
    /\ fds' = [fds EXCEPT ![clifdTmp] = Free]
    /\ dataQ' = Tail(dataQ)
    /\ main' = "accept"
    /\ UNCHANGED <<client, cmdQ, clifdTmp, clifd, commClifd, commThreadRunning, pComm,
                   controlThreadRunning, pControl, userspaceBuffer, threads,
                   generating>>

createThreads ==
    /\ main = "create"
    /\ \E t \in Conn :
        /\ comm[t] = "none" /\ \A u \in Conn : u < t => comm[u] # "none"
        /\ controlThreadRunning' = TRUE /\ commThreadRunning' = TRUE
        /\ pControl' = t /\ pComm' = t
        /\ ctl' = [ctl EXCEPT ![t] = "run"]
        /\ comm' = [comm EXCEPT ![t] = "start"]
        /\ arg' = [arg EXCEPT ![t] = clifd]
    /\ main' = "accept"
    /\ UNCHANGED <<socks, fds, clifdTmp, clifd, commClifd, newdatasockfd, userspaceBuffer,
                   joining, badJoin, generating>>

-----------------------------------------------------------------------------
(* communicationThread t.                                                  *)

\* the static clifd becomes what main passed it; malloc
CommStart(t) ==
    /\ comm[t] = "start"
    /\ commClifd' = arg[t]
    /\ userspaceBuffer' = t
    /\ comm' = [comm EXCEPT ![t] = "loop"]
    /\ UNCHANGED <<socks, fds, main, clifdTmp, clifd, newdatasockfd, pComm,
                   commThreadRunning, controlThreadRunning, pControl, arg, joining,
                   ctl, badJoin, generating>>

\* the loop exit test
CommLoop(t) ==
    /\ comm[t] = "loop"
    /\ comm' = [comm EXCEPT ![t] = IF commThreadRunning THEN "recv" ELSE "stop"]
    /\ UNCHANGED <<socks, fds, main, clifdTmp, globals, arg, joining, ctl, badJoin,
                   generating>>

\* stopTx, then joinControlThread
CommStop(t) ==
    /\ comm[t] = "stop"
    /\ generating' = FALSE
    /\ controlThreadRunning' = FALSE
    /\ joining' = [joining EXCEPT ![t] = pControl]
    /\ badJoin' = (badJoin \/ BadTarget(pControl))
    /\ comm' = [comm EXCEPT ![t] = "joinctl"]
    /\ UNCHANGED <<socks, fds, main, clifdTmp, clifd, commClifd, newdatasockfd, pComm,
                   commThreadRunning, pControl, userspaceBuffer, arg, ctl>>

CommJoinControl(t) ==
    /\ comm[t] = "joinctl" /\ ctl[joining[t]] \in {"done", "joined"}
    /\ ctl' = [ctl EXCEPT ![joining[t]] = "joined"]
    /\ joining' = [joining EXCEPT ![t] = 0]
    /\ comm' = [comm EXCEPT ![t] = "free"]
    /\ UNCHANGED <<socks, fds, main, clifdTmp, globals, arg, badJoin, generating>>

\* the client at the other end of descriptor f, 0 if it is closed
Peer(f) == IF fds[f].kind = "free" \/ client[fds[f].conn] = "gone" THEN 0
           ELSE fds[f].conn

\* commands or nothing: the signal may change
CommServe(t) ==
    /\ comm[t] = "recv" /\ Peer(commClifd) # 0
    /\ generating' \in BOOLEAN
    /\ comm' = [comm EXCEPT ![t] = "loop"]
    /\ UNCHANGED <<socks, fds, main, clifdTmp, globals, arg, joining, ctl, badJoin>>

\* rc == 0: connection closed
CommClosed(t) ==
    /\ comm[t] = "recv" /\ Peer(commClifd) = 0
    /\ commThreadRunning' = FALSE
    /\ comm' = [comm EXCEPT ![t] = "loop"]
    /\ UNCHANGED <<socks, fds, main, clifdTmp, clifd, commClifd, newdatasockfd, pComm,
                   controlThreadRunning, pControl, userspaceBuffer, arg, joining,
                   ctl, badJoin, generating>>

\* rc < 0: a reset connection or a closed descriptor; only the loop ends
CommFailed(t) ==
    /\ comm[t] = "recv" /\ Peer(commClifd) = 0
    /\ comm' = [comm EXCEPT ![t] = "free"]
    /\ UNCHANGED <<socks, fds, main, clifdTmp, globals, arg, joining, ctl, badJoin,
                   generating>>

CommFree(t) ==
    /\ comm[t] = "free"
    /\ userspaceBuffer' = 0
    /\ comm' = [comm EXCEPT ![t] = "close"]
    /\ UNCHANGED <<socks, fds, main, clifdTmp, clifd, commClifd, newdatasockfd, pComm,
                   commThreadRunning, controlThreadRunning, pControl, arg, joining,
                   ctl, badJoin, generating>>

\* close(clifd), whoever's it is now ...
CommClose(t) ==
    /\ comm[t] = "close"
    /\ fds' = [fds EXCEPT ![commClifd] = Free]
    /\ comm' = [comm EXCEPT ![t] = "closedata"]
    /\ UNCHANGED <<socks, main, clifdTmp, globals, arg, joining, ctl, badJoin, generating>>

\* mutant: forgets the descriptor without closing it
CommCloseDataForgotten(t) ==
    /\ comm[t] = "closedata"
    /\ newdatasockfd' = IF newdatasockfd > 0 THEN 0 ELSE newdatasockfd
    /\ comm' = [comm EXCEPT ![t] = "done"]
    /\ UNCHANGED <<socks, fds, main, clifdTmp, clifd, commClifd, commThreadRunning, pComm,
                   controlThreadRunning, pControl, userspaceBuffer, arg, joining,
                   ctl, badJoin, generating>>

\* ... then the data socket
CommCloseData(t) ==
    /\ comm[t] = "closedata"
    /\ fds' = [f \in FD |-> IF f = newdatasockfd THEN Free ELSE fds[f]]
    /\ newdatasockfd' = IF newdatasockfd > 0 THEN 0 ELSE newdatasockfd
    /\ comm' = [comm EXCEPT ![t] = "done"]
    /\ UNCHANGED <<socks, main, clifdTmp, clifd, commClifd, commThreadRunning, pComm,
                   controlThreadRunning, pControl, userspaceBuffer, arg, joining,
                   ctl, badJoin, generating>>

\* controlThread t leaves its loop; cleanUpSlowDAC stops the signal
ControlEnd(t) ==
    /\ ctl[t] = "run" /\ ~controlThreadRunning
    /\ generating' = FALSE
    /\ ctl' = [ctl EXCEPT ![t] = "done"]
    /\ UNCHANGED <<socks, fds, main, clifdTmp, globals, comm, arg, joining, badJoin>>

-----------------------------------------------------------------------------
Main == \/ MainAccept \/ MainCheckComm \/ MainJoinComm \/ MainAdopt
        \/ MainCheckControl \/ MainJoinControl
        \/ MainAcceptData \/ MainAcceptDataFails \/ createThreads

Comm(t) == \/ CommStart(t) \/ CommLoop(t) \/ CommStop(t) \/ CommJoinControl(t)
           \/ CommServe(t) \/ CommClosed(t) \/ CommFailed(t)
           \/ CommFree(t) \/ CommClose(t) \/ CommCloseData(t)

Client(c) == Dial(c) \/ DialData(c) \/ HangUp(c)

Next == Main \/ \E t \in Conn : Comm(t) \/ ControlEnd(t) \/ Client(t)

Spec == Init /\ [][Next]_vars

ThreadsRun == /\ WF_vars(Main)
              /\ \A t \in Conn : WF_vars(Comm(t)) /\ WF_vars(ControlEnd(t))

\* Orderly clients.  A client dials when no other is between its two sockets
\* and the server either serves a client that stays on the line meanwhile or
\* has finished with the last one; it opens its data socket and hangs up
\* only after it did.
AtRest == \A t \in Conn : ~Alive(t)

\* the descriptor t reads commands from, or will once it has started
Reads(t) == IF comm[t] = "start" THEN arg[t] ELSE commClifd

Serving(t) == comm[t] \in {"start", "loop", "recv"} /\ Peer(Reads(t)) # 0

CanDial == /\ main = "accept" /\ cmdQ = <<>> /\ dataQ = <<>>
           /\ AtRest \/ (commThreadRunning /\ \A t \in Conn : Alive(t) => Serving(t))

CanHangUp(c) == client[c] = "both" /\ main # "check" /\ cmdQ = <<>>

OrderlyNext ==
    \/ Main
    \/ \E t \in Conn : Comm(t) \/ ControlEnd(t)
    \/ \E c \in Conn : \/ CanDial /\ Dial(c)
                       \/ DialData(c)
                       \/ CanHangUp(c) /\ HangUp(c)

OrderlySpec == /\ Init /\ [][OrderlyNext]_vars
               /\ ThreadsRun /\ \A c \in Conn : WF_vars(DialData(c))

-----------------------------------------------------------------------------
(* Properties.                                                             *)

\* The values each variable takes.
TypeOK ==
    /\ client \in [Conn -> {"away", "cmd", "both", "gone"}]
    /\ cmdQ \in Seq(Conn) /\ dataQ \in Seq(Conn)
    /\ fds \in [FD -> Sock]
    /\ main \in {"accept", "check", "join", "adopt", "checkctl", "joinctl",
                 "data", "create"}
    /\ clifdTmp \in {0} \cup FD
    /\ clifd \in {0} \cup FD /\ commClifd \in {0} \cup FD
    /\ newdatasockfd \in {-1, 0} \cup FD
    /\ commThreadRunning \in BOOLEAN /\ controlThreadRunning \in BOOLEAN
    /\ pComm \in {0} \cup Conn /\ pControl \in {0} \cup Conn
    /\ userspaceBuffer \in {0} \cup Conn
    /\ comm \in [Conn -> {"none", "start", "loop", "recv", "stop", "joinctl",
                          "free", "close", "closedata", "done"}]
    /\ arg \in [Conn -> {0} \cup FD] /\ joining \in [Conn -> {0} \cup Conn]
    /\ ctl \in [Conn -> {"none", "run", "done", "joined"}]
    /\ generating \in BOOLEAN /\ badJoin \in BOOLEAN

\* When main creates the threads of a connection, those of the last one have
\* ended: "if comm thread still running -> join it" (daq_server_scpi.c:278).
\* None was joined twice, whether main or the communication thread joined the
\* control thread.
LastThreadsEnded ==
    /\ ~badJoin
    /\ main = "create" => \A t \in Conn : ~Alive(t) /\ ctl[t] # "run"

\* A thread that serves reads from, replies to and sends data to the open sockets
\* of one and the same client, out of its own buffer.
ServesOneClient ==
    \A t \in Conn : comm[t] \in {"loop", "recv"} =>
        /\ userspaceBuffer = t
        /\ \E c \in Conn : /\ fds[commClifd] = Cmd(c) /\ fds[clifd] = Cmd(c)
                           /\ newdatasockfd \in FD /\ fds[newdatasockfd] = Data(c)

\* A server that waits for a client with no thread left holds no descriptor
\* of an earlier one.
NoDescriptorLeft ==
    (main = "accept" /\ AtRest) => \A f \in FD : fds[f] = Free

\* A client that dials in gets a thread of its own, unless it hangs up: main
\* gets through both joins and both accepts.
Adopted(c) == \E t \in Conn : /\ comm[t] \in {"start", "loop", "recv"}
                              /\ fds[Reads(t)] = Cmd(c) /\ fds[newdatasockfd] = Data(c)
DialledIsServed ==
    \A c \in Conn : (client[c] = "cmd") ~> (Adopted(c) \/ client[c] = "gone")

\* docs/src/architecture.md: "establishing a new connection stops any current
\* signal generation and acquisition".  The signal of the last one is off when
\* the threads of a connection are created, also after a recv that failed, when
\* only the control thread that main joins stops it.
NewConnectionFindsNoSignal == main = "create" => ~generating
=============================================================================
