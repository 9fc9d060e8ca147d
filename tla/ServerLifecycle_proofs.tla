----------------------- MODULE ServerLifecycle_proofs -----------------------
(***************************************************************************)
(* Proofs about ServerLifecycle, for any number of connections made by     *)
(* orderly clients.                                                        *)
(*                                                                         *)
(* The argument: at most one communication thread is alive, and when main  *)
(* looks at commThreadRunning a thread that is alive has it set, because   *)
(* its client was still on the line when the next one dialled (Calling).   *)
(* So main joins exactly when there is somebody to join (OneThread), the   *)
(* control thread is joined by the thread that cleared its flag and by     *)
(* nobody else (Joins), and a descriptor number is never in use by two     *)
(* (Sockets), which the kernel's lowest free number would otherwise allow. *)
(* A signal is on only while a control thread runs, which stops it as it   *)
(* ends (Signal).                                                          *)
(***************************************************************************)
EXTENDS ServerLifecycle, TLAPS

\* from its creation until it closes clifd, t works on the sockets of its client
Works(t) == comm[t] \in {"start", "loop", "recv", "stop", "joinctl", "free", "close"}

\* at most one communication thread is alive, the one pComm names; main is past
\* the join only when there is none
OneThread ==
    /\ pControl = pComm
    /\ commThreadRunning => pComm # 0
    /\ main = "join" => pComm # 0
    /\ \A t \in Conn : Alive(t) => t = pComm
    /\ main \in {"adopt", "checkctl", "joinctl", "data", "create"} => AtRest
    /\ \A t \in Conn : comm[t] = "start" => arg[t] = clifd
    /\ \A t \in Conn : Works(t) /\ comm[t] # "start" => commClifd = clifd
    /\ \A t \in Conn : comm[t] \in {"loop", "recv", "stop", "joinctl", "free"}
                           => userspaceBuffer = t

\* the one control thread that may run is the one pControl names; whoever clears
\* its flag goes on to join it, and only one does
Joins ==
    /\ ~badJoin
    /\ \A t \in Conn : ctl[t] = "run" => t = pControl
    /\ controlThreadRunning => pControl # 0 /\ ctl[pControl] = "run"
    /\ \A t \in Conn : ctl[t] = "run" /\ ~controlThreadRunning =>
           comm[t] = "joinctl" \/ main = "joinctl"
    /\ \A t \in Conn : joining[t] = IF comm[t] = "joinctl" THEN t ELSE 0
    /\ \A t \in Conn : comm[t] \in {"start", "loop", "recv", "stop"} => controlThreadRunning
    /\ main = "joinctl" => pControl # 0 /\ ~controlThreadRunning
    /\ main \in {"data", "create"} => ~controlThreadRunning

\* every open descriptor has its owner: main's clifdTmp and newdatasockfd, or the
\* thread's clifd and newdatasockfd, and no number is in use twice
Sockets ==
    /\ \A f \in FD : fds[f] # Free =>
           \/ main # "accept" /\ f = clifdTmp
           \/ main = "create" /\ f = newdatasockfd
           \/ \E t \in Conn : Works(t) /\ f = clifd
           \/ \E t \in Conn : Alive(t) /\ f = newdatasockfd
    /\ main # "create" /\ AtRest => newdatasockfd \notin FD
    /\ \A t \in Conn : Works(t) =>
           /\ clifd \in FD /\ newdatasockfd \in FD
           /\ \E c \in Conn : fds[clifd] = Cmd(c) /\ fds[newdatasockfd] = Data(c)
    /\ \A t \in Conn : comm[t] = "closedata" =>
           /\ newdatasockfd \in FD
           /\ \E c \in Conn : fds[newdatasockfd] = Data(c)
    /\ main # "accept" => clifdTmp \in FD
    /\ main # "accept" => \A t \in Conn :
           /\ Works(t) => clifdTmp # clifd
           /\ Alive(t) => clifdTmp # newdatasockfd
    /\ main \in {"checkctl", "joinctl", "data", "create"} => clifd = clifdTmp

\* c is the one client between its two sockets
Calls(c) ==
    /\ \/ client[c] = "cmd" /\ dataQ = <<>>
       \/ client[c] \in {"both", "gone"} /\ dataQ = <<c>>
    /\ \A b \in Conn : b # c => client[b] # "cmd"

\* the client that dials: queued, then accepted, then with both its sockets; the
\* thread that is alive when main looks at the flag has not been hung up on
Calling ==
    /\ main = "accept" /\ cmdQ = <<>> => dataQ = <<>> /\ \A c \in Conn : client[c] # "cmd"
    /\ cmdQ # <<>> =>
           /\ main = "accept"
           /\ \E c \in Conn :
                 /\ cmdQ = <<c>> /\ Calls(c) /\ client[c] # "gone"
                 /\ \A t \in Conn : Works(t) => fds[clifd] # Cmd(c)
    /\ main \in {"check", "join", "adopt", "checkctl", "joinctl", "data"} =>
           \E c \in Conn : fds[clifdTmp] = Cmd(c) /\ Calls(c)
    /\ main = "create" =>
           /\ newdatasockfd \in FD /\ dataQ = <<>>
           /\ \E c \in Conn : /\ fds[clifdTmp] = Cmd(c) /\ fds[newdatasockfd] = Data(c)
                            /\ client[c] # "away"
           /\ \A c \in Conn : client[c] # "cmd"
    /\ cmdQ # <<>> \/ main = "check" =>
           \A t \in Conn : Alive(t) =>
               /\ commThreadRunning /\ comm[t] \in {"start", "loop", "recv"}
               /\ \A c \in Conn : fds[clifd] = Cmd(c) => client[c] # "gone"
    /\ \A t \in Conn : Works(t) => \A c \in Conn : fds[clifd] = Cmd(c) => client[c] # "away"

\* whose signal is on is not left alone with it
Signal == generating => \E t \in Conn : ctl[t] = "run"

\* the inductive invariant
IInv == TypeOK /\ OneThread /\ Joins /\ Sockets /\ Calling /\ Signal

-----------------------------------------------------------------------------
(* Lemmas about sockets, queues and descriptors.                           *)

\* Sockets of different clients or kinds differ from each other and from none.
LEMMA Kinds ==
    /\ \A c \in Conn : /\ Cmd(c) \in Sock /\ Data(c) \in Sock
                       /\ Cmd(c) # Free /\ Data(c) # Free
                       /\ Cmd(c).kind = "cmd" /\ Cmd(c).conn = c
    /\ \A c, d \in Conn : /\ Cmd(c) # Data(d)
                          /\ Cmd(c) = Cmd(d) => c = d
                          /\ Data(c) = Data(d) => c = d
    /\ Free \in Sock
  BY MaxConnIsNat DEF Cmd, Data, Free, Sock, Conn

\* A queue of one client.
LEMMA OneInQueue ==
    ASSUME NEW c \in Conn
    PROVE  /\ <<c>> \in Seq(Conn) /\ <<c>> # <<>> /\ << >> \in Seq(Conn)
           /\ Head(<<c>>) = c /\ Tail(<<c>>) = <<>> /\ Append(<<>>, c) = <<c>>
           /\ \A d \in Conn : <<c>> = <<d>> => c = d
<1>1. <<c>> \in Seq(Conn) /\ <<c>> # <<>> /\ << >> \in Seq(Conn)
  OBVIOUS
<1>2. Head(<<c>>) = c /\ Tail(<<c>>) = <<>> /\ Append(<<>>, c) = <<c>>
  OBVIOUS
<1>3. \A d \in Conn : <<c>> = <<d>> => c = d
  OBVIOUS
<1> QED
  BY <1>1, <1>2, <1>3

\* Connections and descriptors are positive; with two connections there is a
\* third descriptor.
LEMMA Numbers ==
    /\ \A c \in Conn : c \in Nat \ {0}
    /\ \A f \in FD : f \in Nat \ {0}
    /\ 1 \in FD /\ 2 \in FD /\ 1 \in Conn
    /\ 0 \notin FD /\ 0 \notin Conn /\ -1 \notin FD
    /\ \A c, d \in Conn : c # d => 3 \in FD
<1>1. MaxConn \in Nat /\ MaxConn >= 1
  BY MaxConnIsNat
<1>2. \A c, d \in Conn : c # d => MaxConn >= 2
  BY <1>1 DEF Conn
<1> QED
  BY <1>1, <1>2 DEF Conn, FD

\* The lowest free descriptor is one, if there is a free one.
LEMMA Lowest ==
    ASSUME NEW f \in FD, fds[f] = Free, \A g \in FD : g < f => fds[g] # Free
    PROVE  LowestFree \in FD /\ fds[LowestFree] = Free
  BY DEF LowestFree

\* With at most two descriptors open, one is free.
LEMMA OneIsFree ==
    ASSUME NEW a, NEW b, \A f \in FD : fds[f] # Free => f \in {a, b},
           a \notin FD \/ 3 \in FD
    PROVE  LowestFree \in FD /\ fds[LowestFree] = Free
<1>1. \A g \in FD : /\ g < 1 => FALSE
                    /\ g < 2 => g = 1
                    /\ g < 3 => g = 1 \/ g = 2
  BY Numbers
<1>2. CASE fds[1] = Free
  BY <1>1, <1>2, Numbers, Lowest
<1>3. CASE fds[1] # Free /\ fds[2] = Free
  BY <1>1, <1>3, Numbers, Lowest
<1>4. CASE fds[1] # Free /\ fds[2] # Free
  <2>1. 3 \in FD /\ fds[3] = Free
    BY <1>4, Numbers
  <2> QED
    BY <1>1, <1>4, <2>1, Lowest
<1> QED
  BY <1>2, <1>3, <1>4

\* accept finds a free descriptor: of the connections before at most one still has
\* its two.
LEMMA AcceptedIsNew ==
    ASSUME IInv, MainAccept \/ MainAcceptData
    PROVE  LowestFree \in FD /\ fds[LowestFree] = Free
<1>1. CASE MainAcceptData
  <2>1. main = "data" /\ AtRest
    BY <1>1 DEF IInv, OneThread, MainAcceptData
  <2>2. \A f \in FD : fds[f] # Free => f \in {0, clifdTmp}
    BY <2>1 DEF IInv, Sockets, AtRest, Alive, Works
  <2> QED
    BY <2>2, Numbers, OneIsFree
<1>2. CASE MainAccept
  <2>1. main = "accept" /\ cmdQ # <<>>
    BY <1>2 DEF MainAccept
  <2>2. CASE AtRest
    <3>1. \A f \in FD : fds[f] # Free => f \in {0, 0}
      BY <2>1, <2>2 DEF IInv, Sockets, AtRest, Alive, Works
    <3> QED
      BY <3>1, Numbers, OneIsFree
  <2>3. CASE ~AtRest
    <3>1. PICK t \in Conn : Alive(t)
      BY <2>3 DEF AtRest
    <3>2. comm[t] \in {"start", "loop", "recv"}
      BY <2>1, <3>1 DEF IInv, Calling
    <3>3. PICK d \in Conn : fds[clifd] = Cmd(d)
      BY <3>2 DEF IInv, Sockets, Works
    <3>4. PICK c \in Conn : fds[clifd] # Cmd(c)
      BY <2>1, <3>2 DEF IInv, Calling, Works
    <3>5. 3 \in FD
      BY <3>3, <3>4, Numbers
    <3>6. \A f \in FD : fds[f] # Free => f \in {clifd, newdatasockfd}
      BY <2>1 DEF IInv, Sockets
    <3> QED
      BY <3>5, <3>6, OneIsFree
  <2> QED
    BY <2>2, <2>3
<1> QED
  BY <1>1, <1>2

-----------------------------------------------------------------------------
(* Every step keeps the invariant.                                         *)

\* Every step keeps the types.
LEMMA TypeStep ==
    ASSUME IInv, OrderlyNext
    PROVE  TypeOK'
<1> USE DEF socks, globals, threads
<1>0. TypeOK
  BY DEF IInv
<1>1. ASSUME NEW c \in Conn, Dial(c) \/ DialData(c) \/ HangUp(c)
      PROVE  TypeOK'
  <2>1. cmdQ' \in Seq(Conn) /\ dataQ' \in Seq(Conn)
    <3>1. cmdQ \in Seq(Conn) /\ dataQ \in Seq(Conn)
      BY <1>0 DEF TypeOK
    <3>2. Append(cmdQ, c) \in Seq(Conn) /\ Append(dataQ, c) \in Seq(Conn)
      BY <3>1
    <3> QED
      BY <1>1, <3>1, <3>2 DEF Dial, DialData, HangUp
  <2> QED
    BY <1>0, <1>1, <2>1 DEF Dial, DialData, HangUp, TypeOK
<1>2. CASE MainAccept
  <2>1. LowestFree \in FD
    BY <1>2, AcceptedIsNew
  <2>2. cmdQ \in Seq(Conn) /\ cmdQ # <<>>
    BY <1>0, <1>2 DEF MainAccept, TypeOK
  <2>3. Head(cmdQ) \in Conn /\ Tail(cmdQ) \in Seq(Conn)
    BY <2>2
  <2> QED
    BY <1>0, <1>2, <2>1, <2>3, Kinds DEF MainAccept, TypeOK
<1>3. CASE MainAcceptData
  <2>1. LowestFree \in FD
    BY <1>3, AcceptedIsNew
  <2>2. dataQ \in Seq(Conn) /\ dataQ # <<>>
    BY <1>0, <1>3 DEF MainAcceptData, TypeOK
  <2>3. Head(dataQ) \in Conn /\ Tail(dataQ) \in Seq(Conn)
    BY <2>2
  <2> QED
    BY <1>0, <1>3, <2>1, <2>3, Kinds DEF MainAcceptData, TypeOK
<1>4. CASE MainAcceptDataFails
  <2>1. dataQ \in Seq(Conn) /\ dataQ # <<>>
    BY <1>0, <1>4 DEF MainAcceptDataFails, TypeOK
  <2>2. Tail(dataQ) \in Seq(Conn)
    BY <2>1
  <2> QED
    BY <1>0, <1>4, <2>2, Kinds DEF MainAcceptDataFails, TypeOK
<1>5. CASE MainCheckComm \/ MainJoinComm
  BY <1>0, <1>5 DEF MainCheckComm, MainJoinComm, TypeOK
<1>6. CASE MainAdopt
  BY <1>0, <1>6 DEF MainAdopt, TypeOK
<1>7. CASE MainCheckControl
  <2>1. badJoin' \in BOOLEAN
    BY <1>0, <1>7 DEF MainCheckControl, TypeOK
  <2> QED
    BY <1>0, <1>7, <2>1 DEF MainCheckControl, TypeOK
<1>8. CASE MainJoinControl
  <2>1. ctl' \in [Conn -> {"none", "run", "done", "joined"}]
    BY <1>0, <1>8 DEF MainJoinControl, TypeOK
  <2> QED
    BY <1>0, <1>8, <2>1 DEF MainJoinControl, TypeOK
<1>9. CASE createThreads
  BY <1>0, <1>9 DEF createThreads, TypeOK
<1>10. ASSUME NEW t \in Conn,
              \/ CommStart(t) \/ CommLoop(t) \/ CommServe(t)
              \/ CommClosed(t) \/ CommFailed(t)
       PROVE  TypeOK'
  <2>1. CASE CommStart(t)
    BY <1>0, <2>1 DEF CommStart, TypeOK
  <2>2. CASE CommLoop(t)
    BY <1>0, <2>2 DEF CommLoop, TypeOK
  <2>3. CASE CommServe(t)
    BY <1>0, <2>3 DEF CommServe, TypeOK
  <2>4. CASE CommClosed(t) \/ CommFailed(t)
    BY <1>0, <2>4 DEF CommClosed, CommFailed, TypeOK
  <2> QED
    BY <1>10, <2>1, <2>2, <2>3, <2>4
<1>11. ASSUME NEW t \in Conn, CommStop(t) \/ CommJoinControl(t)
       PROVE  TypeOK'
  <2>1. CASE CommStop(t)
    <3>1. badJoin' \in BOOLEAN
      BY <1>0, <2>1 DEF CommStop, TypeOK
    <3>2. /\ comm' \in [Conn -> {"none", "start", "loop", "recv", "stop", "joinctl",
                                 "free", "close", "closedata", "done"}]
          /\ joining' \in [Conn -> {0} \cup Conn]
      BY <1>0, <2>1 DEF CommStop, TypeOK
    <3>3. generating' \in BOOLEAN /\ controlThreadRunning' \in BOOLEAN
      BY <2>1 DEF CommStop
    <3>4. UNCHANGED <<client, cmdQ, dataQ, fds, main, clifdTmp, clifd, commClifd,
                      newdatasockfd, pComm, commThreadRunning, pControl,
                      userspaceBuffer, arg, ctl>>
      BY <2>1 DEF CommStop
    <3> QED
      BY <1>0, <3>1, <3>2, <3>3, <3>4 DEF TypeOK
  <2>2. CASE CommJoinControl(t)
    <3>1. ctl' \in [Conn -> {"none", "run", "done", "joined"}]
      BY <1>0, <2>2 DEF CommJoinControl, TypeOK
    <3>2. joining' \in [Conn -> {0} \cup Conn]
      BY <1>0, <2>2 DEF CommJoinControl, TypeOK
    <3> QED
      BY <1>0, <2>2, <3>1, <3>2 DEF CommJoinControl, TypeOK
  <2> QED
    BY <1>11, <2>1, <2>2
<1>12. ASSUME NEW t \in Conn, CommFree(t) \/ CommClose(t) \/ CommCloseData(t)
       PROVE  TypeOK'
  <2>1. CASE CommFree(t)
    BY <1>0, <2>1 DEF CommFree, TypeOK
  <2>2. CASE CommClose(t)
    <3>1. fds' \in [FD -> Sock]
      BY <1>0, <2>2, Kinds DEF CommClose, TypeOK
    <3> QED
      BY <1>0, <2>2, <3>1 DEF CommClose, TypeOK
  <2>3. CASE CommCloseData(t)
    BY <1>0, <2>3, Kinds DEF CommCloseData, TypeOK
  <2> QED
    BY <1>12, <2>1, <2>2, <2>3
<1>13. ASSUME NEW t \in Conn, ControlEnd(t)
       PROVE  TypeOK'
  <2>1. ctl' \in [Conn -> {"none", "run", "done", "joined"}]
    BY <1>0, <1>13 DEF ControlEnd, TypeOK
  <2>2. generating' \in BOOLEAN
    BY <1>13 DEF ControlEnd
  <2>3. UNCHANGED <<client, cmdQ, dataQ, fds, main, clifdTmp, clifd, commClifd,
                    newdatasockfd, pComm, commThreadRunning, controlThreadRunning,
                    pControl, userspaceBuffer, comm, arg, joining, badJoin>>
    BY <1>13 DEF ControlEnd
  <2> QED
    BY <1>0, <2>1, <2>2, <2>3 DEF TypeOK
<1> QED
  BY <1>1, <1>2, <1>3, <1>4, <1>5, <1>6, <1>7, <1>8, <1>9, <1>10, <1>11, <1>12, <1>13
     DEF OrderlyNext, Main, Comm

\* The steps the proofs below distinguish.
LEMMA Steps ==
    ASSUME OrderlyNext
    PROVE  \/ Main
           \/ \E t \in Conn : ControlEnd(t)
           \/ \E t \in Conn : CommStart(t) \/ CommLoop(t) \/ CommServe(t)
           \/ \E t \in Conn : CommClosed(t) \/ CommFailed(t) \/ CommStop(t)
           \/ \E t \in Conn : CommJoinControl(t) \/ CommFree(t)
           \/ \E t \in Conn : CommClose(t) \/ CommCloseData(t)
           \/ \E c \in Conn : CanDial /\ Dial(c)
           \/ \E c \in Conn : DialData(c)
           \/ \E c \in Conn : CanHangUp(c) /\ HangUp(c)
  BY DEF OrderlyNext, Comm

\* Every step keeps the threads one: main creates them only past the join, and
\* skips the join only if the flag is clear, when no thread is alive.
LEMMA OneThreadStep ==
    ASSUME IInv, OrderlyNext
    PROVE  OneThread'
<1> USE DEF socks, globals, threads
<1>0. TypeOK /\ OneThread
  BY DEF IInv
<1>1. ASSUME NEW c \in Conn, Dial(c) \/ DialData(c) \/ HangUp(c)
      PROVE  OneThread'
  BY <1>0, <1>1 DEF Dial, DialData, HangUp, OneThread, AtRest, Alive, Works
<1>2. CASE Main
  <2>1. CASE MainCheckComm
    <3>1. ~commThreadRunning => AtRest
      BY <2>1 DEF MainCheckComm, IInv, Calling, AtRest
    <3> QED
      BY <1>0, <2>1, <3>1 DEF MainCheckComm, OneThread, AtRest, Alive, Works
  <2>2. CASE MainJoinComm
    <3>1. AtRest
      BY <1>0, <2>2 DEF MainJoinComm, OneThread, AtRest, Alive, Works
    <3> QED
      BY <1>0, <2>2, <3>1 DEF MainJoinComm, OneThread, AtRest, Alive, Works
  <2>3. CASE MainAdopt
    BY <1>0, <2>3 DEF MainAdopt, OneThread, AtRest, Alive, Works
  <2>4. CASE createThreads
    <3>1. PICK t \in Conn : /\ comm' = [comm EXCEPT ![t] = "start"]
                            /\ arg' = [arg EXCEPT ![t] = clifd]
                            /\ pControl' = t /\ pComm' = t
      BY <2>4 DEF createThreads
    <3>2. main = "create" /\ main' = "accept" /\ clifd' = clifd /\ AtRest
      BY <1>0, <2>4 DEF createThreads, OneThread
    <3>3. \A u \in Conn : u # t => comm'[u] = comm[u] /\ ~Alive(u)
      BY <1>0, <3>1, <3>2 DEF AtRest, TypeOK
    <3>4. comm'[t] = "start" /\ arg'[t] = clifd'
      BY <1>0, <3>1, <3>2 DEF TypeOK
    <3> QED
      BY <3>1, <3>2, <3>3, <3>4, Numbers DEF OneThread, Alive, Works
  <2>5. CASE MainAccept \/ MainAcceptData \/ MainAcceptDataFails
    BY <1>0, <2>5 DEF MainAccept, MainAcceptData, MainAcceptDataFails, OneThread, AtRest,
                      Alive, Works
  <2>6. CASE MainCheckControl \/ MainJoinControl
    BY <1>0, <2>6 DEF MainCheckControl, MainJoinControl, OneThread, AtRest, Alive, Works
  <2> QED
    BY <1>2, <2>1, <2>2, <2>3, <2>4, <2>5, <2>6 DEF Main
<1>3. ASSUME NEW t \in Conn, ControlEnd(t)
      PROVE  OneThread'
  BY <1>0, <1>3 DEF ControlEnd, OneThread, AtRest, Alive, Works
<1>4. ASSUME NEW t \in Conn, CommStart(t) \/ CommLoop(t) \/ CommServe(t)
      PROVE  OneThread'
  <2>1. t = pComm /\ ~AtRest
    BY <1>0, <1>4 DEF CommStart, CommLoop, CommServe, OneThread, Alive, AtRest
  <2>2. CASE CommStart(t)
    BY <1>0, <2>1, <2>2 DEF CommStart, OneThread, AtRest, Alive, Works, TypeOK
  <2>3. CASE CommLoop(t)
    BY <1>0, <2>1, <2>3 DEF CommLoop, OneThread, AtRest, Alive, Works, TypeOK
  <2>4. CASE CommServe(t)
    BY <1>0, <2>1, <2>4 DEF CommServe, OneThread, AtRest, Alive, Works, TypeOK
  <2> QED
    BY <1>4, <2>2, <2>3, <2>4
<1>5. ASSUME NEW t \in Conn, CommClosed(t) \/ CommFailed(t) \/ CommStop(t)
      PROVE  OneThread'
  <2>1. t = pComm /\ ~AtRest
    BY <1>0, <1>5 DEF CommClosed, CommFailed, CommStop, OneThread, Alive, AtRest
  <2>2. CASE CommClosed(t)
    BY <1>0, <2>1, <2>2 DEF CommClosed, OneThread, AtRest, Alive, Works, TypeOK
  <2>3. CASE CommFailed(t)
    BY <1>0, <2>1, <2>3 DEF CommFailed, OneThread, AtRest, Alive, Works, TypeOK
  <2>4. CASE CommStop(t)
    BY <1>0, <2>1, <2>4 DEF CommStop, OneThread, AtRest, Alive, Works, TypeOK
  <2> QED
    BY <1>5, <2>2, <2>3, <2>4
<1>6. ASSUME NEW t \in Conn, CommJoinControl(t) \/ CommFree(t)
      PROVE  OneThread'
  <2>1. t = pComm /\ ~AtRest
    BY <1>0, <1>6 DEF CommJoinControl, CommFree, OneThread, Alive, AtRest
  <2>2. CASE CommJoinControl(t)
    BY <1>0, <2>1, <2>2 DEF CommJoinControl, OneThread, AtRest, Alive, Works, TypeOK
  <2>3. CASE CommFree(t)
    BY <1>0, <2>1, <2>3 DEF CommFree, OneThread, AtRest, Alive, Works, TypeOK
  <2> QED
    BY <1>6, <2>2, <2>3
<1>7. ASSUME NEW t \in Conn, CommClose(t) \/ CommCloseData(t)
      PROVE  OneThread'
  <2>1. t = pComm /\ ~AtRest
    BY <1>0, <1>7 DEF CommClose, CommCloseData, OneThread, Alive, AtRest
  <2>2. CASE CommClose(t)
    BY <1>0, <2>1, <2>2 DEF CommClose, OneThread, AtRest, Alive, Works, TypeOK
  <2>3. CASE CommCloseData(t)
    BY <1>0, <2>1, <2>3 DEF CommCloseData, OneThread, AtRest, Alive, Works, TypeOK
  <2> QED
    BY <1>7, <2>2, <2>3
<1> QED
  BY <1>1, <1>2, <1>3, <1>4, <1>5, <1>6, <1>7, Steps

\* A thread that reads commands reads from the descriptor main adopted.
LEMMA ReadsClifd ==
    ASSUME OneThread, NEW t \in Conn
    PROVE  /\ comm[t] \in {"start", "loop", "recv"} => Reads(t) = clifd
           /\ comm[t] \in {"recv", "close"} => commClifd = clifd
  BY DEF OneThread, Works, Reads

\* Every step keeps the joins apart: the communication thread clears the flag
\* before main looks at it, or main does after that thread ended.
LEMMA JoinsStep ==
    ASSUME IInv, OrderlyNext
    PROVE  Joins'
<1> USE DEF socks, globals, threads
<1>0. TypeOK /\ OneThread /\ Joins
  BY DEF IInv
<1>1. ASSUME NEW c \in Conn, Dial(c) \/ DialData(c) \/ HangUp(c)
      PROVE  Joins'
  BY <1>0, <1>1 DEF Dial, DialData, HangUp, Joins
<1>2. CASE Main
  <2>1. CASE MainCheckComm \/ MainJoinComm \/ MainAdopt
    BY <1>0, <2>1 DEF MainCheckComm, MainJoinComm, MainAdopt, Joins
  <2>2. CASE MainAccept \/ MainAcceptData \/ MainAcceptDataFails
    BY <1>0, <2>2 DEF MainAccept, MainAcceptData, MainAcceptDataFails, Joins
  <2>3. CASE MainCheckControl
    <3>1. AtRest
      BY <1>0, <2>3 DEF MainCheckControl, OneThread
    <3>2. controlThreadRunning => ~BadTarget(pControl)
      BY <1>0, <3>1, Numbers DEF Joins, BadTarget, AtRest, Alive
    <3> QED
      BY <1>0, <2>3, <3>1, <3>2 DEF MainCheckControl, Joins, AtRest, Alive
  <2>4. CASE MainJoinControl
    <3>1. AtRest
      BY <1>0, <2>4 DEF MainJoinControl, OneThread
    <3>2. \A t \in Conn : ctl'[t] # "run"
      BY <1>0, <2>4 DEF MainJoinControl, Joins, TypeOK
    <3> QED
      BY <1>0, <2>4, <3>1, <3>2 DEF MainJoinControl, Joins, AtRest, Alive
  <2>5. CASE createThreads
    <3>1. PICK t \in Conn : /\ comm' = [comm EXCEPT ![t] = "start"] /\ comm[t] = "none"
                            /\ ctl' = [ctl EXCEPT ![t] = "run"]
                            /\ pControl' = t /\ controlThreadRunning'
      BY <2>5 DEF createThreads
    <3>2. main = "create" /\ main' = "accept" /\ AtRest /\ UNCHANGED <<joining, badJoin>>
      BY <1>0, <2>5 DEF createThreads, OneThread
    <3>3. \A u \in Conn : ctl[u] # "run"
      BY <1>0, <3>2 DEF Joins, AtRest, Alive
    <3>4. \A u \in Conn : /\ ctl'[u] = IF u = t THEN "run" ELSE ctl[u]
                          /\ comm'[u] = IF u = t THEN "start" ELSE comm[u]
      BY <1>0, <3>1 DEF TypeOK
    <3> QED
      BY <1>0, <3>1, <3>2, <3>3, <3>4, Numbers DEF Joins, AtRest, Alive
  <2> QED
    BY <1>2, <2>1, <2>2, <2>3, <2>4, <2>5 DEF Main
<1>3. ASSUME NEW t \in Conn, ControlEnd(t)
      PROVE  Joins'
  BY <1>0, <1>3 DEF ControlEnd, Joins, TypeOK
<1>4. ASSUME NEW t \in Conn, CommStart(t) \/ CommLoop(t) \/ CommServe(t)
      PROVE  Joins'
  <2>1. CASE CommStart(t)
    BY <1>0, <2>1 DEF CommStart, Joins, TypeOK
  <2>2. CASE CommLoop(t)
    BY <1>0, <2>2 DEF CommLoop, Joins, TypeOK
  <2>3. CASE CommServe(t)
    BY <1>0, <2>3 DEF CommServe, Joins, TypeOK
  <2> QED
    BY <1>4, <2>1, <2>2, <2>3
<1>5. ASSUME NEW t \in Conn, CommClosed(t) \/ CommFailed(t)
      PROVE  Joins'
  BY <1>0, <1>5 DEF CommClosed, CommFailed, Joins, TypeOK
<1>6. ASSUME NEW t \in Conn, CommStop(t)
      PROVE  Joins'
  <2>1. t = pControl /\ controlThreadRunning /\ ctl[t] = "run" /\ main # "joinctl"
        /\ main \notin {"data", "create"}
    BY <1>0, <1>6 DEF CommStop, OneThread, Joins, Alive, AtRest
  <2>2. \A u \in Conn : u # t => ~Alive(u) /\ joining[u] = 0
    BY <1>0, <2>1 DEF OneThread, Joins, Alive
  <2>3. ~BadTarget(pControl)
    BY <1>0, <1>6, <2>1, <2>2, Numbers DEF Joins, CommStop, BadTarget
  <2>4. \A u \in Conn : /\ comm'[u] = IF u = t THEN "joinctl" ELSE comm[u]
                        /\ joining'[u] = IF u = t THEN t ELSE joining[u]
    BY <1>0, <1>6, <2>1 DEF CommStop, TypeOK
  <2>5. ~controlThreadRunning' /\ ~badJoin' /\ UNCHANGED <<main, pControl, ctl>>
    BY <1>0, <1>6, <2>3 DEF CommStop, Joins
  <2> QED
    BY <1>0, <2>1, <2>2, <2>4, <2>5 DEF Joins, Alive
<1>7. ASSUME NEW t \in Conn, CommJoinControl(t)
      PROVE  Joins'
  <2>1. t = pControl /\ joining[t] = t /\ comm[t] = "joinctl"
    BY <1>0, <1>7 DEF CommJoinControl, OneThread, Joins, Alive
  <2>2. \A u \in Conn : /\ comm'[u] = IF u = t THEN "free" ELSE comm[u]
                        /\ joining'[u] = IF u = t THEN 0 ELSE joining[u]
                        /\ ctl'[u] = IF u = t THEN "joined" ELSE ctl[u]
    BY <1>0, <1>7, <2>1 DEF CommJoinControl, TypeOK
  <2>3. ctl[t] # "run"
    BY <1>7, <2>1 DEF CommJoinControl
  <2>4. ~controlThreadRunning
    BY <1>0, <2>1, <2>3 DEF Joins
  <2>5. UNCHANGED <<main, pControl, controlThreadRunning, badJoin>>
    BY <1>7 DEF CommJoinControl
  <2> QED
    BY <1>0, <2>1, <2>2, <2>4, <2>5 DEF Joins
<1>8. ASSUME NEW t \in Conn, CommFree(t) \/ CommClose(t) \/ CommCloseData(t)
      PROVE  Joins'
  BY <1>0, <1>8 DEF CommFree, CommClose, CommCloseData, Joins, TypeOK
<1> QED
  BY <1>1, <1>2, <1>3, <1>4, <1>5, <1>6, <1>7, <1>8, Steps

\* Every step keeps the descriptors apart: what accept returns is not in use, and
\* a thread closes what its own client had.
LEMMA SocketsStep ==
    ASSUME IInv, OrderlyNext
    PROVE  Sockets'
<1> USE DEF socks, globals, threads
<1>0. /\ TypeOK /\ OneThread /\ Sockets
      /\ \A t \in Conn : Works(t) => Alive(t)
  BY DEF IInv, Works, Alive
<1>1. ASSUME NEW c \in Conn, Dial(c) \/ DialData(c) \/ HangUp(c)
      PROVE  Sockets'
  BY <1>0, <1>1 DEF Dial, DialData, HangUp, Sockets, Works, Alive, AtRest
<1>2. CASE Main
  <2>1. CASE MainAccept
    <3>1. PICK n \in FD : n = LowestFree /\ fds[n] = Free
      BY <2>1, AcceptedIsNew
    <3>2. /\ clifdTmp' = n /\ \A f \in FD : f # n => fds'[f] = fds[f]
          /\ main = "accept" /\ main' = "check"
          /\ UNCHANGED <<clifd, newdatasockfd, comm>>
      BY <1>0, <2>1, <3>1 DEF MainAccept, TypeOK
    <3>3. \A t \in Conn : /\ Works(t) => clifd \in FD /\ clifd # n
                          /\ Alive(t) => newdatasockfd \in FD /\ newdatasockfd # n
      <4> SUFFICES ASSUME NEW t \in Conn, Alive(t)
                   PROVE  /\ Works(t) => clifd \in FD /\ clifd # n
                          /\ newdatasockfd \in FD /\ newdatasockfd # n
        BY <1>0
      <4>1. CASE Works(t)
        BY <1>0, <3>1, <4>1, Kinds DEF Sockets
      <4>2. CASE comm[t] = "closedata"
        BY <1>0, <3>1, <4>2, Kinds DEF Sockets, Works
      <4> QED
        BY <1>0, <4>1, <4>2 DEF Alive, Works, TypeOK
    <3> QED
      BY <1>0, <3>1, <3>2, <3>3 DEF Sockets, Works, Alive, AtRest
  <2>2. CASE MainCheckComm \/ MainJoinComm
    BY <1>0, <2>2 DEF MainCheckComm, MainJoinComm, Sockets, Works, Alive, AtRest
  <2>3. CASE MainAdopt
    BY <1>0, <2>3 DEF MainAdopt, OneThread, Sockets, Works, Alive, AtRest
  <2>4. CASE MainCheckControl \/ MainJoinControl
    BY <1>0, <2>4 DEF MainCheckControl, MainJoinControl, Sockets, Works, Alive, AtRest
  <2>5. CASE MainAcceptData
    <3>1. PICK n \in FD : n = LowestFree /\ fds[n] = Free
      BY <2>5, AcceptedIsNew
    <3>2. /\ newdatasockfd' = n /\ \A f \in FD : f # n => fds'[f] = fds[f]
          /\ main = "data" /\ main' = "create" /\ AtRest
          /\ UNCHANGED <<clifd, clifdTmp, comm>>
      BY <1>0, <2>5, <3>1 DEF MainAcceptData, TypeOK, OneThread
    <3> QED
      BY <1>0, <3>1, <3>2 DEF Sockets, Works, Alive, AtRest
  <2>6. CASE MainAcceptDataFails
    <3>1. /\ newdatasockfd' = -1 /\ main = "data" /\ main' = "accept" /\ AtRest
          /\ UNCHANGED comm
          /\ \A f \in FD : fds'[f] = IF f = clifdTmp THEN Free ELSE fds[f]
      BY <1>0, <2>6 DEF MainAcceptDataFails, TypeOK, OneThread
    <3>2. \A t \in Conn : ~Alive(t) /\ ~Works(t) /\ ~Works(t)' /\ comm'[t] # "closedata"
      BY <1>0, <3>1 DEF AtRest, Alive, Works
    <3>3. \A f \in FD : fds'[f] = Free
      BY <1>0, <3>1, <3>2 DEF Sockets
    <3> QED
      BY <3>1, <3>2, <3>3, Numbers DEF Sockets
  <2>7. CASE createThreads
    <3>1. PICK t \in Conn : comm' = [comm EXCEPT ![t] = "start"]
      BY <2>7 DEF createThreads
    <3>2. /\ main = "create" /\ main' = "accept" /\ AtRest
          /\ UNCHANGED <<clifd, clifdTmp, newdatasockfd, fds>>
      BY <1>0, <2>7 DEF createThreads, OneThread
    <3>3. \A u \in Conn : comm'[u] = IF u = t THEN "start" ELSE comm[u]
      BY <1>0, <3>1 DEF TypeOK
    <3>4. Works(t)' /\ Alive(t)' /\ \A u \in Conn : u # t => ~Works(u)' /\ ~Alive(u)'
      BY <1>0, <3>2, <3>3 DEF Works, Alive, AtRest
    <3>5. /\ clifd \in FD /\ clifd = clifdTmp /\ newdatasockfd \in FD
          /\ \E c \in Conn : fds[clifd] = Cmd(c) /\ fds[newdatasockfd] = Data(c)
      BY <1>0, <3>2 DEF Sockets, IInv, Calling
    <3>6. \A f \in FD : fds[f] # Free => f = clifd \/ f = newdatasockfd
      BY <1>0, <3>2, <3>5 DEF Sockets, AtRest
    <3> QED
      BY <3>2, <3>3, <3>4, <3>5, <3>6 DEF Sockets, AtRest
  <2> QED
    BY <1>2, <2>1, <2>2, <2>3, <2>4, <2>5, <2>6, <2>7 DEF Main
<1>3. ASSUME NEW t \in Conn, ControlEnd(t)
      PROVE  Sockets'
  BY <1>0, <1>3 DEF ControlEnd, Sockets, Works, Alive, AtRest
<1>4. ASSUME NEW t \in Conn, Works(t), clifd' = clifd,
             comm' = [comm EXCEPT ![t] = comm'[t]], Works(t)',
             UNCHANGED <<fds, main, clifdTmp, newdatasockfd>>
      PROVE  Sockets'
  <2>1. \A u \in Conn : u # t => comm'[u] = comm[u]
    BY <1>0, <1>4 DEF TypeOK
  <2>2. \A u \in Conn : Works(u)' <=> Works(u)
    BY <1>4, <2>1 DEF Works
  <2>3. \A u \in Conn : Alive(u)' <=> Alive(u)
    BY <1>0, <1>4, <2>1 DEF Works, Alive
  <2>4. \A u \in Conn : comm'[u] = "closedata" <=> comm[u] = "closedata"
    BY <1>4, <2>1 DEF Works
  <2>5. AtRest' <=> AtRest
    BY <2>3 DEF AtRest
  <2> QED
    BY <1>0, <1>4, <2>2, <2>3, <2>4, <2>5 DEF Sockets
<1>5. ASSUME NEW t \in Conn, CommStart(t) \/ CommLoop(t) \/ CommServe(t)
      PROVE  Sockets'
  BY <1>0, <1>4, <1>5 DEF CommStart, CommLoop, CommServe, OneThread, Works, TypeOK
<1>6. ASSUME NEW t \in Conn, CommClosed(t) \/ CommFailed(t) \/ CommStop(t)
      PROVE  Sockets'
  BY <1>0, <1>4, <1>6 DEF CommClosed, CommFailed, CommStop, Works, TypeOK
<1>7. ASSUME NEW t \in Conn, CommJoinControl(t) \/ CommFree(t)
      PROVE  Sockets'
  BY <1>0, <1>4, <1>7 DEF CommJoinControl, CommFree, Works, TypeOK
<1>8. ASSUME NEW t \in Conn, CommClose(t)
      PROVE  Sockets'
  <2>1. /\ comm[t] = "close" /\ comm' = [comm EXCEPT ![t] = "closedata"]
        /\ UNCHANGED <<main, clifd, clifdTmp, newdatasockfd>>
        /\ \A f \in FD : fds'[f] = IF f = clifd THEN Free ELSE fds[f]
    BY <1>0, <1>8, ReadsClifd DEF CommClose, TypeOK
  <2>2. \A u \in Conn : /\ comm'[u] = IF u = t THEN "closedata" ELSE comm[u]
                        /\ u # t => ~Alive(u)
    BY <1>0, <2>1 DEF OneThread, Alive, TypeOK
  <2>3. Works(t) /\ ~Works(t)' /\ Alive(t)' /\ \A u \in Conn : ~Works(u)'
    BY <2>1, <2>2 DEF Works, Alive
  <2>4. PICK c \in Conn : /\ clifd \in FD /\ newdatasockfd \in FD
                          /\ fds[clifd] = Cmd(c) /\ fds[newdatasockfd] = Data(c)
    BY <1>0, <2>3 DEF Sockets
  <2>5. clifd # newdatasockfd
    BY <2>4, Kinds
  <2>6. \A u \in Conn : Alive(u)' => u = t
    BY <2>2 DEF Alive
  <2>7. ~AtRest' /\ main # "create"
    BY <1>0, <2>1, <2>3 DEF AtRest, OneThread, Works, Alive
  <2>8. fds'[newdatasockfd] = Data(c)
    BY <2>1, <2>4, <2>5
  <2>9. \A f \in FD : fds'[f] # Free =>
            \/ main # "accept" /\ f = clifdTmp
            \/ f = newdatasockfd
    BY <1>0, <2>1, <2>2, <2>7 DEF Sockets, Works, Alive
  <2>10. main # "accept" => clifdTmp \in FD /\ clifdTmp # newdatasockfd
                            /\ main \notin {"checkctl", "joinctl", "data", "create"}
    BY <1>0, <2>3, <2>7 DEF Sockets, OneThread, AtRest
  <2> QED
    BY <2>1, <2>3, <2>4, <2>6, <2>7, <2>8, <2>9, <2>10 DEF Sockets
<1>9. ASSUME NEW t \in Conn, CommCloseData(t)
      PROVE  Sockets'
  <2>1. /\ comm[t] = "closedata" /\ comm' = [comm EXCEPT ![t] = "done"]
        /\ UNCHANGED <<main, clifd, clifdTmp>>
        /\ \A f \in FD : fds'[f] = IF f = newdatasockfd THEN Free ELSE fds[f]
    BY <1>0, <1>9 DEF CommCloseData, TypeOK
  <2>2. newdatasockfd \in FD /\ newdatasockfd' = 0
    BY <1>0, <1>9, <2>1, Numbers DEF CommCloseData, Sockets
  <2>3. \A u \in Conn : comm'[u] = (IF u = t THEN "done" ELSE comm[u]) /\ (u # t => ~Alive(u))
    BY <1>0, <2>1 DEF OneThread, Alive, TypeOK
  <2>4. AtRest' /\ \A u \in Conn : ~Works(u)' /\ ~Works(u) /\ comm'[u] # "closedata"
    BY <2>1, <2>3 DEF AtRest, Works, Alive
  <2>5. main \notin {"checkctl", "joinctl", "data", "create"}
    BY <1>0, <2>1 DEF OneThread, AtRest, Alive
  <2>6. \A f \in FD : fds'[f] # Free => main # "accept" /\ f = clifdTmp
    BY <1>0, <2>1, <2>4, <2>5 DEF Sockets
  <2>7. main # "accept" => clifdTmp \in FD
    BY <1>0 DEF Sockets
  <2> QED
    BY <2>1, <2>2, <2>4, <2>5, <2>6, <2>7, Numbers DEF Sockets, AtRest
<1> QED
  BY <1>1, <1>2, <1>3, <1>5, <1>6, <1>7, <1>8, <1>9, Steps

\* Every step keeps the account of the client that dials.
LEMMA CallingStep ==
    ASSUME IInv, OrderlyNext
    PROVE  Calling'
<1> USE DEF socks, globals, threads
<1>0. /\ TypeOK /\ OneThread /\ Sockets /\ Calling
      /\ \A t \in Conn : Works(t) => Alive(t)
  BY DEF IInv, Works, Alive
<1>1. ASSUME NEW c \in Conn, CanDial, Dial(c)
      PROVE  Calling'
  <2>1. /\ main = "accept" /\ cmdQ = <<>> /\ dataQ = <<>> /\ client[c] = "away"
        /\ \A b \in Conn : client'[b] = IF b = c THEN "cmd" ELSE client[b]
        /\ UNCHANGED <<dataQ, fds, main, clifdTmp, clifd, newdatasockfd, comm,
                       commThreadRunning>>
    BY <1>0, <1>1 DEF CanDial, Dial, TypeOK
  <2>2. cmdQ' = <<c>> /\ <<c>> # <<>>
    BY <1>1, <2>1, OneInQueue DEF Dial
  <2>3. \A b \in Conn : client[b] # "cmd"
    BY <1>0, <2>1 DEF Calling
  <2>4. Calls(c)' /\ client'[c] # "gone"
    BY <2>1, <2>3 DEF Calls
  <2>5. \A t \in Conn : Works(t) => fds[clifd] # Cmd(c)
    BY <1>0, <2>1 DEF Calling
  <2>6. \A t \in Conn : Alive(t) =>
            /\ commThreadRunning /\ comm[t] \in {"start", "loop", "recv"}
            /\ \A d \in Conn : fds[clifd] = Cmd(d) => client[d] # "gone"
    <3>1. CASE AtRest
      BY <3>1 DEF AtRest
    <3>2. CASE ~AtRest
      <4> SUFFICES ASSUME NEW t \in Conn, Alive(t)
                   PROVE  /\ commThreadRunning /\ comm[t] \in {"start", "loop", "recv"}
                          /\ \A d \in Conn : fds[clifd] = Cmd(d) => client[d] # "gone"
        OBVIOUS
      <4>1. commThreadRunning /\ comm[t] \in {"start", "loop", "recv"} /\ Peer(Reads(t)) # 0
        BY <1>1, <3>2 DEF CanDial, Serving
      <4>2. Reads(t) = clifd
        <5>1. OneThread
          BY <1>0
        <5> QED
          BY <4>1, <5>1, ReadsClifd
      <4>3. Peer(clifd) # 0
        BY <4>1, <4>2
      <4>4. \A d \in Conn : fds[clifd] = Cmd(d) => client[d] # "gone"
        BY <4>3, Kinds DEF Peer
      <4> QED
        BY <4>1, <4>4
    <3> QED
      BY <3>1, <3>2
  <2>7. \A t \in Conn : Works(t) => \A d \in Conn : fds[clifd] = Cmd(d) => client'[d] # "away"
    BY <1>0, <2>1 DEF Calling
  <2>8. \A t \in Conn : (Works(t)' <=> Works(t)) /\ (Alive(t)' <=> Alive(t))
    BY <2>1 DEF Works, Alive
  <2> QED
    BY <2>1, <2>2, <2>4, <2>5, <2>6, <2>7, <2>8 DEF Calling
<1>2. ASSUME NEW c \in Conn, DialData(c)
      PROVE  Calling'
  <2>1. /\ client[c] = "cmd" /\ dataQ' = Append(dataQ, c)
        /\ \A b \in Conn : client'[b] = IF b = c THEN "both" ELSE client[b]
        /\ UNCHANGED <<cmdQ, fds, main, clifdTmp, clifd, newdatasockfd, comm,
                       commThreadRunning>>
    BY <1>0, <1>2 DEF DialData, TypeOK
  <2>2. main # "create" /\ ~(main = "accept" /\ cmdQ = <<>>)
    BY <1>0, <2>1 DEF Calling
  <2>3. main # "accept" => main \in {"check", "join", "adopt", "checkctl", "joinctl", "data"}
    BY <1>0, <2>2 DEF TypeOK
  <2>4. \A b \in Conn : Calls(b) => b = c
    BY <2>1 DEF Calls
  <2>5. Calls(c)
    BY <1>0, <2>2, <2>3, <2>4 DEF Calling
  <2>6. dataQ' = <<c>>
    BY <2>1, <2>5, OneInQueue DEF Calls
  <2>7. Calls(c)' /\ client'[c] # "gone"
    BY <2>1, <2>5, <2>6 DEF Calls
  <2>8. \A t \in Conn : (Works(t)' <=> Works(t)) /\ (Alive(t)' <=> Alive(t))
    BY <2>1 DEF Works, Alive
  <2> QED
    BY <1>0, <2>1, <2>2, <2>4, <2>7, <2>8 DEF Calling
<1>3. ASSUME NEW c \in Conn, CanHangUp(c), HangUp(c)
      PROVE  Calling'
  <2>1. /\ client[c] = "both" /\ main # "check" /\ cmdQ = <<>>
        /\ \A b \in Conn : client'[b] = IF b = c THEN "gone" ELSE client[b]
        /\ UNCHANGED <<cmdQ, dataQ, fds, main, clifdTmp, clifd, newdatasockfd, comm,
                       commThreadRunning>>
    BY <1>0, <1>3 DEF CanHangUp, HangUp, TypeOK
  <2>2. \A b \in Conn : Calls(b) => Calls(b)'
    BY <2>1 DEF Calls
  <2>3. \A t \in Conn : (Works(t)' <=> Works(t)) /\ (Alive(t)' <=> Alive(t))
    BY <2>1 DEF Works, Alive
  <2> QED
    BY <1>0, <2>1, <2>2, <2>3 DEF Calling
<1>4. CASE Main
  <2>1. CASE MainAccept
    <3>1. PICK n \in FD : n = LowestFree /\ fds[n] = Free
      BY <2>1, AcceptedIsNew
    <3>2. PICK c \in Conn : /\ cmdQ = <<c>> /\ Calls(c) /\ client[c] # "gone"
                            /\ \A t \in Conn : Works(t) => fds[clifd] # Cmd(c)
      BY <1>0, <2>1 DEF MainAccept, Calling
    <3>3. cmdQ # <<>> /\ Head(cmdQ) = c /\ Tail(cmdQ) = <<>>
      BY <3>2, OneInQueue
    <3>4. /\ clifdTmp' = n /\ cmdQ' = <<>> /\ main' = "check"
          /\ \A f \in FD : fds'[f] = IF f = n THEN Cmd(c) ELSE fds[f]
          /\ UNCHANGED <<client, dataQ, clifd, newdatasockfd, comm, commThreadRunning>>
      BY <1>0, <2>1, <3>1, <3>3 DEF MainAccept, TypeOK
    <3>5. Calls(c)'
      BY <3>2, <3>4 DEF Calls
    <3>6. \A t \in Conn : Works(t) => clifd \in FD /\ clifd # n
      BY <1>0, <3>1, Kinds DEF Sockets
    <3>7. \A t \in Conn : Alive(t) =>
            /\ commThreadRunning /\ comm[t] \in {"start", "loop", "recv"}
            /\ \A d \in Conn : fds[clifd] = Cmd(d) => client[d] # "gone"
      BY <1>0, <3>3 DEF Calling
    <3>8. \A t \in Conn : Alive(t) => Works(t)
      BY <3>7 DEF Works
    <3>9. \A t \in Conn : (Works(t)' <=> Works(t)) /\ (Alive(t)' <=> Alive(t))
      BY <3>4 DEF Works, Alive
    <3> QED
      BY <1>0, <3>4, <3>5, <3>6, <3>7, <3>8, <3>9 DEF Calling
  <2>2. CASE MainCheckComm
    <3>1. /\ main = "check" /\ main' \in {"join", "adopt"}
          /\ UNCHANGED <<socks, fds, clifdTmp, clifd, newdatasockfd, comm>>
      BY <2>2 DEF MainCheckComm
    <3>2. cmdQ = <<>>
      BY <1>0, <3>1 DEF Calling
    <3>3. \A c \in Conn : Calls(c)' <=> Calls(c)
      BY <3>1 DEF Calls
    <3>4. \A t \in Conn : (Works(t)' <=> Works(t)) /\ (Alive(t)' <=> Alive(t))
      BY <3>1 DEF Works, Alive
    <3> QED
      BY <1>0, <3>1, <3>2, <3>3, <3>4 DEF Calling
  <2>3. CASE MainJoinComm \/ MainAdopt \/ MainCheckControl \/ MainJoinControl
    <3>1. /\ main \in {"join", "adopt", "checkctl", "joinctl"}
          /\ main' \in {"adopt", "checkctl", "joinctl", "data"}
          /\ UNCHANGED <<socks, fds, clifdTmp, newdatasockfd, comm>>
      BY <2>3 DEF MainJoinComm, MainAdopt, MainCheckControl, MainJoinControl
    <3>2. cmdQ = <<>>
      BY <1>0, <3>1 DEF Calling
    <3>3. AtRest
      BY <1>0, <2>3 DEF MainJoinComm, MainAdopt, MainCheckControl, MainJoinControl,
                        OneThread, AtRest, Alive
    <3>4. \A t \in Conn : ~Works(t)' /\ ~Alive(t)'
      BY <3>1, <3>3 DEF Works, Alive, AtRest
    <3>5. \A c \in Conn : Calls(c)' <=> Calls(c)
      BY <3>1 DEF Calls
    <3> QED
      BY <1>0, <3>1, <3>2, <3>4, <3>5 DEF Calling
  <2>4. CASE MainAcceptData \/ MainAcceptDataFails
    <3>1. main = "data" /\ dataQ # <<>> /\ dataQ' = Tail(dataQ)
          /\ UNCHANGED <<client, cmdQ, clifdTmp, clifd, comm>>
      BY <2>4 DEF MainAcceptData, MainAcceptDataFails
    <3>2. cmdQ = <<>>
      BY <1>0, <3>1 DEF Calling
    <3>3. AtRest
      BY <1>0, <3>1 DEF OneThread
    <3>4. \A t \in Conn : ~Works(t)' /\ ~Alive(t)'
      BY <3>1, <3>3 DEF Works, Alive, AtRest
    <3>5. PICK c \in Conn : fds[clifdTmp] = Cmd(c) /\ Calls(c)
      BY <1>0, <3>1 DEF Calling
    <3>6. dataQ = <<c>> /\ client[c] \in {"both", "gone"}
      BY <3>1, <3>5 DEF Calls
    <3>7. Head(dataQ) = c /\ dataQ' = <<>>
      BY <3>1, <3>6, OneInQueue
    <3>8. \A b \in Conn : client'[b] # "cmd"
      BY <3>1, <3>5, <3>6 DEF Calls
    <3>9. CASE MainAcceptData
      <4>1. PICK n \in FD : n = LowestFree /\ fds[n] = Free
        BY <3>9, AcceptedIsNew
      <4>2. /\ main' = "create" /\ newdatasockfd' = n
            /\ \A f \in FD : fds'[f] = IF f = n THEN Data(c) ELSE fds[f]
        BY <1>0, <3>7, <3>9, <4>1 DEF MainAcceptData, TypeOK
      <4>3. clifdTmp \in FD /\ clifdTmp # n
        BY <1>0, <3>1, <3>5, <4>1, Kinds DEF Sockets
      <4>4. fds'[clifdTmp'] = Cmd(c) /\ fds'[newdatasockfd'] = Data(c)
        BY <3>1, <3>5, <4>2, <4>3
      <4> QED
        BY <3>1, <3>2, <3>4, <3>6, <3>7, <3>8, <4>2, <4>4 DEF Calling
    <3>10. CASE MainAcceptDataFails
      <4>1. main' = "accept"
        BY <3>10 DEF MainAcceptDataFails
      <4> QED
        BY <3>1, <3>2, <3>4, <3>7, <3>8, <4>1 DEF Calling
    <3> QED
      BY <2>4, <3>9, <3>10
  <2>5. CASE createThreads
    <3>1. /\ main = "create" /\ main' = "accept"
          /\ UNCHANGED <<socks, fds, clifdTmp, clifd, newdatasockfd>>
      BY <2>5 DEF createThreads
    <3>2. cmdQ = <<>> /\ dataQ = <<>> /\ \A c \in Conn : client[c] # "cmd"
      BY <1>0, <3>1 DEF Calling
    <3>3. \A c \in Conn : fds[clifd] = Cmd(c) => client[c] # "away"
      BY <1>0, <3>1, Kinds DEF Calling, Sockets
    <3> QED
      BY <3>1, <3>2, <3>3 DEF Calling
  <2> QED
    BY <1>4, <2>1, <2>2, <2>3, <2>4, <2>5 DEF Main
<1>5. ASSUME NEW t \in Conn, ControlEnd(t)
      PROVE  Calling'
  <2>1. \A c \in Conn : Calls(c)' <=> Calls(c)
    BY <1>5 DEF ControlEnd, Calls
  <2>2. \A u \in Conn : (Works(u)' <=> Works(u)) /\ (Alive(u)' <=> Alive(u))
    BY <1>5 DEF ControlEnd, Works, Alive
  <2> QED
    BY <1>0, <1>5, <2>1, <2>2 DEF ControlEnd, Calling
<1>6. ASSUME NEW t \in Conn, Works(t), Works(t)', clifd' = clifd,
             comm' = [comm EXCEPT ![t] = comm'[t]],
             UNCHANGED <<socks, fds, main, clifdTmp, newdatasockfd>>,
             cmdQ # <<>> \/ main = "check" =>
                 commThreadRunning' /\ comm'[t] \in {"start", "loop", "recv"}
      PROVE  Calling'
  <2>1. \A u \in Conn : u # t => comm'[u] = comm[u] /\ ~Alive(u)
    BY <1>0, <1>6 DEF TypeOK, OneThread
  <2>2. \A u \in Conn : Works(u)' <=> Works(u)
    BY <1>6, <2>1 DEF Works
  <2>3. \A u \in Conn : Alive(u)' => u = t
    BY <2>1 DEF Alive
  <2>4. \A c \in Conn : Calls(c)' <=> Calls(c)
    BY <1>6 DEF Calls
  <2> QED
    BY <1>0, <1>6, <2>2, <2>3, <2>4 DEF Calling
<1>7. ASSUME NEW t \in Conn, CommStart(t) \/ CommLoop(t) \/ CommServe(t)
      PROVE  Calling'
  <2>1. Alive(t)
    BY <1>7 DEF CommStart, CommLoop, CommServe, Alive
  <2>2. cmdQ # <<>> \/ main = "check" => commThreadRunning
    BY <1>0, <2>1 DEF Calling
  <2> QED
    BY <1>0, <1>6, <1>7, <2>2 DEF CommStart, CommLoop, CommServe, OneThread, Works, TypeOK
<1>8. ASSUME NEW t \in Conn,
             \/ CommClosed(t) \/ CommFailed(t) \/ CommStop(t)
             \/ CommJoinControl(t) \/ CommFree(t)
      PROVE  Calling'
  <2>1. Works(t) /\ Alive(t)
    BY <1>8 DEF CommClosed, CommFailed, CommStop, CommJoinControl, CommFree, Works, Alive
  <2>2. CASE CommClosed(t) \/ CommFailed(t)
    <3>1. PICK c \in Conn : fds[clifd] = Cmd(c)
      BY <1>0, <2>1 DEF Sockets
    <3>2. client[c] = "gone"
      <4>1. Peer(commClifd) = 0 /\ comm[t] = "recv"
        BY <2>2 DEF CommClosed, CommFailed
      <4>2. Peer(clifd) = 0
        <5>1. OneThread
          BY <1>0
        <5>2. commClifd = clifd
          BY <4>1, <5>1, ReadsClifd
        <5> QED
          BY <4>1, <5>2
      <4> QED
        BY <3>1, <4>2, Kinds, Numbers DEF Peer, Cmd
    <3>3. ~(cmdQ # <<>> \/ main = "check")
      BY <1>0, <2>1, <3>1, <3>2 DEF Calling
    <3> QED
      BY <1>0, <1>6, <2>1, <2>2, <3>3 DEF CommClosed, CommFailed, Works, TypeOK
  <2>3. CASE CommStop(t) \/ CommJoinControl(t) \/ CommFree(t)
    <3>1. comm[t] \notin {"start", "loop", "recv"}
      BY <2>3 DEF CommStop, CommJoinControl, CommFree
    <3>2. ~(cmdQ # <<>> \/ main = "check")
      BY <1>0, <2>1, <3>1 DEF Calling
    <3> QED
      BY <1>0, <1>6, <2>1, <2>3, <3>2 DEF CommStop, CommJoinControl, CommFree, Works, TypeOK
  <2> QED
    BY <1>8, <2>2, <2>3
<1>9. ASSUME NEW t \in Conn, CommClose(t) \/ CommCloseData(t)
      PROVE  Calling'
  <2>1. /\ Alive(t) /\ comm[t] \in {"close", "closedata"}
        /\ comm'[t] \in {"closedata", "done"} /\ comm' = [comm EXCEPT ![t] = comm'[t]]
        /\ UNCHANGED <<socks, main, clifdTmp, clifd>>
    BY <1>0, <1>9 DEF CommClose, CommCloseData, Alive, TypeOK
  <2>2. ~(cmdQ # <<>> \/ main = "check")
    BY <1>0, <2>1 DEF Calling
  <2>3. main \in {"accept", "join"}
    BY <1>0, <2>1, <2>2 DEF OneThread, AtRest, TypeOK
  <2>4. \A u \in Conn : ~Works(u)'
    BY <1>0, <2>1 DEF OneThread, Works, Alive, TypeOK
  <2>5. main = "join" => fds'[clifdTmp] = fds[clifdTmp]
    <3>1. CASE CommClose(t)
      <4>1. Works(t)
        BY <3>1 DEF CommClose, Works
      <4> QED
        BY <1>0, <3>1, <4>1, ReadsClifd DEF CommClose, Sockets, TypeOK
    <3>2. CASE CommCloseData(t)
      BY <1>0, <2>1, <3>2 DEF CommCloseData, Sockets
    <3> QED
      BY <1>9, <3>1, <3>2
  <2>6. \A c \in Conn : Calls(c)' <=> Calls(c)
    BY <2>1 DEF Calls
  <2> QED
    BY <1>0, <2>1, <2>2, <2>3, <2>4, <2>5, <2>6 DEF Calling
<1> QED
  BY <1>1, <1>2, <1>3, <1>4, <1>5, <1>7, <1>8, <1>9, Steps

\* Every step keeps the signal to a control thread that runs.
LEMMA SignalStep ==
    ASSUME IInv, OrderlyNext
    PROVE  Signal'
<1> USE DEF socks, globals, threads
<1>0. TypeOK /\ OneThread /\ Joins /\ Signal
  BY DEF IInv
<1>1. ASSUME NEW c \in Conn, Dial(c) \/ DialData(c) \/ HangUp(c)
      PROVE  Signal'
  BY <1>0, <1>1 DEF Dial, DialData, HangUp, Signal
<1>2. CASE Main
  <2>1. CASE MainCheckComm \/ MainJoinComm \/ MainAdopt \/ MainCheckControl
    BY <1>0, <2>1 DEF MainCheckComm, MainJoinComm, MainAdopt, MainCheckControl, Signal
  <2>2. CASE MainAccept \/ MainAcceptData \/ MainAcceptDataFails
    BY <1>0, <2>2 DEF MainAccept, MainAcceptData, MainAcceptDataFails, Signal
  <2>3. CASE MainJoinControl
    <3>1. \A t \in Conn : ctl[t] = "run" => ctl'[t] = "run"
      BY <1>0, <2>3 DEF MainJoinControl, TypeOK
    <3> QED
      BY <1>0, <2>3, <3>1 DEF MainJoinControl, Signal
  <2>4. CASE createThreads
    <3>1. PICK t \in Conn : ctl' = [ctl EXCEPT ![t] = "run"]
      BY <2>4 DEF createThreads
    <3> QED
      BY <1>0, <3>1 DEF Signal, TypeOK
  <2> QED
    BY <1>2, <2>1, <2>2, <2>3, <2>4 DEF Main
<1>3. ASSUME NEW t \in Conn, ControlEnd(t) \/ CommStop(t)
      PROVE  Signal'
  BY <1>3 DEF ControlEnd, CommStop, Signal
<1>4. ASSUME NEW t \in Conn, CommServe(t)
      PROVE  Signal'
  <2>1. pControl \in Conn /\ ctl'[pControl] = "run"
    BY <1>0, <1>4 DEF CommServe, Joins, TypeOK
  <2> QED
    BY <2>1 DEF Signal
<1>5. ASSUME NEW t \in Conn, CommJoinControl(t)
      PROVE  Signal'
  <2>1. \A u \in Conn : ctl[u] = "run" => ctl'[u] = "run"
    BY <1>0, <1>5 DEF CommJoinControl, TypeOK
  <2> QED
    BY <1>0, <1>5, <2>1 DEF CommJoinControl, Signal
<1>6. ASSUME NEW t \in Conn,
             \/ CommStart(t) \/ CommLoop(t) \/ CommClosed(t) \/ CommFailed(t)
             \/ CommFree(t) \/ CommClose(t) \/ CommCloseData(t)
      PROVE  Signal'
  BY <1>0, <1>6 DEF CommStart, CommLoop, CommClosed, CommFailed, CommFree, CommClose,
                    CommCloseData, Signal
<1> QED
  BY <1>1, <1>2, <1>3, <1>4, <1>5, <1>6, Steps

-----------------------------------------------------------------------------
(* The results.                                                            *)

\* The invariant holds initially.
LEMMA Initially ==
    ASSUME Init
    PROVE  IInv
<1>1. TypeOK
  <2>1. << >> \in Seq(Conn)
    OBVIOUS
  <2> QED
    BY <2>1, Kinds DEF Init, TypeOK
<1>2. OneThread /\ Joins /\ Signal
  BY DEF Init, OneThread, Joins, Signal, Alive, AtRest, Works
<1>3. Sockets
  BY Numbers DEF Init, Sockets, Works, Alive
<1>4. Calling
  BY DEF Init, Calling, Works, Alive
<1> QED
  BY <1>1, <1>2, <1>3, <1>4 DEF IInv

\* A step that changes nothing keeps the invariant.
LEMMA Stutters ==
    ASSUME IInv, UNCHANGED vars
    PROVE  IInv'
<1> USE DEF vars, socks, globals, threads
<1>1. \A t \in Conn : (Works(t)' <=> Works(t)) /\ (Alive(t)' <=> Alive(t))
  BY DEF Works, Alive
<1>2. AtRest' <=> AtRest
  BY <1>1 DEF AtRest
<1>3. \A c \in Conn : Calls(c)' <=> Calls(c)
  BY DEF Calls
<1>4. TypeOK'
  BY DEF IInv, TypeOK
<1>5. OneThread' /\ Joins' /\ Signal'
  BY <1>1, <1>2 DEF IInv, OneThread, Joins, Signal
<1>6. Sockets'
  BY <1>1, <1>2 DEF IInv, Sockets
<1>7. Calling'
  BY <1>1, <1>3 DEF IInv, Calling
<1> QED
  BY <1>4, <1>5, <1>6, <1>7 DEF IInv

\* The invariant holds in every state.
LEMMA Invariance == OrderlySpec => []IInv
<1>1. IInv /\ [OrderlyNext]_vars => IInv'
  BY TypeStep, OneThreadStep, JoinsStep, SocketsStep, CallingStep, SignalStep,
     Stutters DEF IInv
<1> QED
  BY <1>1, Initially, PTL DEF OrderlySpec

\* Every variable keeps its type.
THEOREM TypeCorrect == OrderlySpec => []TypeOK
<1>1. IInv => TypeOK
  BY DEF IInv
<1> QED
  BY <1>1, Invariance, PTL

\* When main creates the threads of a connection, both threads of the last one
\* have ended, and no thread was joined twice, although main and the communication
\* thread both join the control thread (daq_server_scpi.c, communication.c).
THEOREM ThreadsHaveEnded == OrderlySpec => []LastThreadsEnded
<1>1. IInv => LastThreadsEnded
  BY DEF IInv, OneThread, Joins, AtRest, Alive, LastThreadsEnded
<1> QED
  BY <1>1, Invariance, PTL

\* When main creates the threads of a connection the signal of the last one is off,
\* whether the thread that served it stopped it or, after a failed recv, only the
\* control thread did (docs/src/architecture.md, control.c).
THEOREM SignalIsOff == OrderlySpec => []NewConnectionFindsNoSignal
<1>1. IInv => NewConnectionFindsNoSignal
  BY DEF IInv, OneThread, Joins, Signal, AtRest, Alive, NewConnectionFindsNoSignal
<1> QED
  BY <1>1, Invariance, PTL

\* A communication thread that serves reads from, replies to and sends data to the
\* two sockets of one client, however the globals were passed on.
THEOREM OneClientIsServed == OrderlySpec => []ServesOneClient
<1>1. IInv => ServesOneClient
  BY DEF IInv, OneThread, Sockets, Works, ServesOneClient
<1> QED
  BY <1>1, Invariance, PTL

\* With no thread left and main in accept, every descriptor of an earlier
\* connection has been closed.
THEOREM DescriptorsAreClosed == OrderlySpec => []NoDescriptorLeft
<1>1. IInv => NoDescriptorLeft
  BY DEF IInv, Sockets, AtRest, Works, Alive, NoDescriptorLeft
<1> QED
  BY <1>1, Invariance, PTL
=============================================================================
