---------------------------- MODULE ClientSession ----------------------------
(***************************************************************************)
(* A Julia client (RedPitayaDAQServer.jl, Sequence.jl) and the             *)
(* communication thread at the two ends of a command socket and a data     *)
(* socket.  Commands and replies are lines of the command socket; nothing  *)
(* but their order says which reply belongs to which command.  The tables  *)
(* of a sequence go over the data socket; nothing but their length says    *)
(* which bytes belong to which upload.                                     *)
(*                                                                         *)
(* The client makes one call at a time: a query, a batch of commands, or   *)
(* the upload of a sequence.  A call is the list of the steps it has left. *)
(* A query and a batch wait for a reply until a timer closes their channel;*)
(* an upload waits for ever.  The server handles one line at a time; in    *)
(* the handler of an upload it blocks until it has read the table.         *)
(*                                                                         *)
(* A line arrives at once, or in two parts with time between them: when    *)
(* the thread finds its socket empty it calls SCPI_Input without data,     *)
(* which makes the parser take what it has as a command.                   *)
(*                                                                         *)
(* Abstracted: the text of commands and replies, table values (a unit of   *)
(* data is known by the sequence, the table and the place it is written    *)
(* for), and the sequence engine, of which isSequenceConfigurable is left  *)
(* as the mode (see SlowDAC).                                              *)
(***************************************************************************)
EXTENDS Naturals, Sequences, SequencesExt

CONSTANTS
    Uploads,     \* sequences a client uploads: [name, chans, tables]
    Queries,     \* commands a client sends one by one
    Batches,     \* batches of commands a client executes
    Order,       \* the tables in the order in which sequence! uploads them
    Units,       \* units of data per channel in each table
    MaxLines,    \* bound: commands without a pause on the command socket
    MaxData,     \* bound: units that wait on the data socket
    MaxFaults    \* bound: timeouts, pauses within a line, lost connections

Tables == {Order[i] : i \in DOMAIN Order}
Modes  == {"CONFIGURATION", "ACQUISITION"}

ASSUME TablesHaveSizes == Units \in [Tables -> Nat \ {0}]

ASSUME UploadsAreSequences ==
    \A s \in Uploads : s.chans \in Nat \ {0} /\ s.tables \subseteq Tables

VARIABLES
    \* the client
    todo,       \* the steps its call has left
    asked,      \* the sequence its call uploads
    ok,         \* result of sequence!: no upload of it was refused so far
    awaiting,   \* history: the lines whose replies the call waits for
    sent,       \* history: lines since the command socket was last silent
    \* the two sockets
    connected,  \* the client is at the other end of both
    wire,       \* lines to the server
    data,       \* units of data to the server
    replies,    \* lines to the client
    \* the server
    buf,        \* left in the parser's buffer by the last connection: the
                \* first part of a line
    reading,    \* the upload whose handler reads the data socket
    mode,       \* serverMode
    chans,      \* numSlowDACChan
    conf,       \* configSeq
    active,     \* the tables of activeSequence
    \* history, of this connection
    late,       \* a call ran into its timeout
    cut,        \* a part of a line was taken for a command
    left,       \* an upload was refused, or broken off by the last client
    faults      \* of the behaviour, up to MaxFaults

client  == <<todo, asked, ok, awaiting, sent>>
tables  == <<mode, chans, conf, active>>
flags   == <<late, cut, left, faults>>
vars    == <<client, connected, wire, data, replies, buf, reading, tables, flags>>

NoSeq    == [name |-> "none", chans |-> 0, tables |-> {}]
NoTables == [t \in Tables |-> <<>>]
NoConf   == [made |-> FALSE, tables |-> NoTables]

\* a command line: what it asks for, with its parameter (the number of units
\* its sender will write, for an upload), and the number of the line
Command(op, n) == [op |-> op, n |-> n]
Line(cmd, id)  == [op |-> cmd.op, n |-> cmd.n, id |-> id, part |-> "whole"]
NoLine         == Line(Command("none", 0), 0)

\* rows of a table: the resync table is for the two fast channels
Width(t, c) == IF t = "resync" /\ c > 2 THEN 2 ELSE c

DataOf(s, t) ==
    [i \in 1..(Width(t, s.chans) * Units[t]) |-> [of |-> s.name, table |-> t, at |-> i]]

Zeros(n) == [i \in 1..n |-> [of |-> "none", table |-> "none", at |-> 0]]

\* a sequence as sequence! means it
Meant(s) == [t \in Tables |-> IF t \in s.tables THEN DataOf(s, t) ELSE <<>>]

Clean == ~late /\ ~cut

Fault == faults < MaxFaults /\ faults' = faults + 1

-----------------------------------------------------------------------------
Init ==
    /\ todo = <<>> /\ asked = NoSeq /\ ok = TRUE /\ awaiting = <<>> /\ sent = 0
    /\ connected = TRUE
    /\ wire = <<>> /\ data = <<>> /\ replies = <<>>
    /\ buf = NoLine /\ reading = NoLine
    /\ mode = "CONFIGURATION" /\ chans = 0
    /\ conf = NoConf /\ active = NoTables
    /\ late = FALSE /\ cut = FALSE /\ left = FALSE /\ faults = 0

-----------------------------------------------------------------------------
(* The calls of the client, as steps: write a line, write data, wait for a *)
(* reply with or without a timeout.                                        *)

Send(cmd)    == [do |-> "send", cmd |-> cmd]
Data(t)      == [do |-> "data", table |-> t]
Reply(timed) == [do |-> "reply", timed |-> timed]

\* query
Query(cmd) == <<Send(cmd), Reply(TRUE)>>

\* execute!: every line first, then every reply
Execute(batch) ==
    [i \in DOMAIN batch |-> Send(batch[i])] \o [i \in DOMAIN batch |-> Reply(TRUE)]

\* mutant: waits for the reply before it writes the data
TransmitLUTReplyFirst(s, t) ==
    <<Send(Command(t, Len(DataOf(s, t)))), Reply(FALSE), Data(t)>>

\* transmitLUT!, enableLUT!, resyncLUT!
TransmitLUT(s, t) ==
    <<Send(Command(t, Len(DataOf(s, t)))), Data(t), Reply(FALSE)>>

\* sequence!: the tables the sequence has, then SET
Upload(s) ==
    LET used == SelectSeq(Order, LAMBDA t : t \in s.tables)
    IN  FlattenSeq([i \in DOMAIN used |-> TransmitLUT(s, used[i])])
          \o Query(Command("set", 0))

\* nothing is under way on the command socket
Silent == wire = <<>> /\ replies = <<>> /\ buf = NoLine /\ reading = NoLine

Start(steps, s) ==
    /\ connected /\ todo = <<>>
    /\ todo' = steps /\ asked' = s /\ ok' = TRUE /\ awaiting' = <<>>
    /\ sent' = IF Silent THEN 0 ELSE sent
    /\ sent' + Len(SelectSeq(steps, LAMBDA x : x.do = "send")) <= MaxLines
    /\ UNCHANGED <<connected, wire, data, replies, buf, reading, tables, flags>>

StartCall ==
    \/ \E cmd \in Queries : Start(Query(cmd), NoSeq)
    \/ \E b \in Batches : Start(Execute(b), NoSeq)
    \/ \E s \in Uploads : Start(Upload(s), s)

Doing(do) == connected /\ todo # <<>> /\ Head(todo).do = do

\* send
SendLine ==
    /\ Doing("send")
    /\ wire' = Append(wire, Line(Head(todo).cmd, sent + 1))
    /\ awaiting' = Append(awaiting, sent + 1)
    /\ sent' = sent + 1
    /\ todo' = Tail(todo)
    /\ UNCHANGED <<asked, ok, connected, data, replies, buf, reading, tables, flags>>

\* write of a table to the data socket, whatever the server makes of it
WriteData ==
    /\ Doing("data")
    /\ LET units == DataOf(asked, Head(todo).table)
       IN  /\ Len(data) + Len(units) <= MaxData
           /\ data' = data \o units
    /\ todo' = Tail(todo)
    /\ UNCHANGED <<asked, ok, awaiting, sent, connected, wire, replies, buf, reading,
                   tables, flags>>

\* the caller has the result, or the exception
Returned == asked' = NoSeq /\ ok' = TRUE /\ awaiting' = <<>>

\* receive: the next line is the reply
TakeReply ==
    /\ Doing("reply") /\ replies # <<>>
    /\ replies' = Tail(replies)
    /\ todo' = Tail(todo)
    /\ IF Tail(todo) = <<>>
       THEN Returned
       ELSE /\ ok' = (ok /\ Head(replies).ok)
            /\ awaiting' = Tail(awaiting)
            /\ UNCHANGED asked
    /\ UNCHANGED <<sent, connected, wire, data, buf, reading, tables, flags>>

\* receive with a timeout: the timer closes the channel and the call throws.
\* The reading task is ended before the next call, but may be woken by a line
\* in between, which it then takes with it
Timeout ==
    /\ Doing("reply") /\ Head(todo).timed
    /\ replies' \in {replies} \cup (IF replies = <<>> THEN {} ELSE {Tail(replies)})
    /\ todo' = <<>> /\ Returned
    /\ late' = TRUE
    /\ UNCHANGED <<sent, connected, wire, data, buf, reading, tables, cut, left>>
    /\ Fault

-----------------------------------------------------------------------------
(* The handlers.                                                           *)

Answer(line, result) ==
    replies' = IF connected THEN Append(replies, [id |-> line.id, ok |-> result])
               ELSE replies

Configurable == mode = "CONFIGURATION"
Ready(c)     == [c EXCEPT !.made = TRUE]
Need(line)   == Width(line.op, chans) * Units[line.op]

\* mutant: the mode that is set already is not answered
RP_SetServerModeSilent(line) ==
    /\ line.op \in Modes
    /\ mode' = line.op
    /\ IF mode = line.op THEN UNCHANGED replies ELSE Answer(line, TRUE)
    /\ UNCHANGED <<chans, conf, active, reading, left>>

RP_SetServerMode(line) ==
    /\ line.op \in Modes
    /\ mode' = line.op
    /\ Answer(line, TRUE)
    /\ UNCHANGED <<chans, conf, active, reading, left>>

\* mutant: goes on after it has refused
RP_DAC_SetNumSlowDACChanGoesOn(line) ==
    /\ line.op = "chans"
    /\ chans' = line.n /\ conf' = Ready(conf)
    /\ replies' = (IF Configurable THEN replies
                   ELSE Append(replies, [id |-> line.id, ok |-> FALSE]))
                     \o <<[id |-> line.id, ok |-> TRUE]>>
    /\ UNCHANGED <<mode, active, reading, left>>

RP_DAC_SetNumSlowDACChan(line) ==
    /\ line.op = "chans"
    /\ IF Configurable
       THEN chans' = line.n /\ conf' = Ready(conf)
       ELSE UNCHANGED <<chans, conf>>
    /\ Answer(line, Configurable)
    /\ UNCHANGED <<mode, active, reading, left>>

\* the guards of the upload handlers
Accepts(t) ==
    /\ Configurable /\ chans > 0
    /\ t \in {"enable", "resync"} => conf.tables["value"] # <<>>

\* what the handler frees first: an enable table goes with its value table
Replaces(t) == IF t = "value" THEN {"value", "enable"} ELSE {t}

\* RP_DAC_SetValueLUT and its four siblings, up to their readAll: a refused
\* upload is answered without reading its data
RP_DAC_SetLUT(line) ==
    /\ line.op \in Tables
    /\ IF Accepts(line.op)
       THEN /\ reading' = line
            /\ conf' = [made |-> TRUE,
                        tables |-> [t \in Tables |-> IF t \in Replaces(line.op)
                                                     THEN <<>> ELSE conf.tables[t]]]
            /\ UNCHANGED <<replies, left>>
       ELSE /\ Answer(line, FALSE)
            /\ conf' = Ready(conf)
            /\ left' = TRUE
            /\ UNCHANGED reading
    /\ UNCHANGED <<mode, chans, active>>

\* mutant: the sequence that was set is kept for the next one
RP_DAC_SetSequenceKeeps(line) ==
    /\ line.op = "set"
    /\ active' = IF Configurable /\ conf.made THEN conf.tables ELSE active
    /\ UNCHANGED conf
    /\ Answer(line, Configurable)
    /\ UNCHANGED <<mode, chans, reading, left>>

RP_DAC_SetSequence(line) ==
    /\ line.op = "set"
    /\ IF Configurable /\ conf.made
       THEN active' = conf.tables /\ conf' = NoConf
       ELSE UNCHANGED <<active, conf>>
    /\ Answer(line, Configurable)
    /\ UNCHANGED <<mode, chans, reading, left>>

Handle(line) ==
    \/ RP_SetServerMode(line) \/ RP_DAC_SetNumSlowDACChan(line)
    \/ RP_DAC_SetLUT(line) \/ RP_DAC_SetSequence(line)

\* readAll has the table
ReadTable ==
    /\ reading # NoLine /\ Len(data) >= Need(reading)
    /\ conf' = [conf EXCEPT !.tables[reading.op] = SubSeq(data, 1, Need(reading))]
    /\ data' = SubSeq(data, Need(reading) + 1, Len(data))
    /\ Answer(reading, TRUE)
    /\ reading' = NoLine
    /\ UNCHANGED <<client, connected, wire, buf, mode, chans, active, flags>>

\* mutant: reads on at the end of the socket
ReadEndRetries ==
    /\ reading # NoLine /\ ~connected /\ Len(data) < Need(reading)
    /\ UNCHANGED vars

\* readAll meets the end of the data socket: what is missing stays zero, and
\* the handler takes the table for whole
ReadEnd ==
    /\ reading # NoLine /\ ~connected /\ Len(data) < Need(reading)
    /\ conf' = [conf EXCEPT !.tables[reading.op] =
                                data \o Zeros(Need(reading) - Len(data))]
    /\ data' = <<>>
    /\ reading' = NoLine
    /\ UNCHANGED <<client, connected, wire, replies, buf, mode, chans, active, flags>>

-----------------------------------------------------------------------------
(* communicationThread: the command socket.  Between two handlers.         *)

Between == reading = NoLine
Arrives(part) == Between /\ wire # <<>> /\ Head(wire).part = part

ReceiveLine ==
    /\ Arrives("whole") /\ buf = NoLine
    /\ Handle(Head(wire))
    /\ wire' = Tail(wire)
    /\ UNCHANGED <<client, connected, data, buf, late, cut, faults>>

\* SCPI_Input(NULL, 0) takes the first part of a line for a command.  It is
\* none, or one without its parameters, or, but for a number cut short, the
\* command itself
TakeFirstPart(line) ==
    \/ UNCHANGED <<replies, reading, tables, left>>
    \/ /\ Answer(line, FALSE)
       /\ conf' = IF line.op \in Tables THEN Ready(conf) ELSE conf
       /\ UNCHANGED <<reading, mode, chans, active, left>>
    \/ Handle(line)

\* recv would block after the first part of a line
Pause ==
    /\ Arrives("whole") /\ buf = NoLine
    /\ TakeFirstPart(Head(wire))
    /\ wire' = [wire EXCEPT ![1].part = "rest"]
    /\ cut' = TRUE
    /\ Fault
    /\ UNCHANGED <<client, connected, data, buf, late>>

\* the second part without the first is no command
ReceiveRest ==
    /\ Arrives("rest")
    /\ wire' = Tail(wire)
    /\ UNCHANGED <<client, connected, data, replies, buf, reading, tables, flags>>

\* The parser is not reset for a new connection.  With the first part of a line
\* of the old one in its buffer, the first line of the new one is no command if
\* it is there at once ...
ReceiveJoined ==
    /\ Arrives("whole") /\ buf # NoLine
    /\ wire' = Tail(wire) /\ buf' = NoLine
    /\ UNCHANGED <<client, connected, data, replies, reading, tables, flags>>

\* ... and else the first part is, and is answered to the new client
TakeLeftOver ==
    /\ Between /\ buf # NoLine
    /\ TakeFirstPart(buf)
    /\ buf' = NoLine
    /\ UNCHANGED <<client, connected, wire, data, late, cut, faults>>

-----------------------------------------------------------------------------
(* Connections.                                                            *)

\* disconnect, or the end of the client's process, at any point of a call
HangUp ==
    /\ connected /\ connected' = FALSE
    /\ todo' = <<>> /\ Returned
    /\ replies' = <<>>
    /\ Fault
    /\ UNCHANGED <<sent, wire, data, buf, reading, tables, late, cut, left>>

\* connect, and main in daq_server_scpi.c: it joins the thread, which leaves
\* its loop between two handlers but perhaps within a line, as it takes 32
\* bytes at a time; the parser and the sequence are kept
Accept ==
    /\ ~connected /\ Between
    /\ connected' = TRUE
    /\ buf' \in {buf} \cup {wire[i] : i \in {j \in DOMAIN wire : j = 1 /\ wire[j].part = "whole"}}
    /\ wire' = <<>> /\ data' = <<>> /\ sent' = 0
    /\ late' = FALSE
    /\ cut' = (buf' # NoLine)
    /\ left' = (conf.tables # NoTables)
    /\ UNCHANGED <<todo, asked, ok, awaiting, replies, reading, tables, faults>>

Client == SendLine \/ WriteData \/ TakeReply
Server == ReceiveLine \/ ReceiveRest \/ ReceiveJoined \/ ReadTable \/ ReadEnd

Next ==
    \/ StartCall \/ Client \/ Timeout
    \/ Server \/ Pause \/ TakeLeftOver
    \/ HangUp \/ Accept

\* The client's task and the thread run when they can, and a client that dials
\* is accepted; nobody has to call, to time out or to hang up.
Fairness == WF_vars(Client) /\ WF_vars(Server) /\ WF_vars(Accept)

Spec == Init /\ [][Next]_vars

\* A careful client does not upload over what an earlier upload left behind: it
\* reconnects after a refused one.  And it uploads only a sequence as wide as the
\* channels that are set: sequence! sends its rows, but not their number.
CarefulClient ==
    (asked' # asked /\ asked' # NoSeq) => ~left /\ asked'.chans = chans

CarefulSpec == Init /\ [][Next /\ CarefulClient]_vars /\ Fairness

-----------------------------------------------------------------------------
(* Properties.                                                             *)

\* A call that takes a reply takes the one to its own command, as long as no
\* call of the connection ran into its timeout and no line came in parts with
\* a pause: also in a batch and over an upload, whose handler reads the other
\* socket in between.
RepliesMatch ==
    [][(TakeReply /\ ~late /\ ~cut) => Head(replies).id = Head(awaiting)]_vars

\* After a timeout a call may take the late reply to an earlier command for
\* its own (receive leaves it on the socket), but never that to a later one.
LateRepliesAreOlder ==
    [][(TakeReply /\ ~cut) => Head(replies).id <= Head(awaiting)]_vars

\* docstring of sequence!: "Transmit the client-side representation `seq` to
\* the server ... Return `true` if the required commands were successful."
\* When it returns true, the server's active sequence has the tables of seq
\* and no others, whole and in their places: for a careful client, and as long as
\* there was no timeout and no pause within a line.
UploadIsMeant ==
    [][(TakeReply /\ asked # NoSeq /\ Tail(todo) = <<>> /\ ok /\ Head(replies).ok
          /\ Clean) => active' = Meant(asked)]_vars

\* A call returns, also one without a timeout that waits for the reply of a
\* handler that waits for its data: for a careful client, and as long as there
\* was no timeout and no pause within a line.
CallsReturn == (todo # <<>> /\ Clean) ~> (todo = <<>> \/ ~Clean)

\* A client that left, wherever it was in a call, makes room for the next one:
\* the thread does not stay in the handler of an upload.
LeftIsReplaced == ~connected ~> connected
=============================================================================
