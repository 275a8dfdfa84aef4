------------------------------- MODULE EthSrv -------------------------------
(***************************************************************************)
(* eth_srv_loop(): one thread serves the clients of PORT one after the     *)
(* other, each until it disconnects. A command is read with one recv() and *)
(* answered with one blocking send(), with several, or not at all; the     *)
(* pages and shifts of the last acquisition stay in buffers from command   *)
(* to command and from client to client.                                   *)
(*                                                                         *)
(* TCP is taken to hand over whole commands, as it does for commands of at *)
(* most 128 bytes sent by one send(); it may hand over several at once.    *)
(***************************************************************************)
EXTENDS Integers, Sequences, SequencesExt

CONSTANTS
    Clients,
    NoClient,
    Pages,        \* bound: pages of an acquisition
    FileParts,    \* bound: reads of the ini file that return something
    Menu,         \* bound: the commands clients send
    Backlog,      \* connections that wait for accept()
    SockBuf,      \* answers a client's socket holds unread
    MaxRequests   \* bound: commands sent by all clients together

ASSUME ClientsAssumption == NoClient \notin Clients
ASSUME BoundsAssumption == {Pages, FileParts, Backlog, SockBuf, MaxRequests} \subseteq Nat \ {0}

VARIABLES
    conn,      \* per client: out, waiting, served, closed
    backlog,   \* connections accept() has not taken, in order
    stream,    \* per client: commands sent and not received
    reset,     \* per client: recv() will report an error once
    pc,        \* the server's next system call
    cur,       \* client at the other end of ns
    out,       \* answer, or rest of one, the server is to send
    tmasFast,  \* per block: acquisition it is of, conversions made on it
    shift,     \* per page: acquisition its shift is of, 0 before the first
    acq,       \* acquisitions made
    strides,   \* history: strides of the commands that acquired pages
    own,       \* history: per page, the last acquisition of it by this connection
    since,     \* history: the last acquisition before this connection
    asked,     \* per client: how many commands it sent
    got,       \* per client: commands whose whole answers its socket received
    unread,    \* per client: answers it has not taken off its socket
    patient,   \* history: clients that never sent a command before the last answer
    sure       \* history: of these, those whose last command has an answer in any case

conns  == <<conn, backlog, stream, reset>>
board  == <<tmasFast, shift, acq, strides, own, since>>
user   == <<asked, got, unread, patient, sure>>
vars   == <<conns, pc, cur, out, board, user>>

\* Commands: n pages are acquired, with X arrays or without (0xC, 0x13); the
\* shifts of n pages are asked for (0xF); something these do not see is asked
\* or set, and answered with n pages (0xA, 110), one value (most others), or
\* nothing (unknown numbers); or the ini file is asked for (8).
Commands ==
    [op : {"read"}, n : 0..Pages, soft : BOOLEAN, wide : BOOLEAN]
        \cup [op : {"shifts", "other"}, n : 0..Pages]
        \cup [op : {"ini_file"}]

ASSUME MenuAssumption == Menu \subseteq Commands

\* Commands that have an answer whatever the state of the server is. The ini
\* file may be missing, unreadable or empty, and none of n pages is nothing.
HasAnswer(r) == r.op \in {"read", "shifts", "other"} /\ r.n > 0

NoAnswer == [id |-> 0, op |-> "none", data |-> <<>>]

-----------------------------------------------------------------------------
(***************************************************************************)
(* Clients and TCP                                                         *)
(***************************************************************************)

Connect(c) ==
    /\ conn[c] = "out"
    /\ Len(backlog) < Backlog
    /\ conn' = [conn EXCEPT ![c] = "waiting"]
    /\ backlog' = Append(backlog, c)
    /\ UNCHANGED <<stream, reset, pc, cur, out, board, user>>

\* A command may be sent before the connection is accepted, or before the
\* answer to the last one is there.
Request(c, r) ==
    /\ conn[c] \in {"waiting", "served"}
    /\ FoldFunction(+, 0, asked) < MaxRequests
    /\ asked' = [asked EXCEPT ![c] = @ + 1]
    /\ stream' = [stream EXCEPT ![c] = Append(@, [id |-> asked[c] + 1, cmd |-> r])]
    /\ patient' = IF Len(got[c]) = asked[c] THEN patient ELSE patient \ {c}
    /\ sure' = IF c \in patient' /\ HasAnswer(r) THEN sure \cup {c} ELSE sure \ {c}
    /\ UNCHANGED <<conn, backlog, reset, pc, cur, out, board, got, unread>>

TakeAnswer(c) ==
    /\ unread[c] > 0
    /\ unread' = [unread EXCEPT ![c] = @ - 1]
    /\ UNCHANGED <<conns, pc, cur, out, board, asked, got, patient, sure>>

\* FIN behind the commands sent, or RST instead of them.
Close(c, abrupt) ==
    /\ conn[c] \in {"waiting", "served"}
    /\ conn' = [conn EXCEPT ![c] = "closed"]
    /\ reset' = [reset EXCEPT ![c] = abrupt]
    /\ stream' = [stream EXCEPT ![c] = IF abrupt THEN <<>> ELSE @]
    /\ UNCHANGED <<backlog, pc, cur, out, board, user>>

-----------------------------------------------------------------------------
(***************************************************************************)
(* The buffer tmasFast                                                     *)
(***************************************************************************)

\* tmasFast in blocks of 8192 doubles: a page has one, or two with its X array.
Blocks == 1..(2 * Pages)

Page(a, conv) == [acq |-> a, conv |-> conv]

\* A block that holds no samples: zeros at the start, an X array later.
NoPage == Page(0, 0)

\* val / 4: pages are two blocks apart when their X arrays are between them.
Stride(r) == IF r.wide THEN 2 ELSE 1

\* The block of page t.
Block(t, w) == (t - 1) * w + 1

\* libdrs: readNPages(&tmasFast[0], shift, n, ...) sets page t.
ReadNPages(n, t) == t <= n

\* onceGet() and its one page, or readNPages()
Acquired(r, t) == IF r.soft THEN t = 1 ELSE ReadNPages(r.n, t)

\* Variant: the room for X arrays is left out.
ReadStrideNarrow(w) == 1

\* The distance of pages that readNPages() is given.
ReadStride(w) == w

\* The blocks after the acquisition...
Filled(r) ==
    [b \in Blocks |->
        IF \E t \in 1..Pages : Acquired(r, t) /\ b = Block(t, ReadStride(Stride(r)))
        THEN Page(acq + 1, 0) ELSE tmasFast[b]]

\* ... and after doColibrateCurgr() and getXArray() have gone over n pages.
Converted(raw, n, w) ==
    [b \in Blocks |->
        IF \E t \in 1..n : b = Block(t, w) THEN Page(raw[b].acq, raw[b].conv + 1)
        ELSE IF w = 2 /\ \E t \in 1..n : b = Block(t, w) + 1 THEN NoPage
        ELSE raw[b]]

-----------------------------------------------------------------------------
(***************************************************************************)
(* The command handlers                                                    *)
(***************************************************************************)

\* send() of no bytes sends nothing.
Answer(id, op, data) ==
    IF data = <<>> THEN pc' = "recv" /\ UNCHANGED out
    ELSE pc' = "send" /\ out' = [id |-> id, op |-> op, data |-> data]

\* n pieces of data that no property looks at
Opaque(n) == [i \in 1..n |-> 0]

\* Variant: shift is sent from its second element on.
KeptShiftsNext(n) == [t \in 1..n |-> shift[(t % Pages) + 1]]

\* The shifts send() is given.
KeptShifts(n) == [t \in 1..n |-> shift[t]]

\* Commands 0xC and 0x13: acquire, then convert r.n pages in place.
Read(id, r) ==
    /\ r.op = "read"
    /\ LET done == Converted(Filled(r), r.n, Stride(r))
       IN  /\ tmasFast' = done
           /\ Answer(id, "read", [t \in 1..r.n |-> done[Block(t, Stride(r))]])
    /\ shift' = [t \in 1..Pages |-> IF Acquired(r, t) THEN acq + 1 ELSE shift[t]]
    /\ acq' = acq + 1
    /\ own' = [t \in 1..Pages |-> IF Acquired(r, t) THEN acq + 1 ELSE own[t]]
    /\ strides' = strides \cup {Stride(r)}
    /\ UNCHANGED since

\* Command 0xF
Shifts(id, r) ==
    /\ r.op = "shifts"
    /\ Answer(id, "shifts", KeptShifts(r.n))
    /\ UNCHANGED board

\* Commands 1 to 4, 6, 7, 9, 0xB, 0xD, 0xE, 0x10, 0x12, 103 and 104: a value;
\* 0xA and 110: n pages; default: nothing.
Other(id, r) ==
    /\ r.op = "other"
    /\ Answer(id, "other", Opaque(r.n))
    /\ UNCHANGED board

\* Command 8: open() or the first read() fails, or what is read is sent part by
\* part until the file ends or a read() fails.
SendIniFile(id, r) ==
    /\ r.op = "ini_file"
    /\ \E parts \in 0..FileParts : Answer(id, "ini_file", Opaque(parts))
    /\ UNCHANGED board

\* switch(cmd_data[0])
Handle(m) ==
    \/ Read(m.id, m.cmd)
    \/ Shifts(m.id, m.cmd)
    \/ Other(m.id, m.cmd)
    \/ SendIniFile(m.id, m.cmd)

-----------------------------------------------------------------------------
(***************************************************************************)
(* The loop                                                                *)
(***************************************************************************)

TakeConnection ==
    /\ pc = "accept"
    /\ backlog # <<>>
    /\ backlog' = Tail(backlog)
    /\ conn' = [conn EXCEPT ![Head(backlog)] = IF @ = "waiting" THEN "served" ELSE @]
    /\ UNCHANGED <<stream, reset, out, board, user>>

\* Variant: disconnect is still set.
AcceptDisconnected == TakeConnection /\ UNCHANGED <<cur, pc>>

\* Variant: a connection closed while it waited is not taken.
AcceptOpen ==
    /\ TakeConnection
    /\ conn[Head(backlog)] = "waiting"
    /\ cur' = Head(backlog)
    /\ pc' = "recv"

\* accept(), also of a connection that its client closed meanwhile
Accept ==
    /\ TakeConnection
    /\ cur' = Head(backlog)
    /\ pc' = "recv"

\* Variant: the command received last is the one handled.
InBufferLast == Last(stream[cur])

\* cmd_data[0] and its arguments
InBuffer == Head(stream[cur])

\* Variant: what recv() returns stays in the socket (MSG_PEEK).
ReceivedPeek == 0..Len(stream[cur])

\* How many commands a recv() may return.
Received == 1..Len(stream[cur])

\* recv() takes what is there into buf_in, and the first command is handled.
RecvCommand ==
    /\ pc = "recv"
    /\ stream[cur] # <<>>
    /\ Handle(InBuffer)
    /\ \E k \in Received : stream' = [stream EXCEPT ![cur] = SubSeq(@, k + 1, Len(@))]
    /\ UNCHANGED <<conn, backlog, reset, cur, user>>

\* recv() returns -1: perror(), and again.
RecvError ==
    /\ pc = "recv"
    /\ reset[cur]
    /\ reset' = [reset EXCEPT ![cur] = FALSE]
    /\ UNCHANGED <<conn, backlog, stream, pc, cur, out, board, user>>

\* recv() returns 0: close(ns)
RecvEnd ==
    /\ pc = "recv"
    /\ conn[cur] = "closed" /\ ~reset[cur] /\ stream[cur] = <<>>
    /\ pc' = "accept"
    /\ cur' = NoClient
    /\ own' = [t \in 1..Pages |-> 0]
    /\ since' = acq
    /\ UNCHANGED <<conns, out, tmasFast, shift, acq, strides, user>>

\* What is left to send after this send(): parts of the ini file.
RestOfAnswer == IF out.op = "ini_file" THEN Tail(out.data) ELSE <<>>

\* send() blocks while the client's socket is full.
SendAnswer ==
    /\ pc = "send"
    /\ conn[cur] = "served"
    /\ unread[cur] < SockBuf
    /\ unread' = [unread EXCEPT ![cur] = @ + 1]
    /\ IF RestOfAnswer = <<>>
       THEN /\ got' = [got EXCEPT ![cur] = Append(@, out.id)]
            /\ pc' = "recv"
            /\ out' = NoAnswer
       ELSE /\ out' = [out EXCEPT !.data = RestOfAnswer]
            /\ UNCHANGED <<got, pc>>
    /\ UNCHANGED <<conns, cur, board, asked, patient, sure>>

\* send() fails when the client is gone, and the answer is given up.
SendFails ==
    /\ pc = "send"
    /\ conn[cur] = "closed"
    /\ pc' = "recv"
    /\ out' = NoAnswer
    /\ UNCHANGED <<conns, cur, board, user>>

Server == Accept \/ RecvCommand \/ RecvError \/ RecvEnd \/ SendAnswer \/ SendFails

-----------------------------------------------------------------------------

Init ==
    /\ conn = [c \in Clients |-> "out"]
    /\ backlog = <<>>
    /\ stream = [c \in Clients |-> <<>>]
    /\ reset = [c \in Clients |-> FALSE]
    /\ pc = "accept"
    /\ cur = NoClient
    /\ out = NoAnswer
    /\ tmasFast = [b \in Blocks |-> NoPage]
    /\ shift = [t \in 1..Pages |-> 0]
    /\ acq = 0
    /\ strides = {}
    /\ own = [t \in 1..Pages |-> 0]
    /\ since = 0
    /\ asked = [c \in Clients |-> 0]
    /\ got = [c \in Clients |-> <<>>]
    /\ unread = [c \in Clients |-> 0]
    /\ patient = Clients
    /\ sure = {}

Next ==
    \/ \E c \in Clients :
          \/ Connect(c)
          \/ \E r \in Menu : Request(c, r)
          \/ TakeAnswer(c)
          \/ \E abrupt \in BOOLEAN : Close(c, abrupt)
    \/ Server

Spec == Init /\ [][Next]_vars

\* The server's thread goes on, and a client takes its answers.
Fairness == WF_vars(Server) /\ \A c \in Clients : WF_vars(TakeAnswer(c))

FairSpec == Spec /\ Fairness

-----------------------------------------------------------------------------
(***************************************************************************)
(* Properties                                                              *)
(***************************************************************************)

\* Connections, buffers and the server's position keep their types.
TypeOK ==
    /\ conn \in [Clients -> {"out", "waiting", "served", "closed"}]
    /\ backlog \in Seq(Clients)
    /\ \A c \in Clients : \A i \in DOMAIN stream[c] : stream[c][i].cmd \in Commands
    /\ reset \in [Clients -> BOOLEAN]
    /\ pc \in {"accept", "recv", "send"}
    /\ cur \in Clients \cup {NoClient}
    /\ (pc = "accept") = (cur = NoClient)
    /\ (pc = "send") = (out # NoAnswer)
    /\ tmasFast \in [Blocks -> [acq : 0..acq, conv : Nat]]
    /\ shift \in [1..Pages -> 0..acq]
    /\ strides \subseteq {1, 2}
    /\ own \in [1..Pages -> 0..acq]
    /\ since \in 0..acq
    /\ unread \in [Clients -> 0..SockBuf]
    /\ patient \subseteq Clients
    /\ sure \subseteq Clients

\* A client that waits for each answer before its next command gets the answer
\* to every command, in their order, whoever else connects, sends ahead or
\* resets its connection.
PatientInStep ==
    \A c \in patient : \A i \in DOMAIN got[c] : got[c][i] = i

\* No answer goes to a command of another client or of an earlier place: the
\* commands answered are commands sent, in their order.
AnswersInOrder ==
    \A c \in Clients : \A i, j \in DOMAIN got[c] :
        got[c][i] \in 1..asked[c] /\ (i < j => got[c][i] < got[c][j])

\* A shift sent with 0xF is the one of this connection's last acquisition of
\* its page. A page that the connection never acquired, because it acquired
\* nothing, fewer pages, or by soft starts only, comes with a shift from before
\* the connection, which is another client's or nobody's.
ShiftsOwnOrOlder ==
    pc = "send" /\ out.op = "shifts" =>
        \A t \in DOMAIN out.data :
            IF own[t] # 0 THEN out.data[t] = own[t] ELSE out.data[t] <= since

\* As long as all clients ask for X arrays or all do without, every page of an
\* answer, also one that a soft start did not acquire, is of the acquisition
\* that its shift is of, so that 0xF tells the stale ones. And the stale ones
\* are those that were converted over again.
PagesFitShifts ==
    pc = "send" /\ out.op = "read" /\ strides # {1, 2} =>
        \A t \in DOMAIN out.data :
            /\ out.data[t].acq = shift[t]
            /\ shift[t] # 0 => (out.data[t].conv = 1 <=> shift[t] = acq)

\* A client that is served, has waited for every answer so far, and waits for
\* one that the server has in any case (the ini file may be missing, no pages
\* are no answer, and an unknown number has none) gets it, or closes.
Owed(c) == conn[c] = "served" /\ c \in patient \cap sure /\ Len(got[c]) < asked[c]

PatientAnswered == \A c \in Clients : Owed(c) ~> ~Owed(c)

\* If the server comes back to accept() again and again, every connection gets
\* its turn, those that others overtake or that were closed included.
EveryTurn ==
    \A c \in Clients : []<>(pc = "accept") => (c \in Range(backlog) ~> c \notin Range(backlog))
=============================================================================
