------------------------------ MODULE Console ------------------------------
(***************************************************************************)
(* The console: drs_server_cli (main_cli.c, dap_app_cli_net.c) sends       *)
(* commands to the unix socket of dap_cli_server.c, which has a thread     *)
(* that accepts and a thread for each connection.                          *)
(*                                                                         *)
(* A request is header lines, an empty line, the name and the arguments of *)
(* the command, a line each, and an empty line.  On the way to the server  *)
(* are contents of lines and ends of lines (EOL) by turns, where "" has no *)
(* bytes; the answer is its head with the length, the empty line, and the  *)
(* body.                                                                   *)
(***************************************************************************)
EXTENDS Naturals, Sequences, SequencesExt

CONSTANTS
    Clients,    \* runs of drs_server_cli
    Commands,   \* for each client what its user may type: name and arguments
    Known,      \* names that were given to dap_cli_server_cmd_add()
    MaxPosts    \* bound: commands typed by each user

EOL == "eol"
Empty == ""
Semicolon == "semicolon"    \* a word with ";" in it
Nothing == <<>>

\* Words of a command hold no end of a line, and a command has a name.
ASSUME CommandsAssumption ==
    \A c \in Clients : \A cmd \in Commands[c] : cmd \in Seq(Range(cmd) \ {EOL}) /\ cmd # Nothing

\* No command of the server has ";" in its name.
ASSUME KnownAssumption == Semicolon \notin Known

ASSUME MaxPostsAssumption == MaxPosts \in [Clients -> Nat]

VARIABLES
    client,     \* where a client is in dap_app_cli_post_command()
    typed,      \* the commands it was given
    status,     \* s_status of the last one
    unsent,     \* what its send() has still to write
    got,        \* cmd_res, what recv() brought of the answer
    listening,  \* connections waiting for accept(), in order
    up, down,   \* on the way to the server and back
    session,    \* where the thread of a connection is
    marker,     \* empty lines it has met
    params,     \* cmd_param_list
    executed,   \* argv of the command it executed
    reply,      \* what its send() has still to write
    alive       \* the server process runs

user == <<client, typed, status, unsent, got>>
serve == <<session, marker, params, executed, reply>>
vars == <<user, listening, up, down, serve, alive>>

\* The server's end of the connection is closed.
HungUp(c) == ~alive \/ session[c] = "closed"

Go(c, where) == client' = [client EXCEPT ![c] = where]
Turn(c, where) == session' = [session EXCEPT ![c] = where]

\* The program is gone, with its memory and what it had not received.
Gone(c) ==
    /\ Go(c, "left")
    /\ status' = [status EXCEPT ![c] = "none"]
    /\ unsent' = [unsent EXCEPT ![c] = Nothing]
    /\ got' = [got EXCEPT ![c] = Nothing]
    /\ down' = [down EXCEPT ![c] = Nothing]

\* closesocket() and the end of the thread
EndSession(c) ==
    /\ Turn(c, "closed")
    /\ up' = [up EXCEPT ![c] = Nothing]
    /\ marker' = [marker EXCEPT ![c] = 0]
    /\ params' = [params EXCEPT ![c] = Nothing]
    /\ reply' = [reply EXCEPT ![c] = Nothing]

-----------------------------------------------------------------------------
(***************************************************************************)
(* drs_server_cli                                                          *)
(***************************************************************************)

\* Arguments with ";" or line ends go as base64.
Encoded(word) == IF word = Semicolon THEN "base64" ELSE word

Words(cmd) == [i \in DOMAIN cmd |-> IF i = 1 THEN cmd[1] ELSE Encoded(cmd[i])]

Lines(cmd) == <<"POST", Empty>> \o Words(cmd) \o <<Empty>>

Request(cmd) ==
    [i \in 1..(2 * Len(Lines(cmd))) |-> IF i % 2 = 0 THEN EOL ELSE Lines(cmd)[(i + 1) \div 2]]

\* dap_app_cli_connect()
Connect(c) ==
    /\ client[c] = "out"
    /\ alive
    /\ Go(c, "prompt")
    /\ listening' = Append(listening, c)
    /\ UNCHANGED <<typed, status, unsent, got, up, down, serve, alive>>

\* A command comes from the command line, the only one then, or from the
\* shell's prompt, where split_word() finds no empty words.
Type(c, cmd) ==
    /\ client[c] = "prompt"
    /\ Len(typed[c]) < MaxPosts[c]
    /\ typed[c] # Nothing => ~Contains(cmd, Empty) /\ ~Contains(typed[c][1], Empty)
    /\ typed' = [typed EXCEPT ![c] = Append(@, cmd)]
    /\ unsent' = [unsent EXCEPT ![c] = Request(cmd)]
    /\ status' = [status EXCEPT ![c] = "none"]
    /\ got' = [got EXCEPT ![c] = Nothing]
    /\ Go(c, "send")
    /\ UNCHANGED <<listening, up, down, serve, alive>>

\* send(), in pieces, none of which ends with the contents of an empty line;
\* SIGPIPE ends a client whose server has hung up.
Send(c) ==
    /\ client[c] = "send"
    /\ IF HungUp(c)
       THEN Gone(c) /\ UNCHANGED up
       ELSE \E n \in 1..Len(unsent[c]) :
                /\ unsent[c][n] # Empty
                /\ up' = [up EXCEPT ![c] = @ \o SubSeq(unsent[c], 1, n)]
                /\ unsent' = [unsent EXCEPT ![c] = SubSeq(@, n + 1, Len(@))]
                /\ IF n = Len(unsent[c]) THEN Go(c, "head") ELSE UNCHANGED client
                /\ UNCHANGED <<status, got, down>>
    /\ UNCHANGED <<typed, listening, serve, alive>>

\* The client is stopped in the middle of send(), and goes on.
Stall(c) ==
    /\ client[c] = "send"
    /\ Go(c, "stalled")
    /\ UNCHANGED <<typed, status, unsent, got, listening, up, down, serve, alive>>

Resume(c) ==
    /\ client[c] = "stalled"
    /\ Go(c, "send")
    /\ UNCHANGED <<typed, status, unsent, got, listening, up, down, serve, alive>>

\* dap_app_cli_post_command() returns; what it read in time is lost when it
\* took longer than DAP_CLI_HTTP_TIMEOUT.
Result(c, result) ==
    /\ Go(c, "prompt")
    /\ status' = [status EXCEPT ![c] = result] \/ status' = [status EXCEPT ![c] = "timeout"]

\* recv() of up to n parts of the answer
Receive(c, n) ==
    /\ got' = [got EXCEPT ![c] = @ \o SubSeq(down[c], 1, n)]
    /\ down' = [down EXCEPT ![c] = SubSeq(@, n + 1, Len(@))]

\* dap_app_cli_http_read() until the empty line behind the head was there
ReadHead(c) ==
    /\ client[c] = "head"
    /\ \/ \E n \in 1..Len(down[c]) :
            /\ Receive(c, n)
            /\ IF {<<"length">>, <<"blank">>} \subseteq Range(got'[c])
               THEN Go(c, "body") /\ UNCHANGED status
               ELSE UNCHANGED <<client, status>> \/ Result(c, "timeout")
       \/ /\ down[c] = Nothing /\ HungUp(c)
          /\ Result(c, "incomplete") \/ Result(c, "socket")
          /\ UNCHANGED <<got, down>>
    /\ UNCHANGED <<typed, unsent, listening, up, serve, alive>>

\* Variant: that recv() ends is enough.
CompleteAnyway(answer) == TRUE

\* cmd_res_cur == cmd_res_len
Complete(answer) == Len(answer) = 3

\* The loop that reads the rest of the body, and what follows it
ReadBody(c) ==
    /\ client[c] = "body"
    /\ \/ \E n \in 1..Len(down[c]) :
            Receive(c, n) /\ UNCHANGED <<client, status>>
       \/ /\ Len(got[c]) = 3 \/ (down[c] = Nothing /\ HungUp(c))
          /\ Result(c, IF Complete(got[c]) THEN "ok" ELSE "format")
          /\ UNCHANGED <<got, down>>
    /\ UNCHANGED <<typed, unsent, listening, up, serve, alive>>

\* The program ends, or is killed wherever it is.
Leave(c) ==
    /\ client[c] \notin {"out", "left"}
    /\ Gone(c)
    /\ UNCHANGED <<typed, listening, up, serve, alive>>

-----------------------------------------------------------------------------
(***************************************************************************)
(* s_thread_main_func(), s_thread_one_client_func()                        *)
(***************************************************************************)

\* Variant: clients are served by the accepting thread, one by one.
AcceptOneByOne ==
    /\ alive
    /\ listening # <<>>
    /\ \A c \in Clients : session[c] \in {"none", "closed"}
    /\ session' = [session EXCEPT ![Head(listening)] = "poll"]
    /\ listening' = Tail(listening)
    /\ UNCHANGED <<user, up, down, marker, params, executed, reply, alive>>

\* accept() and a thread for the connection
Accept ==
    /\ alive
    /\ listening # <<>>
    /\ session' = [session EXCEPT ![Head(listening)] = "poll"]
    /\ listening' = Tail(listening)
    /\ UNCHANGED <<user, up, down, marker, params, executed, reply, alive>>

\* Variant: poll() without POLLIN is taken for a timeout.
PollSocketData(c) ==
    /\ alive
    /\ session[c] = "poll"
    /\ up[c] # Nothing
    /\ IF client[c] = "left"
       THEN EndSession(c)
       ELSE Turn(c, "line") /\ UNCHANGED <<up, marker, params, reply>>
    /\ UNCHANGED <<user, listening, down, executed, alive>>

\* is_valid_socket(): poll() reports POLLHUP once the client has closed.
IsValidSocket(c) == client[c] # "left"

\* s_poll(): a client that has hung up is not served, whatever it has sent; one
\* that sends nothing is waited for.
PollSocket(c) ==
    /\ alive
    /\ session[c] = "poll"
    /\ \/ ~IsValidSocket(c) /\ EndSession(c)
       \/ /\ IsValidSocket(c) /\ up[c] # Nothing
          /\ Turn(c, "line")
          /\ UNCHANGED <<up, marker, params, reply>>
    /\ UNCHANGED <<user, listening, down, executed, alive>>

\* Variant: the command is looked for behind the third empty line.
EndOfCommandLate == 3

EndOfCommand == 2

\* s_get_next_str(), and what is done with the line
ReadLine(c) ==
    LET empty == up[c][1] \in {Empty, EOL}
    IN  /\ alive
        /\ session[c] = "line"
        /\ \E end \in DOMAIN up[c] :
              /\ up[c][end] = EOL
              /\ \A i \in 1..(end - 1) : up[c][i] # EOL
              /\ up' = [up EXCEPT ![c] = SubSeq(@, end + 1, Len(@))]
        /\ marker' = [marker EXCEPT ![c] = IF empty THEN @ + 1 ELSE @]
        /\ params' = [params EXCEPT ![c] = IF ~empty /\ marker[c] = 1 THEN Append(@, up[c][1]) ELSE @]
        /\ Turn(c, IF marker'[c] = EndOfCommand /\ params'[c] # Nothing THEN "execute" ELSE "poll")
        /\ UNCHANGED <<user, listening, down, executed, reply, alive>>

\* Variant: a line that does not come to its end is dropped.
BrokenLineDropped(c) ==
    /\ alive
    /\ session[c] = "line"
    /\ ~Contains(up[c], EOL)
    /\ client[c] \in {"left", "stalled"}
    /\ Turn(c, "poll")
    /\ up' = [up EXCEPT ![c] = Nothing]
    /\ UNCHANGED <<user, listening, down, marker, params, executed, reply, alive>>

\* The client hangs up in the middle of a line, or stops for five seconds.
BrokenLine(c) ==
    /\ alive
    /\ session[c] = "line"
    /\ ~Contains(up[c], EOL)
    /\ client[c] \in {"left", "stalled"}
    /\ EndSession(c)
    /\ UNCHANGED <<user, listening, down, executed, alive>>

\* dap_strsplit() at ";" of the parameters joined with ";": those without one
\* come back as they were.
Argv(list) ==
    IF Contains(list, Semicolon)
    THEN FlattenSeq([i \in DOMAIN list |-> IF list[i] = Semicolon THEN <<"a", "b">> ELSE <<list[i]>>])
    ELSE list

\* HTTP head and body; a command that was not found has its answer, too.  The
\* status line is in the first part: one send() begins with it and the length.
Reply(argv) == <<<<"length">>, <<"blank">>, <<"body">> \o argv>>

\* dap_cli_server_cmd_find() and the call
Execute(c) ==
    /\ alive
    /\ session[c] = "execute"
    /\ executed' = [executed EXCEPT ![c] = IF params[c][1] \in Known THEN Argv(params[c]) ELSE Nothing]
    /\ reply' = [reply EXCEPT ![c] = Reply(executed'[c])]
    /\ Turn(c, "reply")
    /\ UNCHANGED <<user, listening, up, down, marker, params, alive>>

\* A send() of the reply.  Without MSG_NOSIGNAL it ends the process when the
\* client has hung up.
SendReply(c) ==
    /\ alive
    /\ session[c] = "reply"
    /\ IF client[c] = "left"
       THEN alive' = FALSE /\ UNCHANGED <<down, reply, session>>
       ELSE \E n \in 1..Len(reply[c]) :
                /\ down' = [down EXCEPT ![c] = @ \o SubSeq(reply[c], 1, n)]
                /\ reply' = [reply EXCEPT ![c] = SubSeq(@, n + 1, Len(@))]
                /\ IF n = Len(reply[c]) THEN Turn(c, "close") ELSE UNCHANGED session
                /\ UNCHANGED alive
    /\ UNCHANGED <<user, listening, up, marker, params, executed>>

\* One command for each connection
CloseSocket(c) ==
    /\ alive
    /\ session[c] = "close"
    /\ EndSession(c)
    /\ UNCHANGED <<user, listening, down, executed, alive>>

-----------------------------------------------------------------------------

Init ==
    /\ client = [c \in Clients |-> "out"]
    /\ typed = [c \in Clients |-> Nothing]
    /\ status = [c \in Clients |-> "none"]
    /\ unsent = [c \in Clients |-> Nothing]
    /\ got = [c \in Clients |-> Nothing]
    /\ listening = <<>>
    /\ up = [c \in Clients |-> Nothing]
    /\ down = [c \in Clients |-> Nothing]
    /\ session = [c \in Clients |-> "none"]
    /\ marker = [c \in Clients |-> 0]
    /\ params = [c \in Clients |-> Nothing]
    /\ executed = [c \in Clients |-> Nothing]
    /\ reply = [c \in Clients |-> Nothing]
    /\ alive = TRUE

UserStep(c) == Send(c) \/ ReadHead(c) \/ ReadBody(c)

SessionStep(c) ==
    \/ PollSocket(c) \/ ReadLine(c) \/ BrokenLine(c) \/ Execute(c)
    \/ SendReply(c) \/ CloseSocket(c)

Next ==
    \/ \E c \in Clients :
          \/ Connect(c) \/ Leave(c) \/ Stall(c) \/ Resume(c)
          \/ \E cmd \in Commands[c] : Type(c, cmd)
          \/ UserStep(c) \/ SessionStep(c)
    \/ Accept

Spec == Init /\ [][Next]_vars

\* The kernel runs both programs; users owe nothing, and a client that was
\* stopped may stay so.
Fairness ==
    /\ WF_vars(Accept)
    /\ \A c \in Clients : WF_vars(UserStep(c)) /\ WF_vars(SessionStep(c))

FairSpec == Spec /\ Fairness

-----------------------------------------------------------------------------
(***************************************************************************)
(* Properties                                                              *)
(***************************************************************************)

\* What lines and answers are made of
Text ==
    {Empty, "POST", "base64", EOL, "length", "blank", "body"}
        \cup UNION {Range(cmd) : cmd \in UNION {Commands[c] : c \in Clients}}

\* Places in the two programs, and what is on the way between them
TypeOK ==
    /\ client \in [Clients -> {"out", "prompt", "send", "stalled", "head", "body", "left"}]
    /\ typed \in [Clients -> Seq(Seq(Text))]
    /\ status \in [Clients -> {"none", "ok", "timeout", "incomplete", "socket", "format"}]
    /\ unsent \in [Clients -> Seq(Text)]
    /\ up \in [Clients -> Seq(Text)]
    /\ got \in [Clients -> Seq(Seq(Text))]
    /\ down \in [Clients -> Seq(Seq(Text))]
    /\ reply \in [Clients -> Seq(Seq(Text))]
    /\ listening \in Seq(Clients)
    /\ session \in [Clients -> {"none", "poll", "line", "execute", "reply", "close", "closed"}]
    /\ marker \in [Clients -> Nat]
    /\ params \in [Clients -> Seq(Text)]
    /\ executed \in [Clients -> Seq(Text)]
    /\ alive \in BOOLEAN

\* The first n words of a command, and no more, are not empty.
UpToEmpty(cmd, n) ==
    /\ \A i \in 1..n : cmd[i] # Empty
    /\ n < Len(cmd) => cmd[n + 1] = Empty

\* What a request means: its words as sent, up to the first empty one.
Understood(cmd) == SubSeq(Words(cmd), 1, CHOOSE n \in 0..Len(cmd) : UpToEmpty(cmd, n))

\* A session calls a command with the arguments its client was given, argument
\* by argument, however the request was cut on its way: never with a part of
\* them because the client stopped or was killed while it sent.
RunsAsAsked ==
    \A c \in Clients : executed[c] # Nothing =>
        typed[c] # Nothing /\ executed[c] = Understood(typed[c][1])

\* A command that drs_server_cli reports as done was answered in full, and the
\* answer is that of the command it sent.
OkMeansAnswered ==
    \A c \in Clients : status[c] = "ok" =>
        /\ Len(typed[c]) = 1
        /\ got[c] = Reply(IF typed[c][1][1] \in Known THEN Understood(typed[c][1]) ELSE Nothing)

\* dap_app_cli_post_command() comes to an end for every command that has a
\* name, although its recv() has no timeout: also when the session or the
\* server ends under way.
PostEnds ==
    \A c \in Clients :
        (client[c] = "head" /\ Last(typed[c])[1] # Empty) ~> client[c] \in {"prompt", "left"}

\* The thread and the socket of a client that has gone are given back, in
\* whatever state the session was.
SessionEnds == \A c \in Clients : client[c] = "left" ~> HungUp(c)

\* Every connection is accepted, whatever other sessions wait for.
EveryTurn == \A c \in Clients : c \in Range(listening) ~> c \notin Range(listening) \/ ~alive

\* "close connection" (dap_cli_server.c) is all that an unsuccessful send()
\* leads to: a client that goes away does not end the server.
ServerSurvives == alive
=============================================================================
