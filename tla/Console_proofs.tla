---------------------------- MODULE Console_proofs ----------------------------
(***************************************************************************)
(* Proofs about Console: a session runs what its client was given, whole   *)
(* and as it was meant, and a success that is reported is the answer to    *)
(* the only command of the connection.                                     *)
(***************************************************************************)
EXTENDS Console, SequenceTheorems, TLAPS

Reading == {"none", "poll", "line"}

\* Places in dap_app_cli_post_command()
Posting == {"send", "stalled", "head", "body"}

-----------------------------------------------------------------------------
(***************************************************************************)
(* The inductive invariant                                                 *)
(***************************************************************************)

\* A connection that is not accepted yet
Waits(c) == \E i \in DOMAIN listening : listening[i] = c

\* A connection is made once, waits once, and is accepted once.
Fresh ==
    /\ \A c \in Clients : client[c] = "out" =>
          session[c] = "none" /\ \A i \in DOMAIN listening : listening[i] # c
    /\ \A i \in DOMAIN listening : session[listening[i]] = "none"
    /\ \A i, j \in DOMAIN listening : listening[i] = listening[j] => i = j
    /\ \A c \in Clients : client[c] # "out" /\ session[c] = "none" => Waits(c)

\* What a session knows when it has read k lines of a request
AtLine(cmd, k, m, p) ==
    \/ k < 2 /\ m = 0 /\ p = Nothing
    \/ /\ k >= 2
       /\ m = 1
       /\ p = SubSeq(Words(cmd), 1, k - 2)
       /\ \A i \in 1..(k - 2) : cmd[i] # Empty

\* Where s goes on from line k of a request, it is that request.
Ahead(s, cmd, k) ==
    \A i \in 1..Len(s) : i + 2 * k <= Len(Request(cmd)) => s[i] = Request(cmd)[i + 2 * k]

\* Until it has a whole command, a session is between two lines of the first
\* request; or that one began with an empty name, and nothing is ever called.
InStep(c) ==
    \/ /\ typed[c] = Nothing /\ up[c] = Nothing /\ unsent[c] = Nothing
       /\ marker[c] = 0 /\ params[c] = Nothing
    \/ typed[c] # Nothing /\ marker[c] >= 2 /\ params[c] = Nothing /\ typed[c][1][1] = Empty
    \/ /\ typed[c] # Nothing
       /\ \E k \in 0..(Len(typed[c][1]) + 2) :
             /\ AtLine(typed[c][1], k, marker[c], params[c])
             /\ Ahead(up[c] \o unsent[c], typed[c][1], k)
             /\ client[c] # "left" =>
                   Len(up[c] \o unsent[c]) + 2 * k >= Len(Request(typed[c][1]))

RequestsOf(c) ==
    /\ client[c] \notin {"send", "stalled"} => unsent[c] = Nothing
    /\ client[c] \in {"send", "stalled"} => unsent[c] # Nothing /\ unsent[c][Len(unsent[c])] = EOL
    /\ client[c] = "out" => typed[c] = Nothing
    /\ client[c] \in Posting => typed[c] # Nothing
    /\ session[c] \in Reading => InStep(c)
    /\ session[c] = "execute" =>
          /\ typed[c] # Nothing
          /\ \E n \in 1..Len(typed[c][1]) :
                UpToEmpty(typed[c][1], n) /\ params[c] = SubSeq(Words(typed[c][1]), 1, n)

Requests == \A c \in Clients : RequestsOf(c)

\* The arguments a request is executed with
Verdict(cmd) == IF cmd[1] \in Known THEN Understood(cmd) ELSE Nothing

\* The answer, from the socket's far end to what the client has read
Flow(c) == got[c] \o down[c] \o reply[c]

\* Nothing is executed or answered before the request is there, and what is
\* still to be read is the end of the answer to the first command.
AnswersOf(c) ==
    /\ session[c] \in Reading \cup {"execute"} => executed[c] = Nothing /\ Flow(c) = Nothing
    /\ session[c] \in {"reply", "close"} => typed[c] # Nothing /\ executed[c] = Verdict(typed[c][1])
    /\ executed[c] # Nothing => typed[c] # Nothing /\ executed[c] = Verdict(typed[c][1])
    /\ session[c] = "close" => reply[c] = Nothing
    /\ session[c] = "reply" => reply[c] # Nothing
    /\ Flow(c) # Nothing =>
          /\ typed[c] # Nothing
          /\ executed[c] = Verdict(typed[c][1])
          /\ \E k \in 1..3 : Flow(c) = SubSeq(Reply(executed[c]), k, 3)

Answers == \A c \in Clients : AnswersOf(c)

\* A second command is typed when a part of the answer to the first was read,
\* or the connection has ended: no second answer is ever whole.
SecondsOf(c) ==
    /\ client[c] = "prompt" /\ typed[c] # Nothing => HungUp(c) \/ got[c] # Nothing
    /\ Len(typed[c]) > 1 => session[c] \in {"reply", "close", "closed"} \/ ~alive
    /\ Len(typed[c]) > 1 /\ client[c] \in {"prompt", "head", "body"} => Len(Flow(c)) < 3
    /\ Len(typed[c]) > 1 /\ client[c] \in {"send", "stalled"} => Len(Flow(c)) < 3 \/ HungUp(c)
    /\ status[c] = "ok" => client[c] = "prompt" /\ Len(typed[c]) = 1 /\ Len(got[c]) = 3

Seconds == \A c \in Clients : SecondsOf(c)

\* The connection is still to be accepted, its session has a line to read, or
\* it is at work on the answer or the end.
Onwards(c) ==
    \/ Waits(c)
    \/ session[c] \in {"poll", "line"} /\ Contains(up[c], EOL)
    \/ session[c] = "execute"
    \/ session[c] = "reply" /\ reply[c] # Nothing
    \/ session[c] \in {"close", "closed"}

NotStuck(c) ==
    /\ client[c] = "send" => \E n \in 1..Len(unsent[c]) : unsent[c][n] # Empty
    /\ client[c] \in {"head", "body"} /\ typed[c][1][1] # Empty => Onwards(c)

\* A client that sends has something to write, and while one waits for the
\* answer to a command with a name, the server has something to do for it.
NeverStuck == \A c \in Clients : NotStuck(c)

\* Commands are those a user may type.
Typing ==
    /\ TypeOK
    /\ \A c \in Clients : \A i \in DOMAIN typed[c] : typed[c][i] \in Commands[c]

IInv == Typing /\ Fresh /\ Requests /\ Answers /\ Seconds

-----------------------------------------------------------------------------
(***************************************************************************)
(* Requests as sequences                                                   *)
(***************************************************************************)

\* A command that some user may type
CommandLine(cmd) == cmd \in Seq(Text \ {EOL}) /\ cmd # Nothing

LEMMA CommandsAreLines ==
    ASSUME NEW c \in Clients, NEW cmd \in Commands[c]
    PROVE  CommandLine(cmd)
<1>1. cmd \in Seq(Range(cmd) \ {EOL}) /\ cmd # Nothing
    BY CommandsAssumption
<1>2. Range(cmd) \subseteq Text
    BY DEF Text
<1>3. PICK S : S = Range(cmd) \ {EOL}
    OBVIOUS
<1>4. S \subseteq Text \ {EOL} /\ cmd \in Seq(S)
    BY <1>1, <1>2, <1>3
<1>5. cmd \in Seq(Text \ {EOL})
    BY <1>4
<1> QED  BY <1>1, <1>5 DEF CommandLine

LEMMA Literals ==
    /\ {Empty, "POST", "base64", EOL} \subseteq Text
    /\ Empty # EOL /\ "POST" # EOL /\ "base64" # EOL /\ "base64" # Semicolon
    /\ "base64" # Empty /\ Semicolon # Empty /\ "POST" # Empty
BY DEF Text, EOL, Semicolon, Empty

LEMMA EncodedWord ==
    ASSUME NEW word \in Text \ {EOL}
    PROVE  /\ Encoded(word) \in Text \ {EOL}
           /\ Encoded(word) # Semicolon
           /\ Encoded(word) = Empty => word = Empty
           /\ word = Empty => Encoded(word) = Empty
<1>1. CASE word = Semicolon
    <2>1. Encoded(word) = "base64"
        BY <1>1 DEF Encoded
    <2> QED  BY <1>1, <2>1, Literals
<1>2. CASE word # Semicolon
    <2>1. Encoded(word) = word
        BY <1>2 DEF Encoded
    <2> QED  BY <1>2, <2>1
<1> QED  BY <1>1, <1>2

\* The words of a command are sent in their places, and none of them is a line
\* end or becomes empty.
LEMMA WordsSent ==
    ASSUME NEW cmd, CommandLine(cmd)
    PROVE  /\ Words(cmd) \in Seq(Text)
           /\ Len(cmd) \in Nat \ {0}
           /\ Len(Words(cmd)) = Len(cmd)
           /\ Words(cmd)[1] = cmd[1]
           /\ \A i \in 1..Len(cmd) :
                 /\ Words(cmd)[i] \in Text \ {EOL}
                 /\ Words(cmd)[i] = Empty => cmd[i] = Empty
                 /\ cmd[i] = Empty => Words(cmd)[i] = Empty
                 /\ i > 1 => Words(cmd)[i] # Semicolon
<1>1. cmd \in Seq(Text \ {EOL}) /\ cmd # <<>>
    BY DEF CommandLine, Nothing
<1>2. Len(cmd) \in Nat \ {0} /\ DOMAIN cmd = 1..Len(cmd)
    BY <1>1
<1>3. \A i \in 1..Len(cmd) : cmd[i] \in Text \ {EOL}
    BY <1>1
<1>4. \A i \in 1..Len(cmd) : Words(cmd)[i] = IF i = 1 THEN cmd[1] ELSE Encoded(cmd[i])
    BY <1>2 DEF Words
<1>5. ASSUME NEW i \in 1..Len(cmd)
      PROVE  /\ Words(cmd)[i] \in Text \ {EOL}
             /\ Words(cmd)[i] = Empty => cmd[i] = Empty
             /\ cmd[i] = Empty => Words(cmd)[i] = Empty
             /\ i > 1 => Words(cmd)[i] # Semicolon
    <2>1. CASE i = 1
        <3>1. Words(cmd)[i] = cmd[i] /\ cmd[i] \in Text \ {EOL}
            BY <1>3, <1>4, <2>1
        <3> QED  BY <2>1, <3>1
    <2>2. CASE i # 1
        <3>1. Words(cmd)[i] = Encoded(cmd[i]) /\ cmd[i] \in Text \ {EOL}
            BY <1>3, <1>4, <2>2
        <3> QED  BY <3>1, EncodedWord
    <2> QED  BY <2>1, <2>2
<1>6. Words(cmd) = [i \in 1..Len(cmd) |-> Words(cmd)[i]]
    BY <1>2 DEF Words
<1>7. Words(cmd) \in Seq(Text) /\ Len(Words(cmd)) = Len(cmd)
    <2>1. Words(cmd) \in [1..Len(cmd) -> Text]
        BY <1>5, <1>6
    <2> QED  BY <2>1, <1>2
<1>8. Words(cmd)[1] = cmd[1]
    BY <1>2, <1>4
<1> QED  BY <1>2, <1>5, <1>7, <1>8

LEMMA TwoBefore ==
    ASSUME NEW S, NEW s \in Seq(S), NEW a \in S, NEW b \in S
    PROVE  /\ <<a, b>> \o s \in Seq(S)
           /\ Len(<<a, b>> \o s) = Len(s) + 2
           /\ (<<a, b>> \o s)[1] = a
           /\ (<<a, b>> \o s)[2] = b
           /\ \A i \in 1..Len(s) : (<<a, b>> \o s)[i + 2] = s[i]
OBVIOUS

LEMMA OneBehind ==
    ASSUME NEW S, NEW s \in Seq(S), NEW a \in S
    PROVE  /\ s \o <<a>> \in Seq(S)
           /\ Len(s \o <<a>>) = Len(s) + 1
           /\ \A i \in 1..Len(s) : (s \o <<a>>)[i] = s[i]
           /\ (s \o <<a>>)[Len(s) + 1] = a
OBVIOUS

LEMMA LinesSent ==
    ASSUME NEW cmd, CommandLine(cmd)
    PROVE  /\ Lines(cmd) \in Seq(Text)
           /\ Len(Lines(cmd)) = Len(cmd) + 3
           /\ Lines(cmd)[1] = "POST"
           /\ Lines(cmd)[2] = Empty
           /\ \A i \in 1..Len(cmd) : Lines(cmd)[i + 2] = Words(cmd)[i]
           /\ Lines(cmd)[Len(cmd) + 3] = Empty
<1>1. Words(cmd) \in Seq(Text) /\ Len(cmd) \in Nat /\ Len(Words(cmd)) = Len(cmd)
    BY WordsSent
<1>2. PICK w \in Seq(Text) : w = Words(cmd)
    BY <1>1
<1>3. PICK post \in Text, empty \in Text : post = "POST" /\ empty = Empty
    BY Literals
<1>4. PICK v \in Seq(Text) : v = <<post, empty>> \o w
    BY TwoBefore
<1>5. /\ Len(v) = Len(w) + 2 /\ v[1] = post /\ v[2] = empty
      /\ \A i \in 1..Len(w) : v[i + 2] = w[i]
    BY <1>4, TwoBefore
<1>6. PICK l \in Seq(Text) : l = v \o <<empty>>
    BY OneBehind
<1>7. Len(l) = Len(v) + 1 /\ l[Len(v) + 1] = empty /\ \A i \in 1..Len(v) : l[i] = v[i]
    BY <1>6, OneBehind
<1>8. Lines(cmd) = l
    BY <1>2, <1>3, <1>4, <1>6 DEF Lines
<1>9. Len(l) = Len(cmd) + 3
    BY <1>1, <1>2, <1>5, <1>7
<1>10. l[1] = "POST" /\ l[2] = Empty /\ l[Len(cmd) + 3] = Empty
    <2>1. 1 \in 1..Len(v) /\ 2 \in 1..Len(v) /\ Len(v) + 1 = Len(cmd) + 3
        BY <1>1, <1>2, <1>5
    <2> QED  BY <1>3, <1>5, <1>7, <2>1, Zenon
<1>11. \A i \in 1..Len(cmd) : l[i + 2] = Words(cmd)[i]
    BY <1>1, <1>2, <1>5, <1>7
<1> QED  BY <1>8, <1>9, <1>10, <1>11

\* A request is its lines, each with its end.
LEMMA RequestSent ==
    ASSUME NEW cmd, CommandLine(cmd)
    PROVE  /\ Request(cmd) \in Seq(Text)
           /\ Len(Request(cmd)) = 2 * Len(cmd) + 6
           /\ \A k \in 0..(Len(cmd) + 2) :
                 /\ Request(cmd)[2 * k + 1] = Lines(cmd)[k + 1]
                 /\ Request(cmd)[2 * k + 2] = EOL
<1>1. Lines(cmd) \in Seq(Text) /\ Len(Lines(cmd)) = Len(cmd) + 3 /\ Len(cmd) \in Nat
    BY LinesSent, WordsSent
<1>2. PICK n \in Nat : n = 2 * Len(Lines(cmd))
    BY <1>1
<1>3. n = 2 * Len(cmd) + 6
    BY <1>1, <1>2
<1>4. Request(cmd) = [i \in 1..n |-> IF i % 2 = 0 THEN EOL ELSE Lines(cmd)[(i + 1) \div 2]]
    BY <1>2 DEF Request
<1>5. ASSUME NEW i \in 1..n, i % 2 # 0  PROVE Lines(cmd)[(i + 1) \div 2] \in Text
    <2>1. (i + 1) \div 2 \in 1..Len(Lines(cmd))
        BY <1>1, <1>2, <1>5
    <2> QED  BY <1>1, <2>1
<1>6. Request(cmd) \in [1..n -> Text]
    BY <1>4, <1>5, Literals
<1>7. Request(cmd) \in Seq(Text) /\ Len(Request(cmd)) = n
    BY <1>6
<1>8. ASSUME NEW k \in 0..(Len(cmd) + 2)
      PROVE  /\ Request(cmd)[2 * k + 1] = Lines(cmd)[k + 1]
             /\ Request(cmd)[2 * k + 2] = EOL
    <2>1. /\ 2 * k + 1 \in 1..n /\ (2 * k + 1) % 2 = 1 /\ (2 * k + 1 + 1) \div 2 = k + 1
          /\ 2 * k + 2 \in 1..n /\ (2 * k + 2) % 2 = 0
        BY <1>1, <1>3
    <2> QED  BY <1>4, <2>1
<1> QED  BY <1>3, <1>7, <1>8

-----------------------------------------------------------------------------
(***************************************************************************)
(* Reading a request                                                       *)
(***************************************************************************)

\* send() moves what it writes from one end of the connection to the other.
LEMMA Moved ==
    ASSUME NEW S, NEW s \in Seq(S), NEW t \in Seq(S), NEW n \in 1..Len(t)
    PROVE  /\ SubSeq(t, 1, n) \in Seq(S)
           /\ SubSeq(t, n + 1, Len(t)) \in Seq(S)
           /\ s \o SubSeq(t, 1, n) \in Seq(S)
           /\ (s \o SubSeq(t, 1, n)) \o SubSeq(t, n + 1, Len(t)) = s \o t
<1>1. SubSeq(t, 1, n) \in Seq(S) /\ SubSeq(t, n + 1, Len(t)) \in Seq(S)
    OBVIOUS
<1>2. SubSeq(t, 1, n) \o SubSeq(t, n + 1, Len(t)) = t
    OBVIOUS
<1>3. PICK a \in Seq(S), b \in Seq(S) : a = SubSeq(t, 1, n) /\ b = SubSeq(t, n + 1, Len(t))
    BY <1>1
<1>4. (s \o a) \o b = s \o (a \o b)
    OBVIOUS
<1>5. s \o a \in Seq(S)
    OBVIOUS
<1>6. a \o b = t
    BY <1>2, <1>3
<1> QED  BY <1>1, <1>3, <1>4, <1>5, <1>6

\* Of what is ahead of line k, s and then u, the first line is taken away.
OneLine(s, u, cmd, k, end) ==
    /\ end = 2
    /\ s[1] = Lines(cmd)[k + 1]
    /\ s[1] # EOL
    /\ Ahead(SubSeq(s, end + 1, Len(s)) \o u, cmd, k + 1)
    /\ Len(SubSeq(s, end + 1, Len(s)) \o u) + 2 * (k + 1) = Len(s \o u) + 2 * k

\* The line that is read is the next one of the request.
LEMMA LineRead ==
    ASSUME NEW cmd, CommandLine(cmd),
           NEW s \in Seq(Text), NEW u \in Seq(Text), NEW k \in 0..(Len(cmd) + 2),
           Ahead(s \o u, cmd, k),
           NEW end \in 1..Len(s),
           s[end] = EOL,
           \A i \in 1..(end - 1) : s[i] # EOL
    PROVE  OneLine(s, u, cmd, k, end)
<1> DEFINE R == Request(cmd)
           t == s \o u
<1>1. Len(cmd) \in Nat \ {0} /\ k \in Nat /\ Len(s) \in Nat /\ Len(u) \in Nat /\ end \in Nat
    <2>1. Len(cmd) \in Nat \ {0}
        BY WordsSent
    <2>2. Len(s) \in Nat /\ Len(u) \in Nat
        OBVIOUS
    <2> QED  BY <2>1, <2>2
<1>2. t \in Seq(Text) /\ Len(t) = Len(s) + Len(u) /\ \A i \in 1..Len(s) : t[i] = s[i]
    OBVIOUS
<1>3. /\ R \in Seq(Text) /\ Len(R) = 2 * Len(cmd) + 6
      /\ R[2 * k + 1] = Lines(cmd)[k + 1] /\ R[2 * k + 2] = EOL
    BY RequestSent
<1>4. \A i \in 1..Len(t) : i + 2 * k <= Len(R) => t[i] = R[i + 2 * k]
    BY DEF Ahead
<1> HIDE DEF R, t
<1>5. 1 + 2 * k <= Len(R) /\ 2 + 2 * k <= Len(R) /\ 1 + 2 * k = 2 * k + 1 /\ 2 + 2 * k = 2 * k + 2
    BY <1>1, <1>3, SMTT(30)
<1>6. s[1] = R[2 * k + 1]
    <2>1. 1 \in 1..Len(t) /\ 1 \in 1..Len(s)
        BY <1>1, <1>2
    <2> QED  BY <2>1, <1>2, <1>4, <1>5
<1>7. Lines(cmd)[k + 1] # EOL
    <2>1. CASE k < 2
        <3>1. k + 1 = 1 \/ k + 1 = 2
            BY <1>1, <2>1
        <3> QED  BY <3>1, LinesSent, Literals
    <2>2. CASE k >= 2 /\ k < Len(cmd) + 2
        <3>1. k - 1 \in 1..Len(cmd) /\ (k - 1) + 2 = k + 1
            BY <1>1, <2>2
        <3>2. Lines(cmd)[(k - 1) + 2] = Words(cmd)[k - 1]
            BY <3>1, LinesSent
        <3>3. Words(cmd)[k - 1] \in Text \ {EOL}
            BY <3>1, WordsSent
        <3> QED  BY <3>1, <3>2, <3>3
    <2>3. CASE k = Len(cmd) + 2
        <3>1. k + 1 = Len(cmd) + 3
            BY <1>1, <2>3
        <3> QED  BY <3>1, LinesSent, Literals
    <2> QED  BY <1>1, <2>1, <2>2, <2>3
<1>8. s[1] = Lines(cmd)[k + 1] /\ s[1] # EOL
    BY <1>3, <1>6, <1>7
<1>9. end = 2
    <2>1. end # 1
        BY <1>8
    <2>2. ASSUME end > 2  PROVE FALSE
        <3>1. 2 \in 1..Len(t) /\ 2 \in 1..Len(s) /\ 2 \in 1..(end - 1)
            BY <1>1, <1>2, <2>2
        <3>2. s[2] = R[2 * k + 2]
            BY <3>1, <1>2, <1>4, <1>5
        <3> QED  BY <3>1, <3>2, <1>3
    <2> QED  BY <1>1, <2>1, <2>2
<1>10. PICK r \in Seq(Text) : r = SubSeq(s, end + 1, Len(s)) \o u
    <2>1. SubSeq(s, 3, Len(s)) \in Seq(Text)
        BY <1>1
    <2>2. SubSeq(s, 3, Len(s)) \o u \in Seq(Text) /\ end + 1 = 3
        BY <2>1, <1>9
    <2> QED  BY <2>2
<1>11. Len(r) = Len(t) - 2 /\ \A i \in 1..Len(r) : r[i] = t[i + 2]
    BY <1>1, <1>9, <1>10, SMTT(30) DEF t
<1>12. ASSUME NEW i \in 1..Len(r), i + 2 * (k + 1) <= Len(R)
       PROVE  r[i] = R[i + 2 * (k + 1)]
    <2>1. i + 2 \in 1..Len(t) /\ (i + 2) + 2 * k = i + 2 * (k + 1)
        BY <1>1, <1>2, <1>11
    <2>2. t[i + 2] = R[(i + 2) + 2 * k]
        BY <2>1, <1>4, <1>12
    <2> QED  BY <2>1, <2>2, <1>11
<1>13. Ahead(r, cmd, k + 1)
    BY <1>12 DEF Ahead, R
<1>14. Len(r) + 2 * (k + 1) = Len(t) + 2 * k
    BY <1>1, <1>2, <1>11
<1> QED  BY <1>8, <1>9, <1>10, <1>13, <1>14 DEF OneLine, t

\* What is understood is the words before the first empty one, however long
\* the command is.
LEMMA FirstEmpty ==
    ASSUME NEW cmd, CommandLine(cmd), NEW n \in 0..Len(cmd), UpToEmpty(cmd, n)
    PROVE  Understood(cmd) = SubSeq(Words(cmd), 1, n)
<1>1. Len(cmd) \in Nat
    BY WordsSent
<1> DEFINE m == CHOOSE i \in 0..Len(cmd) : UpToEmpty(cmd, i)
<1>2. m \in 0..Len(cmd) /\ UpToEmpty(cmd, m)
    OBVIOUS
<1>3. Understood(cmd) = SubSeq(Words(cmd), 1, m)
    BY DEF Understood
<1> HIDE DEF m
<1>4. ~ m < n
    <2>1. ASSUME m < n  PROVE FALSE
        <3>1. m + 1 \in 1..n /\ m < Len(cmd)
            BY <1>1, <1>2, <2>1
        <3> QED  BY <3>1, <1>2 DEF UpToEmpty
    <2> QED  BY <2>1
<1>5. ~ n < m
    <2>1. ASSUME n < m  PROVE FALSE
        <3>1. n + 1 \in 1..m /\ n < Len(cmd)
            BY <1>1, <1>2, <2>1
        <3> QED  BY <3>1, <1>2 DEF UpToEmpty
    <2> QED  BY <2>1
<1>6. m = n
    BY <1>1, <1>2, <1>4, <1>5
<1> QED  BY <1>3, <1>6

LEMMA Longer ==
    ASSUME NEW S, NEW s \in Seq(S), NEW j \in 0..(Len(s) - 1)
    PROVE  Append(SubSeq(s, 1, j), s[j + 1]) = SubSeq(s, 1, j + 1)
OBVIOUS

\* What ReadLine makes of the empty lines it has met and of the parameters
Met(m, line) == IF line = Empty THEN m + 1 ELSE m
Listed(p, m, line) == IF line # Empty /\ m = 1 THEN Append(p, line) ELSE p

\* One more line: the session goes on, has met an empty name, or has the
\* command as it is understood.
Onward(cmd, k, m, p, line) ==
    \/ /\ k + 1 \in 0..(Len(cmd) + 2)
       /\ AtLine(cmd, k + 1, Met(m, line), Listed(p, m, line))
       /\ Met(m, line) # 2
    \/ /\ Met(m, line) = 2
       /\ Listed(p, m, line) = Nothing
       /\ cmd[1] = Empty
    \/ /\ Met(m, line) = 2
       /\ \E n \in 1..Len(cmd) :
             UpToEmpty(cmd, n) /\ Listed(p, m, line) = SubSeq(Words(cmd), 1, n)

LEMMA NextLine ==
    ASSUME NEW cmd, CommandLine(cmd), NEW k \in 0..(Len(cmd) + 2),
           NEW m \in Nat, NEW p \in Seq(Text),
           AtLine(cmd, k, m, p),
           NEW line, line = Lines(cmd)[k + 1]
    PROVE  Onward(cmd, k, m, p, line)
<1> USE DEF Onward
<1> DEFINE w == Words(cmd)
           n == Len(cmd)
<1>1. n \in Nat \ {0} /\ k \in Nat /\ w \in Seq(Text) /\ Len(w) = n
    BY WordsSent
<1>2. \A i \in 1..n : (w[i] = Empty => cmd[i] = Empty) /\ (cmd[i] = Empty => w[i] = Empty)
    BY WordsSent
<1>3. \A i \in 1..n : Lines(cmd)[i + 2] = w[i]
    BY LinesSent
<1>4. SubSeq(w, 1, 0) = Nothing
    BY <1>1 DEF Nothing
<1> HIDE DEF w, n
<1>5. CASE k = 0
    <2>1. m = 0 /\ p = Nothing /\ line = "POST"
        BY <1>1, <1>5, LinesSent DEF AtLine
    <2>2. Met(m, line) = 0 /\ Listed(p, m, line) = Nothing
        BY <2>1, Literals DEF Met, Listed
    <2>3. k + 1 \in 0..(n + 2) /\ k + 1 < 2
        BY <1>1, <1>5
    <2> QED  BY <2>2, <2>3 DEF AtLine, n
<1>6. CASE k = 1
    <2>1. m = 0 /\ p = Nothing /\ line = Empty
        BY <1>1, <1>6, LinesSent DEF AtLine
    <2>2. Met(m, line) = 1 /\ Listed(p, m, line) = Nothing
        BY <2>1 DEF Met, Listed
    <2>3. k + 1 \in 0..(n + 2) /\ k + 1 = 2 /\ (k + 1) - 2 = 0
        BY <1>1, <1>6
    <2>4. AtLine(cmd, k + 1, 1, Nothing)
        BY <2>3, <1>4 DEF AtLine, w
    <2> QED  BY <2>2, <2>3, <2>4 DEF n
<1>7. CASE k >= 2
    <2>1. /\ m = 1 /\ p = SubSeq(w, 1, k - 2) /\ k - 2 \in 0..n
          /\ \A i \in 1..(k - 2) : cmd[i] # Empty
        BY <1>1, <1>7 DEF AtLine, w, n
    <2>2. CASE line = Empty
        <3>1. Met(m, line) = 2 /\ Listed(p, m, line) = p
            BY <2>1, <2>2 DEF Met, Listed
        <3>2. k - 2 < n => cmd[(k - 2) + 1] = Empty
            <4>1. ASSUME k - 2 < n  PROVE cmd[(k - 2) + 1] = Empty
                <5>1. (k - 2) + 1 \in 1..n /\ ((k - 2) + 1) + 2 = k + 1
                    BY <1>1, <1>7, <4>1
                <5>2. w[(k - 2) + 1] = Empty
                    BY <5>1, <1>3, <2>2
                <5> QED  BY <5>1, <5>2, <1>2
            <4> QED  BY <4>1
        <3>3. UpToEmpty(cmd, k - 2)
            BY <2>1, <3>2 DEF UpToEmpty, n
        <3>4. CASE k - 2 = 0
            <4>1. cmd[1] = Empty
                BY <1>1, <3>2, <3>4
            <4> QED  BY <2>1, <3>1, <3>4, <4>1, <1>4
        <3>5. CASE k - 2 \in 1..n
            BY <2>1, <3>1, <3>3, <3>5 DEF w, n
        <3> QED  BY <1>1, <2>1, <3>4, <3>5
    <2>3. CASE line # Empty
        <3>1. k - 2 < n
            <4>1. ASSUME k - 2 = n  PROVE FALSE
                <5>1. k + 1 = n + 3
                    BY <1>1, <4>1
                <5> QED  BY <5>1, <2>3, LinesSent DEF n
            <4> QED  BY <1>1, <2>1, <4>1
        <3>2. (k - 2) + 1 \in 1..n /\ ((k - 2) + 1) + 2 = k + 1 /\ (k + 1) - 2 = (k - 2) + 1
            BY <1>1, <1>7, <3>1
        <3>3. line = w[(k - 2) + 1] /\ cmd[(k - 2) + 1] # Empty
            BY <3>2, <1>2, <1>3, <2>3
        <3>4. PICK j \in 0..(n - 1) : j = k - 2
            BY <1>1, <2>1, <3>1
        <3>5. Append(SubSeq(w, 1, j), w[j + 1]) = SubSeq(w, 1, j + 1)
            BY <1>1, Longer
        <3>6. Met(m, line) = 1 /\ Listed(p, m, line) = SubSeq(w, 1, j + 1)
            BY <2>1, <2>3, <3>3, <3>4, <3>5 DEF Met, Listed
        <3>7. \A i \in 1..((k + 1) - 2) : cmd[i] # Empty
            BY <1>1, <2>1, <3>2, <3>3, <3>4
        <3>8. AtLine(cmd, k + 1, 1, SubSeq(w, 1, j + 1))
            BY <1>7, <3>2, <3>4, <3>7 DEF AtLine, w
        <3>9. k + 1 \in 0..(n + 2)
            BY <1>1, <3>1
        <3> QED  BY <3>6, <3>8, <3>9 DEF n
    <2> QED  BY <2>2, <2>3
<1> QED  BY <1>1, <1>5, <1>6, <1>7

LEMMA FrontOf ==
    ASSUME NEW S, NEW s \in Seq(S), NEW n \in 1..Len(s)
    PROVE  /\ SubSeq(s, 1, n) \in Seq(S)
           /\ SubSeq(s, 1, n) # <<>>
           /\ Len(SubSeq(s, 1, n)) = n
           /\ \A i \in 1..n : SubSeq(s, 1, n)[i] = s[i]
OBVIOUS

\* A command is looked up by its name, and its parameters come back from
\* joining and splitting as they were.
LEMMA Executed ==
    ASSUME NEW cmd, CommandLine(cmd), NEW n \in 1..Len(cmd), UpToEmpty(cmd, n),
           NEW p, p = SubSeq(Words(cmd), 1, n)
    PROVE  /\ p \in Seq(Text)
           /\ p # Nothing
           /\ p = Understood(cmd)
           /\ p[1] = cmd[1]
           /\ p[1] \in Known => Argv(p) = p
<1>1. Words(cmd) \in Seq(Text) /\ Len(cmd) \in Nat \ {0} /\ Len(Words(cmd)) = Len(cmd)
    BY WordsSent
<1>2. p \in Seq(Text) /\ p # <<>> /\ Len(p) = n /\ \A i \in 1..n : p[i] = Words(cmd)[i]
    BY <1>1, FrontOf
<1>3. p[1] = cmd[1]
    BY <1>1, <1>2, WordsSent
<1>4. p = Understood(cmd)
    BY <1>1, FirstEmpty
<1>5. ASSUME p[1] \in Known  PROVE Argv(p) = p
    <2>1. p[1] # Semicolon
        BY <1>5, KnownAssumption
    <2>2. \A i \in 1..n : i > 1 => p[i] # Semicolon
        BY <1>1, <1>2, WordsSent
    <2>3. ~ Contains(p, Semicolon)
        BY <1>2, <2>1, <2>2 DEF Contains
    <2> QED  BY <2>3 DEF Argv
<1> QED  BY <1>2, <1>3, <1>4, <1>5 DEF Nothing

LEMMA ReplyTyped ==
    ASSUME NEW argv \in Seq(Text)
    PROVE  Reply(argv) \in Seq(Seq(Text)) /\ Len(Reply(argv)) = 3
<1>1. "length" \in Text /\ "blank" \in Text /\ "body" \in Text
    BY DEF Text
<1>2. <<"length">> \in Seq(Text) /\ <<"blank">> \in Seq(Text) /\ <<"body">> \o argv \in Seq(Text)
    BY <1>1
<1>3. PICK a \in Seq(Text), b \in Seq(Text), d \in Seq(Text) :
          a = <<"length">> /\ b = <<"blank">> /\ d = <<"body">> \o argv
    BY <1>2
<1>4. <<a, b, d>> \in Seq(Seq(Text)) /\ Len(<<a, b, d>>) = 3
    OBVIOUS
<1> QED  BY <1>3, <1>4 DEF Reply

-----------------------------------------------------------------------------
(***************************************************************************)
(* Types                                                                   *)
(***************************************************************************)

Places == {"out", "prompt", "send", "stalled", "head", "body", "left"}
Turns == {"none", "poll", "line", "execute", "reply", "close", "closed"}

LEMMA CutTyped ==
    ASSUME NEW S, NEW s \in Seq(S), NEW n \in 0..Len(s)
    PROVE  SubSeq(s, n + 1, Len(s)) \in Seq(S) /\ SubSeq(s, 1, n) \in Seq(S)
OBVIOUS

LEMMA GoneTyped ==
    ASSUME NEW c \in Clients, TypeOK, Gone(c)
    PROVE  /\ client' \in [Clients -> Places]
           /\ status' \in [Clients -> {"none", "ok", "timeout", "incomplete", "socket", "format"}]
           /\ unsent' \in [Clients -> Seq(Text)]
           /\ got' \in [Clients -> Seq(Seq(Text))]
           /\ down' \in [Clients -> Seq(Seq(Text))]
<1> USE DEF Nothing
<1>1. unsent' \in [Clients -> Seq(Text)]
    BY DEF TypeOK, Gone
<1>2. got' \in [Clients -> Seq(Seq(Text))] /\ down' \in [Clients -> Seq(Seq(Text))]
    BY DEF TypeOK, Gone
<1> QED  BY <1>1, <1>2 DEF TypeOK, Gone, Go, Places

LEMMA EndSessionTyped ==
    ASSUME NEW c \in Clients, TypeOK, EndSession(c)
    PROVE  /\ session' \in [Clients -> Turns]
           /\ up' \in [Clients -> Seq(Text)]
           /\ marker' \in [Clients -> Nat]
           /\ params' \in [Clients -> Seq(Text)]
           /\ reply' \in [Clients -> Seq(Seq(Text))]
<1> USE DEF Nothing
<1>1. up' \in [Clients -> Seq(Text)] /\ params' \in [Clients -> Seq(Text)]
    BY DEF TypeOK, EndSession
<1>2. reply' \in [Clients -> Seq(Seq(Text))]
    BY DEF TypeOK, EndSession
<1> QED  BY <1>1, <1>2 DEF TypeOK, EndSession, Turn, Turns

LEMMA ReceiveTyped ==
    ASSUME NEW c \in Clients, TypeOK, NEW n \in 1..Len(down[c]), Receive(c, n)
    PROVE  /\ got' \in [Clients -> Seq(Seq(Text))]
           /\ down' \in [Clients -> Seq(Seq(Text))]
<1>1. PICK d \in Seq(Seq(Text)), g \in Seq(Seq(Text)) : d = down[c] /\ g = got[c]
    BY DEF TypeOK
<1>2. g \o SubSeq(d, 1, n) \in Seq(Seq(Text))
    BY <1>1
<1>3. SubSeq(d, n + 1, Len(d)) \in Seq(Seq(Text))
    BY <1>1
<1>4. got' = [got EXCEPT ![c] = g \o SubSeq(d, 1, n)]
    BY <1>1 DEF Receive
<1>5. down' = [down EXCEPT ![c] = SubSeq(d, n + 1, Len(d))]
    BY <1>1 DEF Receive
<1> QED  BY <1>2, <1>3, <1>4, <1>5 DEF TypeOK

\* What the user's program does keeps the types.
LEMMA UserTyped ==
    ASSUME Typing, NEW c \in Clients,
           Connect(c) \/ Leave(c) \/ Stall(c) \/ Resume(c) \/ UserStep(c)
    PROVE  TypeOK'
<1> USE DEF Go
<1>1. CASE Connect(c)
    <2>1. listening' \in Seq(Clients)
        BY <1>1 DEF Connect, Typing, TypeOK
    <2> QED  BY <1>1, <2>1 DEF Connect, Typing, TypeOK, serve
<1>2. CASE Leave(c)
    BY <1>2, GoneTyped DEF Leave, Typing, TypeOK, serve, Places
<1>3. CASE Stall(c)
    BY <1>3 DEF Stall, Typing, TypeOK, serve
<1>4. CASE Resume(c)
    BY <1>4 DEF Resume, Typing, TypeOK, serve
<1>5. CASE Send(c)
    <2>1. CASE HungUp(c)
        BY <1>5, <2>1, GoneTyped DEF Send, Typing, TypeOK, serve, Places
    <2>2. CASE ~HungUp(c)
        <3>1. PICK n \in 1..Len(unsent[c]) :
                  /\ up' = [up EXCEPT ![c] = @ \o SubSeq(unsent[c], 1, n)]
                  /\ unsent' = [unsent EXCEPT ![c] = SubSeq(@, n + 1, Len(@))]
                  /\ IF n = Len(unsent[c]) THEN Go(c, "head") ELSE UNCHANGED client
                  /\ UNCHANGED <<status, got, down>>
            BY <1>5, <2>2 DEF Send
        <3>2. PICK u \in Seq(Text), v \in Seq(Text) : u = up[c] /\ v = unsent[c]
            BY DEF Typing, TypeOK
        <3>3. u \o SubSeq(v, 1, n) \in Seq(Text) /\ SubSeq(v, n + 1, Len(v)) \in Seq(Text)
            BY <3>1, <3>2, Moved
        <3>4. up' \in [Clients -> Seq(Text)]
            BY <3>1, <3>2, <3>3 DEF Typing, TypeOK
        <3>5. unsent' \in [Clients -> Seq(Text)]
            BY <3>1, <3>2, <3>3 DEF Typing, TypeOK
        <3>6. client' \in [Clients -> Places]
            BY <3>1 DEF Typing, TypeOK, Places
        <3> QED  BY <1>5, <3>1, <3>4, <3>5, <3>6 DEF Send, Typing, TypeOK, serve, Places
    <2> QED  BY <2>1, <2>2
<1>6. CASE ReadHead(c)
    <2>1. got' \in [Clients -> Seq(Seq(Text))] /\ down' \in [Clients -> Seq(Seq(Text))]
        BY <1>6, ReceiveTyped DEF ReadHead, Typing, TypeOK
    <2>2. /\ client' \in [Clients -> Places]
          /\ status' \in [Clients -> {"none", "ok", "timeout", "incomplete", "socket", "format"}]
        BY <1>6 DEF ReadHead, Result, Typing, TypeOK, Places
    <2> QED  BY <1>6, <2>1, <2>2 DEF ReadHead, Typing, TypeOK, serve, Places
<1>7. CASE ReadBody(c)
    <2>1. got' \in [Clients -> Seq(Seq(Text))] /\ down' \in [Clients -> Seq(Seq(Text))]
        BY <1>7, ReceiveTyped DEF ReadBody, Typing, TypeOK
    <2>2. /\ client' \in [Clients -> Places]
          /\ status' \in [Clients -> {"none", "ok", "timeout", "incomplete", "socket", "format"}]
        BY <1>7 DEF ReadBody, Result, Typing, TypeOK, Places
    <2> QED  BY <1>7, <2>1, <2>2 DEF ReadBody, Typing, TypeOK, serve, Places
<1> QED  BY <1>1, <1>2, <1>3, <1>4, <1>5, <1>6, <1>7 DEF UserStep

LEMMA TypeTyped ==
    ASSUME Typing, NEW c \in Clients, NEW cmd \in Commands[c], Type(c, cmd)
    PROVE  TypeOK'
<1>1. CommandLine(cmd)
    BY CommandsAreLines
<1>2. cmd \in Seq(Text) /\ Request(cmd) \in Seq(Text)
    BY <1>1, RequestSent DEF CommandLine
<1>3. typed' \in [Clients -> Seq(Seq(Text))]
    <2>1. Append(typed[c], cmd) \in Seq(Seq(Text))
        BY <1>2 DEF Typing, TypeOK
    <2> QED  BY <2>1 DEF Type, Typing, TypeOK
<1>4. unsent' \in [Clients -> Seq(Text)]
    BY <1>2 DEF Type, Typing, TypeOK
<1>5. got' \in [Clients -> Seq(Seq(Text))]
    BY DEF Type, Typing, TypeOK, Nothing
<1> QED  BY <1>3, <1>4, <1>5 DEF Type, Go, Typing, TypeOK, serve

\* ReadLine drops a line, counts it and keeps it.
LEMMA ReadLineTaken ==
    ASSUME Typing, NEW c \in Clients, ReadLine(c)
    PROVE  /\ session[c] = "line"
           /\ \E end \in 1..Len(up[c]) :
                 /\ up[c][end] = EOL
                 /\ \A i \in 1..(end - 1) : up[c][i] # EOL
                 /\ up' = [up EXCEPT ![c] = SubSeq(@, end + 1, Len(@))]
           /\ up[c][1] # EOL =>
                 /\ marker' = [marker EXCEPT ![c] = Met(@, up[c][1])]
                 /\ params' = [params EXCEPT ![c] = Listed(@, marker[c], up[c][1])]
           /\ Turn(c, IF marker'[c] = 2 /\ params'[c] # Nothing THEN "execute" ELSE "poll")
           /\ UNCHANGED <<user, listening, down, executed, reply, alive>>
<1>1. DOMAIN up[c] = 1..Len(up[c])
    BY DEF Typing, TypeOK
<1>2. ASSUME up[c][1] # EOL
      PROVE  /\ marker' = [marker EXCEPT ![c] = Met(@, up[c][1])]
             /\ params' = [params EXCEPT ![c] = Listed(@, marker[c], up[c][1])]
    BY <1>2 DEF ReadLine, Met, Listed
<1> QED  BY <1>1, <1>2 DEF ReadLine, EndOfCommand

LEMMA SessionTyped ==
    ASSUME Typing, Requests, NEW c \in Clients, SessionStep(c)
    PROVE  TypeOK'
<1>1. CASE PollSocket(c)
    BY <1>1, EndSessionTyped DEF PollSocket, IsValidSocket, Turn, Typing, TypeOK, user, Turns
<1>2. CASE ReadLine(c)
    <2>1. PICK end \in 1..Len(up[c]) : up' = [up EXCEPT ![c] = SubSeq(@, end + 1, Len(@))]
        BY <1>2, ReadLineTaken
    <2>2. SubSeq(up[c], end + 1, Len(up[c])) \in Seq(Text) /\ up[c][1] \in Text
        <3>1. PICK u \in Seq(Text) : u = up[c]
            BY DEF Typing, TypeOK
        <3>2. end \in 0..Len(u) /\ 1 \in 1..Len(u)
            BY <2>1, <3>1
        <3> QED  BY <3>1, <3>2, CutTyped
    <2>3. up' \in [Clients -> Seq(Text)]
        BY <2>1, <2>2 DEF Typing, TypeOK
    <2>4. marker' \in [Clients -> Nat]
        <3>1. marker[c] \in Nat /\ marker[c] + 1 \in Nat
            BY DEF Typing, TypeOK
        <3>2. \/ marker' = [marker EXCEPT ![c] = marker[c] + 1]
              \/ marker' = [marker EXCEPT ![c] = marker[c]]
            BY <1>2 DEF ReadLine
        <3> QED  BY <3>1, <3>2 DEF Typing, TypeOK
    <2>5. Append(params[c], up[c][1]) \in Seq(Text)
        BY <2>2 DEF Typing, TypeOK
    <2>6. params' \in [Clients -> Seq(Text)]
        BY <1>2, <2>5 DEF ReadLine, Typing, TypeOK
    <2>7. session' \in [Clients -> Turns]
        <3>1. \E x \in Turns : session' = [session EXCEPT ![c] = x]
            BY <1>2 DEF ReadLine, Turn, Turns
        <3> QED  BY <3>1 DEF Typing, TypeOK, Turns
    <2> QED  BY <1>2, <2>3, <2>4, <2>6, <2>7, ReadLineTaken DEF Typing, TypeOK, user, Turns
<1>3. CASE BrokenLine(c)
    BY <1>3, EndSessionTyped DEF BrokenLine, Typing, TypeOK, user, Turns
<1>4. CASE Execute(c)
    <2>1. /\ typed[c] # Nothing
          /\ \E n \in 1..Len(typed[c][1]) :
                UpToEmpty(typed[c][1], n) /\ params[c] = SubSeq(Words(typed[c][1]), 1, n)
        BY <1>4 DEF Execute, Requests, RequestsOf
    <2>2. CommandLine(typed[c][1])
        <3>1. 1 \in DOMAIN typed[c]
            BY <2>1 DEF Typing, TypeOK, Nothing
        <3> QED  BY <3>1, CommandsAreLines DEF Typing
    <2>3. params[c] \in Seq(Text) /\ (params[c][1] \in Known => Argv(params[c]) = params[c])
        BY <2>1, <2>2, Executed
    <2>4. PICK a \in Seq(Text) : a = IF params[c][1] \in Known THEN Argv(params[c]) ELSE Nothing
        <3>1. Nothing \in Seq(Text)
            BY DEF Nothing
        <3>2. (IF params[c][1] \in Known THEN Argv(params[c]) ELSE Nothing) \in Seq(Text)
            BY <2>3, <3>1
        <3> QED  BY <3>2
    <2>5. executed' = [executed EXCEPT ![c] = a] /\ reply' = [reply EXCEPT ![c] = Reply(executed'[c])]
        BY <1>4, <2>4 DEF Execute
    <2>6. executed' \in [Clients -> Seq(Text)] /\ executed'[c] = a
        BY <2>5 DEF Typing, TypeOK
    <2>7. reply' \in [Clients -> Seq(Seq(Text))]
        BY <2>5, <2>6, ReplyTyped DEF Typing, TypeOK
    <2> QED  BY <1>4, <2>6, <2>7 DEF Execute, Turn, Typing, TypeOK, user
<1>5. CASE SendReply(c)
    <2>1. CASE client[c] = "left"
        BY <1>5, <2>1 DEF SendReply, Typing, TypeOK, user
    <2>2. CASE client[c] # "left"
        <3>1. PICK n \in 1..Len(reply[c]) :
                  /\ down' = [down EXCEPT ![c] = @ \o SubSeq(reply[c], 1, n)]
                  /\ reply' = [reply EXCEPT ![c] = SubSeq(@, n + 1, Len(@))]
                  /\ IF n = Len(reply[c]) THEN Turn(c, "close") ELSE UNCHANGED session
                  /\ UNCHANGED alive
            BY <1>5, <2>2 DEF SendReply
        <3>2. PICK u \in Seq(Seq(Text)), v \in Seq(Seq(Text)) : u = down[c] /\ v = reply[c]
            BY DEF Typing, TypeOK
        <3>3. u \o SubSeq(v, 1, n) \in Seq(Seq(Text)) /\ SubSeq(v, n + 1, Len(v)) \in Seq(Seq(Text))
            BY <3>1, <3>2, Moved
        <3>4. down' \in [Clients -> Seq(Seq(Text))]
            BY <3>1, <3>2, <3>3 DEF Typing, TypeOK
        <3>5. reply' \in [Clients -> Seq(Seq(Text))]
            BY <3>1, <3>2, <3>3 DEF Typing, TypeOK
        <3>6. session' \in [Clients -> Turns]
            BY <3>1 DEF Turn, Typing, TypeOK, Turns
        <3> QED  BY <1>5, <3>1, <3>4, <3>5, <3>6 DEF SendReply, Typing, TypeOK, user, Turns
    <2> QED  BY <2>1, <2>2
<1>6. CASE CloseSocket(c)
    BY <1>6, EndSessionTyped DEF CloseSocket, Typing, TypeOK, user, Turns
<1> QED  BY <1>1, <1>2, <1>3, <1>4, <1>5, <1>6 DEF SessionStep

LEMMA AcceptTyped ==
    ASSUME Typing, Accept
    PROVE  TypeOK'
<1>1. Head(listening) \in Clients /\ Tail(listening) \in Seq(Clients)
    BY DEF Accept, Typing, TypeOK
<1> QED  BY <1>1 DEF Accept, Typing, TypeOK, user

LEMMA CommandsTyped ==
    ASSUME Typing, NEW c \in Clients, NEW cmd \in Commands[c], Type(c, cmd)
    PROVE  \A d \in Clients : \A i \in DOMAIN typed'[d] : typed'[d][i] \in Commands[d]
<1> TAKE d \in Clients
<1>1. CASE d = c
    <2>1. PICK t \in Seq(Seq(Text)) : t = typed[c]
        BY DEF Typing, TypeOK
    <2>2. typed'[c] = Append(t, cmd)
        BY <2>1 DEF Type, Typing, TypeOK
    <2>3. PICK w \in Seq(Text) : w = cmd
        BY CommandsAreLines DEF CommandLine
    <2>4. /\ DOMAIN Append(t, w) = 1..(Len(t) + 1)
          /\ Append(t, w)[Len(t) + 1] = w
          /\ \A i \in 1..Len(t) : Append(t, w)[i] = t[i]
        OBVIOUS
    <2>5. \A i \in 1..Len(t) : t[i] \in Commands[c]
        BY <2>1 DEF Typing
    <2> QED  BY <1>1, <2>2, <2>3, <2>4, <2>5
<1>2. CASE d # c
    <2>1. typed'[d] = typed[d]
        BY <1>2 DEF Type, Typing, TypeOK
    <2> QED  BY <2>1 DEF Typing
<1> QED  BY <1>1, <1>2

LEMMA TypingNext ==
    ASSUME IInv, [Next]_vars
    PROVE  Typing'
<1>1. Typing /\ Requests
    BY DEF IInv
<1>2. ASSUME NEW c \in Clients, NEW cmd \in Commands[c], Type(c, cmd)  PROVE Typing'
    BY <1>1, <1>2, TypeTyped, CommandsTyped DEF Typing
<1>3. ASSUME UNCHANGED typed, TypeOK'  PROVE Typing'
    BY <1>1, <1>3 DEF Typing
<1>4. ASSUME NEW c \in Clients, Connect(c) \/ Leave(c) \/ Stall(c) \/ Resume(c) \/ UserStep(c)  PROVE Typing'
    <2>1. UNCHANGED typed
        BY <1>4 DEF Connect, Leave, Stall, Resume, UserStep, Send, ReadHead, ReadBody
    <2> QED  BY <1>1, <1>3, <1>4, <2>1, UserTyped
<1>5. ASSUME NEW c \in Clients, SessionStep(c)  PROVE Typing'
    <2>1. UNCHANGED typed
        BY <1>5 DEF SessionStep, PollSocket, IsValidSocket, ReadLine, BrokenLine, Execute, SendReply, CloseSocket, user
    <2> QED  BY <1>1, <1>3, <1>5, <2>1, SessionTyped
<1>6. CASE Accept
    <2>1. UNCHANGED typed
        BY <1>6 DEF Accept, user
    <2> QED  BY <1>1, <1>3, <1>6, <2>1, AcceptTyped
<1>7. CASE UNCHANGED vars
    BY <1>1, <1>3, <1>7 DEF vars, user, serve, Typing, TypeOK
<1> QED  BY <1>2, <1>4, <1>5, <1>6, <1>7 DEF Next

-----------------------------------------------------------------------------
(***************************************************************************)
(* Connections                                                             *)
(***************************************************************************)

\* What a step leaves as it was for a client: everything but that the server
\* may end.
Same(c) ==
    /\ client'[c] = client[c] /\ typed'[c] = typed[c] /\ status'[c] = status[c]
    /\ unsent'[c] = unsent[c] /\ got'[c] = got[c]
    /\ up'[c] = up[c] /\ down'[c] = down[c]
    /\ session'[c] = session[c] /\ marker'[c] = marker[c] /\ params'[c] = params[c]
    /\ executed'[c] = executed[c] /\ reply'[c] = reply[c]
    /\ alive' => alive

UserDoes(c) ==
    \/ Connect(c) \/ Leave(c) \/ Stall(c) \/ Resume(c) \/ UserStep(c)
    \/ \E cmd \in Commands[c] : Type(c, cmd)

\* A client and its session touch nothing of another's.
LEMMA OthersSame ==
    ASSUME Typing, NEW c \in Clients, NEW d \in Clients, c # d, UserDoes(c) \/ SessionStep(c)
    PROVE  Same(d)
<1> USE DEF Typing, TypeOK, Same, user, serve, Go, Turn, Gone, EndSession, Receive, Result
<1>1. CASE Connect(c)
    BY <1>1 DEF Connect
<1>2. CASE Leave(c)
    BY <1>2 DEF Leave
<1>3. CASE Stall(c)
    BY <1>3 DEF Stall
<1>4. CASE Resume(c)
    BY <1>4 DEF Resume
<1>5. CASE Send(c)
    <2>1. CASE HungUp(c)
        BY <1>5, <2>1 DEF Send
    <2>2. CASE ~HungUp(c)
        <3>1. PICK n \in 1..Len(unsent[c]) :
                  /\ up' = [up EXCEPT ![c] = @ \o SubSeq(unsent[c], 1, n)]
                  /\ unsent' = [unsent EXCEPT ![c] = SubSeq(@, n + 1, Len(@))]
                  /\ IF n = Len(unsent[c]) THEN Go(c, "head") ELSE UNCHANGED client
                  /\ UNCHANGED <<status, got, down>>
            BY <1>5, <2>2 DEF Send
        <3>2. up'[d] = up[d] /\ unsent'[d] = unsent[d]
            BY <3>1
        <3>3. client'[d] = client[d]
            BY <3>1
        <3> QED  BY <1>5, <3>1, <3>2, <3>3 DEF Send
    <2> QED  BY <2>1, <2>2
<1>6. CASE ReadHead(c)
    BY <1>6 DEF ReadHead
<1>7. CASE ReadBody(c)
    BY <1>7 DEF ReadBody
<1>8. CASE \E cmd \in Commands[c] : Type(c, cmd)
    BY <1>8 DEF Type
<1>9. CASE PollSocket(c)
    BY <1>9 DEF PollSocket, IsValidSocket
<1>10. CASE ReadLine(c)
    BY <1>10 DEF ReadLine
<1>11. CASE BrokenLine(c)
    BY <1>11 DEF BrokenLine
<1>12. CASE Execute(c)
    BY <1>12 DEF Execute
<1>13. CASE SendReply(c)
    BY <1>13 DEF SendReply
<1>14. CASE CloseSocket(c)
    BY <1>14 DEF CloseSocket
<1> QED
    BY <1>1, <1>2, <1>3, <1>4, <1>5, <1>6, <1>7, <1>8, <1>9, <1>10, <1>11, <1>12, <1>13, <1>14
    DEF UserDoes, UserStep, SessionStep

LEMMA SameKeeps ==
    ASSUME NEW c \in Clients, Same(c), RequestsOf(c), AnswersOf(c), SecondsOf(c)
    PROVE  RequestsOf(c)' /\ AnswersOf(c)' /\ SecondsOf(c)'
<1>1. RequestsOf(c)'
    BY DEF Same, RequestsOf, InStep
<1>2. AnswersOf(c)'
    BY DEF Same, AnswersOf, Flow
<1>3. SecondsOf(c)'
    BY DEF Same, SecondsOf, Flow, HungUp
<1> QED  BY <1>1, <1>2, <1>3

LEMMA Joining ==
    ASSUME NEW S, NEW q \in Seq(S), NEW c \in S
    PROVE  /\ DOMAIN Append(q, c) = 1..(Len(q) + 1) /\ DOMAIN q = 1..Len(q)
           /\ Append(q, c)[Len(q) + 1] = c
           /\ \A i \in 1..Len(q) : Append(q, c)[i] = q[i] /\ q[i] \in S
           /\ \A i \in 1..(Len(q) + 1) : i \in 1..Len(q) \/ i = Len(q) + 1
OBVIOUS

LEMMA Serving ==
    ASSUME NEW S, NEW q \in Seq(S), q # <<>>
    PROVE  /\ DOMAIN q = 1..Len(q) /\ DOMAIN Tail(q) = 1..(Len(q) - 1)
           /\ 1 \in 1..Len(q) /\ Head(q) = q[1] /\ q[1] \in S
           /\ \A i \in 1..(Len(q) - 1) :
                 Tail(q)[i] = q[i + 1] /\ i + 1 \in 1..Len(q) /\ i + 1 # 1 /\ q[i + 1] \in S
           /\ \A i, j \in 1..(Len(q) - 1) : i + 1 = j + 1 => i = j
OBVIOUS

LEMMA FreshNext ==
    ASSUME IInv, [Next]_vars
    PROVE  Fresh'
<1> USE DEF IInv
<1>1. ASSUME UNCHANGED listening,
             \A d \in Clients : client'[d] = "out" => client[d] = "out",
             \A d \in Clients : session[d] = "none" => session'[d] = "none",
             \A d \in Clients : client'[d] # "out" /\ session'[d] = "none" =>
                 client[d] # "out" /\ session[d] = "none"
      PROVE  Fresh'
    <2>1. \A i \in DOMAIN listening : listening[i] \in Clients
        BY DEF Typing, TypeOK
    <2> QED  BY <1>1, <2>1 DEF Fresh, Waits
<1>2. ASSUME NEW c \in Clients, Connect(c)  PROVE Fresh'
    <2>1. PICK q \in Seq(Clients) : q = listening
        BY DEF Typing, TypeOK
    <2>2. /\ client[c] = "out"
          /\ \A d \in Clients : client'[d] = "out" => client[d] = "out" /\ d # c
          /\ \A d \in Clients : d # c => client'[d] = client[d]
          /\ listening' = Append(q, c)
          /\ session' = session
        BY <1>2, <2>1 DEF Connect, Go, serve, Typing, TypeOK
    <2>3. /\ session[c] = "none"
          /\ \A d \in Clients : client[d] = "out" => session[d] = "none" /\ \A i \in 1..Len(q) : q[i] # d
          /\ \A i \in 1..Len(q) : session[q[i]] = "none"
          /\ \A i, j \in 1..Len(q) : q[i] = q[j] => i = j
        BY <2>1, <2>2, Joining DEF Fresh
    <2>4. ASSUME NEW d \in Clients, client'[d] = "out"
          PROVE  session'[d] = "none" /\ \A i \in DOMAIN listening' : listening'[i] # d
        <3>1. client[d] = "out" /\ d # c
            BY <2>2, <2>4
        <3> QED  BY <3>1, <2>2, <2>3, Joining
    <2>5. \A i \in DOMAIN listening' : session'[listening'[i]] = "none"
        BY <2>2, <2>3, Joining
    <2>6. ASSUME NEW i \in DOMAIN listening', NEW j \in DOMAIN listening', listening'[i] = listening'[j]
          PROVE  i = j
        <3>1. \A n \in 1..Len(q) : q[n] # c
            BY <2>2, <2>3
        <3>2. i \in 1..(Len(q) + 1) /\ j \in 1..(Len(q) + 1) /\ Append(q, c)[i] = Append(q, c)[j]
            BY <2>2, <2>6, Joining
        <3> QED  BY <3>1, <3>2, <2>3, Joining
    <2>7. ASSUME NEW d \in Clients, client'[d] # "out", session'[d] = "none"  PROVE Waits(d)'
        <3>1. CASE d = c
            <4>1. Len(q) + 1 \in DOMAIN Append(q, c) /\ Append(q, c)[Len(q) + 1] = c
                OBVIOUS
            <4> QED  BY <2>2, <3>1, <4>1 DEF Waits
        <3>2. CASE d # c
            <4>1. Waits(d)
                BY <2>2, <2>7, <3>2 DEF Fresh
            <4>2. PICK i \in 1..Len(q) : q[i] = d
                BY <2>1, <4>1, Joining DEF Waits
            <4>3. i \in DOMAIN Append(q, c) /\ Append(q, c)[i] = d
                BY <4>2, Joining
            <4> QED  BY <2>2, <4>3 DEF Waits
        <3> QED  BY <3>1, <3>2
    <2> QED  BY <2>4, <2>5, <2>6, <2>7 DEF Fresh
<1>3. ASSUME NEW c \in Clients, UserDoes(c), ~Connect(c)  PROVE Fresh'
    <2>1. UNCHANGED <<listening, session>>
        BY <1>3 DEF UserDoes, Leave, Stall, Resume, UserStep, Send, ReadHead, ReadBody, Type, serve
    <2>2. \A d \in Clients : client'[d] = "out" => client[d] = "out"
        <3>1. client' = client \/ \E p \in Places \ {"out"} : client' = [client EXCEPT ![c] = p]
            BY <1>3 DEF UserDoes, Leave, Stall, Resume, UserStep, Send, ReadHead, ReadBody, Type,
                        Go, Gone, Result, Places
        <3> QED  BY <3>1 DEF Places, Typing, TypeOK
    <2>3. client[c] # "out"
        BY <1>3 DEF UserDoes, Leave, Stall, Resume, UserStep, Send, ReadHead, ReadBody, Type
    <2>4. \A d \in Clients : d # c => client'[d] = client[d]
        BY <1>3, OthersSame DEF Same
    <2> QED  BY <1>1, <2>1, <2>2, <2>3, <2>4
<1>4. ASSUME NEW c \in Clients, SessionStep(c)  PROVE Fresh'
    <2>1. UNCHANGED <<listening, client>>
        BY <1>4 DEF SessionStep, PollSocket, IsValidSocket, ReadLine, BrokenLine, Execute, SendReply, CloseSocket, user
    <2>2. session[c] # "none"
        BY <1>4 DEF SessionStep, PollSocket, IsValidSocket, ReadLine, BrokenLine, Execute, SendReply, CloseSocket
    <2>3. \A d \in Clients : d # c => session'[d] = session[d]
        BY <1>4, OthersSame DEF Same
    <2>4. session'[c] # "none"
        <3>1. \/ session' = session
              \/ \E x \in Turns \ {"none"} : session' = [session EXCEPT ![c] = x]
            BY <1>4 DEF SessionStep, PollSocket, IsValidSocket, ReadLine, BrokenLine, Execute, SendReply, CloseSocket,
                        EndSession, Turn, Turns
        <3> QED  BY <2>2, <3>1 DEF Typing, TypeOK, Turns
    <2> QED  BY <1>1, <2>1, <2>2, <2>3, <2>4
<1>5. CASE Accept
    <2>1. PICK q \in Seq(Clients) : q = listening
        BY DEF Typing, TypeOK
    <2>2. /\ q # <<>>
          /\ session' = [session EXCEPT ![Head(q)] = "poll"]
          /\ listening' = Tail(q)
          /\ client' = client
        BY <1>5, <2>1 DEF Accept, user
    <2>3. /\ \A d \in Clients : client[d] = "out" => session[d] = "none" /\ \A i \in 1..Len(q) : q[i] # d
          /\ \A i \in 1..Len(q) : session[q[i]] = "none"
          /\ \A i, j \in 1..Len(q) : q[i] = q[j] => i = j
        BY <2>1, Joining DEF Fresh
    <2>4. \A d \in Clients : d # q[1] => session'[d] = session[d]
        BY <2>2, Serving DEF Typing, TypeOK
    <2>5. ASSUME NEW d \in Clients, client'[d] = "out"
          PROVE  session'[d] = "none" /\ \A i \in DOMAIN listening' : listening'[i] # d
        BY <2>2, <2>3, <2>4, <2>5, Serving
    <2>6. \A i \in DOMAIN listening' : session'[listening'[i]] = "none"
        <3> SUFFICES ASSUME NEW i \in 1..(Len(q) - 1)  PROVE session'[Tail(q)[i]] = "none"
            BY <2>2, Serving
        <3>1. Tail(q)[i] = q[i + 1] /\ i + 1 \in 1..Len(q) /\ i + 1 # 1 /\ 1 \in 1..Len(q) /\ q[i + 1] \in Clients
            BY <2>2, Serving
        <3>2. q[i + 1] # q[1]
            BY <2>3, <3>1
        <3> QED  BY <2>3, <2>4, <3>1, <3>2
    <2>7. ASSUME NEW i \in DOMAIN listening', NEW j \in DOMAIN listening', listening'[i] = listening'[j]
          PROVE  i = j
        <3>1. /\ i \in 1..(Len(q) - 1) /\ j \in 1..(Len(q) - 1)
              /\ i + 1 \in 1..Len(q) /\ j + 1 \in 1..Len(q) /\ q[i + 1] = q[j + 1]
            BY <2>2, <2>7, Serving
        <3>2. i + 1 = j + 1
            BY <2>3, <3>1
        <3> QED  BY <2>2, <3>1, <3>2, Serving
    <2>8. ASSUME NEW d \in Clients, client'[d] # "out", session'[d] = "none"  PROVE Waits(d)'
        <3>1. d # q[1]
            <4>1. Head(q) = q[1] /\ q[1] \in Clients
                BY <2>2, Serving
            <4>2. session'[q[1]] = "poll"
                BY <2>2, <4>1 DEF Typing, TypeOK
            <4> QED  BY <2>8, <4>2
        <3>2. Waits(d)
            BY <2>2, <2>4, <2>8, <3>1 DEF Fresh
        <3>3. PICK i \in 1..Len(q) : q[i] = d
            BY <2>1, <3>2, Joining DEF Waits
        <3>4. PICK j \in 1..(Len(q) - 1) : i = j + 1
            <4>1. Len(q) \in Nat /\ i # 1
                BY <2>1, <3>1, <3>3
            <4>2. i - 1 \in 1..(Len(q) - 1) /\ i = (i - 1) + 1
                BY <4>1
            <4> QED  BY <4>2
        <3>5. j \in DOMAIN Tail(q) /\ Tail(q)[j] = d
            BY <2>2, <3>3, <3>4, Serving
        <3> QED  BY <2>2, <3>5 DEF Waits
    <2> QED  BY <2>5, <2>6, <2>7, <2>8 DEF Fresh
<1>6. CASE UNCHANGED vars
    BY <1>1, <1>6 DEF vars, user, serve
<1> QED  BY <1>2, <1>3, <1>4, <1>5, <1>6 DEF Next, UserDoes

-----------------------------------------------------------------------------
(***************************************************************************)
(* Requests                                                                *)
(***************************************************************************)

LEMMA AheadFront ==
    ASSUME NEW s \in Seq(Text), NEW u \in Seq(Text), NEW cmd, NEW k, Ahead(s \o u, cmd, k)
    PROVE  Ahead(s \o <<>>, cmd, k)
<1>1. s \o <<>> = s
    OBVIOUS
<1>2. \A i \in 1..Len(s) : i \in 1..Len(s \o u) /\ (s \o u)[i] = s[i]
    OBVIOUS
<1> QED  BY <1>1, <1>2 DEF Ahead

\* What follows the first request does not matter.
LEMMA AheadMore ==
    ASSUME NEW cmd, CommandLine(cmd), NEW s \in Seq(Text), NEW u \in Seq(Text), NEW k \in Nat,
           Ahead(s, cmd, k), Len(s) + 2 * k >= Len(Request(cmd))
    PROVE  Ahead(s \o u, cmd, k) /\ Len(s \o u) + 2 * k >= Len(Request(cmd))
<1>1. Len(Request(cmd)) \in Nat
    BY RequestSent, WordsSent
<1>2. PICK l \in Nat : l = Len(Request(cmd))
    BY <1>1
<1>3. Len(s \o u) = Len(s) + Len(u) /\ \A i \in 1..Len(s) : (s \o u)[i] = s[i]
    OBVIOUS
<1>4. ASSUME NEW i \in 1..Len(s \o u), i + 2 * k <= l
      PROVE  (s \o u)[i] = Request(cmd)[i + 2 * k]
    <2>1. i \in 1..Len(s)
        BY <1>2, <1>3, <1>4
    <2> QED  BY <2>1, <1>2, <1>3, <1>4 DEF Ahead
<1>5. Len(s \o u) + 2 * k >= l
    BY <1>2, <1>3
<1> QED  BY <1>2, <1>4, <1>5 DEF Ahead

LEMMA AheadStart ==
    ASSUME NEW cmd, CommandLine(cmd)
    PROVE  Ahead(<<>> \o Request(cmd), cmd, 0) /\ Len(<<>> \o Request(cmd)) + 2 * 0 >= Len(Request(cmd))
<1>1. PICK r \in Seq(Text) : r = Request(cmd)
    BY RequestSent
<1>2. <<>> \o r = r /\ Len(r) \in Nat
    OBVIOUS
<1> QED  BY <1>1, <1>2 DEF Ahead

LEMMA FirstStays ==
    ASSUME NEW S, NEW s \in Seq(S), NEW x \in S
    PROVE  /\ Append(s, x) # <<>>
           /\ s # <<>> => Append(s, x)[1] = s[1]
           /\ s = <<>> => Append(s, x)[1] = x
           /\ Len(Append(s, x)) = Len(s) + 1
<1>1. Len(Append(s, x)) = Len(s) + 1
    OBVIOUS
<1>4. Append(s, x) # <<>>
    BY AppendProperties
<1>2. ASSUME s # <<>>  PROVE Append(s, x)[1] = s[1]
    BY <1>2
<1>3. ASSUME s = <<>>  PROVE Append(s, x)[1] = x
    BY <1>3
<1> QED  BY <1>1, <1>2, <1>3, <1>4

\* The rest of what is sent ends as the whole.
LastKept(v, n) ==
    /\ SubSeq(v, n + 1, Len(v)) # <<>>
    /\ SubSeq(v, n + 1, Len(v))[Len(SubSeq(v, n + 1, Len(v)))] = v[Len(v)]

LEMMA RestKeepsLast ==
    ASSUME NEW S, NEW v \in Seq(S), NEW n \in 1..(Len(v) - 1)
    PROVE  LastKept(v, n)
<1>5. n \in 0..Len(v)
    OBVIOUS
<1>1. PICK w \in Seq(S) : w = SubSeq(v, n + 1, Len(v))
    BY <1>5, CutTyped
<1>2. Len(w) = Len(v) - n /\ \A i \in 1..Len(w) : w[i] = v[n + i]
    BY <1>1
<1>3. Len(w) \in 1..Len(w) /\ n + Len(w) = Len(v)
    BY <1>2
<1>4. w # <<>>
    BY <1>3
<1> QED  BY <1>1, <1>2, <1>3, <1>4 DEF LastKept

LEMMA RequestEnds ==
    ASSUME NEW cmd, CommandLine(cmd)
    PROVE  Request(cmd) # Nothing /\ Request(cmd)[Len(Request(cmd))] = EOL
<1>1. Len(cmd) \in Nat /\ Request(cmd) \in Seq(Text) /\ Len(Request(cmd)) = 2 * Len(cmd) + 6
    BY WordsSent, RequestSent
<1>2. PICK k \in 0..(Len(cmd) + 2) : k = Len(cmd) + 2
    BY <1>1
<1>3. Request(cmd)[2 * k + 2] = EOL
    BY RequestSent
<1>4. Len(Request(cmd)) = 2 * k + 2 /\ Len(Request(cmd)) # 0
    BY <1>1, <1>2
<1> QED  BY <1>1, <1>3, <1>4 DEF Nothing

LEMMA FirstCommand ==
    ASSUME Typing, NEW c \in Clients, typed[c] # Nothing
    PROVE  CommandLine(typed[c][1])
<1>1. 1 \in DOMAIN typed[c]
    BY DEF Typing, TypeOK, Nothing
<1> QED  BY <1>1, CommandsAreLines DEF Typing

\* Sending, stopping and going away keep a request in step, and so does the
\* next command.
LEMMA UserRequests ==
    ASSUME IInv, NEW c \in Clients, UserDoes(c)
    PROVE  RequestsOf(c)'
<1> USE DEF IInv
<1>1. RequestsOf(c)
    BY DEF Requests
<1>2. PICK u \in Seq(Text), v \in Seq(Text) : u = up[c] /\ v = unsent[c]
    BY DEF Typing, TypeOK
<1>3. UNCHANGED <<session, marker, params>>
    BY DEF UserDoes, Connect, Leave, Stall, Resume, UserStep, Send, ReadHead, ReadBody, Type, serve
<1>4. ASSUME up'[c] = up[c], unsent'[c] = unsent[c], typed'[c] = typed[c],
             client'[c] \notin {"out", "left"}, client[c] # "left",
             client[c] \in {"send", "stalled"} => client'[c] \in {"send", "stalled"},
             client'[c] \in {"send", "stalled"} => client[c] \in {"send", "stalled"},
             client'[c] \in Posting => client[c] \in Posting
      PROVE  RequestsOf(c)'
    BY <1>1, <1>3, <1>4 DEF RequestsOf, InStep
<1> USE DEF Posting
<1>5. ASSUME up'[c] = up[c], unsent'[c] = Nothing, typed'[c] = typed[c], client'[c] = "left"
      PROVE  RequestsOf(c)'
    <2>1. ASSUME NEW k, Ahead(u \o v, typed[c][1], k)  PROVE Ahead(u \o Nothing, typed[c][1], k)
        BY <2>1, AheadFront DEF Nothing
    <2>2. ASSUME session[c] \in Reading  PROVE InStep(c)'
        BY <1>1, <1>2, <1>3, <1>5, <2>1, <2>2 DEF RequestsOf, InStep
    <2> QED  BY <1>1, <1>3, <1>5, <2>2 DEF RequestsOf
<1>6. CASE Connect(c)
    <2>1. /\ up'[c] = up[c] /\ unsent'[c] = unsent[c] /\ typed'[c] = typed[c]
          /\ client'[c] = "prompt" /\ client[c] = "out"
        BY <1>6 DEF Connect, Go, Typing, TypeOK
    <2> QED  BY <1>4, <2>1
<1>7. CASE Leave(c)
    <2>1. /\ up'[c] = up[c] /\ unsent'[c] = Nothing /\ typed'[c] = typed[c] /\ client'[c] = "left"
        BY <1>7 DEF Leave, Gone, Go, Typing, TypeOK
    <2> QED  BY <1>5, <2>1
<1>8. CASE Stall(c) \/ Resume(c)
    <2>1. /\ up'[c] = up[c] /\ unsent'[c] = unsent[c] /\ typed'[c] = typed[c]
          /\ client'[c] \in {"send", "stalled"} /\ client[c] \in {"send", "stalled"}
        BY <1>8 DEF Stall, Resume, Go, Typing, TypeOK
    <2> QED  BY <1>4, <2>1
<1>9. CASE ReadHead(c) \/ ReadBody(c)
    <2>1. /\ up'[c] = up[c] /\ unsent'[c] = unsent[c] /\ typed'[c] = typed[c]
          /\ client[c] \in {"head", "body"} /\ client'[c] \in {"head", "body", "prompt"}
        BY <1>9 DEF ReadHead, ReadBody, Result, Go, Typing, TypeOK
    <2> QED  BY <1>4, <2>1
<1>10. CASE Send(c)
    <2>1. CASE HungUp(c)
        <3>1. /\ up'[c] = up[c] /\ unsent'[c] = Nothing /\ typed'[c] = typed[c] /\ client'[c] = "left"
            BY <1>10, <2>1 DEF Send, Gone, Go, Typing, TypeOK
        <3> QED  BY <1>5, <3>1
    <2>2. CASE ~HungUp(c)
        <3>1. PICK n \in 1..Len(unsent[c]) :
                  /\ up' = [up EXCEPT ![c] = @ \o SubSeq(unsent[c], 1, n)]
                  /\ unsent' = [unsent EXCEPT ![c] = SubSeq(@, n + 1, Len(@))]
                  /\ IF n = Len(unsent[c]) THEN Go(c, "head") ELSE UNCHANGED client
            BY <1>10, <2>2 DEF Send
        <3>2. client[c] = "send" /\ typed'[c] = typed[c]
            BY <1>10 DEF Send
        <3>3. client'[c] = IF n = Len(v) THEN "head" ELSE "send"
            BY <1>2, <3>1, <3>2 DEF Go, Typing, TypeOK
        <3>4. up'[c] = u \o SubSeq(v, 1, n) /\ unsent'[c] = SubSeq(v, n + 1, Len(v))
            BY <1>2, <3>1 DEF Typing, TypeOK
        <3>5. up'[c] \o unsent'[c] = u \o v
            <4>1. n \in 1..Len(v)
                BY <1>2, <3>1
            <4>2. PICK a \in Seq(Text), b \in Seq(Text) :
                      a = SubSeq(v, 1, n) /\ b = SubSeq(v, n + 1, Len(v))
                BY <4>1, Moved
            <4>3. a \o b = v
                BY <4>1, <4>2
            <4>4. (u \o a) \o b = u \o (a \o b)
                OBVIOUS
            <4> QED  BY <3>4, <4>2, <4>3, <4>4
        <3>6. n = Len(v) => unsent'[c] = Nothing
            BY <3>4 DEF Nothing
        <3>7. v # Nothing
            BY <1>2, <3>1 DEF Nothing
        <3>8. ASSUME session[c] \in Reading  PROVE InStep(c)'
            BY <1>1, <1>2, <1>3, <3>2, <3>3, <3>5, <3>7, <3>8 DEF RequestsOf, InStep
        <3>9. n # Len(v) => unsent'[c] # Nothing /\ unsent'[c][Len(unsent'[c])] = EOL
            <4>1. v[Len(v)] = EOL
                BY <1>1, <1>2, <3>2 DEF RequestsOf
            <4>2. ASSUME n # Len(v)  PROVE LastKept(v, n)
                <5>1. n \in 1..(Len(v) - 1)
                    BY <1>2, <3>1, <4>2
                <5> QED  BY <5>1, RestKeepsLast
            <4> QED  BY <3>4, <4>1, <4>2 DEF LastKept, Nothing
        <3> QED  BY <1>1, <1>3, <3>2, <3>3, <3>6, <3>8, <3>9 DEF RequestsOf
    <2> QED  BY <2>1, <2>2
<1>11. ASSUME NEW cmd \in Commands[c], Type(c, cmd)  PROVE RequestsOf(c)'
    <2>1. /\ client[c] = "prompt" /\ client'[c] = "send"
          /\ typed'[c] = Append(typed[c], cmd)
          /\ unsent'[c] = Request(cmd) /\ up'[c] = up[c]
        BY <1>11 DEF Type, Go, Typing, TypeOK
    <2>2. PICK r \in Seq(Text) : r = Request(cmd)
        BY CommandsAreLines, RequestSent
    <2>3. v = Nothing
        BY <1>1, <1>2, <2>1 DEF RequestsOf
    <2>4. PICK t \in Seq(Seq(Text)) : t = typed[c]
        BY DEF Typing, TypeOK
    <2>5. PICK w \in Seq(Text) : w = cmd
        BY CommandsAreLines DEF CommandLine
    <2>6. Append(t, w) # <<>> /\ (t # <<>> => Append(t, w)[1] = t[1]) /\ (t = <<>> => Append(t, w)[1] = w)
        BY FirstStays
    <2>7. /\ typed'[c] # Nothing
          /\ typed[c] # Nothing => typed'[c][1] = typed[c][1]
          /\ typed[c] = Nothing => typed'[c][1] = cmd
        BY <2>1, <2>4, <2>5, <2>6 DEF Nothing
    <2>10. unsent'[c] # Nothing /\ unsent'[c][Len(unsent'[c])] = EOL
        BY <2>1, CommandsAreLines, RequestEnds
    <2>8. CASE typed[c] = Nothing
        <3>1. ASSUME session[c] \in Reading  PROVE InStep(c)'
            <4>1. u = Nothing /\ marker[c] = 0 /\ params[c] = Nothing
                BY <1>1, <1>2, <2>8, <3>1 DEF RequestsOf, InStep
            <4>2. AtLine(cmd, 0, marker[c], params[c])
                BY <4>1 DEF AtLine
            <4>3. /\ Ahead(up'[c] \o unsent'[c], cmd, 0)
                  /\ Len(up'[c] \o unsent'[c]) + 2 * 0 >= Len(Request(cmd))
                BY <1>2, <2>1, <4>1, CommandsAreLines, AheadStart DEF Nothing
            <4>4. 0 \in 0..(Len(cmd) + 2)
                BY CommandsAreLines, WordsSent
            <4> QED  BY <1>3, <2>7, <2>8, <4>2, <4>3, <4>4 DEF InStep
        <3>2. session[c] # "execute"
            BY <1>1, <2>8 DEF RequestsOf
        <3> QED  BY <1>3, <2>1, <2>7, <2>10, <3>1, <3>2 DEF RequestsOf
    <2>9. CASE typed[c] # Nothing
        <3>1. ASSUME NEW k \in 0..(Len(typed[c][1]) + 2),
                     Ahead(u \o v, typed[c][1], k),
                     Len(u \o v) + 2 * k >= Len(Request(typed[c][1]))
              PROVE  /\ Ahead(u \o r, typed[c][1], k)
                     /\ Len(u \o r) + 2 * k >= Len(Request(typed[c][1]))
            <4>1. CommandLine(typed[c][1])
                BY <2>9, FirstCommand
            <4>2. k \in Nat
                BY <4>1, WordsSent
            <4>3. u \o v = u
                BY <2>3 DEF Nothing
            <4> QED  BY <3>1, <4>1, <4>2, <4>3, AheadMore
        <3>2. ASSUME session[c] \in Reading  PROVE InStep(c)'
            BY <1>1, <1>2, <1>3, <2>1, <2>2, <2>7, <2>9, <3>1, <3>2 DEF RequestsOf, InStep
        <3> QED  BY <1>1, <1>3, <2>1, <2>7, <2>9, <2>10, <3>2 DEF RequestsOf
    <2> QED  BY <2>8, <2>9
<1> QED  BY <1>6, <1>7, <1>8, <1>9, <1>10, <1>11 DEF UserDoes, UserStep

\* What the session reads keeps it in step, until the command is whole.
LEMMA SessionRequests ==
    ASSUME IInv, NEW c \in Clients, SessionStep(c)
    PROVE  RequestsOf(c)'
<1> USE DEF IInv
<1>1. RequestsOf(c)
    BY DEF Requests
<1>2. UNCHANGED <<client, typed, unsent>>
    BY DEF SessionStep, PollSocket, IsValidSocket, ReadLine, BrokenLine, Execute, SendReply, CloseSocket, user
<1>3. ASSUME session'[c] \notin Reading \cup {"execute"}  PROVE RequestsOf(c)'
    BY <1>1, <1>2, <1>3 DEF RequestsOf
<1>4. ASSUME EndSession(c)  PROVE session'[c] = "closed"
    BY <1>4 DEF EndSession, Turn, Typing, TypeOK
<1>5. CASE PollSocket(c)
    <2>1. CASE EndSession(c)
        BY <1>3, <1>4, <2>1 DEF Reading
    <2>2. CASE ~EndSession(c)
        <3>1. UNCHANGED <<up, marker, params>> /\ session[c] = "poll" /\ session'[c] = "line"
            BY <1>5, <2>2 DEF PollSocket, IsValidSocket, Turn, Typing, TypeOK
        <3> QED  BY <1>1, <1>2, <3>1 DEF RequestsOf, InStep, Reading
    <2> QED  BY <2>1, <2>2
<1>6. CASE ReadLine(c)
    <2>1. PICK s \in Seq(Text), u \in Seq(Text) : s = up[c] /\ u = unsent[c]
        BY DEF Typing, TypeOK
    <2>2. PICK m \in Nat, p \in Seq(Text) : m = marker[c] /\ p = params[c]
        BY DEF Typing, TypeOK
    <2>3. PICK end \in 1..Len(s) :
              /\ s[end] = EOL
              /\ \A i \in 1..(end - 1) : s[i] # EOL
              /\ up' = [up EXCEPT ![c] = SubSeq(@, end + 1, Len(@))]
        BY <1>6, <2>1, ReadLineTaken
    <2>4. up'[c] = SubSeq(s, end + 1, Len(s))
        BY <2>1, <2>3 DEF Typing, TypeOK
    <2>5. session[c] = "line" /\ session'[c] = IF marker'[c] = 2 /\ params'[c] # Nothing THEN "execute" ELSE "poll"
        <3>1. session[c] = "line" /\ Turn(c, IF marker'[c] = 2 /\ params'[c] # Nothing THEN "execute" ELSE "poll")
            BY <1>6, ReadLineTaken
        <3>2. ASSUME NEW x, Turn(c, x)  PROVE session'[c] = x
            BY <3>2 DEF Turn, Typing, TypeOK
        <3> QED  BY <3>1, <3>2
    <2>6. InStep(c) /\ typed[c] # Nothing
        <3>1. InStep(c)
            BY <1>1, <2>5 DEF RequestsOf, Reading
        <3>2. s # Nothing
            BY <2>3 DEF Nothing
        <3> QED  BY <2>1, <3>1, <3>2 DEF InStep
    <2>7. PICK cmd : cmd = typed[c][1] /\ CommandLine(cmd)
        BY <2>6, FirstCommand
    <2>8. CASE m >= 2 /\ p = Nothing /\ cmd[1] = Empty
        <3>1. marker'[c] >= 2
            <4>1. marker' = [marker EXCEPT ![c] = m + 1] \/ marker' = [marker EXCEPT ![c] = m]
                BY <1>6, <2>2 DEF ReadLine
            <4>2. m + 1 >= 2
                BY <2>8
            <4>3. marker'[c] = m + 1 \/ marker'[c] = m
                BY <4>1 DEF Typing, TypeOK
            <4> QED  BY <2>8, <4>2, <4>3
        <3>2. params'[c] = Nothing
            BY <1>6, <2>2, <2>8 DEF ReadLine, Typing, TypeOK
        <3>3. session'[c] = "poll"
            BY <2>5, <3>2
        <3> QED  BY <1>1, <1>2, <2>6, <2>7, <2>8, <3>1, <3>2, <3>3 DEF RequestsOf, InStep
    <2>9. CASE ~(m >= 2 /\ p = Nothing /\ cmd[1] = Empty)
        <3>1. PICK k \in 0..(Len(cmd) + 2) :
                  /\ AtLine(cmd, k, m, p)
                  /\ Ahead(s \o u, cmd, k)
                  /\ client[c] # "left" => Len(s \o u) + 2 * k >= Len(Request(cmd))
            BY <2>1, <2>2, <2>6, <2>7, <2>9 DEF InStep
        <3>2. /\ s[1] = Lines(cmd)[k + 1]
              /\ s[1] # EOL
              /\ Ahead(up'[c] \o u, cmd, k + 1)
              /\ Len(up'[c] \o u) + 2 * (k + 1) = Len(s \o u) + 2 * k
            <4>1. CommandLine(cmd) /\ k \in 0..(Len(cmd) + 2) /\ Ahead(s \o u, cmd, k)
                BY <2>7, <3>1
            <4>2. end \in 1..Len(s) /\ s[end] = EOL /\ \A i \in 1..(end - 1) : s[i] # EOL
                BY <2>3
            <4>3. OneLine(s, u, cmd, k, end)
                BY <4>1, <4>2, LineRead
            <4> QED  BY <2>4, <4>3 DEF OneLine
        <3>3. marker'[c] = Met(m, s[1]) /\ params'[c] = Listed(p, m, s[1])
            <4>1. up[c][1] # EOL
                BY <2>1, <3>2
            <4>2. marker' = [marker EXCEPT ![c] = Met(@, up[c][1])]
                BY <1>6, <4>1, ReadLineTaken
            <4>3. params' = [params EXCEPT ![c] = Listed(@, marker[c], up[c][1])]
                BY <1>6, <4>1, ReadLineTaken
            <4>4. marker'[c] = Met(m, s[1])
                BY <2>1, <2>2, <4>2 DEF Typing, TypeOK
            <4>5. params'[c] = Listed(p, m, s[1])
                BY <2>1, <2>2, <4>3 DEF Typing, TypeOK
            <4> QED  BY <4>4, <4>5
        <3>4. CASE /\ k + 1 \in 0..(Len(cmd) + 2)
                   /\ AtLine(cmd, k + 1, Met(m, s[1]), Listed(p, m, s[1]))
                   /\ Met(m, s[1]) # 2
            <4>1. session'[c] = "poll"
                BY <2>5, <3>3, <3>4
            <4>2. client[c] # "left" => Len(up'[c] \o u) + 2 * (k + 1) >= Len(Request(cmd))
                BY <3>1, <3>2
            <4>3. InStep(c)'
                BY <1>2, <2>1, <2>6, <2>7, <3>2, <3>3, <3>4, <4>2 DEF InStep
            <4> QED  BY <1>1, <1>2, <4>1, <4>3 DEF RequestsOf
        <3>5. CASE Met(m, s[1]) = 2 /\ Listed(p, m, s[1]) = Nothing /\ cmd[1] = Empty
            <4>1. session'[c] = "poll"
                BY <2>5, <3>3, <3>5
            <4>2. typed'[c] # Nothing /\ marker'[c] >= 2 /\ params'[c] = Nothing /\ typed'[c][1][1] = Empty
                BY <1>2, <2>6, <2>7, <3>3, <3>5
            <4>3. InStep(c)'
                BY <4>2 DEF InStep
            <4> QED  BY <1>1, <1>2, <4>1, <4>3 DEF RequestsOf
        <3>6. CASE /\ Met(m, s[1]) = 2
                   /\ \E n \in 1..Len(cmd) :
                         UpToEmpty(cmd, n) /\ Listed(p, m, s[1]) = SubSeq(Words(cmd), 1, n)
            <4>1. params'[c] # Nothing
                BY <2>7, <3>3, <3>6, Executed
            <4>2. session'[c] = "execute"
                BY <2>5, <3>3, <3>6, <4>1
            <4> QED  BY <1>1, <1>2, <2>6, <2>7, <3>3, <3>6, <4>2 DEF RequestsOf, Reading
        <3>7. PICK line : line = s[1]
            OBVIOUS
        <3>8. line = Lines(cmd)[k + 1]
            BY <3>2, <3>7
        <3>9. Onward(cmd, k, m, p, line)
            BY <2>7, <3>1, <3>8, NextLine
        <3> QED  BY <3>4, <3>5, <3>6, <3>7, <3>9 DEF Onward
    <2> QED  BY <2>8, <2>9
<1>7. CASE BrokenLine(c) \/ CloseSocket(c)
    BY <1>3, <1>4, <1>7 DEF BrokenLine, CloseSocket, Reading
<1>8. CASE Execute(c)
    <2>1. session'[c] = "reply"
        BY <1>8 DEF Execute, Turn, Typing, TypeOK
    <2> QED  BY <1>3, <2>1 DEF Reading
<1>9. CASE SendReply(c)
    <2>1. session'[c] \in {"reply", "close"}
        BY <1>9 DEF SendReply, Turn, Typing, TypeOK
    <2> QED  BY <1>3, <2>1 DEF Reading
<1> QED  BY <1>5, <1>6, <1>7, <1>8, <1>9 DEF SessionStep

-----------------------------------------------------------------------------
(***************************************************************************)
(* Answers                                                                 *)
(***************************************************************************)

\* What is left of the end of an answer when its front is gone
LEMMA Joined ==
    ASSUME NEW S, NEW x \in Seq(S), NEW y \in Seq(S)
    PROVE  /\ x \o y \in Seq(S)
           /\ Len(x) \in Nat /\ Len(y) \in Nat
           /\ Len(x \o y) = Len(x) + Len(y)
           /\ \A i \in 1..Len(y) : (x \o y)[Len(x) + i] = y[i]
<1>1. /\ x \o y \in Seq(S) /\ Len(x \o y) = Len(x) + Len(y)
      /\ Len(x) \in Nat /\ Len(y) \in Nat
    OBVIOUS
<1>2. ASSUME NEW i \in 1..Len(y)  PROVE (x \o y)[Len(x) + i] = y[i]
    OBVIOUS
<1> QED  BY <1>1, <1>2

LEMMA EndOf ==
    ASSUME NEW S, NEW a \in Seq(S), Len(a) = 3, NEW k \in 1..3
    PROVE  /\ SubSeq(a, k, 3) \in Seq(S)
           /\ Len(SubSeq(a, k, 3)) = 4 - k
           /\ \A i \in 1..(4 - k) : SubSeq(a, k, 3)[i] = a[k - 1 + i]
OBVIOUS

RestOf(y, a) == y = <<>> \/ \E j \in 1..3 : y = SubSeq(a, j, 3)

LEMMA EndOfEnd ==
    ASSUME NEW S, NEW a \in Seq(S), Len(a) = 3, NEW k \in 1..3,
           NEW x \in Seq(S), NEW y \in Seq(S), x \o y = SubSeq(a, k, 3)
    PROVE  RestOf(y, a)
<1>1. PICK f \in Seq(S) : f = SubSeq(a, k, 3)
    BY EndOf
<1>2. Len(f) = 4 - k /\ \A i \in 1..(4 - k) : f[i] = a[k - 1 + i]
    BY <1>1, EndOf
<1>3. x \o y = f
    BY <1>1
<1>4. /\ Len(x) \in Nat /\ Len(y) \in Nat
      /\ Len(x) + Len(y) = 4 - k /\ \A i \in 1..Len(y) : f[Len(x) + i] = y[i]
    BY <1>2, <1>3, Joined
<1>5. CASE Len(y) = 0
    BY <1>5 DEF RestOf
<1>6. CASE Len(y) # 0
    <2>1. PICK j \in 1..3 : j = k + Len(x)
        BY <1>4, <1>6
    <2>2. PICK z \in Seq(S) : z = SubSeq(a, j, 3)
        BY EndOf
    <2>3. Len(z) = 4 - j /\ \A i \in 1..(4 - j) : z[i] = a[j - 1 + i]
        BY <2>2, EndOf
    <2>4. Len(y) = 4 - j
        BY <1>4, <2>1
    <2>5. ASSUME NEW i \in 1..Len(y)  PROVE y[i] = z[i]
        <3>1. Len(x) + i \in 1..(4 - k) /\ k - 1 + (Len(x) + i) = j - 1 + i /\ i \in 1..(4 - j)
            BY <1>4, <2>1, <2>4
        <3>2. y[i] = f[Len(x) + i] /\ f[Len(x) + i] = a[k - 1 + (Len(x) + i)]
            BY <1>2, <1>4, <3>1
        <3> QED  BY <2>3, <3>1, <3>2
    <2>6. y = z
        BY <2>3, <2>4, <2>5
    <2> QED  BY <2>2, <2>6 DEF RestOf
<1> QED  BY <1>4, <1>5, <1>6 DEF RestOf

LEMMA FlowParts ==
    ASSUME NEW S, NEW g \in Seq(S), NEW d \in Seq(S), NEW r \in Seq(S)
    PROVE  /\ g \o d \o r = g \o (d \o r)
           /\ g \o d \o r = (g \o d) \o r
           /\ <<>> \o d \o r = d \o r
           /\ <<>> \o <<>> \o r = r
           /\ g \o d \in Seq(S) /\ d \o r \in Seq(S)
           /\ Len(g \o d \o r) = Len(g) + Len(d) + Len(r)
           /\ g \o d \o r = <<>> => g = <<>> /\ d = <<>> /\ r = <<>>
<1>1. Len(g \o d \o r) = Len(g) + Len(d) + Len(r)
    OBVIOUS
<1>2. ASSUME g \o d \o r = <<>>  PROVE g = <<>> /\ d = <<>> /\ r = <<>>
    <2>1. Len(g) + Len(d) + Len(r) = 0
        BY <1>1, <1>2
    <2>2. Len(g) = 0 /\ Len(d) = 0 /\ Len(r) = 0
        BY <2>1
    <2> QED  BY <2>2
<1>3. g \o d \o r = g \o (d \o r)
    OBVIOUS
<1>4. <<>> \o d = d /\ <<>> \o <<>> \o r = r
    OBVIOUS
<1>5. g \o d \in Seq(S) /\ d \o r \in Seq(S)
    OBVIOUS
<1> QED  BY <1>1, <1>2, <1>3, <1>4, <1>5


\* What an answer is made of
Parts == Seq(Text)

LEMMA CommandTyped ==
    ASSUME NEW c \in Clients, NEW cmd \in Commands[c]
    PROVE  cmd \in Parts
<1>1. cmd \in Seq(Text \ {EOL})
    BY CommandsAreLines DEF CommandLine
<1> QED  BY <1>1 DEF Parts

LEMMA AnswerTyped ==
    ASSUME Typing, NEW c \in Clients
    PROVE  /\ got[c] \in Seq(Parts) /\ down[c] \in Seq(Parts) /\ reply[c] \in Seq(Parts)
           /\ Flow(c) \in Seq(Parts)
           /\ Reply(executed[c]) \in Seq(Parts) /\ Len(Reply(executed[c])) = 3
<1>1. PICK g \in Seq(Parts), d \in Seq(Parts), r \in Seq(Parts) :
          g = got[c] /\ d = down[c] /\ r = reply[c]
    BY DEF Typing, TypeOK, Parts
<1>2. (g \o d) \o r \in Seq(Parts)
    OBVIOUS
<1>3. executed[c] \in Seq(Text)
    BY DEF Typing, TypeOK
<1>4. Reply(executed[c]) \in Seq(Parts) /\ Len(Reply(executed[c])) = 3
    BY <1>3, ReplyTyped DEF Parts
<1> QED  BY <1>1, <1>2, <1>4 DEF Flow

\* Whoever takes from the front of the flow leaves the end of the same answer.
LEMMA LessToRead ==
    ASSUME Typing, NEW c \in Clients, AnswersOf(c),
           NEW x \in Seq(Parts), NEW y \in Seq(Parts),
           Flow(c) = x \o y, Flow(c)' = y,
           session'[c] = session[c], executed'[c] = executed[c],
           reply'[c] = reply[c],
           typed[c] # Nothing => typed'[c] # Nothing /\ typed'[c][1] = typed[c][1]
    PROVE  AnswersOf(c)'
<1>1. ASSUME Flow(c) = Nothing  PROVE y = Nothing
    <2>1. x \o y = <<>> /\ Len(x \o y) = Len(x) + Len(y) /\ Len(x) \in Nat /\ Len(y) \in Nat
        BY <1>1, Joined DEF Nothing
    <2>2. Len(y) = 0
        BY <2>1
    <2> QED  BY <2>2 DEF Nothing
<1>2. ASSUME y # Nothing
      PROVE  /\ typed[c] # Nothing
             /\ executed[c] = Verdict(typed[c][1])
             /\ \E k \in 1..3 : y = SubSeq(Reply(executed[c]), k, 3)
    <2>1. Flow(c) # Nothing
        BY <1>1, <1>2
    <2>2. PICK k \in 1..3 : Flow(c) = SubSeq(Reply(executed[c]), k, 3)
        BY <2>1 DEF AnswersOf
    <2>3. PICK a \in Seq(Parts) : a = Reply(executed[c])
        BY AnswerTyped
    <2>4. Len(a) = 3 /\ x \o y = SubSeq(a, k, 3) /\ k \in 1..3
        BY <2>2, <2>3, AnswerTyped
    <2>5. RestOf(y, a)
        BY <2>4, EndOfEnd
    <2> QED  BY <1>2, <2>1, <2>3, <2>5 DEF AnswersOf, RestOf, Nothing
<1>3. session[c] \in Reading \cup {"execute"} => executed[c] = Nothing /\ y = Nothing
    BY <1>1 DEF AnswersOf
<1> QED  BY <1>2, <1>3 DEF AnswersOf

\* A client takes of the answer what comes first, or goes away with it.
LEMMA UserAnswers ==
    ASSUME IInv, NEW c \in Clients, UserDoes(c)
    PROVE  AnswersOf(c)'
<1> USE DEF IInv
<1>1. AnswersOf(c)
    BY DEF Answers
<1>2. PICK g \in Seq(Parts), d \in Seq(Parts), r \in Seq(Parts) :
          g = got[c] /\ d = down[c] /\ r = reply[c]
    BY AnswerTyped
<1>3. UNCHANGED <<session, executed, reply>>
    BY DEF UserDoes, Connect, Leave, Stall, Resume, UserStep, Send, ReadHead, ReadBody, Type, serve
<1>4. /\ g \o d \o r = g \o (d \o r) /\ g \o d \o r = (g \o d) \o r
      /\ <<>> \o d \o r = d \o r /\ <<>> \o <<>> \o r = r
      /\ g \o d \in Seq(Parts) /\ d \o r \in Seq(Parts) /\ g \o d \o r \in Seq(Parts)
      /\ <<>> \o (g \o d \o r) = g \o d \o r
    <2>1. g \o d \in Seq(Parts) /\ d \o r \in Seq(Parts) /\ g \o d \o r \in Seq(Parts)
        OBVIOUS
    <2>2. PICK f \in Seq(Parts) : f = g \o d \o r
        BY <2>1
    <2>3. <<>> \o f = f
        OBVIOUS
    <2>4. g \o d \o r = g \o (d \o r) /\ g \o d \o r = (g \o d) \o r
        BY FlowParts
    <2>5. <<>> \o d \o r = d \o r /\ <<>> \o <<>> \o r = r
        BY FlowParts
    <2> QED  BY <2>1, <2>2, <2>3, <2>4, <2>5
<1>5. ASSUME got'[c] \o down'[c] = g \o d, typed'[c] = typed[c]  PROVE AnswersOf(c)'
    <2>1. PICK f \in Seq(Parts) : f = g \o d \o r
        BY <1>4
    <2>2. Flow(c) = f /\ Flow(c)' = f
        BY <1>2, <1>3, <1>5, <2>1 DEF Flow
    <2>3. f = <<>> \o f /\ <<>> \in Seq(Parts)
        BY <1>4, <2>1
    <2> QED  BY <1>1, <1>3, <1>5, <2>2, <2>3, LessToRead
<1>6. ASSUME Gone(c), typed'[c] = typed[c]  PROVE AnswersOf(c)'
    <2>1. got'[c] = <<>> /\ down'[c] = <<>>
        BY <1>6 DEF Gone, Nothing, Typing, TypeOK
    <2>2. Flow(c) = (g \o d) \o r /\ Flow(c)' = r
        BY <1>2, <1>3, <1>4, <2>1 DEF Flow
    <2> QED  BY <1>1, <1>3, <1>4, <1>6, <2>2, LessToRead
<1>7. ASSUME NEW n \in 1..Len(down[c]), Receive(c, n)
      PROVE  got'[c] \o down'[c] = g \o d
    <2>1. got'[c] = g \o SubSeq(d, 1, n) /\ down'[c] = SubSeq(d, n + 1, Len(d))
        BY <1>2, <1>7 DEF Receive, Typing, TypeOK
    <2>2. n \in 1..Len(d)
        BY <1>2, <1>7
    <2>3. PICK a \in Seq(Parts), b \in Seq(Parts) : a = SubSeq(d, 1, n) /\ b = SubSeq(d, n + 1, Len(d))
        BY <2>2, Moved
    <2>4. (g \o a) \o b = g \o (a \o b)
        BY SMTT(30)
    <2>5. a \o b = d
        BY <2>2, <2>3
    <2> QED  BY <2>1, <2>3, <2>4, <2>5
<1>8. CASE Connect(c) \/ Stall(c) \/ Resume(c)
    BY <1>2, <1>5, <1>8 DEF Connect, Stall, Resume
<1>9. CASE Leave(c)
    BY <1>6, <1>9 DEF Leave
<1>10. CASE Send(c)
    <2>1. CASE HungUp(c)
        BY <1>6, <1>10, <2>1 DEF Send
    <2>2. CASE ~HungUp(c)
        BY <1>2, <1>5, <1>10, <2>2 DEF Send
    <2> QED  BY <2>1, <2>2
<1>11. CASE ReadHead(c)
    BY <1>2, <1>5, <1>7, <1>11 DEF ReadHead
<1>12. CASE ReadBody(c)
    BY <1>2, <1>5, <1>7, <1>12 DEF ReadBody
<1>13. ASSUME NEW cmd \in Commands[c], Type(c, cmd)  PROVE AnswersOf(c)'
    <2>1. got'[c] = <<>> /\ down'[c] = d /\ typed'[c] = Append(typed[c], cmd)
        BY <1>2, <1>13 DEF Type, Nothing, Typing, TypeOK
    <2>2. PICK t \in Seq(Parts), w \in Parts : t = typed[c] /\ w = cmd
        BY CommandTyped DEF Typing, TypeOK, Parts
    <2>3. Append(t, w) # <<>> /\ (t # <<>> => Append(t, w)[1] = t[1])
        BY FirstStays
    <2>4. typed[c] # Nothing => typed'[c] # Nothing /\ typed'[c][1] = typed[c][1]
        BY <2>1, <2>2, <2>3 DEF Nothing
    <2>5. Flow(c) = g \o (d \o r) /\ Flow(c)' = d \o r
        BY <1>2, <1>3, <1>4, <2>1 DEF Flow
    <2> QED  BY <1>1, <1>3, <1>4, <2>4, <2>5, LessToRead
<1> QED  BY <1>8, <1>9, <1>10, <1>11, <1>12, <1>13 DEF UserDoes, UserStep

LEMMA ThreeParts ==
    ASSUME NEW S, NEW a \in Seq(S), Len(a) = 3
    PROVE  a # <<>>
OBVIOUS

LEMMA NoAnswer ==
    ASSUME Typing, NEW c \in Clients, Flow(c) = Nothing
    PROVE  got[c] = Nothing /\ down[c] = Nothing /\ reply[c] = Nothing
<1>1. PICK g \in Seq(Parts), d \in Seq(Parts), r \in Seq(Parts) :
          g = got[c] /\ d = down[c] /\ r = reply[c]
    BY AnswerTyped
<1>2. g \o d \o r = <<>>
    BY <1>1 DEF Flow, Nothing
<1>3. g = <<>> /\ d = <<>> /\ r = <<>>
    BY <1>2, FlowParts
<1> QED  BY <1>1, <1>3 DEF Nothing

LEMMA ExecuteAnswers ==
    ASSUME IInv, NEW c \in Clients, Execute(c)
    PROVE  AnswersOf(c)'
<1> USE DEF IInv
<1>1. PICK n \in 1..Len(typed[c][1]) :
          UpToEmpty(typed[c][1], n) /\ params[c] = SubSeq(Words(typed[c][1]), 1, n)
    BY DEF Execute, Requests, RequestsOf
<1>2. typed[c] # Nothing /\ CommandLine(typed[c][1])
    BY FirstCommand DEF Execute, Requests, RequestsOf
<1>3. /\ params[c] = Understood(typed[c][1])
      /\ params[c][1] = typed[c][1][1]
      /\ params[c][1] \in Known => Argv(params[c]) = params[c]
    <2>1. params[c] = Understood(typed[c][1])
        BY <1>1, <1>2, Executed
    <2>2. params[c][1] = typed[c][1][1]
        BY <1>1, <1>2, Executed
    <2>3. params[c][1] \in Known => Argv(params[c]) = params[c]
        BY <1>1, <1>2, Executed
    <2> QED  BY <2>1, <2>2, <2>3
<1>4. executed' = [executed EXCEPT ![c] = IF params[c][1] \in Known THEN Argv(params[c]) ELSE Nothing]
    BY DEF Execute
<1>5. executed'[c] = Verdict(typed[c][1])
    <2>1. CASE params[c][1] \in Known
        BY <1>3, <1>4, <2>1 DEF Verdict, Typing, TypeOK
    <2>2. CASE params[c][1] \notin Known
        BY <1>3, <1>4, <2>2 DEF Verdict, Typing, TypeOK
    <2> QED  BY <2>1, <2>2
<1>6. reply' = [reply EXCEPT ![c] = Reply(executed'[c])]
    BY DEF Execute
<1>7. reply'[c] = Reply(executed'[c]) /\ session'[c] = "reply"
    BY <1>6 DEF Execute, Turn, Typing, TypeOK
<1>8. UNCHANGED <<typed, got, down>>
    BY DEF Execute, user
<1>9. got[c] = <<>> /\ down[c] = <<>>
    BY NoAnswer DEF Execute, Answers, AnswersOf, Nothing
<1>10. PICK a \in Seq(Parts) : a = Reply(executed'[c]) /\ Len(a) = 3
    <2>1. Typing'
        BY TypingNext DEF Next, SessionStep
    <2>2. executed'[c] \in Seq(Text)
        BY <2>1 DEF Typing, TypeOK
    <2> QED  BY <2>2, ReplyTyped DEF Parts
<1>11. Flow(c)' = Reply(executed'[c])
    <2>1. <<>> \o <<>> \o a = a
        BY FlowParts
    <2> QED  BY <1>7, <1>8, <1>9, <1>10, <2>1 DEF Flow
<1>12. Reply(executed'[c]) = SubSeq(Reply(executed'[c]), 1, 3)
    <2>1. a = SubSeq(a, 1, 3)
        BY <1>10
    <2> QED  BY <1>10, <2>1
<1>13. reply'[c] # Nothing
    <2>1. a # <<>>
        BY <1>10, ThreeParts
    <2> QED  BY <1>7, <1>10, <2>1 DEF Nothing
<1> QED  BY <1>2, <1>5, <1>7, <1>8, <1>11, <1>12, <1>13 DEF AnswersOf, Reading

\* n parts of r move behind d.
Passed(g, d, r, n) == g \o (d \o SubSeq(r, 1, n)) \o SubSeq(r, n + 1, Len(r)) = g \o d \o r

LEMMA PartsPassed ==
    ASSUME NEW S, NEW g \in Seq(S), NEW d \in Seq(S), NEW r \in Seq(S), NEW n \in 1..Len(r)
    PROVE  Passed(g, d, r, n)
<1>1. PICK a \in Seq(S), b \in Seq(S) : a = SubSeq(r, 1, n) /\ b = SubSeq(r, n + 1, Len(r))
    BY Moved
<1>2. a \o b = r
    BY <1>1
<1>6. d \o a \in Seq(S)
    BY Joined
<1>3. (g \o (d \o a)) \o b = g \o ((d \o a) \o b)
    BY <1>6, SMTT(30)
<1>4. (d \o a) \o b = d \o (a \o b)
    BY SMTT(30)
<1>5. (g \o d) \o r = g \o (d \o r)
    BY SMTT(30)
<1> QED  BY <1>1, <1>2, <1>3, <1>4, <1>5 DEF Passed

\* What send() writes stays in the flow, and a session closes when it wrote all.
LEMMA FlowSent ==
    ASSUME Typing, NEW c \in Clients, AnswersOf(c), SendReply(c) \/ CloseSocket(c)
    PROVE  /\ Flow(c)' = Flow(c)
           /\ session[c] \in {"reply", "close"} /\ session'[c] \in {"reply", "close", "closed"}
           /\ session'[c] = "close" => reply'[c] = Nothing
           /\ session'[c] = "reply" => reply'[c] # Nothing
<1>1. UNCHANGED <<client, typed, got>>
    BY DEF SendReply, CloseSocket, user
<1>2. CASE CloseSocket(c)
    <2>1. session[c] = "close" /\ session'[c] = "closed" /\ reply'[c] = reply[c] /\ UNCHANGED down
        BY <1>2 DEF CloseSocket, AnswersOf, EndSession, Turn, Typing, TypeOK
    <2>2. Flow(c)' = Flow(c)
        BY <1>1, <2>1 DEF Flow
    <2> QED  BY <2>1, <2>2
<1>3. CASE SendReply(c)
    <2>1. session[c] = "reply"
        BY <1>3 DEF SendReply
    <2>2. CASE client[c] = "left"
        <3>1. UNCHANGED <<session, down, reply>>
            BY <1>3, <2>2 DEF SendReply
        <3>2. Flow(c)' = Flow(c)
            BY <1>1, <3>1 DEF Flow
        <3>3. reply[c] # Nothing
            BY <2>1 DEF AnswersOf
        <3> QED  BY <2>1, <3>1, <3>2, <3>3
    <2>3. CASE client[c] # "left"
        <3>1. PICK n \in 1..Len(reply[c]) :
                  /\ down' = [down EXCEPT ![c] = @ \o SubSeq(reply[c], 1, n)]
                  /\ reply' = [reply EXCEPT ![c] = SubSeq(@, n + 1, Len(@))]
                  /\ IF n = Len(reply[c]) THEN Turn(c, "close") ELSE UNCHANGED session
            BY <1>3, <2>3 DEF SendReply
        <3>2. PICK g \in Seq(Parts), d \in Seq(Parts), r \in Seq(Parts) :
                  g = got[c] /\ d = down[c] /\ r = reply[c]
            BY AnswerTyped
        <3>3. n \in 1..Len(r)
            BY <3>1, <3>2
        <3>4. down'[c] = d \o SubSeq(r, 1, n) /\ reply'[c] = SubSeq(r, n + 1, Len(r))
            BY <3>1, <3>2 DEF Typing, TypeOK
        <3>5. Passed(g, d, r, n)
            BY <3>3, PartsPassed
        <3>6. Flow(c)' = Flow(c)
            BY <1>1, <3>2, <3>4, <3>5 DEF Flow, Passed
        <3>7. \/ session'[c] = "reply" /\ reply'[c] # Nothing
              \/ session'[c] = "close" /\ reply'[c] = Nothing
            <4>1. CASE n = Len(reply[c])
                <5>1. SubSeq(r, n + 1, Len(r)) = <<>>
                    BY <3>2, <3>3, <4>1
                <5>2. session'[c] = "close"
                    BY <3>1, <4>1 DEF Turn, Typing, TypeOK
                <5> QED  BY <3>4, <5>1, <5>2 DEF Nothing
            <4>2. CASE n # Len(reply[c])
                <5>1. n \in 1..(Len(r) - 1)
                    BY <3>2, <3>3, <4>2
                <5>2. LastKept(r, n)
                    BY <5>1, RestKeepsLast
                <5>3. session'[c] = "reply"
                    BY <2>1, <3>1, <4>2
                <5> QED  BY <3>4, <5>2, <5>3 DEF LastKept, Nothing
            <4> QED  BY <4>1, <4>2
        <3> QED  BY <2>1, <3>6, <3>7
    <2> QED  BY <2>2, <2>3
<1> QED  BY <1>2, <1>3

\* A session answers once, with the answer to what it executed.
LEMMA SessionAnswers ==
    ASSUME IInv, NEW c \in Clients, SessionStep(c)
    PROVE  AnswersOf(c)'
<1> USE DEF IInv
<1>1. AnswersOf(c)
    BY DEF Answers
<1>2. UNCHANGED <<client, typed, got>>
    BY DEF SessionStep, PollSocket, IsValidSocket, ReadLine, BrokenLine, Execute, SendReply, CloseSocket, user
<1>3. ASSUME session[c] \in Reading, UNCHANGED <<executed, down>>,
             reply'[c] = reply[c] \/ reply'[c] = Nothing,
             session'[c] \notin {"reply", "close"}
      PROVE  AnswersOf(c)'
    <2>1. executed[c] = Nothing /\ Flow(c) = Nothing
        BY <1>1, <1>3 DEF AnswersOf
    <2>2. got[c] = <<>> /\ down[c] = <<>> /\ reply[c] = <<>>
        BY <2>1, NoAnswer DEF Nothing
    <2>3. Flow(c)' = Nothing
        BY <1>2, <1>3, <2>1, <2>2 DEF Flow, Nothing
    <2> QED  BY <1>2, <1>3, <2>1, <2>3 DEF AnswersOf
<1>4. ASSUME EndSession(c)  PROVE session'[c] = "closed" /\ reply'[c] = Nothing
    BY <1>4 DEF EndSession, Turn, Typing, TypeOK
<1>5. CASE PollSocket(c)
    <2>1. CASE EndSession(c)
        BY <1>3, <1>4, <1>5, <2>1 DEF PollSocket, IsValidSocket, Reading
    <2>2. CASE ~EndSession(c)
        <3>1. session'[c] = "line" /\ session[c] = "poll" /\ UNCHANGED <<executed, down, reply>>
            BY <1>5, <2>2 DEF PollSocket, IsValidSocket, Turn, Typing, TypeOK
        <3> QED  BY <1>3, <3>1 DEF Reading
    <2> QED  BY <2>1, <2>2
<1>6. CASE ReadLine(c)
    <2>1. session[c] = "line" /\ UNCHANGED <<executed, down, reply>>
        BY <1>6 DEF ReadLine
    <2>2. session'[c] \in {"poll", "execute"}
        BY <1>6, ReadLineTaken DEF Turn, Typing, TypeOK
    <2> QED  BY <1>3, <2>1, <2>2 DEF Reading
<1>7. CASE BrokenLine(c)
    BY <1>3, <1>4, <1>7 DEF BrokenLine, Reading
<1>8. CASE SendReply(c) \/ CloseSocket(c)
    <2>1. UNCHANGED executed
        BY <1>8 DEF SendReply, CloseSocket
    <2> QED  BY <1>1, <1>2, <1>8, <2>1, FlowSent DEF AnswersOf, Reading
<1>9. CASE Execute(c)
    BY <1>9, ExecuteAnswers
<1> QED  BY <1>5, <1>6, <1>7, <1>8, <1>9 DEF SessionStep


-----------------------------------------------------------------------------
(***************************************************************************)
(* Second commands                                                         *)
(***************************************************************************)

LEMMA FlowReceived ==
    ASSUME Typing, NEW c \in Clients, NEW n \in 1..Len(down[c]), Receive(c, n), reply'[c] = reply[c]
    PROVE  Flow(c)' = Flow(c) /\ got'[c] # Nothing
<1>1. PICK g \in Seq(Parts), d \in Seq(Parts), r \in Seq(Parts) :
          g = got[c] /\ d = down[c] /\ r = reply[c]
    BY AnswerTyped
<1>2. n \in 1..Len(d)
    BY <1>1
<1>3. PICK a \in Seq(Parts), b \in Seq(Parts) : a = SubSeq(d, 1, n) /\ b = SubSeq(d, n + 1, Len(d))
    BY <1>2, Moved
<1>4. got'[c] = g \o a /\ down'[c] = b
    BY <1>1, <1>3 DEF Receive, Typing, TypeOK
<1>5. (g \o a) \o b = g \o (a \o b)
    OBVIOUS
<1>6. a \o b = d
    BY <1>2, <1>3
<1>7. g \o a # <<>>
    <2>1. Len(a) = n
        BY <1>2, <1>3
    <2>2. Len(g \o a) = Len(g) + Len(a) /\ Len(g) \in Nat
        BY Joined
    <2>3. Len(g \o a) # 0
        BY <1>2, <2>1, <2>2
    <2> QED  BY <2>3
<1> QED  BY <1>1, <1>4, <1>5, <1>6, <1>7 DEF Flow, Nothing

\* An answer has three parts, and what was read of it is no longer to come.
LEMMA FlowLength ==
    ASSUME Typing, NEW c \in Clients, AnswersOf(c)
    PROVE  /\ Len(Flow(c)) \in Nat /\ Len(Flow(c)) <= 3
           /\ Len(got[c]) \in Nat /\ Len(got[c]) <= Len(Flow(c))
           /\ Len(down[c] \o reply[c]) \in Nat
           /\ Len(down[c] \o reply[c]) = Len(Flow(c)) - Len(got[c])
           /\ got[c] # Nothing => Len(got[c]) > 0 /\ Flow(c) # Nothing
<1>1. PICK g \in Seq(Parts), d \in Seq(Parts), r \in Seq(Parts) :
          g = got[c] /\ d = down[c] /\ r = reply[c]
    BY AnswerTyped
<1>2. PICK e \in Seq(Parts) : e = d \o r
    <2>1. d \o r \in Seq(Parts)
        BY Joined
    <2> QED  BY <2>1
<1>3. g \o d \o r = g \o (d \o r)
    BY FlowParts
<1>4. Flow(c) = g \o e
    BY <1>1, <1>2, <1>3 DEF Flow
<1>5. Len(g \o e) = Len(g) + Len(e) /\ Len(g) \in Nat /\ Len(e) \in Nat
    BY Joined
<1>6. Len(Flow(c)) \in Nat /\ Len(Flow(c)) <= 3
    <2>1. CASE Flow(c) = Nothing
        BY <2>1 DEF Nothing
    <2>2. CASE Flow(c) # Nothing
        <3>1. PICK k \in 1..3 : Flow(c) = SubSeq(Reply(executed[c]), k, 3)
            BY <2>2 DEF AnswersOf
        <3>2. PICK a \in Seq(Parts) : a = Reply(executed[c]) /\ Len(a) = 3
            BY AnswerTyped
        <3>3. Len(SubSeq(a, k, 3)) = 4 - k
            BY <3>2, EndOf
        <3> QED  BY <3>1, <3>2, <3>3
    <2> QED  BY <2>1, <2>2
<1>7. ASSUME g # <<>>  PROVE Len(g) > 0 /\ g \o e # <<>>
    <2>1. Len(g) # 0
        BY <1>7
    <2>2. Len(g \o e) # 0
        BY <1>5, <2>1
    <2> QED  BY <1>5, <2>1, <2>2
<1>8. /\ Len(g) \in Nat /\ Len(e) \in Nat /\ Len(g) <= Len(Flow(c))
      /\ Len(e) = Len(Flow(c)) - Len(g)
      /\ g # Nothing => Len(g) > 0 /\ Flow(c) # Nothing
    BY <1>4, <1>5, <1>7 DEF Nothing
<1> QED  BY <1>1, <1>2, <1>6, <1>8


LEMMA UserSeconds ==
    ASSUME IInv, NEW c \in Clients, UserDoes(c)
    PROVE  SecondsOf(c)'
<1> USE DEF IInv
<1>1. RequestsOf(c) /\ AnswersOf(c) /\ SecondsOf(c)
    BY DEF Requests, Answers, Seconds
<1>2. UNCHANGED <<session, alive, reply>> /\ (HungUp(c)' <=> HungUp(c))
    BY DEF UserDoes, Connect, Leave, Stall, Resume, UserStep, Send, ReadHead, ReadBody, Type, serve, HungUp
<1>3. Len(typed[c]) \in Nat /\ (typed[c] # Nothing => Len(typed[c]) >= 1)
    BY DEF Typing, TypeOK, Nothing
<1>4. CASE Connect(c)
    <2>1. typed'[c] = Nothing /\ client[c] = "out" /\ status'[c] = status[c]
        BY <1>1, <1>4 DEF Connect, RequestsOf
    <2>2. Len(typed'[c]) = 0
        BY <2>1 DEF Nothing
    <2> QED  BY <1>1, <2>1, <2>2 DEF SecondsOf
<1>5. ASSUME Gone(c), UNCHANGED typed  PROVE SecondsOf(c)'
    <2>1. client'[c] = "left" /\ status'[c] = "none"
        BY <1>5 DEF Gone, Go, Typing, TypeOK
    <2> QED  BY <1>1, <1>2, <1>5, <2>1 DEF SecondsOf
<1>6. ASSUME Flow(c)' = Flow(c), UNCHANGED typed, status'[c] # "ok",
             client[c] \in {"send", "stalled"}, client'[c] \in {"send", "stalled"} \/ ~HungUp(c),
             client'[c] \in {"send", "stalled", "head"}
      PROVE  SecondsOf(c)'
    BY <1>1, <1>2, <1>6 DEF SecondsOf
<1>7. ASSUME Flow(c)' = Flow(c), UNCHANGED typed, client[c] \in {"head", "body"},
             client'[c] \in {"head", "body", "prompt"},
             client'[c] = "prompt" => HungUp(c) \/ got'[c] # Nothing,
             status'[c] = "ok" => client'[c] = "prompt" /\ Len(typed[c]) = 1 /\ Len(got'[c]) = 3
      PROVE  SecondsOf(c)'
    BY <1>1, <1>2, <1>7 DEF SecondsOf
<1>8. client[c] # "prompt" => status[c] # "ok"
    BY <1>1 DEF SecondsOf
<1>9. CASE Stall(c) \/ Resume(c)
    <2>1. UNCHANGED <<typed, status, got, down, reply>> /\ Flow(c)' = Flow(c)
        BY <1>9 DEF Stall, Resume, serve, Flow
    <2>2. client[c] \in {"send", "stalled"} /\ client'[c] \in {"send", "stalled"}
        BY <1>9 DEF Stall, Resume, Go, Typing, TypeOK
    <2> QED  BY <1>6, <1>8, <2>1, <2>2
<1>10. CASE Leave(c)
    BY <1>5, <1>10 DEF Leave
<1>11. CASE Send(c)
    <2>1. CASE HungUp(c)
        BY <1>5, <1>11, <2>1 DEF Send
    <2>2. CASE ~HungUp(c)
        <3>1. UNCHANGED <<typed, status, got, down, reply>> /\ client[c] = "send"
            BY <1>11, <2>2 DEF Send, serve
        <3>2. client'[c] \in {"send", "head"}
            BY <1>11, <2>2 DEF Send, Go, Typing, TypeOK
        <3>3. Flow(c)' = Flow(c)
            BY <3>1 DEF Flow
        <3> QED  BY <1>6, <1>8, <2>2, <3>1, <3>2, <3>3
    <2> QED  BY <2>1, <2>2
<1>12. CASE ReadHead(c)
    <2>1. client[c] = "head" /\ UNCHANGED typed /\ status[c] # "ok"
        BY <1>8, <1>12 DEF ReadHead
    <2>2. \/ \E n \in 1..Len(down[c]) : Receive(c, n)
          \/ UNCHANGED <<got, down>> /\ HungUp(c)
        BY <1>12 DEF ReadHead
    <2>3. Flow(c)' = Flow(c) /\ (HungUp(c) \/ got'[c] # Nothing)
        BY <1>2, <2>2, FlowReceived DEF Flow
    <2>4. client'[c] \in {"head", "body", "prompt"} /\ status'[c] # "ok"
        BY <1>12, <2>1 DEF ReadHead, Result, Go, Typing, TypeOK
    <2> QED  BY <1>7, <2>1, <2>3, <2>4
<1>13. CASE ReadBody(c)
    <2>1. client[c] = "body" /\ UNCHANGED typed /\ status[c] # "ok"
        BY <1>8, <1>13 DEF ReadBody
    <2>2. CASE \E n \in 1..Len(down[c]) : Receive(c, n) /\ UNCHANGED <<client, status>>
        <3>1. Flow(c)' = Flow(c)
            BY <1>2, <2>2, FlowReceived
        <3>2. client'[c] = "body" /\ status'[c] # "ok"
            BY <2>1, <2>2
        <3> QED  BY <1>7, <2>1, <3>1, <3>2
    <2>3. CASE /\ Len(got[c]) = 3 \/ (down[c] = Nothing /\ HungUp(c))
               /\ Result(c, IF Complete(got[c]) THEN "ok" ELSE "format")
               /\ UNCHANGED <<got, down>>
        <3>1. Flow(c)' = Flow(c) /\ client'[c] = "prompt"
            BY <1>2, <2>3 DEF Flow, Result, Go, Typing, TypeOK
        <3>2. HungUp(c) \/ got'[c] # Nothing
            BY <2>3 DEF Nothing
        <3>3. ASSUME status'[c] = "ok"  PROVE Len(typed[c]) = 1 /\ Len(got'[c]) = 3
            <4>1. Len(got[c]) = 3 /\ got'[c] = got[c]
                BY <2>3, <3>3 DEF Result, Complete, Typing, TypeOK
            <4>2. got[c] # Nothing
                BY <4>1 DEF Nothing
            <4>3. Len(Flow(c)) \in Nat /\ Len(Flow(c)) >= 3 /\ Flow(c) # Nothing
                BY <1>1, <4>1, <4>2, FlowLength
            <4>4. typed[c] # Nothing
                BY <1>1, <4>3 DEF AnswersOf
            <4>5. ~ Len(typed[c]) > 1
                BY <1>1, <2>1, <4>3 DEF SecondsOf
            <4>6. PICK l \in Nat : l = Len(typed[c])
                BY <1>3
            <4>7. l = 1
                <5>1. Len(typed[c]) >= 1
                    BY <1>3, <4>4
                <5>2. l >= 1
                    BY <4>6, <5>1
                <5>3. ~ l > 1
                    BY <4>5, <4>6
                <5> QED  BY <5>2, <5>3
            <4> QED  BY <4>1, <4>6, <4>7
        <3> QED  BY <1>7, <2>1, <3>1, <3>2, <3>3
    <2> QED  BY <1>13, <2>2, <2>3 DEF ReadBody
<1>14. ASSUME NEW cmd \in Commands[c], Type(c, cmd)  PROVE SecondsOf(c)'
    <2>1. /\ client[c] = "prompt" /\ client'[c] = "send" /\ status'[c] = "none"
          /\ got'[c] = <<>> /\ UNCHANGED down /\ typed'[c] = Append(typed[c], cmd)
        BY <1>14 DEF Type, Go, Nothing, Typing, TypeOK
    <2>2. Len(typed'[c]) = Len(typed[c]) + 1
        <3>1. PICK t \in Seq(Parts), w \in Parts : t = typed[c] /\ w = cmd
            BY CommandTyped DEF Typing, TypeOK, Parts
        <3>2. Len(Append(t, w)) = Len(t) + 1
            BY FirstStays
        <3> QED  BY <2>1, <3>1, <3>2
    <2>3. CASE typed[c] = Nothing
        <3>1. Len(typed[c]) = 0
            BY <2>3 DEF Nothing
        <3>2. ~ Len(typed'[c]) > 1
            BY <2>2, <3>1
        <3> QED  BY <2>1, <3>2 DEF SecondsOf
    <2>4. CASE typed[c] # Nothing
        <3>1. HungUp(c) \/ got[c] # Nothing
            BY <1>1, <2>1, <2>4 DEF SecondsOf
        <3>2. session[c] \in {"none", "poll", "line", "execute", "reply", "close", "closed"}
            BY DEF Typing, TypeOK
        <3>3. got[c] # Nothing => session[c] \in {"reply", "close", "closed"}
            <4>1. got[c] # Nothing => Flow(c) # Nothing
                BY <1>1, FlowLength
            <4> QED  BY <1>1, <3>2, <4>1 DEF AnswersOf, Reading
        <3>4. session'[c] \in {"reply", "close", "closed"} \/ ~alive'
            BY <1>2, <3>1, <3>3 DEF HungUp
        <3>5. Len(Flow(c)') < 3 \/ HungUp(c)'
            <4>1. PICK d \in Seq(Parts), r \in Seq(Parts) : d = down[c] /\ r = reply[c]
                BY AnswerTyped
            <4>2. <<>> \o d \o r = d \o r
                BY FlowParts
            <4>3. Flow(c)' = down[c] \o reply[c]
                BY <1>2, <2>1, <4>1, <4>2 DEF Flow
            <4>4. ASSUME got[c] # Nothing  PROVE Len(down[c] \o reply[c]) < 3
                <5>1. Len(got[c]) > 0
                    BY <1>1, <4>4, FlowLength
                <5>2. /\ Len(Flow(c)) \in Nat /\ Len(Flow(c)) <= 3 /\ Len(got[c]) \in Nat
                      /\ Len(down[c] \o reply[c]) = Len(Flow(c)) - Len(got[c])
                    BY <1>1, FlowLength
                <5>3. PICK f \in Nat, g \in Nat : f = Len(Flow(c)) /\ g = Len(got[c])
                    BY <5>2
                <5>4. f - g < 3
                    BY <5>1, <5>2, <5>3
                <5> QED  BY <5>2, <5>3, <5>4
            <4> QED  BY <1>2, <3>1, <4>3, <4>4
        <3> QED  BY <2>1, <3>4, <3>5 DEF SecondsOf
    <2> QED  BY <2>3, <2>4
<1> QED  BY <1>4, <1>9, <1>10, <1>11, <1>12, <1>13, <1>14 DEF UserDoes, UserStep

\* A session does not answer a second command.
LEMMA SessionSeconds ==
    ASSUME IInv, NEW c \in Clients, SessionStep(c)
    PROVE  SecondsOf(c)'
<1> USE DEF IInv
<1>1. AnswersOf(c) /\ SecondsOf(c)
    BY DEF Answers, Seconds
<1>2. UNCHANGED <<client, typed, status, got>>
    BY DEF SessionStep, PollSocket, IsValidSocket, ReadLine, BrokenLine, Execute, SendReply, CloseSocket, user
<1>3. ~HungUp(c)
    BY DEF SessionStep, PollSocket, IsValidSocket, ReadLine, BrokenLine, Execute, SendReply, CloseSocket, HungUp
<1>4. ASSUME Len(typed[c]) > 1
      PROVE  /\ session'[c] \in {"reply", "close", "closed"}
             /\ Flow(c)' = Flow(c)
    <2>1. session[c] \in {"reply", "close"}
        BY <1>1, <1>3, <1>4 DEF SecondsOf, HungUp
    <2>2. SendReply(c) \/ CloseSocket(c)
        BY <2>1 DEF SessionStep, PollSocket, IsValidSocket, ReadLine, BrokenLine, Execute
    <2> QED  BY <1>1, <2>2, FlowSent
<1> QED  BY <1>1, <1>2, <1>3, <1>4 DEF SecondsOf


-----------------------------------------------------------------------------
(***************************************************************************)
(* The invariant is inductive                                              *)
(***************************************************************************)

LEMMA IInvInit == Init => IInv
<1> SUFFICES ASSUME Init  PROVE IInv
    OBVIOUS
<1> USE DEF Init, Nothing
<1>1. TypeOK
    BY DEF TypeOK
<1>2. Typing
    BY <1>1 DEF Typing
<1>3. Fresh
    BY DEF Fresh
<1>4. Requests
    BY DEF Requests, RequestsOf, InStep, Posting
<1>5. Answers
    <2>1. ASSUME NEW c \in Clients  PROVE AnswersOf(c)
        <3>1. Flow(c) = <<>>
            BY DEF Flow
        <3> QED  BY <3>1 DEF AnswersOf
    <2> QED  BY <2>1 DEF Answers
<1>6. Seconds
    BY DEF Seconds, SecondsOf
<1> QED  BY <1>2, <1>3, <1>4, <1>5, <1>6 DEF IInv

\* accept() gives the first connection that waits a session, which knows nothing.
LEMMA AcceptKeeps ==
    ASSUME IInv, Accept, NEW c \in Clients
    PROVE  RequestsOf(c)' /\ AnswersOf(c)' /\ SecondsOf(c)'
<1> USE DEF IInv
<1>1. RequestsOf(c) /\ AnswersOf(c) /\ SecondsOf(c)
    BY DEF Requests, Answers, Seconds
<1>2. /\ UNCHANGED <<client, typed, status, unsent, got, up, down, marker, params, executed, reply, alive>>
      /\ alive
      /\ session' = [session EXCEPT ![Head(listening)] = "poll"]
    BY DEF Accept, user
<1>3. CASE c # Head(listening)
    <2>1. Same(c)
        BY <1>2, <1>3 DEF Same, Typing, TypeOK
    <2> QED  BY <1>1, <2>1, SameKeeps
<1>4. CASE c = Head(listening)
    <2>1. session'[c] = "poll"
        BY <1>2, <1>4 DEF Typing, TypeOK
    <2>2. session[c] = "none"
        <3>1. PICK q \in Seq(Clients) : q = listening
            BY DEF Typing, TypeOK
        <3>2. q # <<>>
            BY <3>1 DEF Accept
        <3>3. 1 \in DOMAIN q /\ Head(q) = q[1]
            BY <3>2, Serving
        <3> QED  BY <1>4, <3>1, <3>3 DEF Fresh
    <2>3. RequestsOf(c)'
        BY <1>1, <1>2, <2>1, <2>2 DEF RequestsOf, InStep, Reading
    <2>4. AnswersOf(c)'
        BY <1>1, <1>2, <2>1, <2>2 DEF AnswersOf, Flow, Reading
    <2>5. SecondsOf(c)'
        BY <1>1, <1>2, <2>1, <2>2 DEF SecondsOf, Flow, HungUp
    <2> QED  BY <2>3, <2>4, <2>5
<1> QED  BY <1>3, <1>4

LEMMA IInvNext ==
    ASSUME IInv, [Next]_vars
    PROVE  IInv'
<1>1. Typing' /\ Fresh'
    BY TypingNext, FreshNext
<1>2. Typing /\ \A d \in Clients : RequestsOf(d) /\ AnswersOf(d) /\ SecondsOf(d)
    BY DEF IInv, Requests, Answers, Seconds
<1>3. ASSUME NEW d \in Clients  PROVE RequestsOf(d)' /\ AnswersOf(d)' /\ SecondsOf(d)'
    <2>1. ASSUME NEW c \in Clients, UserDoes(c)  PROVE RequestsOf(d)' /\ AnswersOf(d)' /\ SecondsOf(d)'
        <3>1. CASE c = d
            BY <2>1, <3>1, UserRequests, UserAnswers, UserSeconds
        <3>2. CASE c # d
            BY <1>2, <2>1, <3>2, OthersSame, SameKeeps
        <3> QED  BY <3>1, <3>2
    <2>2. ASSUME NEW c \in Clients, SessionStep(c)  PROVE RequestsOf(d)' /\ AnswersOf(d)' /\ SecondsOf(d)'
        <3>1. CASE c = d
            BY <2>2, <3>1, SessionRequests, SessionAnswers, SessionSeconds
        <3>2. CASE c # d
            BY <1>2, <2>2, <3>2, OthersSame, SameKeeps
        <3> QED  BY <3>1, <3>2
    <2>3. CASE Accept
        BY <2>3, AcceptKeeps
    <2>4. CASE UNCHANGED vars
        <3>1. Same(d)
            BY <2>4 DEF vars, user, serve, Same
        <3> QED  BY <1>2, <3>1, SameKeeps
    <2> QED  BY <2>1, <2>2, <2>3, <2>4 DEF Next, UserDoes
<1> QED  BY <1>1, <1>3 DEF IInv, Requests, Answers, Seconds

LEMMA Invariance == Spec => []IInv
<1>1. Init => IInv
    BY IInvInit
<1>2. IInv /\ [Next]_vars => IInv'
    BY IInvNext
<1> QED  BY <1>1, <1>2, PTL DEF Spec

-----------------------------------------------------------------------------
(***************************************************************************)
(* Theorems                                                                *)
(***************************************************************************)

\* Both programs stay in the places they have, and what is on the way between
\* them are lines and parts of answers.
THEOREM TypeInvariant == Spec => []TypeOK
<1>1. IInv => TypeOK
    BY DEF IInv, Typing
<1> QED  BY <1>1, Invariance, PTL

\* However a request is cut on its way, a session of dap_cli_server.c calls a
\* command with the arguments its client was given, or calls none.
THEOREM WholeCommand == Spec => []RunsAsAsked
<1>1. IInv => RunsAsAsked
    <2> SUFFICES ASSUME IInv, NEW c \in Clients, executed[c] # Nothing
                 PROVE  typed[c] # Nothing /\ executed[c] = Understood(typed[c][1])
        BY DEF RunsAsAsked
    <2>1. typed[c] # Nothing /\ executed[c] = Verdict(typed[c][1])
        BY DEF IInv, Answers, AnswersOf
    <2> QED  BY <2>1 DEF Verdict
<1> QED  BY <1>1, Invariance, PTL

LEMMA WholeAnswer ==
    ASSUME Typing, NEW c \in Clients, AnswersOf(c), Len(got[c]) = 3
    PROVE  got[c] = Reply(executed[c]) /\ executed[c] = Verdict(typed[c][1])
<1>1. PICK g \in Seq(Parts), d \in Seq(Parts), r \in Seq(Parts) :
          g = got[c] /\ d = down[c] /\ r = reply[c]
    BY AnswerTyped
<1>2. PICK e \in Seq(Parts) : e = d \o r /\ Flow(c) = g \o e
    <2>1. d \o r \in Seq(Parts)
        BY Joined
    <2>2. g \o d \o r = g \o (d \o r)
        BY FlowParts
    <2> QED  BY <1>1, <2>1, <2>2 DEF Flow
<1>3. Len(g \o e) = Len(g) + Len(e) /\ Len(e) \in Nat
    BY Joined
<1>4. Len(g) = 3
    BY <1>1
<1>5. ASSUME g = <<>>  PROVE FALSE
    <2>1. Len(g) = 0
        BY <1>5
    <2> QED  BY <1>4, <2>1
<1>6. Flow(c) # Nothing
    BY <1>1, <1>5, FlowLength DEF Nothing
<1>7. PICK k \in 1..3 : Flow(c) = SubSeq(Reply(executed[c]), k, 3)
    BY <1>6 DEF AnswersOf
<1>8. PICK a \in Seq(Parts) : a = Reply(executed[c]) /\ Len(a) = 3
    BY AnswerTyped
<1>9. Len(SubSeq(a, k, 3)) = 4 - k /\ g \o e = SubSeq(a, k, 3)
    BY <1>2, <1>7, <1>8, EndOf
<1>10. Len(e) = 0 /\ k = 1
    BY <1>3, <1>4, <1>9
<1>11. SubSeq(a, 1, 3) = a
    BY <1>8
<1>12. g \o e = g
    BY <1>10
<1> QED  BY <1>1, <1>6, <1>8, <1>9, <1>10, <1>11, <1>12 DEF AnswersOf

\* drs_server_cli reports success for the answer to the command it sent, which
\* is the only one of its connection, and has all of it.
THEOREM DoneIsAnswered == Spec => []OkMeansAnswered
<1>1. IInv => OkMeansAnswered
    <2> SUFFICES ASSUME IInv, NEW c \in Clients, status[c] = "ok"
                 PROVE  /\ Len(typed[c]) = 1
                        /\ got[c] = Reply(IF typed[c][1][1] \in Known THEN Understood(typed[c][1]) ELSE Nothing)
        BY DEF OkMeansAnswered
    <2>1. Len(typed[c]) = 1 /\ Len(got[c]) = 3
        BY DEF IInv, Seconds, SecondsOf
    <2>2. got[c] = Reply(executed[c]) /\ executed[c] = Verdict(typed[c][1])
        BY <2>1, WholeAnswer DEF IInv, Answers
    <2> QED  BY <2>1, <2>2 DEF Verdict
<1> QED  BY <1>1, Invariance, PTL

\* A whole request has a line to read, wherever the session is in it.
LEMMA LineToRead ==
    ASSUME NEW cmd, CommandLine(cmd), NEW s \in Seq(Text), NEW k \in 0..(Len(cmd) + 2),
           Ahead(s \o <<>>, cmd, k), Len(s \o <<>>) + 2 * k >= Len(Request(cmd))
    PROVE  Contains(s, EOL)
<1>1. s \o <<>> = s
    OBVIOUS
<1>2. Len(cmd) \in Nat /\ Len(Request(cmd)) = 2 * Len(cmd) + 6
    BY WordsSent, RequestSent
<1>3. 2 \in 1..Len(s) /\ 2 + 2 * k <= Len(Request(cmd))
    BY <1>1, <1>2
<1>4. s[2] = Request(cmd)[2 + 2 * k]
    BY <1>1, <1>3 DEF Ahead
<1>5. Request(cmd)[2 * k + 2] = EOL
    BY RequestSent
<1>6. 2 + 2 * k = 2 * k + 2
    BY <1>2
<1> QED  BY <1>3, <1>4, <1>5, <1>6 DEF Contains

\* dap_app_cli_post_command() and s_thread_one_client_func() never wait for
\* each other, wherever send() and recv() cut a command and its answer.
THEOREM NeverWaitForEachOther == Spec => []NeverStuck
<1>1. IInv => NeverStuck
    <2> SUFFICES ASSUME IInv, NEW c \in Clients
                 PROVE  NotStuck(c)
        BY DEF NeverStuck
    <2>1. RequestsOf(c) /\ AnswersOf(c)
        BY DEF IInv, Requests, Answers
    <2>2. PICK u \in Seq(Text), v \in Seq(Text) : u = up[c] /\ v = unsent[c]
        BY DEF IInv, Typing, TypeOK
    <2>3. ASSUME client[c] = "send"
          PROVE  \E n \in 1..Len(unsent[c]) : unsent[c][n] # Empty
        <3>1. v # <<>> /\ v[Len(v)] = EOL
            BY <2>1, <2>2, <2>3 DEF RequestsOf, Nothing
        <3>2. Len(v) \in 1..Len(v)
            BY <3>1
        <3>3. EOL # Empty
            BY Literals
        <3> QED  BY <2>2, <3>1, <3>2, <3>3
    <2>4. ASSUME client[c] \in {"head", "body"}, typed[c][1][1] # Empty
          PROVE  Onwards(c)
        <3>1. client[c] # "out" /\ client[c] # "left" /\ typed[c] # Nothing /\ unsent[c] = Nothing
            BY <2>1, <2>4 DEF RequestsOf, Posting
        <3>2. CASE session[c] = "none"
            BY <3>1, <3>2 DEF IInv, Fresh, Onwards
        <3>3. CASE session[c] \in {"poll", "line"}
            <4>1. InStep(c)
                BY <2>1, <3>3 DEF RequestsOf, Reading
            <4>2. PICK k \in 0..(Len(typed[c][1]) + 2) :
                      /\ Ahead(u \o v, typed[c][1], k)
                      /\ Len(u \o v) + 2 * k >= Len(Request(typed[c][1]))
                BY <2>2, <2>4, <3>1, <4>1 DEF InStep
            <4>3. CommandLine(typed[c][1])
                BY <3>1, FirstCommand DEF IInv
            <4>4. v = <<>>
                BY <2>2, <3>1 DEF Nothing
            <4>5. Contains(u, EOL)
                BY <4>2, <4>3, <4>4, LineToRead
            <4> QED  BY <2>2, <3>3, <4>5 DEF Onwards
        <3>4. CASE session[c] \in {"execute", "reply", "close", "closed"}
            BY <2>1, <3>4 DEF AnswersOf, Onwards
        <3>5. session[c] \in {"none", "poll", "line", "execute", "reply", "close", "closed"}
            BY DEF IInv, Typing, TypeOK
        <3> QED  BY <3>2, <3>3, <3>4, <3>5
    <2> QED  BY <2>3, <2>4 DEF NotStuck
<1> QED  BY <1>1, Invariance, PTL

\* A connection is served once: behind its command a session of
\* s_thread_one_client_func() executes nothing more and only comes to its end,
\* whatever its client still sends.
OneCommand ==
    \A c \in Clients : session[c] \in {"reply", "close", "closed"} =>
        /\ session'[c] \in {"reply", "close", "closed"}
        /\ executed'[c] = executed[c]

THEOREM ServedOnce == Spec => [][OneCommand]_vars
<1>1. IInv /\ [Next]_vars => [OneCommand]_vars
    <2> SUFFICES ASSUME IInv, Next, NEW d \in Clients, session[d] \in {"reply", "close", "closed"}
                 PROVE  session'[d] \in {"reply", "close", "closed"} /\ executed'[d] = executed[d]
        BY DEF OneCommand
    <2>1. ASSUME NEW c \in Clients, UserDoes(c)
          PROVE  UNCHANGED <<session, executed>>
        BY <2>1 DEF UserDoes, Connect, Leave, Stall, Resume, UserStep, Send, ReadHead, ReadBody, Type, serve
    <2>2. ASSUME NEW c \in Clients, SessionStep(c), c # d
          PROVE  session'[d] = session[d] /\ executed'[d] = executed[d]
        BY <2>2, OthersSame DEF IInv, Same
    <2>3. ASSUME SessionStep(d)
          PROVE  session'[d] \in {"reply", "close", "closed"} /\ executed'[d] = executed[d]
        <3>1. SendReply(d) \/ CloseSocket(d)
            BY <2>3 DEF SessionStep, PollSocket, IsValidSocket, ReadLine, BrokenLine, Execute
        <3>2. UNCHANGED executed
            BY <3>1 DEF SendReply, CloseSocket
        <3> QED  BY <3>1, <3>2, FlowSent DEF IInv, Answers
    <2>4. ASSUME Accept
          PROVE  session'[d] = session[d] /\ executed'[d] = executed[d]
        <3>1. PICK q \in Seq(Clients) : q = listening
            BY DEF IInv, Typing, TypeOK
        <3>2. q # <<>> /\ session' = [session EXCEPT ![Head(q)] = "poll"] /\ UNCHANGED executed
            BY <2>4, <3>1 DEF Accept
        <3>3. 1 \in DOMAIN q /\ Head(q) = q[1] /\ q[1] \in Clients
            BY <3>2, Serving
        <3>4. session[q[1]] = "none"
            BY <3>1, <3>3 DEF IInv, Fresh
        <3> QED  BY <3>2, <3>3, <3>4 DEF IInv, Typing, TypeOK
    <2> QED  BY <2>1, <2>2, <2>3, <2>4 DEF Next, UserDoes
<1> QED  BY <1>1, Invariance, PTL DEF Spec

=============================================================================
