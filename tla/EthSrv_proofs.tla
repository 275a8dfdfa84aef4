---------------------------- MODULE EthSrv_proofs ----------------------------
(***************************************************************************)
(* Proofs about EthSrv, for any number of clients, pages and commands.     *)
(***************************************************************************)
EXTENDS EthSrv, SequenceTheorems, TLAPS

\* Commands on their way, with their numbers.
Sent == [id : Nat, cmd : Commands]

\* TypeOK and the types of what it leaves out, in four parts.
ConnTypes ==
    /\ conn \in [Clients -> {"out", "waiting", "served", "closed"}]
    /\ backlog \in Seq(Clients)
    /\ stream \in [Clients -> Seq(Sent)]
    /\ reset \in [Clients -> BOOLEAN]

ServerTypes ==
    /\ pc \in {"accept", "recv", "send"}
    /\ cur \in Clients \cup {NoClient}
    /\ (pc = "accept") = (cur = NoClient)
    /\ (pc = "send") = (out # NoAnswer)
    /\ out = [id |-> out.id, op |-> out.op, data |-> out.data]
    /\ out.id \in Nat

BoardTypes ==
    /\ tmasFast \in [Blocks -> [acq : 0..acq, conv : Nat]]
    /\ shift \in [1..Pages -> 0..acq]
    /\ acq \in Nat
    /\ strides \subseteq {1, 2}
    /\ own \in [1..Pages -> 0..acq]
    /\ since \in 0..acq

UserTypes ==
    /\ asked \in [Clients -> Nat]
    /\ got \in [Clients -> Seq(Nat)]
    /\ unread \in [Clients -> 0..SockBuf]
    /\ patient \subseteq Clients
    /\ sure \subseteq Clients

TypeInv == ConnTypes /\ ServerTypes /\ BoardTypes /\ UserTypes

\* What the constants are.
LEMMA Bounds ==
    /\ NoClient \notin Clients
    /\ Pages \in Nat /\ Backlog \in Nat /\ SockBuf \in Nat
    /\ Pages > 0 /\ SockBuf > 0
BY ClientsAssumption, BoundsAssumption

\* The number of pages of a command is one there is room for.
LEMMA CommandPages ==
    ASSUME NEW r \in Commands, r.op \in {"read", "shifts", "other"}
    PROVE  r.n \in 0..Pages
BY DEF Commands

\* A command that acquires says how.
LEMMA ReadCommand ==
    ASSUME NEW r \in Commands, r.op = "read"
    PROVE  r.n \in 0..Pages /\ r.soft \in BOOLEAN /\ r.wide \in BOOLEAN /\ Stride(r) \in {1, 2}
BY DEF Commands, Stride

\* Init sets the types.
LEMMA TypeInit == Init => TypeInv
<1> SUFFICES ASSUME Init PROVE TypeInv
  OBVIOUS
<1> USE Bounds DEF Init
<1>1. ConnTypes /\ UserTypes
  BY DEF ConnTypes, UserTypes
<1>2. ServerTypes
  BY DEF ServerTypes, NoAnswer
<1>3. BoardTypes
  BY DEF BoardTypes, Page, NoPage
<1> QED
  BY <1>1, <1>2, <1>3 DEF TypeInv

\* Either there is something to send, or the server goes back to recv().
LEMMA AnswerTypes ==
    ASSUME NEW id \in Nat, NEW op \in {"read", "shifts", "other", "ini_file"}, NEW data, Answer(id, op, data)
    PROVE  \/ /\ pc' = "send" /\ out' # NoAnswer
              /\ out' = [id |-> id, op |-> op, data |-> data]
           \/ pc' = "recv" /\ out' = out
BY DEF Answer, NoAnswer

\* Acquisition and conversion keep the types of tmasFast.
LEMMA BlockTypes ==
    ASSUME TypeInv, NEW r \in Commands, r.op = "read"
    PROVE  /\ Filled(r) \in [Blocks -> [acq : 0..(acq + 1), conv : Nat]]
           /\ Converted(Filled(r), r.n, Stride(r)) \in [Blocks -> [acq : 0..(acq + 1), conv : Nat]]
<1>1. acq \in Nat
  BY DEF TypeInv, BoardTypes
<1>2. ASSUME NEW b \in Blocks PROVE tmasFast[b] \in [acq : 0..(acq + 1), conv : Nat]
  <2>1. tmasFast[b] \in [acq : 0..acq, conv : Nat]
    BY DEF TypeInv, BoardTypes
  <2> QED
    BY <1>1, <2>1
<1>3. Page(acq + 1, 0) \in [acq : 0..(acq + 1), conv : Nat] /\ NoPage \in [acq : 0..(acq + 1), conv : Nat]
  BY <1>1 DEF Page, NoPage
<1>4. PICK raw : raw = Filled(r)
  OBVIOUS
<1>5. raw \in [Blocks -> [acq : 0..(acq + 1), conv : Nat]]
  BY <1>2, <1>3, <1>4 DEF Filled
<1>6. ASSUME NEW b \in Blocks PROVE Page(raw[b].acq, raw[b].conv + 1) \in [acq : 0..(acq + 1), conv : Nat]
  BY <1>5 DEF Page
<1>7. Converted(raw, r.n, Stride(r)) \in [Blocks -> [acq : 0..(acq + 1), conv : Nat]]
  BY <1>3, <1>5, <1>6 DEF Converted
<1> QED
  BY <1>4, <1>5, <1>7

\* A handler keeps the types of the board and of the answer.
LEMMA HandleTypes ==
    ASSUME TypeInv, NEW m \in Sent, Handle(m)
    PROVE  /\ BoardTypes'
           /\ out' = [id |-> out'.id, op |-> out'.op, data |-> out'.data]
           /\ out'.id \in Nat
           /\ \/ pc' = "send" /\ out' # NoAnswer
              \/ pc' = "recv" /\ out' = out
<1>1. m.cmd \in Commands /\ m.id \in Nat
  BY DEF Sent
<1> DEFINE Replied ==
      /\ out' = [id |-> out'.id, op |-> out'.op, data |-> out'.data]
      /\ out'.id \in Nat
      /\ (pc' = "send" /\ out' # NoAnswer) \/ (pc' = "recv" /\ out' = out)
<1>2. ASSUME NEW op \in {"read", "shifts", "other", "ini_file"}, NEW data, Answer(m.id, op, data)
      PROVE  Replied
  <2>1. CASE pc' = "send" /\ out' # NoAnswer /\ out' = [id |-> m.id, op |-> op, data |-> data]
    BY <1>1, <2>1
  <2>2. CASE pc' = "recv" /\ out' = out
    BY <2>2 DEF TypeInv, ServerTypes
  <2> QED
    BY <1>1, <1>2, <2>1, <2>2, AnswerTypes
<1> HIDE DEF Replied
<1>3. CASE Read(m.id, m.cmd)
  <2> DEFINE r == m.cmd
  <2>1. r.op = "read" /\ Stride(r) \in {1, 2}
    BY <1>1, <1>3, ReadCommand DEF Read
  <2>2. acq' = acq + 1 /\ acq' \in Nat
    BY <1>3 DEF Read, TypeInv, BoardTypes
  <2>3. own' \in [1..Pages -> 0..acq'] /\ shift' \in [1..Pages -> 0..acq']
    BY <1>3, <2>2 DEF Read, TypeInv, BoardTypes
  <2>4. strides' \subseteq {1, 2} /\ since' \in 0..acq'
    <3>1. strides \subseteq {1, 2} /\ since \in 0..acq /\ acq \in Nat
      BY DEF TypeInv, BoardTypes
    <3>2. PICK w \in {1, 2} : w = Stride(r)
      BY <2>1
    <3>3. strides' = strides \cup {w} /\ since' = since
      BY <1>3, <3>2 DEF Read
    <3>4. strides' \subseteq {1, 2}
      BY <3>1, <3>2, <3>3
    <3>5. since' \in 0..acq'
      BY <2>2, <3>1, <3>3
    <3> QED
      BY <3>4, <3>5
  <2>5. tmasFast' \in [Blocks -> [acq : 0..acq', conv : Nat]]
    <3>1. tmasFast' = Converted(Filled(r), r.n, Stride(r))
      BY <1>3 DEF Read
    <3> QED
      BY <1>1, <2>1, <2>2, <3>1, BlockTypes
  <2>6. Replied
    BY <1>2, <1>3 DEF Read
  <2> QED
    BY <2>2, <2>3, <2>4, <2>5, <2>6 DEF BoardTypes, Replied
<1>4. CASE Shifts(m.id, m.cmd) \/ Other(m.id, m.cmd) \/ SendIniFile(m.id, m.cmd)
  <2>1. UNCHANGED board
    BY <1>4 DEF Shifts, Other, SendIniFile
  <2>2. Replied
    BY <1>2, <1>4 DEF Shifts, Other, SendIniFile
  <2>3. BoardTypes'
    BY <2>1 DEF board, TypeInv, BoardTypes
  <2> QED
    BY <2>2, <2>3 DEF Replied
<1> QED
  BY <1>3, <1>4 DEF Handle

\* What send() does: the answer is complete, or a part of the ini file is.
LEMMA SendCases ==
    ASSUME TypeInv, SendAnswer
    PROVE  /\ pc = "send" /\ cur \in Clients
           /\ UNCHANGED <<conns, cur, board, asked, patient, sure>>
           /\ \/ /\ got' = [got EXCEPT ![cur] = Append(got[cur], out.id)]
                 /\ pc' = "recv" /\ out' = NoAnswer
              \/ /\ UNCHANGED <<got, pc>>
                 /\ out'.id = out.id /\ out'.op = "ini_file" /\ out' # NoAnswer
                 /\ out' = [id |-> out'.id, op |-> out'.op, data |-> out'.data]
<1>1. pc = "send" /\ cur \in Clients /\ UNCHANGED <<conns, cur, board, asked, patient, sure>>
  BY DEF SendAnswer, TypeInv, ServerTypes
<1>2. CASE RestOfAnswer = <<>>
  BY <1>1, <1>2 DEF SendAnswer
<1>3. CASE RestOfAnswer # <<>>
  <2>1. out.op = "ini_file"
    BY <1>3 DEF RestOfAnswer
  <2>2. PICK rest : rest = RestOfAnswer
    OBVIOUS
  <2>3. out' = [out EXCEPT !.data = rest] /\ UNCHANGED <<got, pc>>
    BY <1>3, <2>2 DEF SendAnswer
  <2>4. out = [id |-> out.id, op |-> out.op, data |-> out.data]
    BY DEF TypeInv, ServerTypes
  <2>5. out' = [id |-> out.id, op |-> "ini_file", data |-> rest]
    BY <2>1, <2>3, <2>4
  <2>6. out' # NoAnswer
    BY <2>5 DEF NoAnswer
  <2>7. out'.id = out.id /\ out'.op = "ini_file" /\ out'.data = rest
    BY <2>5
  <2>8. out' = [id |-> out'.id, op |-> out'.op, data |-> out'.data]
    BY <2>5, <2>7
  <2> QED
    BY <1>1, <2>3, <2>6, <2>7, <2>8
<1> QED
  BY <1>2, <1>3

\* What recv() hands over: the head of the stream, and some of it is taken.
LEMMA HeadOfStream ==
    ASSUME TypeInv, RecvCommand
    PROVE  /\ cur \in Clients
           /\ Head(stream[cur]) = stream[cur][1]
           /\ stream[cur][1] \in Sent
           /\ \E k \in 1..Len(stream[cur]) : \E rest \in Seq(Sent) :
                /\ stream' = [stream EXCEPT ![cur] = rest]
                /\ Len(rest) = Len(stream[cur]) - k
                /\ \A i \in 1..Len(rest) : rest[i] = stream[cur][k + i]
<1>1. cur \in Clients /\ stream[cur] \in Seq(Sent) /\ stream[cur] # <<>>
  BY DEF TypeInv, ConnTypes, ServerTypes, RecvCommand
<1>2. Len(stream[cur]) \in Nat \ {0} /\ Head(stream[cur]) = stream[cur][1] /\ stream[cur][1] \in Sent
  BY <1>1
<1>3. PICK k \in 1..Len(stream[cur]) :
         stream' = [stream EXCEPT ![cur] = SubSeq(stream[cur], k + 1, Len(stream[cur]))]
  BY DEF RecvCommand, Received
<1> DEFINE rest == SubSeq(stream[cur], k + 1, Len(stream[cur]))
<1>4. rest \in Seq(Sent) /\ Len(rest) = Len(stream[cur]) - k
  BY <1>1, <1>2
<1>5. \A i \in 1..(Len(stream[cur]) - k) : rest[i] = stream[cur][k + i]
  BY <1>1, <1>2
<1> QED
  BY <1>1, <1>2, <1>3, <1>4, <1>5

\* Every step keeps the types.
LEMMA TypeStep == TypeInv /\ [Next]_vars => TypeInv'
<1> SUFFICES ASSUME TypeInv, [Next]_vars
             PROVE  TypeInv'
  OBVIOUS
<1> USE DEF TypeInv, conns, board, user
<1>1. ASSUME NEW c \in Clients, Connect(c) PROVE TypeInv'
  <2>1. ConnTypes'
    BY <1>1 DEF ConnTypes, Connect
  <2>2. ServerTypes' /\ BoardTypes' /\ UserTypes'
    BY <1>1 DEF ServerTypes, BoardTypes, UserTypes, Connect
  <2> QED
    BY <2>1, <2>2
<1>2. ASSUME NEW c \in Clients, NEW r \in Commands, Request(c, r) PROVE TypeInv'
  <2>1. [id |-> asked[c] + 1, cmd |-> r] \in Sent
    BY DEF Sent, UserTypes
  <2>2. ConnTypes'
    <3>1. stream[c] \in Seq(Sent)
      BY DEF ConnTypes
    <3>2. Append(stream[c], [id |-> asked[c] + 1, cmd |-> r]) \in Seq(Sent)
      BY <2>1, <3>1
    <3>3. stream' = [stream EXCEPT ![c] = Append(stream[c], [id |-> asked[c] + 1, cmd |-> r])]
      BY <1>2 DEF Request
    <3>4. UNCHANGED <<conn, backlog, reset>>
      BY <1>2 DEF Request
    <3> QED
      BY <3>2, <3>3, <3>4 DEF ConnTypes
  <2>3. UserTypes'
    <3>1. asked' = [asked EXCEPT ![c] = asked[c] + 1] /\ UNCHANGED <<got, unread>>
      BY <1>2 DEF Request
    <3>2. patient' \in {patient, patient \ {c}} /\ sure' \in {sure \cup {c}, sure \ {c}}
      BY <1>2 DEF Request
    <3> QED
      BY <3>1, <3>2 DEF UserTypes
  <2>4. ServerTypes' /\ BoardTypes'
    BY <1>2 DEF ServerTypes, BoardTypes, Request
  <2> QED
    BY <2>2, <2>3, <2>4
<1>3. ASSUME NEW c \in Clients, TakeAnswer(c) PROVE TypeInv'
  <2>1. UserTypes'
    BY <1>3, Bounds DEF UserTypes, TakeAnswer
  <2>2. ConnTypes' /\ ServerTypes' /\ BoardTypes'
    BY <1>3 DEF ConnTypes, ServerTypes, BoardTypes, TakeAnswer
  <2> QED
    BY <2>1, <2>2
<1>4. ASSUME NEW c \in Clients, NEW abrupt \in BOOLEAN, Close(c, abrupt) PROVE TypeInv'
  <2>1. conn' \in [Clients -> {"out", "waiting", "served", "closed"}] /\ reset' \in [Clients -> BOOLEAN]
    BY <1>4 DEF ConnTypes, Close
  <2>2. stream' \in [Clients -> Seq(Sent)] /\ backlog' \in Seq(Clients)
    BY <1>4 DEF ConnTypes, Close
  <2>3. ServerTypes' /\ BoardTypes' /\ UserTypes'
    BY <1>4 DEF ServerTypes, BoardTypes, UserTypes, Close
  <2> QED
    BY <2>1, <2>2, <2>3 DEF ConnTypes
<1>5. ASSUME Accept PROVE TypeInv'
  <2>1. Head(backlog) \in Clients /\ backlog' \in Seq(Clients)
    BY <1>5 DEF ConnTypes, Accept, TakeConnection
  <2>2. ConnTypes'
    BY <1>5, <2>1 DEF ConnTypes, Accept, TakeConnection
  <2>3. ServerTypes'
    BY <1>5, <2>1, Bounds DEF ServerTypes, Accept, TakeConnection
  <2>4. BoardTypes' /\ UserTypes'
    BY <1>5 DEF BoardTypes, UserTypes, Accept, TakeConnection
  <2> QED
    BY <2>2, <2>3, <2>4
<1>6. ASSUME RecvCommand PROVE TypeInv'
  <2>1. cur \in Clients /\ Head(stream[cur]) \in Sent /\ stream' \in [Clients -> Seq(Sent)]
    BY <1>6, HeadOfStream DEF ConnTypes
  <2>2. Handle(Head(stream[cur]))
    BY <1>6 DEF RecvCommand, InBuffer
  <2>3. ConnTypes' /\ UserTypes'
    BY <1>6, <2>1 DEF ConnTypes, UserTypes, RecvCommand
  <2>4. ServerTypes'
    BY <1>6, <2>1, <2>2, HandleTypes, Bounds DEF ServerTypes, RecvCommand
  <2> QED
    BY <2>1, <2>2, <2>3, <2>4, HandleTypes
<1>7. ASSUME RecvError PROVE TypeInv'
  BY <1>7 DEF ConnTypes, ServerTypes, BoardTypes, UserTypes, RecvError
<1>8. ASSUME RecvEnd PROVE TypeInv'
  <2>1. ServerTypes'
    BY <1>8 DEF ServerTypes, RecvEnd
  <2>2. BoardTypes'
    BY <1>8, Bounds DEF BoardTypes, RecvEnd
  <2>3. ConnTypes' /\ UserTypes'
    BY <1>8 DEF ConnTypes, UserTypes, RecvEnd
  <2> QED
    BY <2>1, <2>2, <2>3
<1>9. ASSUME SendAnswer PROVE TypeInv'
  <2>1. cur \in Clients
    BY <1>9 DEF ServerTypes, SendAnswer
  <2>2. ServerTypes'
    <3>1. pc = "send" /\ cur' = cur /\ cur # NoClient
      BY <1>9, <2>1, Bounds, SendCases
    <3>2. CASE pc' = "recv" /\ out' = NoAnswer
      BY <2>1, <3>1, <3>2 DEF ServerTypes, NoAnswer
    <3>3. CASE UNCHANGED pc /\ out'.id = out.id /\ out' # NoAnswer
               /\ out' = [id |-> out'.id, op |-> out'.op, data |-> out'.data]
      BY <2>1, <3>1, <3>3 DEF ServerTypes
    <3> QED
      BY <1>9, <3>2, <3>3, SendCases
  <2>3. UserTypes'
    <3>1. out.id \in Nat /\ got[cur] \in Seq(Nat) /\ unread[cur] \in 0..SockBuf
      BY <2>1 DEF ServerTypes, UserTypes
    <3>2. Append(got[cur], out.id) \in Seq(Nat)
      BY <3>1
    <3>3. UNCHANGED <<asked, patient, sure>>
      BY <1>9, SendCases
    <3>4. /\ unread[cur] < SockBuf
          /\ got' = got \/ got' = [got EXCEPT ![cur] = Append(got[cur], out.id)]
          /\ unread' = [unread EXCEPT ![cur] = unread[cur] + 1]
      BY <1>9 DEF SendAnswer
    <3>5. unread[cur] < SockBuf => unread[cur] + 1 \in 0..SockBuf
      BY <3>1, Bounds
    <3>6. got' \in [Clients -> Seq(Nat)]
      BY <2>1, <3>2, <3>4 DEF UserTypes
    <3>7. unread' \in [Clients -> 0..SockBuf]
      BY <2>1, <3>4, <3>5 DEF UserTypes
    <3> QED
      BY <3>3, <3>6, <3>7 DEF UserTypes
  <2>4. ConnTypes' /\ BoardTypes'
    BY <1>9 DEF ConnTypes, BoardTypes, SendAnswer
  <2> QED
    BY <2>2, <2>3, <2>4
<1>10. ASSUME SendFails PROVE TypeInv'
  <2>1. ServerTypes'
    BY <1>10 DEF ServerTypes, SendFails, NoAnswer
  <2>2. ConnTypes' /\ BoardTypes' /\ UserTypes'
    BY <1>10 DEF ConnTypes, BoardTypes, UserTypes, SendFails
  <2> QED
    BY <2>1, <2>2
<1>11. CASE UNCHANGED vars
  BY <1>11 DEF ConnTypes, ServerTypes, BoardTypes, UserTypes, vars
<1> QED
  BY <1>1, <1>2, <1>3, <1>4, <1>5, <1>6, <1>7, <1>8, <1>9, <1>10, <1>11, MenuAssumption DEF Next, Server

\* TypeInv says what TypeOK says.
LEMMA TypeInvTypeOK == TypeInv => TypeOK
<1> SUFFICES ASSUME TypeInv PROVE TypeOK
  OBVIOUS
<1>1. ASSUME NEW c \in Clients, NEW i \in DOMAIN stream[c] PROVE stream[c][i].cmd \in Commands
  <2>1. stream[c] \in Seq(Sent)
    BY DEF TypeInv, ConnTypes
  <2>2. stream[c][i] \in Sent
    BY <2>1
  <2> QED
    BY <2>2 DEF Sent
<1> QED
  BY <1>1 DEF TypeInv, TypeOK, ConnTypes, ServerTypes, BoardTypes, UserTypes

\* Connections, streams, buffers and answers keep their types, for any number
\* of clients, pages and commands.
THEOREM TypeInvariant == Spec => []TypeOK
BY TypeInit, TypeStep, TypeInvTypeOK, PTL DEF Spec

-----------------------------------------------------------------------------
(***************************************************************************)
(* Pages and shifts: whose they are and whether they belong together       *)
(***************************************************************************)

\* The buffer of shifts has what this connection acquired, or older ones.
OwnOrOlder == \A t \in 1..Pages : IF own[t] # 0 THEN shift[t] = own[t] ELSE shift[t] <= since

\* Where pages of stride w lie, the samples are those of the shift's
\* acquisition, and only a first page may be raw.
Fits(w) ==
    \A t \in 1..Pages :
        /\ tmasFast[Block(t, w)].acq = shift[t]
        /\ t # 1 /\ shift[t] # 0 => tmasFast[Block(t, w)].conv > 0

\* One stride only was used, or none.
BlocksFit == \A w \in {1, 2} : strides \subseteq {w} => Fits(w)

BoardInv == OwnOrOlder /\ BlocksFit /\ ShiftsOwnOrOlder /\ PagesFitShifts

\* Steps that leave the board alone and do not hand out an answer to look at.
LEMMA BoardIdle ==
    ASSUME BoardInv, UNCHANGED board,
           \/ UNCHANGED out /\ pc' = pc
           \/ pc' # "send"
           \/ out'.op \notin {"read", "shifts"}
    PROVE  BoardInv'
BY DEF BoardInv, OwnOrOlder, BlocksFit, Fits, ShiftsOwnOrOlder, PagesFitShifts, board

\* Pages of one stride do not overlap, nor do X arrays overlap pages.
LEMMA BlocksApart ==
    ASSUME NEW w \in {1, 2}, NEW t \in 1..Pages, NEW u \in 1..Pages
    PROVE  /\ Block(t, w) \in Blocks
           /\ Block(t, w) = Block(u, w) => t = u
           /\ w = 2 => Block(t, w) # Block(u, w) + 1
<1>1. CASE w = 1
  BY <1>1, Bounds DEF Block, Blocks
<1>2. CASE w = 2
  BY <1>2, Bounds DEF Block, Blocks
<1> QED
  BY <1>1, <1>2

\* What a command that acquires leaves in the block of a page.
LEMMA BlockAfterRead ==
    ASSUME TypeInv, NEW r \in Commands, r.op = "read", NEW t \in 1..Pages
    PROVE  LET b    == Block(t, Stride(r))
               raw  == IF Acquired(r, t) THEN Page(acq + 1, 0) ELSE tmasFast[b]
           IN  Converted(Filled(r), r.n, Stride(r))[b] =
                 IF t <= r.n THEN Page(raw.acq, raw.conv + 1) ELSE raw
<1> DEFINE w == Stride(r)
<1> DEFINE b == Block(t, w)
<1> DEFINE raw == IF Acquired(r, t) THEN Page(acq + 1, 0) ELSE tmasFast[b]
<1>1. w \in {1, 2} /\ r.n \in 0..Pages /\ Pages \in Nat
  BY ReadCommand, Bounds
<1>2. b \in Blocks
  BY <1>1, BlocksApart
<1>3. \A u \in 1..Pages : (b = Block(u, w) <=> u = t) /\ (w = 2 => b # Block(u, w) + 1)
  BY <1>1, BlocksApart
<1> HIDE DEF w, b
<1>4. PICK full : full = Filled(r)
  OBVIOUS
<1>5. full[b] = raw
  <2>1. full[b] = IF \E u \in 1..Pages : Acquired(r, u) /\ b = Block(u, w)
                  THEN Page(acq + 1, 0) ELSE tmasFast[b]
    BY <1>2, <1>4 DEF Filled, ReadStride, w
  <2>2. (\E u \in 1..Pages : Acquired(r, u) /\ b = Block(u, w)) <=> Acquired(r, t)
    BY <1>3
  <2> QED
    BY <2>1, <2>2
<1>6. Converted(full, r.n, w)[b] =
        IF \E u \in 1..r.n : b = Block(u, w) THEN Page(full[b].acq, full[b].conv + 1)
        ELSE IF w = 2 /\ \E u \in 1..r.n : b = Block(u, w) + 1 THEN NoPage
        ELSE full[b]
  BY <1>2 DEF Converted
<1>7. (\E u \in 1..r.n : b = Block(u, w)) <=> t <= r.n
  BY <1>1, <1>3
<1>8. ~(w = 2 /\ \E u \in 1..r.n : b = Block(u, w) + 1)
  BY <1>1, <1>3
<1> HIDE DEF raw
<1>9. Converted(full, r.n, w)[b] = IF t <= r.n THEN Page(raw.acq, raw.conv + 1) ELSE raw
  BY <1>5, <1>6, <1>7, <1>8
<1> QED
  BY <1>4, <1>9 DEF raw, b, w

\* After a command that acquires, pages and shifts fit again, if they did and
\* the stride is the same, and the answer shows which pages are stale.
LEMMA ReadFits ==
    ASSUME TypeInv, NEW m \in Sent, Read(m.id, m.cmd), Fits(Stride(m.cmd))
    PROVE  /\ Fits(Stride(m.cmd))'
           /\ \A t \in 1..m.cmd.n :
                LET b == Block(t, Stride(m.cmd))
                IN  /\ tmasFast'[b].acq = shift'[t]
                    /\ shift'[t] # 0 => (tmasFast'[b].conv = 1 <=> shift'[t] = acq')
<1> DEFINE r == m.cmd
<1> DEFINE w == Stride(r)
<1>1. r \in Commands /\ r.op = "read"
  BY DEF Sent, Read
<1>2. w \in {1, 2} /\ r.n \in 0..Pages /\ Pages \in Nat /\ acq \in Nat /\ acq' = acq + 1
  BY <1>1, ReadCommand, Bounds DEF Read, TypeInv, BoardTypes
<1>3. ASSUME NEW t \in 1..Pages
      PROVE  /\ tmasFast'[Block(t, w)].acq = shift'[t]
             /\ t # 1 /\ shift'[t] # 0 => tmasFast'[Block(t, w)].conv > 0
             /\ t <= r.n /\ shift'[t] # 0 => (tmasFast'[Block(t, w)].conv = 1 <=> shift'[t] = acq')
  <2>1. PICK old, new : old = tmasFast[Block(t, w)] /\ new = tmasFast'[Block(t, w)]
    OBVIOUS
  <2>2. /\ old.acq = shift[t] /\ old.acq \in 0..acq /\ old.conv \in Nat
        /\ t # 1 /\ shift[t] # 0 => old.conv > 0
    <3>1. Block(t, w) \in Blocks
      BY <1>2, BlocksApart
    <3>2. old \in [acq : 0..acq, conv : Nat]
      BY <2>1, <3>1 DEF TypeInv, BoardTypes
    <3> QED
      BY <2>1, <3>2 DEF Fits
  <2>3. tmasFast' = Converted(Filled(r), r.n, w) /\ shift'[t] = IF Acquired(r, t) THEN acq + 1 ELSE shift[t]
    BY DEF Read
  <2> HIDE DEF w
  <2>4. CASE Acquired(r, t)
    <3>1. new = IF t <= r.n THEN Page(acq + 1, 1) ELSE Page(acq + 1, 0)
      <4>1. Page(acq + 1, 0).acq = acq + 1 /\ Page(acq + 1, 0).conv + 1 = 1
        BY DEF Page
      <4> QED
        BY <1>1, <2>1, <2>3, <2>4, <4>1, BlockAfterRead DEF w
    <3>2. t # 1 => t <= r.n
      BY <2>4 DEF Acquired, ReadNPages
    <3> QED
      BY <1>2, <2>1, <2>3, <2>4, <3>1, <3>2 DEF Page
  <2>5. CASE ~Acquired(r, t)
    <3>1. new = IF t <= r.n THEN Page(old.acq, old.conv + 1) ELSE old
      BY <1>1, <2>1, <2>3, <2>5, BlockAfterRead DEF w
    <3>2. new.acq = old.acq /\ new.conv = IF t <= r.n THEN old.conv + 1 ELSE old.conv
      BY <3>1 DEF Page
    <3>3. t <= r.n => t # 1
      BY <2>5 DEF Acquired, ReadNPages
    <3>4. shift'[t] = shift[t]
      BY <2>3, <2>5
    <3> QED
      BY <1>2, <2>1, <2>2, <3>2, <3>3, <3>4
  <2> QED
    BY <2>4, <2>5
<1>4. w' = w
  OBVIOUS
<1> HIDE DEF w
<1>5. Fits(w)'
  BY <1>3, <1>4 DEF Fits, Block
<1>6. \A t \in 1..r.n : t \in 1..Pages /\ t <= r.n
  BY <1>2
<1> QED
  BY <1>3, <1>5, <1>6 DEF w

\* What a command that acquires leaves behind.
LEMMA ReadBoard ==
    ASSUME TypeInv, BoardInv, NEW m \in Sent, Read(m.id, m.cmd)
    PROVE  BoardInv'
<1> DEFINE r == m.cmd
<1> DEFINE w == Stride(r)
<1>1. r \in Commands /\ r.op = "read" /\ m.id \in Nat
  BY DEF Sent, Read
<1>2. w \in {1, 2} /\ r.n \in 0..Pages /\ acq \in Nat
  BY <1>1, ReadCommand DEF TypeInv, BoardTypes
<1>3. OwnOrOlder'
  <2>1. ASSUME NEW t \in 1..Pages
        PROVE  IF own'[t] # 0 THEN shift'[t] = own'[t] ELSE shift'[t] <= since'
    <3>1. /\ own'[t] = IF Acquired(r, t) THEN acq + 1 ELSE own[t]
          /\ shift'[t] = IF Acquired(r, t) THEN acq + 1 ELSE shift[t]
          /\ since' = since
      BY DEF Read
    <3> QED
      BY <1>2, <3>1 DEF BoardInv, OwnOrOlder
  <2> QED
    BY <2>1 DEF OwnOrOlder
<1>4. strides' = strides \cup {w}
  BY DEF Read
<1>5. ASSUME NEW v \in {1, 2}, strides' \subseteq {v} PROVE v = w /\ Fits(w)
  <2>1. v = w /\ strides \subseteq {w}
    BY <1>2, <1>4, <1>5
  <2> QED
    BY <1>2, <2>1 DEF BoardInv, BlocksFit
<1>6. BlocksFit'
  <2> SUFFICES ASSUME NEW v \in {1, 2}, strides' \subseteq {v} PROVE Fits(v)'
    BY DEF BlocksFit
  <2> QED
    BY <1>5, ReadFits
<1>7. ShiftsOwnOrOlder' /\ PagesFitShifts'
  <2>1. CASE pc' # "send"
    BY <2>1 DEF ShiftsOwnOrOlder, PagesFitShifts
  <2>2. CASE out' = [id |-> m.id, op |-> "read", data |-> [t \in 1..r.n |-> tmasFast'[Block(t, w)]]]
    <3>1. out'.op = "read" /\ DOMAIN out'.data = 1..r.n
          /\ \A t \in 1..r.n : out'.data[t] = tmasFast'[Block(t, w)]
      BY <2>2
    <3>2. strides' # {1, 2} => Fits(w)
      <4>1. strides' # {1, 2} => strides' \subseteq {w}
        <5>1. PICK v \in {1, 2} : v = w
          BY <1>2
        <5>2. strides \subseteq {1, 2} /\ strides' = strides \cup {v}
          BY <1>4, <5>1 DEF TypeInv, BoardTypes
        <5>3. strides' # {1, 2} => strides' \subseteq {v}
          BY <5>2
        <5> QED
          BY <5>1, <5>3
      <4> QED
        BY <1>2, <1>5, <4>1
    <3>3. PagesFitShifts'
      BY <3>1, <3>2, ReadFits DEF PagesFitShifts
    <3> QED
      BY <3>1, <3>3 DEF ShiftsOwnOrOlder
  <2>3. Answer(m.id, "read", [t \in 1..r.n |-> tmasFast'[Block(t, w)]])
    BY DEF Read
  <2> QED
    BY <2>1, <2>2, <2>3 DEF Answer
<1> QED
  BY <1>3, <1>6, <1>7 DEF BoardInv

\* What 0xF sends is what the buffer has.
LEMMA ShiftsBoard ==
    ASSUME TypeInv, BoardInv, NEW m \in Sent, Shifts(m.id, m.cmd)
    PROVE  BoardInv'
<1>1. UNCHANGED board /\ m.cmd.n \in 0..Pages
  BY CommandPages DEF Shifts, Sent
<1>2. CASE pc' # "send"
  BY <1>1, <1>2, BoardIdle
<1>3. CASE out' = [id |-> m.id, op |-> "shifts", data |-> KeptShifts(m.cmd.n)]
  <2>1. out'.op = "shifts" /\ \A t \in DOMAIN out'.data : t \in 1..Pages /\ out'.data[t] = shift[t]
    BY <1>1, <1>3, Bounds DEF KeptShifts
  <2>2. ShiftsOwnOrOlder' /\ PagesFitShifts'
    BY <1>1, <2>1 DEF BoardInv, OwnOrOlder, ShiftsOwnOrOlder, PagesFitShifts, board
  <2>3. OwnOrOlder' /\ BlocksFit'
    BY <1>1 DEF BoardInv, OwnOrOlder, BlocksFit, Fits, board
  <2> QED
    BY <2>2, <2>3 DEF BoardInv
<1> QED
  BY <1>2, <1>3 DEF Shifts, Answer

\* Every step keeps what the buffers hold.
LEMMA BoardStep == TypeInv /\ BoardInv /\ [Next]_vars => BoardInv'
<1> SUFFICES ASSUME TypeInv, BoardInv, [Next]_vars
             PROVE  BoardInv'
  OBVIOUS
<1>1. ASSUME NEW c \in Clients, Connect(c) \/ TakeAnswer(c) PROVE BoardInv'
  BY <1>1, BoardIdle DEF Connect, TakeAnswer
<1>2. ASSUME NEW c \in Clients, NEW r \in Commands, Request(c, r) PROVE BoardInv'
  BY <1>2, BoardIdle DEF Request
<1>3. ASSUME NEW c \in Clients, NEW abrupt \in BOOLEAN, Close(c, abrupt) PROVE BoardInv'
  BY <1>3, BoardIdle DEF Close
<1>4. ASSUME Accept PROVE BoardInv'
  BY <1>4, BoardIdle DEF Accept, TakeConnection
<1>5. ASSUME RecvCommand PROVE BoardInv'
  <2> DEFINE m == Head(stream[cur])
  <2>1. m \in Sent /\ Handle(m)
    BY <1>5, HeadOfStream DEF RecvCommand, InBuffer
  <2>2. CASE Read(m.id, m.cmd)
    BY <2>1, <2>2, ReadBoard
  <2>3. CASE Shifts(m.id, m.cmd)
    BY <2>1, <2>3, ShiftsBoard
  <2>4. CASE Other(m.id, m.cmd) \/ SendIniFile(m.id, m.cmd)
    <3>1. UNCHANGED board /\ (pc' # "send" \/ out'.op \notin {"read", "shifts"})
      BY <2>4 DEF Other, SendIniFile, Answer
    <3> QED
      BY <3>1, BoardIdle
  <2> QED
    BY <2>1, <2>2, <2>3, <2>4 DEF Handle
<1>6. ASSUME RecvError PROVE BoardInv'
  BY <1>6, BoardIdle DEF RecvError
<1>7. ASSUME RecvEnd PROVE BoardInv'
  <2>1. /\ \A t \in 1..Pages : own'[t] = 0 /\ shift'[t] <= since'
        /\ pc' # "send" /\ UNCHANGED <<tmasFast, shift, strides>>
    BY <1>7 DEF RecvEnd, TypeInv, BoardTypes
  <2> QED
    BY <2>1 DEF BoardInv, OwnOrOlder, BlocksFit, Fits, ShiftsOwnOrOlder, PagesFitShifts
<1>8. ASSUME SendAnswer PROVE BoardInv'
  BY <1>8, SendCases, BoardIdle
<1>9. ASSUME SendFails PROVE BoardInv'
  BY <1>9, BoardIdle DEF SendFails
<1>10. CASE UNCHANGED vars
  BY <1>10, BoardIdle DEF vars
<1> QED
  BY <1>1, <1>2, <1>3, <1>4, <1>5, <1>6, <1>7, <1>8, <1>9, <1>10, MenuAssumption DEF Next, Server

\* At the start nothing was acquired.
LEMMA BoardInit == Init => BoardInv
<1> SUFFICES ASSUME Init PROVE BoardInv
  OBVIOUS
<1>1. ASSUME NEW w \in {1, 2}, NEW t \in 1..Pages PROVE tmasFast[Block(t, w)] = NoPage /\ shift[t] = 0
  BY BlocksApart DEF Init
<1>2. BlocksFit
  BY <1>1 DEF BlocksFit, Fits, NoPage, Page
<1> QED
  BY <1>2 DEF Init, BoardInv, OwnOrOlder, ShiftsOwnOrOlder, PagesFitShifts

\* The shifts a connection is sent are, page by page, those of its own last
\* acquisition of the page, and from before the connection for all pages that
\* it never acquired, whatever it asks for.
THEOREM ShiftsKeptByPage == Spec => []ShiftsOwnOrOlder
<1>1. Spec => [](TypeInv /\ BoardInv)
  BY TypeInit, TypeStep, BoardInit, BoardStep, PTL DEF Spec
<1>2. BoardInv => ShiftsOwnOrOlder
  BY DEF BoardInv
<1> QED
  BY <1>1, <1>2, PTL

\* As long as strides are not mixed, a page sent, fresh or stale, is of the
\* acquisition its shift is of, and those converted again are the stale ones.
THEOREM PagesKeptWithShifts == Spec => []PagesFitShifts
<1>1. Spec => [](TypeInv /\ BoardInv)
  BY TypeInit, TypeStep, BoardInit, BoardStep, PTL DEF Spec
<1>2. BoardInv => PagesFitShifts
  BY DEF BoardInv
<1> QED
  BY <1>1, <1>2, PTL

-----------------------------------------------------------------------------
(***************************************************************************)
(* Order: which commands a client has been answered                        *)
(***************************************************************************)

\* The commands on their way to the server are ones its client sent, in order,
\* and behind all it was answered.
StreamOrder ==
    \A c \in Clients : \A i \in 1..Len(stream[c]) :
        /\ stream[c][i].id \in 1..asked[c]
        /\ \A j \in 1..Len(stream[c]) : i < j => stream[c][i].id < stream[c][j].id
        /\ \A j \in 1..Len(got[c]) : got[c][j] < stream[c][i].id

\* So are the commands it was answered.
GotOrder ==
    \A c \in Clients : \A i \in 1..Len(got[c]) :
        /\ got[c][i] \in 1..asked[c]
        /\ \A j \in 1..Len(got[c]) : i < j => got[c][i] < got[c][j]

\* The answer to be sent lies between the two.
OutOrder ==
    pc = "send" =>
        /\ out.id \in 1..asked[cur]
        /\ \A j \in 1..Len(got[cur]) : got[cur][j] < out.id
        /\ \A i \in 1..Len(stream[cur]) : out.id < stream[cur][i].id

OrderInv == StreamOrder /\ GotOrder /\ OutOrder

\* At the start nothing is sent.
LEMMA OrderInit == Init => OrderInv
BY DEF Init, OrderInv, StreamOrder, GotOrder, OutOrder

\* What is not empty differs from what is.
LEMMA NotEmpty ==
    ASSUME NEW n \in Nat \ {0}, NEW f, DOMAIN f = 1..n
    PROVE  f # <<>>
<1>1. DOMAIN <<>> = 1..0 /\ 1 \in 1..n /\ 1 \notin 1..0
  OBVIOUS
<1> QED
  BY <1>1

\* What a handler does to the server's position and answer: a command that has
\* an answer in any case is answered.
LEMMA HandleOut ==
    ASSUME TypeInv, NEW m \in Sent, Handle(m)
    PROVE  /\ (pc' = "send" /\ out'.id = m.id) \/ pc' = "recv"
           /\ HasAnswer(m.cmd) => pc' = "send"
<1>1. (pc' = "send" /\ out'.id = m.id) \/ pc' = "recv"
  BY DEF Handle, Read, Shifts, Other, SendIniFile, Answer
<1>2. ASSUME HasAnswer(m.cmd) PROVE pc' = "send"
  <2>1. m.cmd.n \in Nat \ {0} /\ m.cmd.op \in {"read", "shifts", "other"}
    BY <1>2, CommandPages, Bounds DEF HasAnswer, Sent
  <2>2. PICK op, data : Answer(m.id, op, data) /\ DOMAIN data = 1..m.cmd.n
    BY <2>1 DEF Handle, Read, Shifts, Other, SendIniFile, KeptShifts, Opaque
  <2>3. data # <<>>
    BY <2>1, <2>2, NotEmpty
  <2> QED
    BY <2>2, <2>3 DEF Answer
<1> QED
  BY <1>1, <1>2

\* Every step keeps commands and answers in order.
LEMMA OrderStep == TypeInv /\ OrderInv /\ [Next]_vars => OrderInv'
<1> SUFFICES ASSUME TypeInv, OrderInv, [Next]_vars
             PROVE  OrderInv'
  OBVIOUS
<1> USE DEF OrderInv
<1>1. ASSUME UNCHANGED <<stream, asked, got>>, pc' = "send" => UNCHANGED <<pc, cur>> /\ out'.id = out.id
      PROVE  OrderInv'
  BY <1>1 DEF StreamOrder, GotOrder, OutOrder
<1>2. ASSUME NEW c \in Clients, Connect(c) \/ TakeAnswer(c) PROVE OrderInv'
  BY <1>2, <1>1 DEF Connect, TakeAnswer, conns, user
<1>3. ASSUME NEW c \in Clients, NEW r \in Commands, Request(c, r) PROVE OrderInv'
  <2> DEFINE m == [id |-> asked[c] + 1, cmd |-> r]
  <2>1. /\ asked' = [asked EXCEPT ![c] = asked[c] + 1]
        /\ stream' = [stream EXCEPT ![c] = Append(stream[c], m)]
        /\ UNCHANGED <<got, pc, out, cur>>
    BY <1>3 DEF Request
  <2>2. stream[c] \in Seq(Sent) /\ m \in Sent
    <3>1. asked[c] + 1 \in Nat
      BY DEF TypeInv, UserTypes
    <3>2. m \in Sent
      BY <3>1 DEF Sent
    <3>3. stream[c] \in Seq(Sent)
      BY DEF TypeInv, ConnTypes
    <3> QED
      BY <3>2, <3>3
  <2>3. /\ Len(Append(stream[c], m)) = Len(stream[c]) + 1
        /\ Append(stream[c], m)[Len(stream[c]) + 1].id = asked[c] + 1
        /\ \A i \in 1..Len(stream[c]) : Append(stream[c], m)[i] = stream[c][i]
    BY <2>2
  <2>4. /\ Len(stream'[c]) = Len(stream[c]) + 1
        /\ stream'[c][Len(stream[c]) + 1].id = asked[c] + 1
        /\ \A i \in 1..Len(stream[c]) : stream'[c][i] = stream[c][i]
        /\ asked'[c] = asked[c] + 1 /\ asked[c] \in Nat /\ Len(stream[c]) \in Nat
    <3> HIDE DEF m
    <3>1. stream'[c] = Append(stream[c], m)
      BY <2>1 DEF TypeInv, ConnTypes
    <3> QED
      BY <2>1, <2>2, <2>3, <3>1 DEF TypeInv, UserTypes
  <2>5. \A d \in Clients \ {c} : stream'[d] = stream[d] /\ asked'[d] = asked[d]
    BY <2>1 DEF TypeInv, ConnTypes, UserTypes
  <2>6. /\ \A d \in Clients : asked[d] \in Nat /\ asked'[d] \in Nat /\ asked[d] <= asked'[d]
        /\ \A d \in Clients : got[d] \in Seq(Nat)
    <3>1. \A d \in Clients : asked[d] \in Nat /\ got[d] \in Seq(Nat)
      BY DEF TypeInv, UserTypes
    <3>2. ASSUME NEW d \in Clients PROVE asked'[d] \in Nat /\ asked[d] <= asked'[d]
      <4>1. CASE d = c
        BY <4>1, <2>4
      <4>2. CASE d # c
        BY <4>2, <2>5, <3>1
      <4> QED
        BY <4>1, <4>2
    <3> QED
      BY <3>1, <3>2
  <2> HIDE DEF m
  <2>7. GotOrder'
    BY <2>1, <2>6 DEF GotOrder
  <2>8. StreamOrder'
    <3> SUFFICES ASSUME NEW d \in Clients, NEW i \in 1..Len(stream'[d])
                 PROVE  /\ stream'[d][i].id \in 1..asked'[d]
                        /\ \A j \in 1..Len(stream'[d]) : i < j => stream'[d][i].id < stream'[d][j].id
                        /\ \A j \in 1..Len(got'[d]) : got'[d][j] < stream'[d][i].id
      BY DEF StreamOrder
    <3>1. CASE d # c
      BY <3>1, <2>1, <2>5 DEF StreamOrder
    <3>2. CASE d = c /\ i = Len(stream[c]) + 1
      BY <3>2, <2>1, <2>4, <2>6, SMTT(30) DEF GotOrder
    <3>3. CASE d = c /\ i \in 1..Len(stream[c])
      <4>1. stream[c][i].id \in 1..asked[c]
        BY <3>3 DEF StreamOrder
      <4>2. ASSUME NEW j \in 1..Len(stream'[c]), i < j PROVE stream'[c][i].id < stream'[c][j].id
        <5>1. CASE j = Len(stream[c]) + 1
          BY <5>1, <4>1, <3>3, <2>4
        <5>2. CASE j \in 1..Len(stream[c])
          BY <5>2, <4>2, <3>3, <2>4 DEF StreamOrder
        <5> QED
          BY <5>1, <5>2, <2>4
      <4>3. \A j \in 1..Len(got'[c]) : got'[c][j] < stream'[c][i].id
        BY <3>3, <2>1, <2>4 DEF StreamOrder
      <4> QED
        BY <4>1, <4>2, <4>3, <3>3, <2>4
    <3> QED
      BY <3>1, <3>2, <3>3, <2>4
  <2>9. OutOrder'
    <3> SUFFICES ASSUME pc = "send"
                 PROVE  /\ out.id \in 1..asked'[cur]
                        /\ \A j \in 1..Len(got[cur]) : got[cur][j] < out.id
                        /\ \A i \in 1..Len(stream'[cur]) : out.id < stream'[cur][i].id
      BY <2>1 DEF OutOrder
    <3>1. cur \in Clients
      BY DEF TypeInv, ServerTypes
    <3>2. out.id \in 1..asked[cur]
      BY DEF OutOrder
    <3>3. out.id \in 1..asked'[cur]
      BY <2>6, <3>1, <3>2
    <3>4. ASSUME NEW i \in 1..Len(stream'[cur]) PROVE out.id < stream'[cur][i].id
      <4>1. CASE cur # c
        BY <4>1, <3>1, <2>5 DEF OutOrder
      <4>2. CASE cur = c /\ i = Len(stream[c]) + 1
        BY <4>2, <3>2, <2>4
      <4>3. CASE cur = c /\ i \in 1..Len(stream[c])
        BY <4>3, <2>4 DEF OutOrder
      <4> QED
        BY <4>1, <4>2, <4>3, <3>1, <2>4
    <3> QED
      BY <3>3, <3>4 DEF OutOrder
  <2> QED
    BY <2>7, <2>8, <2>9
<1>4. ASSUME NEW c \in Clients, NEW abrupt \in BOOLEAN, Close(c, abrupt) PROVE OrderInv'
  <2>1. \A d \in Clients : stream'[d] = stream[d] \/ stream'[d] = <<>>
    BY <1>4 DEF Close, TypeInv, ConnTypes
  <2>2. UNCHANGED <<pc, out, cur, asked, got>>
    BY <1>4 DEF Close, user
  <2>3. cur \in Clients \/ pc # "send"
    BY Bounds DEF TypeInv, ServerTypes
  <2>4. StreamOrder' /\ GotOrder'
    <3>1. \A d \in Clients : stream'[d] = <<>> => Len(stream'[d]) = 0
      OBVIOUS
    <3>2. StreamOrder'
      BY <2>1, <2>2, <3>1, SMTT(30) DEF StreamOrder
    <3> QED
      BY <2>2, <3>2 DEF GotOrder
  <2>5. OutOrder'
    BY <2>1, <2>2, <2>3 DEF OutOrder
  <2> QED
    BY <2>4, <2>5
<1>5. ASSUME Accept PROVE OrderInv'
  BY <1>5, <1>1 DEF Accept, TakeConnection, user
<1>6. ASSUME RecvCommand PROVE OrderInv'
  <2> DEFINE m == stream[cur][1]
  <2>1. cur \in Clients /\ m \in Sent /\ Handle(m) /\ UNCHANGED <<cur, asked, got>>
    BY <1>6, HeadOfStream DEF RecvCommand, InBuffer, user
  <2>2. PICK k \in 1..Len(stream[cur]), rest \in Seq(Sent) :
           /\ stream' = [stream EXCEPT ![cur] = rest]
           /\ Len(rest) = Len(stream[cur]) - k
           /\ \A i \in 1..Len(rest) : rest[i] = stream[cur][k + i]
    BY <1>6, HeadOfStream
  <2>3. /\ stream'[cur] = rest
        /\ \A d \in Clients \ {cur} : stream'[d] = stream[d]
        /\ stream[cur] \in Seq(Sent) /\ Len(stream[cur]) \in Nat /\ Len(rest) \in Nat
    BY <2>1, <2>2 DEF TypeInv, ConnTypes
  <2>4. \A i \in 1..Len(rest) : k + i \in 1..Len(stream[cur]) /\ 1 < k + i
    BY <2>2, <2>3
  <2>5. 1 \in 1..Len(stream[cur])
    BY <2>2, <2>3
  <2>6. StreamOrder'
    <3> SUFFICES ASSUME NEW d \in Clients, NEW i \in 1..Len(stream'[d])
                 PROVE  /\ stream'[d][i].id \in 1..asked[d]
                        /\ \A j \in 1..Len(stream'[d]) : i < j => stream'[d][i].id < stream'[d][j].id
                        /\ \A j \in 1..Len(got[d]) : got[d][j] < stream'[d][i].id
      BY <2>1 DEF StreamOrder
    <3>1. CASE d # cur
      BY <3>1, <2>3 DEF StreamOrder
    <3>2. CASE d = cur
      <4>1. i \in 1..Len(rest) /\ rest[i] = stream[cur][k + i]
        BY <3>2, <2>2, <2>3
      <4>2. ASSUME NEW j \in 1..Len(rest), i < j PROVE rest[i].id < rest[j].id
        <5>1. rest[j] = stream[cur][k + j] /\ k + i < k + j
          BY <2>2, <4>2
        <5> QED
          BY <5>1, <4>1, <2>1, <2>4 DEF StreamOrder
      <4>3. rest[i].id \in 1..asked[cur] /\ \A j \in 1..Len(got[cur]) : got[cur][j] < rest[i].id
        BY <4>1, <2>1, <2>4 DEF StreamOrder
      <4> QED
        BY <3>2, <4>2, <4>3, <2>3
    <3> QED
      BY <3>1, <3>2
  <2>7. GotOrder'
    BY <2>1 DEF GotOrder
  <2>8. OutOrder'
    <3> SUFFICES ASSUME pc' = "send"
                 PROVE  /\ m.id \in 1..asked[cur]
                        /\ \A j \in 1..Len(got[cur]) : got[cur][j] < m.id
                        /\ \A i \in 1..Len(rest) : m.id < rest[i].id
      <4>1. pc' = "send" => out'.id = m.id
        BY <2>1, HandleOut
      <4> QED
        BY <4>1, <2>1, <2>3 DEF OutOrder
    <3>1. m.id \in 1..asked[cur] /\ \A j \in 1..Len(got[cur]) : got[cur][j] < m.id
      BY <2>1, <2>5 DEF StreamOrder
    <3>2. ASSUME NEW i \in 1..Len(rest) PROVE m.id < rest[i].id
      BY <2>1, <2>2, <2>4, <2>5 DEF StreamOrder
    <3> QED
      BY <3>1, <3>2
  <2> QED
    BY <2>6, <2>7, <2>8
<1>7. ASSUME RecvError \/ RecvEnd PROVE OrderInv'
  BY <1>7, <1>1 DEF RecvError, RecvEnd, conns, user
<1>8. ASSUME SendAnswer PROVE OrderInv'
  <2>1. cur \in Clients /\ out.id \in Nat /\ pc = "send"
    BY <1>8, SendCases DEF TypeInv, ServerTypes
  <2>2. UNCHANGED <<stream, asked, cur>>
    BY <1>8, SendCases DEF conns
  <2>3. CASE UNCHANGED <<got, pc>> /\ out'.id = out.id
    BY <1>1, <2>2, <2>3
  <2>4. CASE got' = [got EXCEPT ![cur] = Append(got[cur], out.id)] /\ pc' = "recv"
    <3>1. got[cur] \in Seq(Nat)
      BY <2>1 DEF TypeInv, UserTypes
    <3>2. /\ got'[cur] = Append(got[cur], out.id)
          /\ \A d \in Clients \ {cur} : got'[d] = got[d]
      BY <2>1, <2>4 DEF TypeInv, UserTypes
    <3>3. /\ Len(got'[cur]) = Len(got[cur]) + 1
          /\ got'[cur][Len(got[cur]) + 1] = out.id
          /\ \A i \in 1..Len(got[cur]) : got'[cur][i] = got[cur][i]
          /\ Len(got[cur]) \in Nat
      BY <2>1, <3>1, <3>2
    <3>4. \A i \in 1..Len(got'[cur]) : i \in 1..Len(got[cur]) \/ i = Len(got[cur]) + 1
      BY <3>3
    <3>5. StreamOrder'
      <4>1. ASSUME NEW d \in Clients, NEW i \in 1..Len(stream[d]), NEW j \in 1..Len(got'[d])
            PROVE  got'[d][j] < stream[d][i].id
        <5>1. CASE d # cur
          BY <5>1, <3>2 DEF StreamOrder
        <5>2. CASE d = cur /\ j \in 1..Len(got[cur])
          BY <5>2, <3>3 DEF StreamOrder
        <5>3. CASE d = cur /\ j = Len(got[cur]) + 1
          BY <5>3, <2>1, <3>3 DEF OutOrder
        <5> QED
          BY <5>1, <5>2, <5>3, <3>4
      <4> QED
        BY <4>1, <2>2 DEF StreamOrder
    <3>6. GotOrder'
      <4> SUFFICES ASSUME NEW d \in Clients, NEW i \in 1..Len(got'[d])
                   PROVE  /\ got'[d][i] \in 1..asked[d]
                          /\ \A j \in 1..Len(got'[d]) : i < j => got'[d][i] < got'[d][j]
        BY <2>2 DEF GotOrder
      <4>1. CASE d # cur
        BY <4>1, <3>2 DEF GotOrder
      <4>2. CASE d = cur /\ i \in 1..Len(got[cur])
        <5>1. got'[cur][i] \in 1..asked[cur]
          BY <4>2, <3>3 DEF GotOrder
        <5>2. ASSUME NEW j \in 1..Len(got'[cur]), i < j PROVE got'[cur][i] < got'[cur][j]
          <6>1. CASE j \in 1..Len(got[cur])
            BY <6>1, <5>2, <4>2, <3>3 DEF GotOrder
          <6>2. CASE j = Len(got[cur]) + 1
            BY <6>2, <4>2, <2>1, <3>3 DEF OutOrder
          <6> QED
            BY <6>1, <6>2, <3>4
        <5> QED
          BY <4>2, <5>1, <5>2
      <4>3. CASE d = cur /\ i = Len(got[cur]) + 1
        <5>1. got'[cur][i] \in 1..asked[cur]
          BY <4>3, <2>1, <3>3 DEF OutOrder
        <5>2. \A j \in 1..Len(got'[cur]) : ~(i < j)
          BY <4>3, <3>3
        <5> QED
          BY <4>3, <5>1, <5>2
      <4> QED
        BY <4>1, <4>2, <4>3, <3>4
    <3>7. OutOrder'
      BY <2>4 DEF OutOrder
    <3> QED
      BY <3>5, <3>6, <3>7
  <2> QED
    BY <1>8, <2>3, <2>4, SendCases
<1>9. ASSUME SendFails PROVE OrderInv'
  BY <1>9, <1>1 DEF SendFails, conns, user
<1>10. CASE UNCHANGED vars
  BY <1>10, <1>1 DEF vars, conns, user
<1> QED
  BY <1>2, <1>3, <1>4, <1>5, <1>6, <1>7, <1>8, <1>9, <1>10, MenuAssumption DEF Next, Server

\* The commands a client is answered are its own, in the order it sent them,
\* whatever recv() cut off and whoever closed meanwhile.
THEOREM OrderKept == Spec => []AnswersInOrder
<1>1. Spec => [](TypeInv /\ OrderInv)
  BY TypeInit, TypeStep, OrderInit, OrderStep, PTL DEF Spec
<1>2. TypeInv /\ OrderInv => AnswersInOrder
  <2> SUFFICES ASSUME TypeInv, OrderInv, NEW c \in Clients
               PROVE  \A i, j \in DOMAIN got[c] :
                        got[c][i] \in 1..asked[c] /\ (i < j => got[c][i] < got[c][j])
    BY DEF AnswersInOrder
  <2>1. DOMAIN got[c] = 1..Len(got[c])
    BY DEF TypeInv, UserTypes
  <2> QED
    BY <2>1 DEF OrderInv, GotOrder
<1> QED
  BY <1>1, <1>2, PTL

-----------------------------------------------------------------------------
(***************************************************************************)
(* Patient clients                                                         *)
(***************************************************************************)

\* A patient client has at most one command under way, the one after its last
\* answer: in its stream, or answered but not sent, or without an answer, or
\* lost with a connection.
Patient(c) ==
    /\ \A i \in 1..Len(got[c]) : got[c][i] = i
    /\ asked[c] \in {Len(got[c]), Len(got[c]) + 1}
    /\ stream[c] # <<>> =>
          /\ Len(stream[c]) = 1
          /\ stream[c][1].id = Len(got[c]) + 1
          /\ c \in sure => HasAnswer(stream[c][1].cmd)
          /\ asked[c] = Len(got[c]) + 1
    /\ pc = "send" /\ cur = c =>
          /\ stream[c] = <<>>
          /\ out.id = Len(got[c]) + 1
          /\ asked[c] = Len(got[c]) + 1

PatientInv == \A c \in patient : Patient(c)

\* At the start nobody has sent anything.
LEMMA PatientInit == Init => PatientInv
BY DEF Init, PatientInv, Patient

\* A client none of whose state a step touches stays in step.
LEMMA PatientIdle ==
    ASSUME TypeInv, NEW c \in Clients, Patient(c),
           UNCHANGED <<stream[c], asked[c], got[c]>>,
           c \in sure' => c \in sure,
           pc' = "send" /\ cur' = c => UNCHANGED <<pc, cur>> /\ out'.id = out.id
    PROVE  Patient(c)'
BY DEF Patient

\* Every step keeps the patient clients in step.
LEMMA PatientStep == TypeInv /\ PatientInv /\ [Next]_vars => PatientInv'
<1> SUFFICES ASSUME TypeInv, PatientInv, [Next]_vars, NEW p \in patient'
             PROVE  Patient(p)'
  BY DEF PatientInv
<1>1. p \in patient
  BY DEF Next, Connect, Request, TakeAnswer, Close, Server, Accept, TakeConnection, RecvCommand,
         RecvError, RecvEnd, SendAnswer, SendFails, vars, user
<1>2. p \in Clients /\ Patient(p) /\ got[p] \in Seq(Nat) /\ asked[p] \in Nat /\ stream[p] \in Seq(Sent)
  BY <1>1 DEF PatientInv, TypeInv, UserTypes, ConnTypes
<1>3. ASSUME NEW c \in Clients, Connect(c) \/ TakeAnswer(c) PROVE Patient(p)'
  BY <1>2, <1>3, PatientIdle DEF Connect, TakeAnswer, conns, user
<1>4. ASSUME NEW c \in Clients, NEW r \in Commands, Request(c, r) PROVE Patient(p)'
  <2>1. CASE p # c
    <3>1. UNCHANGED <<stream[p], asked[p], got[p]>> /\ UNCHANGED <<pc, cur, out>>
      BY <1>2, <1>4, <2>1 DEF Request, TypeInv, ConnTypes, UserTypes
    <3>2. p \in sure' => p \in sure
      BY <1>4, <2>1 DEF Request
    <3> QED
      BY <3>1, <3>2, <1>2, PatientIdle
  <2>2. CASE p = c
    <3> DEFINE m == [id |-> asked[c] + 1, cmd |-> r]
    <3>1. Len(got[c]) = asked[c] /\ (c \in sure' => HasAnswer(r))
      BY <1>4, <2>2 DEF Request
    <3>2. stream[c] = <<>> /\ ~(pc = "send" /\ cur = c)
      BY <3>1, <2>2, <1>2 DEF Patient
    <3>3. /\ asked'[c] = asked[c] + 1
          /\ stream'[c] = Append(<<>>, m)
          /\ UNCHANGED <<got, pc, cur, out>>
      BY <1>4, <3>2 DEF Request, TypeInv, ConnTypes, UserTypes
    <3>4. Len(stream'[c]) = 1 /\ stream'[c][1] = m
      BY <3>3
    <3>5. m.id = Len(got[c]) + 1 /\ (c \in sure' => HasAnswer(m.cmd))
      BY <3>1
    <3> HIDE DEF m
    <3> QED
      BY <1>2, <2>2, <3>1, <3>2, <3>3, <3>4, <3>5 DEF Patient
  <2> QED
    BY <2>1, <2>2
<1>5. ASSUME NEW c \in Clients, NEW abrupt \in BOOLEAN, Close(c, abrupt) PROVE Patient(p)'
  <2>1. stream'[p] = stream[p] \/ stream'[p] = <<>>
    BY <1>5, <1>2 DEF Close, TypeInv, ConnTypes
  <2>2. UNCHANGED <<pc, out, cur, asked, got, sure>>
    BY <1>5 DEF Close, user
  <2> QED
    BY <2>1, <2>2, <1>2 DEF Patient
<1>6. ASSUME Accept PROVE Patient(p)'
  BY <1>2, <1>6, PatientIdle DEF Accept, TakeConnection, user
<1>7. ASSUME RecvCommand PROVE Patient(p)'
  <2>1. cur \in Clients /\ stream[cur][1] \in Sent /\ Handle(stream[cur][1]) /\ UNCHANGED <<cur, asked, got, sure>>
    BY <1>7, HeadOfStream DEF RecvCommand, InBuffer, user
  <2>2. PICK k \in 1..Len(stream[cur]), rest \in Seq(Sent) :
           /\ stream' = [stream EXCEPT ![cur] = rest]
           /\ Len(rest) = Len(stream[cur]) - k
    BY <1>7, HeadOfStream
  <2>3. CASE p # cur
    <3>1. stream'[p] = stream[p]
      BY <2>2, <2>3, <1>2 DEF TypeInv, ConnTypes
    <3> QED
      BY <2>1, <2>3, <3>1, <1>2, PatientIdle
  <2>4. CASE p = cur
    <3>1. stream[p] # <<>>
      BY <1>7, <2>4 DEF RecvCommand
    <3>2. /\ Len(stream[p]) = 1
          /\ stream[p][1].id = Len(got[p]) + 1
          /\ asked[p] = Len(got[p]) + 1
      BY <3>1, <1>2 DEF Patient
    <3>3. stream'[p] = rest /\ Len(rest) = 0
      BY <2>2, <2>4, <3>2, <1>2 DEF TypeInv, ConnTypes
    <3>4. stream'[p] = <<>>
      BY <3>3
    <3>5. pc' = "send" => out'.id = Len(got[p]) + 1
      BY <2>1, <2>4, <3>2, HandleOut
    <3> QED
      BY <1>2, <2>1, <3>2, <3>4, <3>5 DEF Patient
  <2> QED
    BY <2>3, <2>4
<1>8. ASSUME RecvError \/ RecvEnd PROVE Patient(p)'
  BY <1>2, <1>8, PatientIdle DEF RecvError, RecvEnd, conns, user
<1>9. ASSUME SendAnswer PROVE Patient(p)'
  <2>1. pc = "send" /\ UNCHANGED <<stream, asked, cur, sure>>
    BY <1>9, SendCases DEF conns
  <2>2. CASE got'[p] = got[p] /\ (pc' # "send" \/ out'.id = out.id)
    BY <1>2, <2>1, <2>2, PatientIdle
  <2>3. CASE p = cur /\ got'[p] = Append(got[p], out.id) /\ pc' = "recv"
    <3>1. /\ stream[p] = <<>>
          /\ out.id = Len(got[p]) + 1
          /\ asked[p] = Len(got[p]) + 1
      BY <1>2, <2>1, <2>3 DEF Patient
    <3>2. out.id \in Nat
      BY DEF TypeInv, ServerTypes
    <3>3. /\ Len(got'[p]) = Len(got[p]) + 1
          /\ got'[p][Len(got[p]) + 1] = out.id
          /\ \A i \in 1..Len(got[p]) : got'[p][i] = got[p][i]
          /\ Len(got[p]) \in Nat
      BY <1>2, <2>3, <3>2
    <3>4. \A i \in 1..Len(got'[p]) : got'[p][i] = i
      <4>1. \A i \in 1..Len(got[p]) : got[p][i] = i
        BY <1>2 DEF Patient
      <4>2. \A i \in 1..Len(got'[p]) : i \in 1..Len(got[p]) \/ i = Len(got[p]) + 1
        BY <3>3
      <4> QED
        BY <4>1, <4>2, <3>1, <3>3
    <3> QED
      BY <2>1, <2>3, <3>1, <3>3, <3>4 DEF Patient
  <2>4. \/ got' = got /\ out'.id = out.id
        \/ got' = [got EXCEPT ![cur] = Append(got[cur], out.id)] /\ pc' = "recv"
    BY <1>9, SendCases
  <2>5. got \in [Clients -> Seq(Nat)]
    BY DEF TypeInv, UserTypes
  <2> QED
    BY <2>2, <2>3, <2>4, <2>5, <1>2
<1>10. ASSUME SendFails PROVE Patient(p)'
  BY <1>2, <1>10, PatientIdle DEF SendFails, conns, user
<1>11. CASE UNCHANGED vars
  BY <1>2, <1>11, PatientIdle DEF vars, conns, user
<1> QED
  BY <1>3, <1>4, <1>5, <1>6, <1>7, <1>8, <1>9, <1>10, <1>11, MenuAssumption DEF Next, Server

\* A client that waits for its answers gets the first i answers to its first i
\* commands: none is skipped, none comes twice.
THEOREM PatientServedInStep == Spec => []PatientInStep
<1>1. Spec => [](TypeInv /\ PatientInv)
  BY TypeInit, TypeStep, PatientInit, PatientStep, PTL DEF Spec
<1>2. TypeInv /\ PatientInv => PatientInStep
  <2> SUFFICES ASSUME TypeInv, PatientInv, NEW c \in patient, NEW i \in DOMAIN got[c]
               PROVE  got[c][i] = i
    BY DEF PatientInStep
  <2>1. DOMAIN got[c] = 1..Len(got[c])
    BY DEF TypeInv, UserTypes
  <2> QED
    BY <2>1 DEF PatientInv, Patient
<1> QED
  BY <1>1, <1>2, PTL
-----------------------------------------------------------------------------
(***************************************************************************)
(* Connections: each is waited for, served and closed once                 *)
(***************************************************************************)

\* A place in the backlog
Places == 1..Len(backlog)

\* Connections that wait are in the backlog, once, and the server is at the
\* other end of the only one that is served.
ConnInv ==
    /\ \A i \in Places : conn[backlog[i]] \in {"waiting", "closed"} /\ backlog[i] # cur
    /\ \A i, j \in Places : backlog[i] = backlog[j] => i = j
    /\ \A c \in Clients : conn[c] = "waiting" => \E i \in Places : backlog[i] = c
    /\ \A c \in Clients : conn[c] = "served" => cur = c
    /\ cur # NoClient => conn[cur] \in {"served", "closed"}

\* What a client has asked for and not received is in the server's hands as
\* long as it stays.
Underway(c) ==
    conn[c] # "closed" /\ asked[c] # Len(got[c]) =>
        stream[c] # <<>> \/ (pc = "send" /\ cur = c)

\* So it is for patient clients whose command has an answer in any case.
UnderwayInv == \A c \in patient \cap sure : Underway(c)

\* Who is owed an answer by eth_srv_loop() is the client it serves, and the
\* server is about to receive its only command or to send the answer.
OwedIsServed ==
    \A c \in Clients : Owed(c) =>
        /\ cur = c
        /\ \/ pc = "recv" /\ Len(stream[c]) = 1
           \/ pc = "send" /\ out.id = asked[c]

\* At the start nobody is connected.
LEMMA ConnInit == Init => ConnInv /\ UnderwayInv
BY ClientsAssumption DEF Init, ConnInv, UnderwayInv, Underway, Places

\* accept() takes the first connection.
LEMMA RestOfBacklog ==
    ASSUME NEW q \in Seq(Clients), q # <<>>
    PROVE  /\ 1 \in 1..Len(q) /\ Head(q) = q[1] /\ Head(q) \in Clients
           /\ Tail(q) \in Seq(Clients) /\ Len(Tail(q)) = Len(q) - 1
           /\ \A i \in 1..Len(Tail(q)) : i + 1 \in 1..Len(q) /\ Tail(q)[i] = q[i + 1]
OBVIOUS

\* A step that neither makes, closes nor takes a connection
LEMMA ConnIdle ==
    ASSUME ConnInv, UNCHANGED <<conn, backlog, cur>>
    PROVE  ConnInv'
BY DEF ConnInv, Places

\* connect() adds a connection behind the others.
LEMMA ConnConnect ==
    ASSUME TypeInv, ConnInv, NEW c \in Clients, Connect(c)
    PROVE  ConnInv'
<1>1. PICK q \in Seq(Clients) : q = backlog
  BY DEF TypeInv, ConnTypes
<1>2. /\ Len(Append(q, c)) = Len(q) + 1 /\ Append(q, c)[Len(q) + 1] = c
      /\ \A i \in 1..Len(q) : Append(q, c)[i] = q[i]
      /\ Len(q) \in Nat
  OBVIOUS
<1>3. PICK p : p = Append(q, c)
  OBVIOUS
<1>4. /\ conn[c] = "out" /\ backlog' = p /\ UNCHANGED cur
      /\ conn' = [conn EXCEPT ![c] = "waiting"]
  BY <1>1, <1>3 DEF Connect
<1>5. conn \in [Clients -> {"out", "waiting", "served", "closed"}]
  BY DEF TypeInv, ConnTypes
<1>6. c # cur /\ \A i \in 1..Len(q) : q[i] # c
  BY <1>1, <1>4, <1>5, ClientsAssumption DEF ConnInv, Places
<1>7. \A i \in 1..Len(q) : i \in 1..Len(p) /\ p[i] = q[i]
  BY <1>2, <1>3
<1>8. Len(q) + 1 \in 1..Len(p) /\ p[Len(q) + 1] = c
  BY <1>2, <1>3
<1>9. \A i \in 1..Len(p) : (i \in 1..Len(q) /\ p[i] = q[i]) \/ (i = Len(q) + 1 /\ p[i] = c)
  <2>1. \A i \in 1..Len(p) : i \in 1..Len(q) \/ i = Len(q) + 1
    BY <1>2, <1>3
  <2> QED
    BY <1>7, <1>8, <2>1
<1>10. /\ \A i \in 1..Len(p) : conn'[p[i]] \in {"waiting", "closed"} /\ p[i] # cur
       /\ \A i, j \in 1..Len(p) : p[i] = p[j] => i = j
  <2>1. \A i \in 1..Len(q) : q[i] \in Clients /\ conn[q[i]] \in {"waiting", "closed"} /\ q[i] # cur
    BY <1>1 DEF ConnInv, Places
  <2>2. \A i, j \in 1..Len(q) : q[i] = q[j] => i = j
    BY <1>1 DEF ConnInv, Places
  <2>3. \A i \in 1..Len(p) : conn'[p[i]] \in {"waiting", "closed"} /\ p[i] # cur
    BY <1>4, <1>5, <1>6, <1>9, <2>1
  <2>4. \A i, j \in 1..Len(p) : p[i] = p[j] => i = j
    BY <1>6, <1>9, <2>2
  <2> QED
    BY <2>3, <2>4
<1>11. ASSUME NEW d \in Clients, conn'[d] = "waiting"  PROVE \E i \in 1..Len(p) : p[i] = d
  <2>1. CASE d = c
    BY <1>8, <2>1
  <2>2. CASE d # c
    <3>1. conn[d] = "waiting"
      BY <1>4, <1>5, <1>11, <2>2
    <3>2. PICK i \in 1..Len(q) : q[i] = d
      BY <1>1, <3>1 DEF ConnInv, Places
    <3> QED
      BY <1>7, <3>2
  <2> QED
    BY <2>1, <2>2
<1>12. \A d \in Clients : conn'[d] = "served" => cur' = d
  BY <1>4, <1>5 DEF ConnInv
<1>13. cur' # NoClient => conn'[cur'] \in {"served", "closed"}
  BY <1>4, <1>5, <1>6 DEF ConnInv
<1> QED
  BY <1>4, <1>10, <1>11, <1>12, <1>13 DEF ConnInv, Places

\* accept() serves the first connection, when nobody else is served.
LEMMA ConnAccept ==
    ASSUME TypeInv, ConnInv, Accept
    PROVE  ConnInv'
<1>1. PICK q \in Seq(Clients) : q = backlog
  BY DEF TypeInv, ConnTypes
<1>2. q # <<>> /\ pc = "accept"
  BY <1>1 DEF Accept, TakeConnection
<1>3. PICK r \in Seq(Clients), h \in Clients :
          /\ r = Tail(q) /\ h = Head(q) /\ h = q[1] /\ Len(r) = Len(q) - 1
          /\ \A i \in 1..Len(r) : i + 1 \in 1..Len(q) /\ r[i] = q[i + 1]
  BY <1>2, RestOfBacklog
<1>4. /\ backlog' = r /\ cur' = h
      /\ conn' = [conn EXCEPT ![h] = IF @ = "waiting" THEN "served" ELSE @]
  BY <1>1, <1>3 DEF Accept, TakeConnection
<1>5. conn \in [Clients -> {"out", "waiting", "served", "closed"}]
  BY DEF TypeInv, ConnTypes
<1>6. 1 \in 1..Len(q) /\ Len(q) \in Nat
  BY <1>2, RestOfBacklog
<1>7. cur = NoClient
  BY <1>2 DEF TypeInv, ServerTypes
<1>8. \A i \in 1..Len(q) : q[i] \in Clients /\ conn[q[i]] \in {"waiting", "closed"}
  BY <1>1 DEF ConnInv, Places
<1>9. \A i, j \in 1..Len(q) : q[i] = q[j] => i = j
  BY <1>1 DEF ConnInv, Places
<1>10. \A i \in 1..Len(r) : r[i] # h /\ conn'[r[i]] \in {"waiting", "closed"}
  <2>1. ASSUME NEW i \in 1..Len(r)  PROVE r[i] # h /\ r[i] \in Clients /\ conn[r[i]] \in {"waiting", "closed"}
    <3>1. i + 1 \in 1..Len(q) /\ r[i] = q[i + 1] /\ i + 1 # 1
      BY <1>3
    <3> QED
      BY <1>3, <1>6, <1>8, <1>9, <3>1
  <2> QED
    BY <1>4, <1>5, <2>1
<1>11. \A i, j \in 1..Len(r) : r[i] = r[j] => i = j
  BY <1>3, <1>9
<1>12. ASSUME NEW d \in Clients, conn'[d] = "waiting"  PROVE \E i \in 1..Len(r) : r[i] = d
  <2>1. d # h /\ conn[d] = "waiting"
    BY <1>4, <1>5, <1>12
  <2>2. PICK i \in 1..Len(q) : q[i] = d
    BY <1>1, <2>1 DEF ConnInv, Places
  <2>3. i # 1
    BY <1>3, <2>1, <2>2
  <2>4. PICK k \in Nat : k = i - 1
    BY <2>3
  <2>5. k \in 1..Len(r) /\ k + 1 = i
    BY <1>3, <1>6, <2>3, <2>4
  <2> QED
    BY <1>3, <2>2, <2>5
<1>13. \A d \in Clients : conn'[d] = "served" => cur' = d
  BY <1>4, <1>5, <1>7, ClientsAssumption DEF ConnInv
<1>14. conn'[h] \in {"served", "closed"}
  BY <1>3, <1>4, <1>5, <1>6, <1>8
<1> QED
  BY <1>4, <1>10, <1>11, <1>12, <1>13, <1>14 DEF ConnInv, Places

\* Every step keeps connections where they belong.
LEMMA ConnStep == TypeInv /\ ConnInv /\ [Next]_vars => ConnInv'
<1> SUFFICES ASSUME TypeInv, ConnInv, [Next]_vars
             PROVE  ConnInv'
  OBVIOUS
<1>1. ASSUME NEW c \in Clients, Connect(c)  PROVE ConnInv'
  BY <1>1, ConnConnect
<1>2. ASSUME NEW c \in Clients, NEW r \in Commands, Request(c, r)  PROVE ConnInv'
  BY <1>2, ConnIdle DEF Request
<1>3. ASSUME NEW c \in Clients, TakeAnswer(c)  PROVE ConnInv'
  BY <1>3, ConnIdle DEF TakeAnswer, conns
<1>4. ASSUME NEW c \in Clients, NEW abrupt \in BOOLEAN, Close(c, abrupt)  PROVE ConnInv'
  <2>1. conn' = [conn EXCEPT ![c] = "closed"] /\ UNCHANGED <<backlog, cur>>
    BY <1>4 DEF Close
  <2> QED
    BY <2>1 DEF ConnInv, Places, TypeInv, ConnTypes, ServerTypes
<1>5. CASE Accept
  BY <1>5, ConnAccept
<1>6. CASE RecvCommand \/ RecvError \/ SendAnswer \/ SendFails
  BY <1>6, ConnIdle DEF RecvCommand, RecvError, SendAnswer, SendFails, conns
<1>7. CASE RecvEnd
  <2>1. conn[cur] = "closed" /\ cur' = NoClient /\ UNCHANGED <<conn, backlog>> /\ cur # NoClient
    BY <1>7 DEF RecvEnd, conns, TypeInv, ServerTypes
  <2>2. \A i \in Places : backlog[i] # NoClient
    BY ClientsAssumption DEF Places, TypeInv, ConnTypes
  <2>3. \A c \in Clients : conn[c] # "served"
    BY <2>1 DEF ConnInv
  <2> QED
    BY <2>1, <2>2, <2>3 DEF ConnInv, Places
<1>8. CASE UNCHANGED vars
  BY <1>8, ConnIdle DEF vars, conns
<1> QED
  BY <1>1, <1>2, <1>3, <1>4, <1>5, <1>6, <1>7, <1>8, MenuAssumption DEF Next, Server

\* A step that changes nothing a client is owed, or closes its connection
LEMMA UnderwayIdle ==
    ASSUME NEW c \in Clients, Underway(c), UNCHANGED <<asked[c], got[c]>>,
           (conn'[c] = conn[c] /\ stream'[c] = stream[c]) \/ conn'[c] = "closed",
           pc = "send" /\ cur = c => pc' = "send" /\ cur' = c
    PROVE  Underway(c)'
BY DEF Underway

\* Every step keeps what patient clients are owed under way.
LEMMA UnderwayStep == TypeInv /\ PatientInv /\ ConnInv /\ UnderwayInv /\ [Next]_vars => UnderwayInv'
<1> SUFFICES ASSUME TypeInv, PatientInv, ConnInv, UnderwayInv, [Next]_vars, NEW p \in patient' \cap sure'
             PROVE  Underway(p)'
  BY DEF UnderwayInv
<1>1. p \in patient
  BY DEF Next, Connect, Request, TakeAnswer, Close, Server, Accept, TakeConnection, RecvCommand,
         RecvError, RecvEnd, SendAnswer, SendFails, vars, user
<1>2. p \in Clients /\ Patient(p) /\ (p \in sure => Underway(p)) /\ got[p] \in Seq(Nat) /\ asked[p] \in Nat
  BY <1>1 DEF PatientInv, UnderwayInv, TypeInv, UserTypes
<1>3. ASSUME NEW c \in Clients, Connect(c) PROVE Underway(p)'
  <2>1. conn[c] = "out" /\ conn' = [conn EXCEPT ![c] = "waiting"] /\ UNCHANGED <<stream, pc, cur, asked, got, sure>>
    BY <1>3 DEF Connect, user
  <2> QED
    BY <1>2, <2>1 DEF Underway, TypeInv, ConnTypes
<1>4. ASSUME NEW c \in Clients, NEW r \in Commands, Request(c, r) PROVE Underway(p)'
  <2>1. CASE p # c
    <3>1. UNCHANGED <<stream[p], asked[p], got[p], conn, pc, cur>>
      BY <1>2, <1>4, <2>1 DEF Request, TypeInv, ConnTypes, UserTypes
    <3>2. p \in sure
      BY <1>4, <2>1 DEF Request
    <3> QED
      BY <1>2, <3>1, <3>2, UnderwayIdle
  <2>2. CASE p = c
    <3>1. PICK q \in Seq(Sent), m \in Sent : q = stream[c] /\ stream'[c] = Append(q, m)
      <4>1. [id |-> asked[c] + 1, cmd |-> r] \in Sent
        BY <1>2, <2>2 DEF Sent
      <4> QED
        BY <1>4, <4>1 DEF Request, TypeInv, ConnTypes
    <3>2. Append(q, m) # <<>>
      BY AppendProperties
    <3> QED
      BY <2>2, <3>1, <3>2 DEF Underway
  <2> QED
    BY <2>1, <2>2
<1>5. ASSUME NEW c \in Clients, TakeAnswer(c) PROVE Underway(p)'
  BY <1>2, <1>5, UnderwayIdle DEF TakeAnswer, conns
<1>6. ASSUME NEW c \in Clients, NEW abrupt \in BOOLEAN, Close(c, abrupt) PROVE Underway(p)'
  <2>1. (conn'[p] = conn[p] /\ stream'[p] = stream[p]) \/ conn'[p] = "closed"
    BY <1>2, <1>6 DEF Close, TypeInv, ConnTypes
  <2>2. UNCHANGED <<pc, cur, asked, got, sure>>
    BY <1>6 DEF Close, user
  <2> QED
    BY <1>2, <2>1, <2>2, UnderwayIdle
<1>7. ASSUME Accept PROVE Underway(p)'
  <2>1. pc = "accept" /\ UNCHANGED <<stream, asked, got, sure>>
    BY <1>7 DEF Accept, TakeConnection, user
  <2>2. conn'[p] # "closed" => conn[p] # "closed"
    BY <1>2, <1>7 DEF Accept, TakeConnection, TypeInv, ConnTypes
  <2> QED
    BY <1>2, <2>1, <2>2 DEF Underway
<1>8. ASSUME RecvCommand PROVE Underway(p)'
  <2>1. /\ cur \in Clients /\ stream[cur][1] \in Sent /\ Handle(stream[cur][1])
        /\ pc = "recv" /\ UNCHANGED <<conn, cur, asked, got, sure>>
    BY <1>8, HeadOfStream DEF RecvCommand, InBuffer, user
  <2>2. CASE p # cur
    <3>1. stream'[p] = stream[p]
      BY <1>2, <1>8, <2>2 DEF RecvCommand, TypeInv, ConnTypes
    <3> QED
      BY <1>2, <2>1, <2>2, <3>1, UnderwayIdle
  <2>3. CASE p = cur
    <3>1. stream[p] # <<>>
      BY <1>8, <2>3 DEF RecvCommand
    <3>2. HasAnswer(stream[p][1].cmd)
      BY <1>2, <2>1, <3>1 DEF Patient
    <3>3. pc' = "send"
      BY <2>1, <2>3, <3>2, HandleOut
    <3> QED
      BY <2>1, <2>3, <3>3 DEF Underway
  <2> QED
    BY <2>2, <2>3
<1>9. ASSUME RecvError PROVE Underway(p)'
  BY <1>2, <1>9, UnderwayIdle DEF RecvError, user
<1>10. ASSUME RecvEnd PROVE Underway(p)'
  BY <1>2, <1>10 DEF RecvEnd, conns, user, Underway
<1>11. ASSUME SendAnswer PROVE Underway(p)'
  <2>1. pc = "send" /\ UNCHANGED <<conn, stream, cur, asked, sure>> /\ cur \in Clients
    BY <1>11, SendCases DEF conns
  <2>2. CASE UNCHANGED <<got, pc>>
    BY <1>2, <2>1, <2>2, UnderwayIdle
  <2>3. CASE got' = [got EXCEPT ![cur] = Append(got[cur], out.id)]
    <3>1. CASE p # cur
      <4>1. got'[p] = got[p]
        BY <1>2, <2>3, <3>1 DEF TypeInv, UserTypes
      <4> QED
        BY <1>2, <2>1, <3>1, <4>1, UnderwayIdle
    <3>2. CASE p = cur
      <4>1. asked[p] = Len(got[p]) + 1
        BY <1>2, <2>1, <3>2 DEF Patient
      <4>2. got'[p] = Append(got[p], out.id)
        BY <2>3, <3>2, <1>2 DEF TypeInv, UserTypes
      <4>3. Len(got'[p]) = asked'[p]
        BY <1>2, <2>1, <4>1, <4>2 DEF TypeInv, ServerTypes
      <4> QED
        BY <4>3 DEF Underway
    <3> QED
      BY <3>1, <3>2
  <2> QED
    BY <1>11, <2>2, <2>3, SendCases
<1>12. ASSUME SendFails PROVE Underway(p)'
  BY <1>2, <1>12 DEF SendFails, conns, user, Underway
<1>13. CASE UNCHANGED vars
  BY <1>2, <1>13, UnderwayIdle DEF vars, conns, user
<1> QED
  BY <1>3, <1>4, <1>5, <1>6, <1>7, <1>8, <1>9, <1>10, <1>11, <1>12, <1>13, MenuAssumption DEF Next, Server

\* A patient client whose command has an answer in any case (not the ini file,
\* no pages or an unknown number) never waits for a server that waits for it,
\* nor for one that serves another: the safety half of PatientAnswered.
THEOREM OwedIsInHand == Spec => []OwedIsServed
<1>1. Spec => [](TypeInv /\ PatientInv /\ ConnInv /\ UnderwayInv)
  BY TypeInit, TypeStep, PatientInit, PatientStep, ConnInit, ConnStep, UnderwayStep, PTL DEF Spec
<1>2. TypeInv /\ PatientInv /\ ConnInv /\ UnderwayInv => OwedIsServed
  <2> SUFFICES ASSUME TypeInv, PatientInv, ConnInv, UnderwayInv, NEW c \in Clients, Owed(c)
               PROVE  /\ cur = c
                      /\ \/ pc = "recv" /\ Len(stream[c]) = 1
                         \/ pc = "send" /\ out.id = asked[c]
    BY DEF OwedIsServed
  <2>1. conn[c] = "served" /\ c \in patient \cap sure /\ Len(got[c]) < asked[c]
    BY DEF Owed
  <2>2. cur = c /\ pc # "accept"
    BY <2>1, ClientsAssumption DEF ConnInv, TypeInv, ServerTypes
  <2>3. Patient(c) /\ Underway(c)
    BY <2>1 DEF PatientInv, UnderwayInv
  <2>4. asked[c] # Len(got[c])
    BY <2>1 DEF TypeInv, UserTypes
  <2>5. stream[c] # <<>> \/ pc = "send"
    BY <2>1, <2>3, <2>4 DEF Underway
  <2> QED
    BY <2>2, <2>3, <2>5 DEF Patient, TypeInv, ServerTypes
<1> QED
  BY <1>1, <1>2, PTL

\* Connections of the backlog are waited for once, and the server serves one
\* at a time, which it accepted.
ServedOneByOne ==
    /\ \A i, j \in 1..Len(backlog) : backlog[i] = backlog[j] => i = j
    /\ \A c \in Clients : conn[c] = "waiting" => \E i \in 1..Len(backlog) : backlog[i] = c
    /\ \A c, d \in Clients : conn[c] = "served" /\ conn[d] = "served" => c = d

\* eth_srv_loop() forgets no connection that waits, takes none twice, and has
\* ended with a client before it takes the next.
THEOREM OneByOne == Spec => []ServedOneByOne
<1>1. Spec => [](TypeInv /\ ConnInv)
  BY TypeInit, TypeStep, ConnInit, ConnStep, PTL DEF Spec
<1>2. ConnInv => ServedOneByOne
  BY DEF ConnInv, ServedOneByOne, Places
<1> QED
  BY <1>1, <1>2, PTL
=============================================================================
