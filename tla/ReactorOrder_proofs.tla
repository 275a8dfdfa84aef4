------------------------- MODULE ReactorOrder_proofs -------------------------
(***************************************************************************)
(* What is written to an esocket: it is polled for, and it leaves in the   *)
(* order of the writes, for any workers, esockets and payloads.            *)
(***************************************************************************)
EXTENDS Reactor_proofs, SequenceTheorems

(***************************************************************************)
(* Buffered output is polled for                                           *)
(***************************************************************************)

\* An esocket with output wants to write; one that no worker has installed yet
\* has none; and the slot of one that wants to write asks for POLLOUT, unless
\* its output is stuck behind a greeting.
Armed(e) ==
    /\ out[e] # <<>> => want[e]
    /\ ~init[e] => out[e] = <<>> /\ sent[e] = <<>> /\ ~moved[e] /\ ~want[e] /\ owner[e] = NoWorker
    /\ owner[e] # NoWorker /\ want[e] => armed[e] \/ BehindGreeting(e)

ArmedInv == \A e \in Esockets : Armed(e)

\* Who is served: an esocket of the worker's own table.
LEMMA ServedIsOwned ==
    ASSUME IInv, NEW w \in Workers
    PROVE  /\ \A e \in table[w] : e \in Esockets /\ owner[e] = w /\ owner[e] # NoWorker
           /\ \A i \in DOMAIN poll[w] : poll[w][i] # Null =>
                 poll[w][i] \in Esockets /\ owner[poll[w][i]] = w /\ owner[poll[w][i]] # NoWorker
<1>1. table[w] \subseteq Esockets /\ w # NoWorker
    BY WorkersAssumption DEF IInv, Typed, TypeOK, ContextTypes
<1>2. \A i \in DOMAIN poll[w] : poll[w][i] # Null => poll[w][i] \in Esockets
    BY DEF IInv, Typed, TypeOK, ContextTypes
<1> QED BY <1>1, <1>2 DEF IInv, TableConsistent, TableOwns, SlotsMatch

\* What a worker takes from its add queue is live and on no worker.
LEMMA NewIsFree ==
    ASSUME IInv, NEW w \in Workers, ServeNew(w)
    PROVE  LET e == Head(newQ[w]) IN
           /\ e \in Esockets /\ Holds(newQ, w, e) /\ owner[e] = NoWorker /\ life[e] = "live"
           /\ e \notin table[w]
<1>1. newQ[w] \in Seq(Esockets) /\ newQ[w] # <<>>
    BY DEF IInv, Typed, TypeOK, QueueTypes, ReadyBacked, ServeNew, Serving
<1>2. Head(newQ[w]) = newQ[w][1] /\ 1 \in DOMAIN newQ[w] /\ Head(newQ[w]) \in Esockets
    BY <1>1
<1>3. Holds(newQ, w, Head(newQ[w]))
    BY <1>2 DEF Holds
<1>4. owner[Head(newQ[w])] = NoWorker /\ life[Head(newQ[w])] = "live"
    BY <1>2, <1>3 DEF IInv, Accounted, InTransit
<1> QED BY <1>2, <1>3, <1>4, ServedIsOwned

\* Steps that leave output and flags alone and install nothing.
LEMMA ArmedIdle ==
    ASSUME ArmedInv, UNCHANGED <<out, want, armed, init, moved, sent>>,
           \A e \in Esockets : owner'[e] = owner[e] \/ owner'[e] = NoWorker
    PROVE  ArmedInv'
BY DEF ArmedInv, Armed, BehindGreeting

\* Removing esockets from a context clears their owners and no others.
LEMMA RemovedOwners ==
    ASSUME NEW w, NEW E, ContextRemove(w, E), NEW e \in Esockets
    PROVE  owner'[e] = owner[e] \/ owner'[e] = NoWorker
BY DEF ContextRemove

LEMMA ServeNewArmed ==
    ASSUME IInv, ArmedInv, NEW w \in Workers, ServeNew(w)
    PROVE  ArmedInv'
<1> DEFINE e == Head(newQ[w])
<1>1. e \in Esockets /\ owner[e] = NoWorker /\ e \notin table[w]
    BY NewIsFree
<1> HIDE DEF e
<1>2. /\ owner' = [owner EXCEPT ![e] = w] /\ armed' = [armed EXCEPT ![e] = want[e]]
      /\ FirstInstall(e) /\ UNCHANGED <<moved, sent>>
    BY <1>1 DEF ServeNew, ContextAdd, e
<1>a. PICK greets \in Greets(e) :
        /\ init' = [init EXCEPT ![e] = TRUE]
        /\ out' = [out EXCEPT ![e] = IF greets THEN Append(out[e], Greeting) ELSE out[e]]
        /\ want' = [want EXCEPT ![e] = want[e] \/ greets]
    BY <1>2 DEF FirstInstall
<1>b. greets \in BOOLEAN /\ (init[e] => ~greets)
    BY DEF Greets
<1>3. /\ owner \in [Esockets -> Workers \cup {NoWorker}] /\ armed \in [Esockets -> BOOLEAN]
      /\ init \in [Esockets -> BOOLEAN] /\ want \in [Esockets -> BOOLEAN]
      /\ out \in [Esockets -> Seq(Payloads)]
    BY DEF IInv, Typed, TypeOK, SocketTypes, FlagTypes
<1>4. ASSUME NEW d \in Esockets PROVE Armed(d)'
    <2>1. CASE d # e
        BY <1>1, <1>2, <1>a, <1>3, <2>1 DEF ArmedInv, Armed, BehindGreeting
    <2>2. CASE d = e /\ ~greets
        <3>1. /\ init'[e] = TRUE /\ owner'[e] = w /\ armed'[e] = want[e] /\ out'[e] = out[e]
              /\ moved'[e] = moved[e] /\ sent'[e] = sent[e]
            BY <1>1, <1>2, <1>a, <1>3, <2>2
        <3>2. want'[e] = want[e]
            BY <1>1, <1>a, <1>b, <1>3, <2>2
        <3> QED BY <1>1, <2>2, <3>1, <3>2 DEF ArmedInv, Armed
    <2>3. CASE d = e /\ greets
        <3>1. init'[e] = TRUE /\ owner'[e] = w /\ moved'[e] = moved[e]
            BY <1>1, <1>2, <1>a, <1>3
        <3>2. want'[e]
            BY <1>1, <1>a, <1>b, <1>3, <2>3
        <3>3. out[e] = <<>> /\ ~moved[e]
            BY <1>1, <1>b, <2>3 DEF ArmedInv, Armed
        <3>4. out'[e] = <<Greeting>>
            BY <1>1, <1>a, <1>3, <2>3, <3>3
        <3> QED BY <2>3, <3>1, <3>2, <3>3, <3>4 DEF Armed, BehindGreeting
    <2> QED BY <1>b, <2>1, <2>2, <2>3
<1> QED BY <1>4 DEF ArmedInv

LEMMA ServeIoArmed ==
    ASSUME IInv, ArmedInv, NEW w \in Workers, ServeIo(w)
    PROVE  ArmedInv'
<1> DEFINE e == Head(ioQ[w]).es
           m == Head(ioQ[w]).msg
<1>1. UNCHANGED <<owner, init, moved, sent>>
    BY DEF ServeIo, socket
<1>2. CASE e \notin table[w]
    BY <1>1, <1>2, ArmedIdle DEF ServeIo
<1>3. CASE e \in table[w]
    <2>1. e \in Esockets /\ owner[e] # NoWorker
        BY <1>3, ServedIsOwned
    <2>2. /\ want' = [want EXCEPT ![e] = TRUE]
          /\ armed' = [armed EXCEPT ![e] = armed[e] \/ ~want[e]]
          /\ out' = [out EXCEPT ![e] = IF closing[e] THEN out[e] ELSE Append(out[e], m)]
        BY <1>3 DEF ServeIo
    <2> HIDE DEF e, m
    <2>3. /\ armed \in [Esockets -> BOOLEAN] /\ want \in [Esockets -> BOOLEAN]
          /\ out \in [Esockets -> Seq(Payloads)]
        BY DEF IInv, Typed, TypeOK, FlagTypes
    <2>4. \A d \in Esockets \ {e} : want'[d] = want[d] /\ armed'[d] = armed[d] /\ out'[d] = out[d]
        BY <2>2, <2>3
    <2>5. want'[e] /\ (armed'[e] <=> armed[e] \/ ~want[e])
        BY <2>1, <2>2, <2>3
    <2>6. init[e]
        BY <2>1 DEF ArmedInv, Armed
    <2>7. m \in Payloads
        <3>1. ioQ[w] \in Seq(IoMessages) /\ ioQ[w] # <<>>
            BY DEF IInv, Typed, TypeOK, QueueTypes, ReadyBacked, ServeIo, Serving
        <3>2. Head(ioQ[w]) \in IoMessages
            BY <3>1
        <3> QED BY <3>2 DEF IoMessages, Payloads, m
    <2>8. \A d \in Esockets : d = e /\ BehindGreeting(d) => BehindGreeting(d)'
        <3>1. out'[e] = out[e] \/ out'[e] = Append(out[e], m)
            BY <2>1, <2>2, <2>3
        <3>2. out[e] # <<>> => Append(out[e], m) # <<>> /\ Head(Append(out[e], m)) = Head(out[e])
            BY <2>1, <2>3, <2>7
        <3> QED BY <1>1, <3>1, <3>2 DEF BehindGreeting
    <2>9. ASSUME NEW d \in Esockets PROVE Armed(d)'
        BY <1>1, <2>1, <2>4, <2>5, <2>6, <2>8 DEF ArmedInv, Armed, BehindGreeting
    <2> QED BY <2>9 DEF ArmedInv
<1> QED BY <1>2, <1>3

LEMMA ServeReassignArmed ==
    ASSUME IInv, ArmedInv, NEW w \in Workers, ServeReassign(w)
    PROVE  ArmedInv'
<1> DEFINE e == Head(reQ[w]).es
<1>1. UNCHANGED <<out, want, armed, init, sent>>
    BY DEF ServeReassign, flags
<1>2. CASE e \notin table[w] \/ DeclinesReassign(e)
    <2>1. UNCHANGED <<owner, moved>>
        BY <1>2 DEF ServeReassign
    <2> QED BY <1>1, <2>1, ArmedIdle
<1>3. CASE ~(e \notin table[w] \/ DeclinesReassign(e))
    <2>1. e \in Esockets /\ owner[e] # NoWorker
        BY <1>3, ServedIsOwned
    <2>2. ContextRemove(w, {e}) /\ moved' = [moved EXCEPT ![e] = TRUE]
        BY <1>3 DEF ServeReassign
    <2> HIDE DEF e
    <2>3. /\ owner'[e] = NoWorker /\ \A d \in Esockets \ {e} : owner'[d] = owner[d]
          /\ \A d \in Esockets \ {e} : moved'[d] = moved[d]
        BY <2>1, <2>2 DEF ContextRemove, IInv, Typed, TypeOK, SocketTypes
    <2>4. init[e]
        BY <2>1 DEF ArmedInv, Armed
    <2> QED BY <1>1, <2>1, <2>3, <2>4 DEF ArmedInv, Armed, BehindGreeting
<1> QED BY <1>2, <1>3

LEMMA ServeBrokenArmed ==
    ASSUME IInv, ArmedInv, NEW w \in Workers, NEW i \in Nat, ServeBroken(w, i)
    PROVE  ArmedInv'
<1> DEFINE e == poll[w][i]
<1>1. e \in Esockets /\ owner[e] # NoWorker
    BY ServedIsOwned DEF ServeBroken
<1>2. /\ out' = [out EXCEPT ![e] = <<>>] /\ want' = [want EXCEPT ![e] = FALSE]
      /\ armed' = [armed EXCEPT ![e] = FALSE] /\ ContextRemove(w, {e})
      /\ UNCHANGED <<init, moved, sent>>
    BY DEF ServeBroken, RemoveAndDelete
<1> HIDE DEF e
<1>3. /\ owner'[e] = NoWorker /\ out'[e] = <<>> /\ ~want'[e]
      /\ \A d \in Esockets \ {e} : /\ owner'[d] = owner[d] /\ out'[d] = out[d]
                                   /\ want'[d] = want[d] /\ armed'[d] = armed[d]
    BY <1>1, <1>2 DEF ContextRemove, IInv, Typed, TypeOK, SocketTypes, FlagTypes
<1>4. init[e]
    BY <1>1 DEF ArmedInv, Armed
<1> QED BY <1>1, <1>2, <1>3, <1>4 DEF ArmedInv, Armed, BehindGreeting

LEMMA ServeClientArmed ==
    ASSUME IInv, ArmedInv, NEW w \in Workers, NEW i \in Nat, NEW rd \in BOOLEAN,
           NEW wr \in BOOLEAN, NEW k \in Nat, ServeClient(w, i, rd, wr, k)
    PROVE  ArmedInv'
<1> DEFINE e     == poll[w][i]
           write == wr /\ armed[e] /\ want[e]
           left  == SubSeq(out[e], k + 1, Len(out[e]))
<1>1. e \in Esockets /\ owner[e] # NoWorker
    BY ServedIsOwned DEF ServeClient
<1>2. /\ k \in 0..(IF write THEN Len(out[e]) ELSE 0)
      /\ out' = [out EXCEPT ![e] = left]
      /\ want' = [want EXCEPT ![e] = want[e] /\ ~(write /\ left = <<>>)]
      /\ armed' = [armed EXCEPT ![e] = armed[e] /\ ~(write /\ left = <<>>)]
      /\ sent' = [sent EXCEPT ![e] = sent[e] \o SubSeq(out[e], 1, k)]
      /\ UNCHANGED <<init, moved>>
    BY DEF ServeClient
<1>3. \A d \in Esockets : owner'[d] = owner[d] \/ owner'[d] = NoWorker
    <2>1. RemoveAndDelete(w, {e}) \/ UNCHANGED owner
        BY DEF ServeClient
    <2> QED BY <2>1, RemovedOwners DEF RemoveAndDelete
<1>4. /\ out \in [Esockets -> Seq(Payloads)] /\ want \in [Esockets -> BOOLEAN]
      /\ armed \in [Esockets -> BOOLEAN] /\ sent \in [Esockets -> Seq(Payloads)]
    BY DEF IInv, Typed, TypeOK, FlagTypes, AppTypes
<1>5. ~write => left = out[e]
    <2>1. ~write => k = 0
        BY <1>2
    <2>2. SubSeq(out[e], 1, Len(out[e])) = out[e]
        BY <1>1, <1>4
    <2> QED BY <2>1, <2>2
<1>6. init[e]
    BY <1>1 DEF ArmedInv, Armed
<1>7. out[e] # <<>> => want[e]
    BY <1>1 DEF ArmedInv, Armed
<1> HIDE DEF e, left
<1>8. ASSUME NEW d \in Esockets PROVE Armed(d)'
    <2>1. CASE d # e
        <3>1. /\ out'[d] = out[d] /\ want'[d] = want[d] /\ armed'[d] = armed[d] /\ sent'[d] = sent[d]
              /\ init'[d] = init[d] /\ moved'[d] = moved[d]
            BY <1>2, <1>4, <2>1
        <3> QED BY <1>3, <3>1 DEF ArmedInv, Armed, BehindGreeting
    <2>2. CASE d = e
        <3>1. /\ out'[e] = left /\ init'[e] = init[e] /\ moved'[e] = moved[e]
              /\ (want'[e] <=> want[e] /\ ~(write /\ left = <<>>))
              /\ (armed'[e] <=> armed[e] /\ ~(write /\ left = <<>>))
            BY <1>1, <1>2, <1>4
        <3> QED BY <1>1, <1>3, <1>5, <1>6, <1>7, <2>2, <3>1 DEF ArmedInv, Armed, BehindGreeting
    <2> QED BY <2>1, <2>2
<1> QED BY <1>8 DEF ArmedInv

LEMMA StepArmed ==
    ASSUME IInv, ArmedInv, [Next]_vars
    PROVE  ArmedInv'
<1>1. CASE AppStep \/ (\E e \in Esockets : GoIdle(e)) \/ UNCHANGED vars
    <2>1. UNCHANGED <<owner, out, want, armed, init, moved, sent>>
        BY <1>1 DEF AppStep, AddMt, DeleteMt, ReassignMt, WriteMt, GoIdle, vars, socket, flags
    <2> QED BY <2>1, ArmedIdle
<1>2. ASSUME NEW w \in Workers, WorkerStep(w) PROVE ArmedInv'
    <2>1. CASE Poll(w) \/ EndPass(w)
        BY <2>1, ArmedIdle DEF Poll, EndPass, socket, flags
    <2>2. CASE ServeDelete(w) \/ ServeTimer(w)
        <3>1. UNCHANGED <<out, want, armed, init, moved, sent>> /\ \E E : ContextRemove(w, E)
            BY <2>2 DEF ServeDelete, ServeTimer, RemoveAndDelete, flags
        <3> QED BY <3>1, RemovedOwners, ArmedIdle
    <2>3. ASSUME NEW i \in DOMAIN poll[w], ServeSlot(w, i) PROVE ArmedInv'
        <3>1. i \in Nat
            BY DEF IInv, Typed, TypeOK, ContextTypes
        <3>2. CASE SkipSlot(w, i)
            BY <3>2, ArmedIdle DEF SkipSlot, socket, flags
        <3>3. CASE \E rd, wr \in BOOLEAN, k \in 0..Cardinality(Msgs \cup {Greeting}) :
                      ServeClient(w, i, rd, wr, k)
            <4>1. ASSUME NEW rd \in BOOLEAN, NEW wr \in BOOLEAN, NEW k \in Nat,
                         ServeClient(w, i, rd, wr, k)
                  PROVE  ArmedInv'
                BY <3>1, <4>1, ServeClientArmed
            <4> QED BY <3>3, <4>1
        <3> QED BY <2>3, <3>1, <3>2, <3>3, ServeBrokenArmed DEF ServeSlot
    <2> QED BY <1>2, <2>1, <2>2, <2>3, ServeNewArmed, ServeIoArmed, ServeReassignArmed DEF WorkerStep
<1> QED BY <1>1, <1>2 DEF Next

\* Output that a worker holds is polled for, whatever was written, sent in part
\* or reassigned, unless a new_callback's greeting is at its head: that, and all
\* behind it, waits for the first reassign.
THEOREM OutputIsPolledFor == Spec => []BufferedIsArmed
<1>1. Init => ArmedInv
    BY DEF Init, ArmedInv, Armed
<1>2. IInv /\ ArmedInv /\ [Next]_vars => ArmedInv'
    BY StepArmed
<1>3. ArmedInv => BufferedIsArmed
    BY DEF ArmedInv, Armed, BufferedIsArmed
<1> QED BY <1>1, <1>2, <1>3, AlwaysIInv, PTL DEF Spec
(***************************************************************************)
(* The line of payloads of one esocket: s is what was written to it, W what*)
(* is in its buffer or has left it, q the io queue of its worker.          *)
(***************************************************************************)

\* The place of a payload in the order of writing.
Pos(s, m) == IF m = Greeting THEN 0 ELSE CHOOSE i \in DOMAIN s : s[i] = m

Mine(q, e) == {j \in DOMAIN q : q[j].es = e}

\* No payload was written twice.
Distinct(s) == \A i, j \in DOMAIN s : s[i] = s[j] => i = j

\* W, and after it what q still holds for e, are in the order of writing.
Line(s, W, q, e) ==
    /\ Distinct(s)
    /\ \A i \in DOMAIN W : W[i] = Greeting \/ W[i] \in Range(s)
    /\ \A j \in Mine(q, e) : q[j].msg \in Range(s)
    /\ \A i, j \in DOMAIN W : i < j => Pos(s, W[i]) < Pos(s, W[j])
    /\ \A i \in DOMAIN W, j \in Mine(q, e) : Pos(s, W[i]) < Pos(s, q[j].msg)
    /\ \A i, j \in Mine(q, e) : i < j => Pos(s, q[i].msg) < Pos(s, q[j].msg)

LEMMA PosOf ==
    ASSUME NEW s \in Seq(Msgs), Distinct(s)
    PROVE  /\ Pos(s, Greeting) = 0
           /\ \A m \in Range(s) : Pos(s, m) \in DOMAIN s /\ s[Pos(s, m)] = m
<1>1. ASSUME NEW m \in Range(s) PROVE Pos(s, m) \in DOMAIN s /\ s[Pos(s, m)] = m
    <2>1. PICK i \in DOMAIN s : s[i] = m
        BY DEF Range
    <2>2. m # Greeting
        BY <2>1, GreetingAssumption
    <2>3. Pos(s, m) = CHOOSE j \in DOMAIN s : s[j] = m
        BY <2>2 DEF Pos
    <2> QED BY <2>1, <2>3
<1> QED BY <1>1 DEF Pos

\* Writing one more payload leaves the places of the others, and its own is
\* above them all.
LEMMA PosAppend ==
    ASSUME NEW s \in Seq(Msgs), Distinct(s), NEW m \in Msgs, m \notin Range(s)
    PROVE  /\ Append(s, m) \in Seq(Msgs) /\ Distinct(Append(s, m))
           /\ Range(Append(s, m)) = Range(s) \cup {m}
           /\ \A n \in Range(s) \cup {Greeting} :
                 Pos(Append(s, m), n) = Pos(s, n) /\ Pos(s, n) < Pos(Append(s, m), m)
<1> DEFINE t == Append(s, m)
<1>1. /\ t \in Seq(Msgs) /\ Len(t) = Len(s) + 1 /\ t[Len(s) + 1] = m
      /\ \A i \in 1..Len(s) : t[i] = s[i]
      /\ DOMAIN t = 1..Len(s) + 1 /\ DOMAIN s = 1..Len(s) /\ Len(s) \in Nat
    OBVIOUS
<1> HIDE DEF t
<1>2. \A i \in DOMAIN s : s[i] # m
    BY DEF Range
<1>3. Distinct(t)
    BY <1>1, <1>2 DEF Distinct
<1>4. Range(t) = Range(s) \cup {m}
    <2>1. \A i \in DOMAIN t : t[i] \in Range(s) \cup {m}
        <3> TAKE i \in DOMAIN t
        <3>1. CASE i = Len(s) + 1
            BY <1>1, <3>1
        <3>2. CASE i # Len(s) + 1
            BY <1>1, <3>2 DEF Range
        <3> QED BY <3>1, <3>2
    <2>2. m \in Range(t)
        BY <1>1 DEF Range
    <2>3. \A i \in DOMAIN s : s[i] \in Range(t)
        BY <1>1 DEF Range
    <2> QED BY <2>1, <2>2, <2>3 DEF Range
<1>5. \A n \in Range(t) : Pos(t, n) \in DOMAIN t /\ t[Pos(t, n)] = n
    BY <1>1, <1>3, PosOf
<1>6. \A n \in Range(s) : Pos(s, n) \in DOMAIN s /\ s[Pos(s, n)] = n
    BY PosOf
<1>7. Pos(t, m) = Len(s) + 1
    BY <1>1, <1>3, <1>4, <1>5 DEF Distinct
<1>8. ASSUME NEW n \in Range(s) PROVE Pos(t, n) = Pos(s, n) /\ Pos(s, n) < Len(s) + 1
    <2>1. Pos(s, n) \in 1..Len(s) /\ t[Pos(s, n)] = n
        BY <1>1, <1>6
    <2>2. Pos(t, n) \in DOMAIN t /\ t[Pos(t, n)] = n
        BY <1>4, <1>5
    <2> QED BY <1>1, <1>3, <2>1, <2>2 DEF Distinct
<1>9. Pos(t, Greeting) = 0 /\ Pos(s, Greeting) = 0
    BY DEF Pos
<1>10. Pos(s, Greeting) < Len(s) + 1
    BY <1>1, <1>9
<1> QED BY <1>1, <1>3, <1>4, <1>7, <1>8, <1>9, <1>10 DEF t

\* A payload is written, and its message finds the pipe full or enters it.
LEMMA LineWrite ==
    ASSUME NEW e \in Esockets, NEW s \in Seq(Msgs), NEW W \in Seq(Payloads),
           NEW q \in Seq(IoMessages), Line(s, W, q, e), NEW m \in Msgs, m \notin Range(s)
    PROVE  /\ Line(Append(s, m), W, q, e)
           /\ Line(Append(s, m), W, Append(q, [es |-> e, msg |-> m]), e)
<1> DEFINE t == Append(s, m)
           x == [es |-> e, msg |-> m]
           p == Append(q, x)
<1>1. /\ Distinct(t) /\ Range(t) = Range(s) \cup {m}
      /\ \A n \in Range(s) \cup {Greeting} : Pos(t, n) = Pos(s, n) /\ Pos(s, n) < Pos(t, m)
    BY PosAppend DEF Line
<1>2. /\ Mine(p, e) = Mine(q, e) \cup {Len(q) + 1} /\ p[Len(q) + 1].msg = m
      /\ \A j \in Mine(q, e) : p[j] = q[j] /\ j < Len(q) + 1
    <2>1. /\ DOMAIN p = 1..Len(q) + 1 /\ DOMAIN q = 1..Len(q) /\ Len(q) \in Nat
          /\ p[Len(q) + 1] = x /\ \A j \in 1..Len(q) : p[j] = q[j]
        BY DEF IoMessages
    <2>2. x.es = e /\ x.msg = m
        OBVIOUS
    <2> HIDE DEF p, x
    <2> QED BY <2>1, <2>2 DEF Mine
<1> HIDE DEF t, p, x
<1>3. \A i \in DOMAIN W : W[i] \in Range(s) \cup {Greeting}
    BY DEF Line
<1>4. \A j \in Mine(q, e) : q[j].msg \in Range(s)
    BY DEF Line
<1>5. Line(t, W, q, e)
    BY <1>1, <1>3, <1>4 DEF Line
<1>6. Line(t, W, p, e)
    <2>1. \A j \in Mine(p, e) : p[j].msg \in Range(t)
        BY <1>1, <1>2, <1>4
    <2>2. \A i \in DOMAIN W, j \in Mine(p, e) : Pos(t, W[i]) < Pos(t, p[j].msg)
        BY <1>1, <1>2, <1>3, <1>5 DEF Line
    <2>3. \A i, j \in Mine(p, e) : i < j => Pos(t, p[i].msg) < Pos(t, p[j].msg)
        <3> SUFFICES ASSUME NEW i \in Mine(p, e), NEW j \in Mine(p, e), i < j
                     PROVE  Pos(t, p[i].msg) < Pos(t, p[j].msg)
            OBVIOUS
        <3>1. i # Len(q) + 1
            <4>1. Mine(p, e) \subseteq 1..Len(q) + 1
                BY <1>2 DEF Mine
            <4> QED BY <4>1
        <3>2. i \in Mine(q, e)
            BY <1>2, <3>1
        <3>3. CASE j = Len(q) + 1
            BY <1>1, <1>2, <1>4, <3>2, <3>3
        <3>4. CASE j \in Mine(q, e)
            BY <1>2, <1>5, <3>2, <3>4 DEF Line
        <3> QED BY <1>2, <3>3, <3>4
    <2> QED BY <1>5, <2>1, <2>2, <2>3 DEF Line
<1> QED BY <1>5, <1>6 DEF t, p, x

\* A message for another esocket enters the queue.
LEMMA LineOther ==
    ASSUME NEW e, NEW s, NEW W, NEW q \in Seq(IoMessages), NEW x \in IoMessages, x.es # e,
           Line(s, W, q, e)
    PROVE  Line(s, W, Append(q, x), e)
<1> DEFINE p == Append(q, x)
<1>1. Mine(p, e) = Mine(q, e) /\ \A j \in Mine(q, e) : p[j] = q[j]
    <2>1. /\ DOMAIN p = 1..Len(q) + 1 /\ DOMAIN q = 1..Len(q) /\ Len(q) \in Nat
          /\ p[Len(q) + 1] = x /\ \A j \in 1..Len(q) : p[j] = q[j]
        OBVIOUS
    <2> HIDE DEF p
    <2> QED BY <2>1 DEF Mine
<1> HIDE DEF p
<1>2. Line(s, W, p, e)
    BY <1>1 DEF Line
<1> QED BY <1>2 DEF p

\* The worker takes a message.
LEMMA MineTail ==
    ASSUME NEW e, NEW q \in Seq(IoMessages), q # <<>>
    PROVE  /\ \A j \in Mine(Tail(q), e) : j + 1 \in Mine(q, e) /\ Tail(q)[j] = q[j + 1] /\ j \in Nat \ {0}
           /\ Head(q).es = e => 1 \in Mine(q, e)
           /\ Head(q) = q[1]
BY DEF Mine

LEMMA LineTail ==
    ASSUME NEW e, NEW s, NEW W, NEW q \in Seq(IoMessages), q # <<>>, Line(s, W, q, e)
    PROVE  Line(s, W, Tail(q), e)
<1> DEFINE p == Tail(q)
<1>1. \A j \in Mine(p, e) : j + 1 \in Mine(q, e) /\ p[j] = q[j + 1] /\ j \in Nat \ {0}
    BY MineTail
<1> HIDE DEF p
<1>2. \A i, j \in Mine(p, e) : i < j => Pos(s, p[i].msg) < Pos(s, p[j].msg)
    <2> SUFFICES ASSUME NEW i \in Mine(p, e), NEW j \in Mine(p, e), i < j
                 PROVE  Pos(s, p[i].msg) < Pos(s, p[j].msg)
        OBVIOUS
    <2>1. i + 1 < j + 1
        BY <1>1
    <2> QED BY <1>1, <2>1 DEF Line
<1>3. Line(s, W, p, e)
    BY <1>1, <1>2 DEF Line
<1> QED BY <1>3 DEF p

\* It appends the payload to the esocket's buffer.
LEMMA LineTake ==
    ASSUME NEW e, NEW s, NEW W \in Seq(Payloads), NEW q \in Seq(IoMessages), q # <<>>,
           Line(s, W, q, e), Head(q).es = e
    PROVE  Line(s, Append(W, Head(q).msg), Tail(q), e)
<1> DEFINE V == Append(W, Head(q).msg)
           p == Tail(q)
<1>1. Line(s, W, p, e)
    BY LineTail
<1>2. /\ \A j \in Mine(p, e) : j + 1 \in Mine(q, e) /\ p[j] = q[j + 1] /\ j \in Nat \ {0}
      /\ 1 \in Mine(q, e) /\ Head(q) = q[1]
    BY MineTail
<1>3. /\ DOMAIN V = 1..Len(W) + 1 /\ DOMAIN W = 1..Len(W) /\ Len(W) \in Nat
      /\ V[Len(W) + 1] = q[1].msg /\ \A i \in 1..Len(W) : V[i] = W[i]
    BY <1>2
<1> HIDE DEF V, p
<1>4. q[1].msg \in Range(s)
    BY <1>2 DEF Line
<1>5. \A i \in DOMAIN W : Pos(s, W[i]) < Pos(s, q[1].msg)
    BY <1>2 DEF Line
<1>6. \A j \in Mine(p, e) : Pos(s, q[1].msg) < Pos(s, p[j].msg)
    <2> SUFFICES ASSUME NEW j \in Mine(p, e) PROVE Pos(s, q[1].msg) < Pos(s, p[j].msg)
        OBVIOUS
    <2>1. 1 < j + 1
        BY <1>2
    <2> QED BY <1>2, <2>1 DEF Line
<1>7. \A i \in DOMAIN V : V[i] = Greeting \/ V[i] \in Range(s)
    BY <1>1, <1>3, <1>4 DEF Line
<1>8. \A i, j \in DOMAIN V : i < j => Pos(s, V[i]) < Pos(s, V[j])
    <2> SUFFICES ASSUME NEW i \in DOMAIN V, NEW j \in DOMAIN V, i < j
                 PROVE  Pos(s, V[i]) < Pos(s, V[j])
        OBVIOUS
    <2>1. i \in DOMAIN W /\ V[i] = W[i]
        BY <1>3
    <2>2. CASE j = Len(W) + 1
        BY <1>3, <1>5, <2>1, <2>2
    <2>3. CASE j \in DOMAIN W
        BY <1>1, <1>3, <2>1, <2>3 DEF Line
    <2> QED BY <1>3, <2>2, <2>3
<1>9. \A i \in DOMAIN V, j \in Mine(p, e) : Pos(s, V[i]) < Pos(s, p[j].msg)
    <2> SUFFICES ASSUME NEW i \in DOMAIN V, NEW j \in Mine(p, e)
                 PROVE  Pos(s, V[i]) < Pos(s, p[j].msg)
        OBVIOUS
    <2>1. CASE i = Len(W) + 1
        BY <1>3, <1>6, <2>1
    <2>2. CASE i \in DOMAIN W
        BY <1>1, <1>3, <2>2 DEF Line
    <2> QED BY <1>3, <2>1, <2>2
<1>10. Line(s, V, p, e)
    BY <1>1, <1>7, <1>8, <1>9 DEF Line
<1> QED BY <1>10 DEF V, p

\* The buffer is dropped: what has left stays in order.
LEMMA LinePrefix ==
    ASSUME NEW e, NEW s, NEW U \in Seq(Payloads), NEW V \in Seq(Payloads), NEW q,
           Line(s, U \o V, q, e)
    PROVE  Line(s, U, q, e)
<1>1. DOMAIN U \subseteq DOMAIN (U \o V) /\ \A i \in DOMAIN U : (U \o V)[i] = U[i]
    OBVIOUS
<1> QED BY <1>1 DEF Line

\* The new_callback writes its greeting before anything else is in the buffer.
LEMMA LineGreet ==
    ASSUME NEW e, NEW s \in Seq(Msgs), NEW q, Line(s, <<>>, q, e)
    PROVE  Line(s, <<Greeting>>, q, e)
<1> DEFINE W == <<Greeting>>
<1>1. DOMAIN W = {1} /\ W[1] = Greeting
    OBVIOUS
<1> HIDE DEF W
<1>2. /\ Pos(s, Greeting) = 0
      /\ \A m \in Range(s) : Pos(s, m) \in Nat \ {0}
    BY PosOf DEF Line
<1>3. Line(s, W, q, e)
    BY <1>1, <1>2 DEF Line
<1> QED BY <1>3 DEF W

\* The esocket moves to a worker whose queue has nothing for it.
LEMMA LineMove ==
    ASSUME NEW e, NEW s, NEW W, NEW p, NEW q, Line(s, W, p, e), Mine(q, e) = {}
    PROVE  Line(s, W, q, e)
BY DEF Line

(***************************************************************************)
(* Payloads keep their order                                               *)
(***************************************************************************)

\* Where the messages of an esocket may be.  Until its first reassign, and
\* while it is in an add queue, they are all in the io queue of its home; an
\* esocket created with DAP_SOCK_REASSIGN_ONCE does not leave the worker it is
\* then installed on, so that what was left elsewhere is never served.
Homes(e) ==
    /\ owner[e] # NoWorker => home[e] = owner[e]
    /\ life[e] # "fresh" => home[e] \in Workers
    /\ ~moved[e] => \A w \in Workers : Holds(newQ, w, e) => w = home[e]

Untouched(e) ==
    life[e] = "fresh" => /\ ~init[e] /\ issued[e] = <<>>
                         /\ \A w \in Workers : Mine(ioQ[w], e) = {}

AtHome(e) ==
    e \in Once /\ ((life[e] = "live" /\ owner[e] = NoWorker) \/ ~moved[e])
        => \A w \in Workers \ {home[e]} : Mine(ioQ[w], e) = {}

InOrder(e) ==
    e \in Once /\ life[e] # "fresh"
        => Line(issued[e], sent[e] \o out[e], ioQ[home[e]], e)

Ord(e) == Homes(e) /\ Untouched(e) /\ AtHome(e) /\ InOrder(e)

OrdInv == \A e \in Esockets : Ord(e)

LEMMA AppendParts ==
    ASSUME NEW S, NEW s \in Seq(S), NEW x \in S
    PROVE  \A i \in DOMAIN Append(s, x) :
              (i \in DOMAIN s /\ Append(s, x)[i] = s[i]) \/ Append(s, x)[i] = x
<1>1. /\ DOMAIN Append(s, x) = 1..Len(s) + 1 /\ DOMAIN s = 1..Len(s) /\ Len(s) \in Nat
      /\ Append(s, x)[Len(s) + 1] = x /\ \A i \in 1..Len(s) : Append(s, x)[i] = s[i]
    OBVIOUS
<1> QED BY <1>1

LEMMA SeqTypes ==
    ASSUME IInv
    PROVE  /\ newQ \in [Workers -> Seq(Esockets)] /\ ioQ \in [Workers -> Seq(IoMessages)]
           /\ issued \in [Esockets -> Seq(Msgs)] /\ sent \in [Esockets -> Seq(Payloads)]
           /\ out \in [Esockets -> Seq(Payloads)] /\ home \in [Esockets -> Workers \cup {NoWorker}]
           /\ life \in [Esockets -> {"fresh", "live", "freed"}]
           /\ moved \in [Esockets -> BOOLEAN] /\ init \in [Esockets -> BOOLEAN]
           /\ owner \in [Esockets -> Workers \cup {NoWorker}]
           /\ \A w \in Workers : table[w] \subseteq Esockets
BY DEF IInv, Typed, TypeOK, SocketTypes, FlagTypes, ContextTypes, QueueTypes, AppTypes

\* Steps that send nothing to the buffers and move no esocket elsewhere: they
\* may take esockets from their worker for good.
LEMMA OrdRest ==
    ASSUME OrdInv, UNCHANGED <<init, moved, home, issued, newQ, ioQ>>, NEW e \in Esockets,
           sent'[e] \o out'[e] = sent[e] \o out[e],
           \/ life'[e] = life[e] /\ owner'[e] = owner[e]
           \/ life'[e] = "freed" /\ owner'[e] = NoWorker /\ life[e] # "fresh"
    PROVE  Ord(e)'
<1>1. Ord(e)
    BY DEF OrdInv
<1>2. Homes(e)'
    BY <1>1 DEF Ord, Homes, Holds
<1>3. Untouched(e)'
    BY <1>1 DEF Ord, Untouched
<1>4. AtHome(e)'
    BY <1>1 DEF Ord, AtHome
<1>5. InOrder(e)'
    BY <1>1 DEF Ord, InOrder
<1> QED BY <1>2, <1>3, <1>4, <1>5 DEF Ord

\* Whom a context removes.
LEMMA RemovedAreLive ==
    ASSUME IInv, NEW w \in Workers, NEW E \in SUBSET table[w], RemoveAndDelete(w, E),
           NEW e \in Esockets
    PROVE  \/ life'[e] = life[e] /\ owner'[e] = owner[e]
           \/ life'[e] = "freed" /\ owner'[e] = NoWorker /\ life[e] # "fresh"
<1>1. /\ owner'[e] = (IF e \in E THEN NoWorker ELSE owner[e])
      /\ life'[e] = (IF e \in E THEN "freed" ELSE life[e])
    BY DEF RemoveAndDelete, ContextRemove
<1>2. e \in E => life[e] = "live"
    BY ServedIsOwned DEF IInv, Accounted
<1> QED BY <1>1, <1>2

\* A line with nothing in it.
LEMMA LineNone ==
    ASSUME NEW q, NEW e, Mine(q, e) = {}
    PROVE  Line(<<>>, <<>>, q, e)
<1> DEFINE s == <<>>
<1>1. DOMAIN s = {}
    OBVIOUS
<1> HIDE DEF s
<1>2. Distinct(s)
    BY <1>1 DEF Distinct
<1>3. Line(s, s, q, e)
    BY <1>1, <1>2 DEF Line
<1> QED BY <1>3 DEF s

LEMMA AddMtOrd ==
    ASSUME IInv, ArmedInv, OrdInv, NEW w \in Workers, NEW e \in Esockets, AddMt(w, e)
    PROVE  OrdInv'
<1>1. /\ life[e] = "fresh" /\ life' = [life EXCEPT ![e] = "live"]
      /\ home' = [home EXCEPT ![e] = w] /\ newQ' = Send(newQ, w, e)
      /\ UNCHANGED <<owner, init, moved, ioQ, issued, sent, out>>
    BY DEF AddMt, flags
<1>2. newQ' = [newQ EXCEPT ![w] = newQ[w]] \/ newQ' = [newQ EXCEPT ![w] = Append(newQ[w], e)]
    BY <1>1 DEF Send
<1>3. \A v \in Workers, d \in Esockets : Holds(newQ, v, d)' => Holds(newQ, v, d) \/ (v = w /\ d = e)
    <2> TAKE v \in Workers, d \in Esockets
    <2>1. CASE newQ'[v] = newQ[v]
        BY <2>1 DEF Holds
    <2>2. CASE v = w /\ newQ'[v] = Append(newQ[v], e)
        <3>1. newQ[v] \in Seq(Esockets)
            BY SeqTypes
        <3>2. \A i \in DOMAIN newQ'[v] :
                 (i \in DOMAIN newQ[v] /\ newQ'[v][i] = newQ[v][i]) \/ newQ'[v][i] = e
            BY <2>2, <3>1, AppendParts
        <3> QED BY <2>2, <3>2 DEF Holds
    <2>3. newQ'[v] = newQ[v] \/ (v = w /\ newQ'[v] = Append(newQ[v], e))
        BY <1>2, SeqTypes
    <2> QED BY <2>1, <2>2, <2>3
<1>4. ASSUME NEW d \in Esockets, d # e PROVE Ord(d)'
    <2>1. life'[d] = life[d] /\ home'[d] = home[d]
        BY <1>1, <1>4, SeqTypes
    <2>2. Ord(d)
        BY DEF OrdInv
    <2>3. \A v \in Workers : Holds(newQ, v, d)' => Holds(newQ, v, d)
        BY <1>3, <1>4
    <2>4. Homes(d)'
        BY <1>1, <2>1, <2>2, <2>3 DEF Ord, Homes
    <2> QED BY <1>1, <2>1, <2>2, <2>4 DEF Ord, Untouched, AtHome, InOrder
<1>5. Ord(e)'
    <2>1. life'[e] = "live" /\ home'[e] = w
        BY <1>1, SeqTypes
    <2>2. owner[e] = NoWorker /\ \A v \in Workers : ~Holds(newQ, v, e)
        BY <1>1 DEF IInv, Accounted, InTransit
    <2>3. /\ issued[e] = <<>> /\ \A v \in Workers : Mine(ioQ[v], e) = {}
          /\ out[e] = <<>> /\ sent[e] = <<>>
        BY <1>1 DEF OrdInv, Ord, Untouched, ArmedInv, Armed
    <2>4. Homes(e)'
        BY <1>1, <1>3, <2>1, <2>2 DEF Homes
    <2>5. InOrder(e)'
        <3>1. Line(<<>>, <<>>, ioQ[w], e)
            BY <2>3, LineNone
        <3>2. sent[e] \o out[e] = <<>>
            BY <2>3
        <3> QED BY <1>1, <2>1, <2>3, <3>1, <3>2 DEF InOrder
    <2> QED BY <1>1, <2>1, <2>3, <2>4, <2>5 DEF Ord, Untouched, AtHome
<1> QED BY <1>4, <1>5 DEF OrdInv

LEMMA WriteMtOrd ==
    ASSUME IInv, OrdInv, NEW e \in Esockets, NEW m \in Msgs, WriteMt(e, m)
    PROVE  OrdInv'
<1> DEFINE x == [es |-> e, msg |-> m]
           h == home[e]
<1>1. /\ life[e] # "fresh" /\ m \notin Range(issued[e])
      /\ issued' = [issued EXCEPT ![e] = Append(issued[e], m)]
      /\ ioQ' = Send(ioQ, h, x)
      /\ UNCHANGED <<life, owner, init, moved, home, newQ, out, sent>>
    BY DEF WriteMt, socket, flags
<1>2. h \in Workers /\ x \in IoMessages /\ x.es = e
    BY <1>1 DEF OrdInv, Ord, Homes, IoMessages
<1>3. ioQ'[h] = ioQ[h] \/ ioQ'[h] = Append(ioQ[h], x)
    BY <1>1, <1>2, SeqTypes DEF Send
<1>4. \A v \in Workers \ {h} : ioQ'[v] = ioQ[v]
    BY <1>1, <1>2, SeqTypes DEF Send
<1> HIDE DEF h
<1>5. ASSUME NEW d \in Esockets, d # e PROVE Ord(d)'
    <2>1. Ord(d) /\ issued'[d] = issued[d]
        BY <1>1, <1>5, SeqTypes DEF OrdInv
    <2>2. \A v \in Workers : Mine(ioQ[v], d) = {} => Mine(ioQ'[v], d) = {}
        <3> SUFFICES ASSUME NEW v \in Workers, Mine(ioQ[v], d) = {}, ioQ'[v] # ioQ[v]
                     PROVE  Mine(ioQ'[v], d) = {}
            OBVIOUS
        <3>1. ioQ'[v] = Append(ioQ[v], x)
            BY <1>3, <1>4
        <3> HIDE DEF x
        <3>2. ioQ[v] \in Seq(IoMessages)
            BY SeqTypes
        <3>3. \A i \in DOMAIN Append(ioQ[v], x) :
                 (i \in DOMAIN ioQ[v] /\ Append(ioQ[v], x)[i] = ioQ[v][i]) \/ Append(ioQ[v], x)[i] = x
            BY <1>2, <3>2, AppendParts
        <3> QED BY <1>2, <1>5, <3>1, <3>3 DEF Mine
    <2>3. Homes(d)'
        BY <1>1, <2>1 DEF Ord, Homes, Holds
    <2>4. Untouched(d)'
        BY <1>1, <2>1, <2>2 DEF Ord, Untouched
    <2>5. AtHome(d)'
        BY <1>1, <2>1, <2>2 DEF Ord, AtHome
    <2>6. InOrder(d)'
        <3> SUFFICES ASSUME d \in Once, life[d] # "fresh"
                     PROVE  Line(issued[d], sent[d] \o out[d], ioQ'[home[d]], d)
            BY <1>1, <2>1 DEF InOrder
        <3>1. Line(issued[d], sent[d] \o out[d], ioQ[home[d]], d) /\ home[d] \in Workers
            BY <2>1 DEF Ord, InOrder, Homes
        <3>2. ioQ'[home[d]] = ioQ[home[d]] \/ ioQ'[home[d]] = Append(ioQ[home[d]], x)
            BY <1>3, <1>4, <3>1
        <3>3. Line(issued[d], sent[d] \o out[d], Append(ioQ[home[d]], x), d)
            BY <1>2, <1>5, <3>1, LineOther, SeqTypes
        <3> QED BY <3>1, <3>2, <3>3
    <2> QED BY <2>3, <2>4, <2>5, <2>6 DEF Ord
<1>6. Ord(e)'
    <2>1. Ord(e) /\ issued'[e] = Append(issued[e], m)
        BY <1>1, SeqTypes DEF OrdInv
    <2>2. Homes(e)'
        BY <1>1, <2>1 DEF Ord, Homes, Holds
    <2>3. AtHome(e)'
        BY <1>1, <1>4, <2>1 DEF Ord, AtHome, h
    <2>4. InOrder(e)'
        <3> SUFFICES ASSUME e \in Once
                     PROVE  Line(Append(issued[e], m), sent[e] \o out[e], ioQ'[h], e)
            BY <1>1, <2>1 DEF InOrder, h
        <3>1. Line(issued[e], sent[e] \o out[e], ioQ[h], e)
            BY <1>1, <2>1 DEF Ord, InOrder, h
        <3>2. sent[e] \o out[e] \in Seq(Payloads) /\ issued[e] \in Seq(Msgs) /\ ioQ[h] \in Seq(IoMessages)
            BY <1>2, SeqTypes, ConcatProperties
        <3> QED BY <1>1, <1>3, <3>1, <3>2, LineWrite
    <2> QED BY <1>1, <2>2, <2>3, <2>4 DEF Ord, Untouched
<1> QED BY <1>5, <1>6 DEF OrdInv

LEMMA ServeNewOrd ==
    ASSUME IInv, ArmedInv, OrdInv, NEW w \in Workers, ServeNew(w)
    PROVE  OrdInv'
<1>1. PICK e \in Esockets : /\ e = Head(newQ[w])
                            /\ Holds(newQ, w, e) /\ owner[e] = NoWorker /\ life[e] = "live"
                            /\ e \notin table[w]
    BY NewIsFree
<1>2. /\ owner' = [owner EXCEPT ![e] = w] /\ FirstInstall(e)
      /\ home' = [home EXCEPT ![e] = w] /\ newQ' = Pop(newQ, w)
      /\ UNCHANGED <<life, moved, sent, issued, ioQ>>
    BY <1>1 DEF ServeNew, ContextAdd
<1>a. PICK greets \in Greets(e) :
        /\ init' = [init EXCEPT ![e] = TRUE]
        /\ out' = [out EXCEPT ![e] = IF greets THEN Append(out[e], Greeting) ELSE out[e]]
    BY <1>2 DEF FirstInstall
<1>b. greets \in BOOLEAN /\ (init[e] => ~greets)
    BY DEF Greets
<1>3. \A v \in Workers, d \in Esockets : Holds(newQ, v, d)' => Holds(newQ, v, d)
    <2>1. newQ[w] \in Seq(Esockets) /\ newQ[w] # <<>>
        BY SeqTypes DEF IInv, Typed, ReadyBacked, ServeNew, Serving
    <2>2. \A i \in DOMAIN Tail(newQ[w]) : i + 1 \in DOMAIN newQ[w] /\ Tail(newQ[w])[i] = newQ[w][i + 1]
        BY <2>1
    <2>3. newQ'[w] = Tail(newQ[w]) /\ \A v \in Workers \ {w} : newQ'[v] = newQ[v]
        BY <1>2, SeqTypes DEF Pop
    <2>4. ASSUME NEW v \in Workers, NEW d, Holds(newQ', v, d)  PROVE Holds(newQ, v, d)
        <3>1. CASE v = w
            BY <2>2, <2>3, <2>4, <3>1 DEF Holds
        <3>2. CASE v # w
            BY <2>3, <2>4, <3>2 DEF Holds
        <3> QED BY <3>1, <3>2
    <2>5. ASSUME NEW v \in Workers, NEW d, Holds(newQ, v, d)'  PROVE Holds(newQ', v, d)
        BY <2>5 DEF Holds
    <2> QED BY <2>4, <2>5
<1>4. ASSUME NEW d \in Esockets, d # e PROVE Ord(d)'
    <2>1. /\ owner'[d] = owner[d] /\ init'[d] = init[d] /\ out'[d] = out[d] /\ home'[d] = home[d]
        BY <1>2, <1>a, <1>4, SeqTypes
    <2>2. Ord(d)
        BY DEF OrdInv
    <2>3. Homes(d)'
        BY <1>2, <1>3, <2>1, <2>2 DEF Ord, Homes
    <2> QED BY <1>2, <2>1, <2>2, <2>3 DEF Ord, Untouched, AtHome, InOrder
<1>5. Ord(e)'
    <2>1. owner'[e] = w /\ home'[e] = w
        BY <1>1, <1>2, SeqTypes
    <2>2. Ord(e) /\ Armed(e)
        BY <1>1 DEF OrdInv, ArmedInv
    <2>3. ~moved[e] => w = home[e]
        BY <1>1, <2>2 DEF Ord, Homes
    <2>4. Homes(e)'
        BY <1>2, <1>3, <2>1, <2>2, <2>3 DEF Ord, Homes
    <2>5. Untouched(e)'
        BY <1>1, <1>2 DEF Untouched
    <2>6. AtHome(e)'
        BY <1>1, <1>2, <2>1, <2>2, <2>3, WorkersAssumption DEF Ord, AtHome
    <2>7. InOrder(e)'
        <3> SUFFICES ASSUME e \in Once
                     PROVE  Line(issued[e], sent[e] \o out'[e], ioQ[w], e)
            BY <1>2, <2>1 DEF InOrder
        <3>1. Line(issued[e], sent[e] \o out[e], ioQ[home[e]], e)
            BY <1>1, <2>2 DEF Ord, InOrder
        <3>2. Line(issued[e], sent[e] \o out[e], ioQ[w], e)
            <4>1. w = home[e] \/ Mine(ioQ[w], e) = {}
                BY <1>1, <2>2 DEF Ord, AtHome
            <4> QED BY <3>1, <4>1, LineMove
        <3>3. CASE greets
            <4>1. sent[e] = <<>> /\ out[e] = <<>> /\ out'[e] = Append(out[e], Greeting)
                BY <1>1, <1>a, <1>b, <2>2, <3>3, SeqTypes DEF Armed
            <4>2. sent[e] \o out[e] = <<>> /\ sent[e] \o out'[e] = <<Greeting>>
                BY <4>1
            <4>3. issued[e] \in Seq(Msgs)
                BY <1>1, SeqTypes
            <4> QED BY <3>2, <4>2, <4>3, LineGreet
        <3>4. CASE ~greets
            <4>1. out'[e] = out[e]
                BY <1>1, <1>a, <3>4, SeqTypes
            <4> QED BY <3>2, <4>1
        <3> QED BY <1>b, <3>3, <3>4
    <2> QED BY <2>4, <2>5, <2>6, <2>7 DEF Ord
<1> QED BY <1>4, <1>5 DEF OrdInv

LEMMA AppendToBuffer ==
    ASSUME NEW S, NEW s \in Seq(S), NEW b \in Seq(S), NEW m \in S
    PROVE  s \o Append(b, m) = Append(s \o b, m)
OBVIOUS

LEMMA ServeIoOrd ==
    ASSUME IInv, ArmedInv, OrdInv, NEW w \in Workers, ServeIo(w)
    PROVE  OrdInv'
<1> DEFINE x == Head(ioQ[w])
<1>1. ioQ[w] \in Seq(IoMessages) /\ ioQ[w] # <<>>
    BY SeqTypes DEF IInv, Typed, ReadyBacked, ServeIo, Serving
<1>2. x \in IoMessages /\ x.es \in Esockets /\ x.msg \in Msgs
    <2>1. x \in IoMessages
        BY <1>1, HeadTailProperties
    <2> HIDE DEF x
    <2> QED BY <2>1 DEF IoMessages
<1>3. /\ ioQ' = Pop(ioQ, w)
      /\ UNCHANGED <<life, owner, init, moved, home, issued, newQ, sent>>
      /\ \A d \in Esockets : out'[d] = out[d] \/
            (d = x.es /\ d \in table[w] /\ out'[d] = Append(out[d], x.msg))
    <2>1. CASE x.es \notin table[w]
        BY <2>1 DEF ServeIo, socket, app
    <2>2. CASE x.es \in table[w]
        <3>1. out' = [out EXCEPT ![x.es] = IF closing[x.es] THEN out[x.es] ELSE Append(out[x.es], x.msg)]
            BY <2>2 DEF ServeIo
        <3>2. ioQ' = Pop(ioQ, w) /\ UNCHANGED <<life, owner, init, moved, home, issued, newQ, sent>>
            BY DEF ServeIo, socket, app
        <3> HIDE DEF x
        <3> QED BY <1>2, <2>2, <3>1, <3>2, SeqTypes
    <2> QED BY <2>1, <2>2
<1>4. ioQ'[w] = Tail(ioQ[w]) /\ \A v \in Workers \ {w} : ioQ'[v] = ioQ[v]
    BY <1>3, SeqTypes DEF Pop
<1>5. ASSUME NEW d \in Esockets PROVE Ord(d)'
    <2>1. Ord(d) /\ Armed(d)
        BY DEF OrdInv, ArmedInv
    <2>2. \A v \in Workers : Mine(ioQ[v], d) = {} => Mine(ioQ'[v], d) = {}
        BY <1>1, <1>4, MineTail
    <2>3. Homes(d)'
        BY <1>3, <2>1 DEF Ord, Homes, Holds
    <2>4. Untouched(d)'
        BY <1>3, <2>1, <2>2 DEF Ord, Untouched
    <2>5. AtHome(d)'
        BY <1>3, <2>1, <2>2 DEF Ord, AtHome
    <2>6. InOrder(d)'
        <3> SUFFICES ASSUME d \in Once, life[d] # "fresh"
                     PROVE  Line(issued[d], sent[d] \o out'[d], ioQ'[home[d]], d)
            BY <1>3 DEF InOrder
        <3>1. Line(issued[d], sent[d] \o out[d], ioQ[home[d]], d) /\ home[d] \in Workers
            BY <2>1 DEF Ord, InOrder, Homes
        <3>2. CASE out'[d] = out[d]
            <4>1. home[d] = w => Line(issued[d], sent[d] \o out[d], Tail(ioQ[w]), d)
                BY <1>1, <3>1, LineTail
            <4> QED BY <1>4, <3>1, <3>2, <4>1
        <3>3. CASE d = x.es /\ d \in table[w] /\ out'[d] = Append(out[d], x.msg)
            <4>1. home[d] = w
                BY <2>1, <3>3, ServedIsOwned DEF Ord, Homes
            <4>2. sent[d] \in Seq(Payloads) /\ out[d] \in Seq(Payloads) /\ x.msg \in Payloads
                BY <1>2, SeqTypes DEF Payloads
            <4> HIDE DEF x
            <4>3. sent[d] \o out[d] \in Seq(Payloads) /\ <<x.msg>> \in Seq(Payloads)
                BY <4>2, ConcatProperties
            <4>4. sent[d] \o Append(out[d], x.msg) = Append(sent[d] \o out[d], x.msg)
                <5>1. PICK a \in Seq(Payloads), b \in Seq(Payloads), m \in Payloads :
                         a = sent[d] /\ b = out[d] /\ m = x.msg
                    BY <4>2
                <5>2. a \o Append(b, m) = Append(a \o b, m)
                    BY AppendToBuffer
                <5> QED BY <5>1, <5>2
            <4>5. Line(issued[d], Append(sent[d] \o out[d], x.msg), Tail(ioQ[w]), d)
                BY <1>1, <3>1, <3>3, <4>1, <4>3, LineTake DEF x
            <4> QED BY <1>4, <3>3, <4>1, <4>4, <4>5
        <3> QED BY <1>3, <3>2, <3>3
    <2> QED BY <2>3, <2>4, <2>5, <2>6 DEF Ord
<1> QED BY <1>5 DEF OrdInv

LEMMA ServeReassignOrd ==
    ASSUME IInv, ArmedInv, OrdInv, NEW w \in Workers, ServeReassign(w)
    PROVE  OrdInv'
<1> DEFINE e  == Head(reQ[w]).es
           to == Head(reQ[w]).to
<1>1. UNCHANGED <<life, init, home, issued, ioQ, sent, out>>
    BY DEF ServeReassign, flags, app
<1>2. CASE e \notin table[w] \/ DeclinesReassign(e)
    <2>1. UNCHANGED <<owner, moved, newQ>>
        BY <1>2 DEF ServeReassign
    <2> QED BY <1>1, <2>1, OrdRest DEF OrdInv
<1>3. CASE ~(e \notin table[w] \/ DeclinesReassign(e))
    <2>1. PICK d \in Esockets : d = e /\ owner[d] # NoWorker
        BY <1>3, ServedIsOwned
    <2>2. /\ ContextRemove(w, {d}) /\ moved' = [moved EXCEPT ![d] = TRUE]
          /\ newQ' = Send(newQ, to, d) /\ ~(moved[d] /\ d \in Once)
        BY <1>3, <2>1 DEF ServeReassign, DeclinesReassign
    <2> HIDE DEF e, to
    <2>3. /\ owner'[d] = NoWorker /\ \A c \in Esockets \ {d} : owner'[c] = owner[c]
          /\ moved'[d] = TRUE /\ \A c \in Esockets \ {d} : moved'[c] = moved[c]
        BY <2>1, <2>2, SeqTypes DEF ContextRemove
    <2>4. \A v \in Workers, c \in Esockets \ {d} : Holds(newQ, v, c)' => Holds(newQ, v, c)
        <3> TAKE v \in Workers, c \in Esockets \ {d}
        <3>1. newQ[v] \in Seq(Esockets)
            BY SeqTypes
        <3>2. newQ'[v] = newQ[v] \/ newQ'[v] = Append(newQ[v], d)
            BY <2>2, SeqTypes DEF Send
        <3>3. CASE newQ'[v] = Append(newQ[v], d)
            <4>1. \A i \in DOMAIN newQ'[v] :
                     (i \in DOMAIN newQ[v] /\ newQ'[v][i] = newQ[v][i]) \/ newQ'[v][i] = d
                BY <2>1, <3>1, <3>3, AppendParts
            <4> QED BY <4>1 DEF Holds
        <3> QED BY <3>2, <3>3 DEF Holds
    <2>5. ASSUME NEW c \in Esockets \ {d} PROVE Ord(c)'
        <3>1. Ord(c)
            BY DEF OrdInv
        <3>2. Homes(c)'
            BY <1>1, <2>3, <2>4, <3>1 DEF Ord, Homes
        <3> QED BY <1>1, <2>3, <3>1, <3>2 DEF Ord, Untouched, AtHome, InOrder
    <2>6. Ord(d)'
        <3>1. Ord(d)
            BY <2>1 DEF OrdInv
        <3>2. Homes(d)'
            BY <1>1, <2>3, <3>1 DEF Ord, Homes
        <3>3. AtHome(d)'
            BY <1>1, <2>2, <3>1 DEF Ord, AtHome
        <3>4. InOrder(d)'
            BY <1>1, <3>1 DEF Ord, InOrder
        <3> QED BY <1>1, <3>1, <3>2, <3>3, <3>4 DEF Ord, Untouched
    <2> QED BY <2>5, <2>6 DEF OrdInv
<1> QED BY <1>2, <1>3

LEMMA ServeBrokenOrd ==
    ASSUME IInv, ArmedInv, OrdInv, NEW w \in Workers, NEW i \in Nat, ServeBroken(w, i)
    PROVE  OrdInv'
<1>1. PICK e \in Esockets : e = poll[w][i] /\ owner[e] = w
    BY ServedIsOwned DEF ServeBroken
<1>2. /\ out' = [out EXCEPT ![e] = <<>>] /\ RemoveAndDelete(w, {e})
      /\ UNCHANGED <<init, moved, home, issued, newQ, ioQ, sent>>
    BY <1>1 DEF ServeBroken, queues, app
<1>3. e \in table[w] /\ life[e] = "live"
    BY <1>1, WorkersAssumption DEF IInv, TableConsistent, TableOwns, Accounted
<1>4. ASSUME NEW d \in Esockets PROVE Ord(d)'
    <2>1. \/ life'[d] = life[d] /\ owner'[d] = owner[d]
          \/ life'[d] = "freed" /\ owner'[d] = NoWorker /\ life[d] # "fresh"
        BY <1>2, <1>3, RemovedAreLive
    <2>2. CASE d # e
        <3>1. sent'[d] \o out'[d] = sent[d] \o out[d]
            BY <1>2, <2>2, SeqTypes
        <3> QED BY <1>2, <2>1, <3>1, OrdRest
    <2>3. CASE d = e
        <3>1. Ord(e) /\ out'[e] = <<>> /\ sent'[e] = sent[e]
            BY <1>1, <1>2, SeqTypes DEF OrdInv
        <3>2. Homes(e)'
            BY <1>2, <1>3, <2>1, <2>3, <3>1 DEF Ord, Homes, Holds
        <3>3. Untouched(e)'
            BY <1>2, <1>3, <2>1, <2>3 DEF Untouched
        <3>4. AtHome(e)'
            BY <1>2, <2>1, <2>3, <3>1 DEF Ord, AtHome
        <3>5. InOrder(e)'
            <4> SUFFICES ASSUME e \in Once
                         PROVE  Line(issued[e], sent[e] \o <<>>, ioQ[home[e]], e)
                BY <1>2, <3>1 DEF InOrder
            <4>1. Line(issued[e], sent[e] \o out[e], ioQ[home[e]], e)
                BY <1>3, <3>1 DEF Ord, InOrder
            <4>2. sent[e] \in Seq(Payloads) /\ out[e] \in Seq(Payloads)
                BY <1>1, SeqTypes
            <4>3. sent[e] \o <<>> = sent[e]
                BY <4>2
            <4>4. Line(issued[e], sent[e], ioQ[home[e]], e)
                BY <4>1, <4>2, LinePrefix
            <4> QED BY <4>3, <4>4
        <3> QED BY <2>3, <3>2, <3>3, <3>4, <3>5 DEF Ord
    <2> QED BY <2>2, <2>3
<1> QED BY <1>4 DEF OrdInv

\* A buffer is cut in two, and its first part sent.
LEMMA CutAndSend ==
    ASSUME NEW S, NEW s \in Seq(S), NEW b \in Seq(S), NEW k \in 0..Len(b)
    PROVE  (s \o SubSeq(b, 1, k)) \o SubSeq(b, k + 1, Len(b)) = s \o b
<1> DEFINE t == SubSeq(b, 1, k)
           u == SubSeq(b, k + 1, Len(b))
<1>1. t \in Seq(S) /\ u \in Seq(S)
    OBVIOUS
<1>2. t \o u = b
    <2>1. /\ Len(b) \in Nat /\ k \in Nat /\ k <= Len(b)
          /\ Len(t) = k /\ Len(u) = Len(b) - k
          /\ \A i \in 1..k : t[i] = b[i]
          /\ \A i \in 1..Len(b) - k : u[i] = b[k + i]
        OBVIOUS
    <2> HIDE DEF t, u
    <2>2. /\ t \o u \in Seq(S) /\ Len(t \o u) = Len(t) + Len(u)
          /\ \A i \in 1..Len(t) + Len(u) :
                (t \o u)[i] = IF i <= Len(t) THEN t[i] ELSE u[i - Len(t)]
        BY <1>1, ConcatProperties, Zenon
    <2> DEFINE c == t \o u
    <2> HIDE DEF c
    <2>3. /\ c \in Seq(S) /\ Len(c) = Len(t) + Len(u)
          /\ \A i \in 1..Len(t) + Len(u) : c[i] = IF i <= Len(t) THEN t[i] ELSE u[i - Len(t)]
        BY <2>2, Zenon DEF c
    <2>4. Len(c) = Len(b) /\ \A i \in 1..Len(b) : c[i] = b[i]
        BY <2>1, <2>3
    <2>5. c = b
        BY <2>3, <2>4, SeqEqual
    <2> QED BY <2>5 DEF c
<1> HIDE DEF t, u
<1>4. (s \o t) \o u = s \o (t \o u)
    BY <1>1
<1>5. (s \o t) \o u = s \o b
    BY <1>2, <1>4
<1> QED BY <1>5 DEF t, u

LEMMA ServeClientOrd ==
    ASSUME IInv, ArmedInv, OrdInv, NEW w \in Workers, NEW i \in Nat, NEW rd \in BOOLEAN,
           NEW wr \in BOOLEAN, NEW k \in Nat, ServeClient(w, i, rd, wr, k)
    PROVE  OrdInv'
<1>1. PICK e \in Esockets : e = poll[w][i] /\ owner[e] = w
    BY ServedIsOwned DEF ServeClient
<1>2. /\ k \in 0..Len(out[e])
      /\ out' = [out EXCEPT ![e] = SubSeq(out[e], k + 1, Len(out[e]))]
      /\ sent' = [sent EXCEPT ![e] = sent[e] \o SubSeq(out[e], 1, k)]
      /\ RemoveAndDelete(w, {e}) \/ UNCHANGED <<life, owner>>
      /\ UNCHANGED <<init, moved, home, issued, newQ, ioQ>>
    <2>1. out[e] \in Seq(Payloads)
        BY <1>1, SeqTypes
    <2>2. k \in 0..Len(out[e])
        BY <1>1, <2>1 DEF ServeClient
    <2> QED BY <1>1, <2>2 DEF ServeClient, queues, app
<1>3. e \in table[w] /\ life[e] = "live"
    BY <1>1, WorkersAssumption DEF IInv, TableConsistent, TableOwns, Accounted
<1>4. ASSUME NEW d \in Esockets PROVE Ord(d)'
    <2>1. \/ life'[d] = life[d] /\ owner'[d] = owner[d]
          \/ life'[d] = "freed" /\ owner'[d] = NoWorker /\ life[d] # "fresh"
        BY <1>2, <1>3, RemovedAreLive
    <2>2. sent'[d] \o out'[d] = sent[d] \o out[d]
        <3>1. CASE d # e
            BY <1>2, <3>1, SeqTypes
        <3>2. CASE d = e
            <4>1. sent[e] \in Seq(Payloads) /\ out[e] \in Seq(Payloads)
                BY <1>1, SeqTypes
            <4>2. (sent[e] \o SubSeq(out[e], 1, k)) \o SubSeq(out[e], k + 1, Len(out[e]))
                     = sent[e] \o out[e]
                BY <1>2, <4>1, CutAndSend
            <4>3. /\ sent'[e] = sent[e] \o SubSeq(out[e], 1, k)
                  /\ out'[e] = SubSeq(out[e], k + 1, Len(out[e]))
                BY <1>1, <1>2, SeqTypes
            <4> QED BY <3>2, <4>2, <4>3
        <3> QED BY <3>1, <3>2
    <2> QED BY <1>2, <2>1, <2>2, OrdRest
<1> QED BY <1>4 DEF OrdInv

LEMMA StepOrd ==
    ASSUME IInv, ArmedInv, OrdInv, [Next]_vars
    PROVE  OrdInv'
<1>1. CASE UNCHANGED vars \/ \E e \in Esockets : GoIdle(e)
    <2>1. UNCHANGED <<life, owner, init, moved, home, issued, newQ, ioQ, sent, out>>
        BY <1>1 DEF GoIdle, vars, socket, flags, queues, app
    <2> QED BY <2>1, OrdRest DEF OrdInv
<1>2. CASE AppStep
    <2>1. ASSUME NEW e \in Esockets, DeleteMt(e) \/ \E to \in Workers : ReassignMt(e, to)
          PROVE  OrdInv'
        <3>1. UNCHANGED <<life, owner, init, moved, home, issued, newQ, ioQ, sent, out>>
            BY <2>1 DEF DeleteMt, ReassignMt, socket, flags
        <3> QED BY <3>1, OrdRest DEF OrdInv
    <2> QED BY <1>2, <2>1, AddMtOrd, WriteMtOrd DEF AppStep
<1>3. ASSUME NEW w \in Workers, WorkerStep(w) PROVE OrdInv'
    <2>1. CASE Poll(w) \/ EndPass(w)
        <3>1. UNCHANGED <<life, owner, init, moved, home, issued, newQ, ioQ, sent, out>>
            BY <2>1 DEF Poll, EndPass, socket, flags, queues, app
        <3> QED BY <3>1, OrdRest DEF OrdInv
    <2>2. CASE ServeDelete(w) \/ ServeTimer(w)
        <3>1. /\ UNCHANGED <<init, moved, home, issued, newQ, ioQ, sent, out>>
              /\ \E E \in SUBSET table[w] : RemoveAndDelete(w, E)
            BY <2>2 DEF ServeDelete, ServeTimer, Expired, flags, queues, app
        <3> QED BY <3>1, RemovedAreLive, OrdRest DEF OrdInv
    <2>3. ASSUME NEW i \in DOMAIN poll[w], ServeSlot(w, i) PROVE OrdInv'
        <3>1. i \in Nat
            BY DEF IInv, Typed, TypeOK, ContextTypes
        <3>2. CASE SkipSlot(w, i)
            <4>1. UNCHANGED <<life, owner, init, moved, home, issued, newQ, ioQ, sent, out>>
                BY <3>2 DEF SkipSlot, socket, flags, queues, app
            <4> QED BY <4>1, OrdRest DEF OrdInv
        <3>3. CASE \E rd, wr \in BOOLEAN, k \in 0..Cardinality(Msgs \cup {Greeting}) :
                      ServeClient(w, i, rd, wr, k)
            <4>1. ASSUME NEW rd \in BOOLEAN, NEW wr \in BOOLEAN, NEW k \in Nat,
                         ServeClient(w, i, rd, wr, k)
                  PROVE  OrdInv'
                BY <3>1, <4>1, ServeClientOrd
            <4> QED BY <3>3, <4>1
        <3> QED BY <2>3, <3>1, <3>2, <3>3, ServeBrokenOrd DEF ServeSlot
    <2> QED BY <1>3, <2>1, <2>2, <2>3, ServeNewOrd, ServeIoOrd, ServeReassignOrd DEF WorkerStep
<1> QED BY <1>1, <1>2, <1>3 DEF Next

\* What has left an esocket, followed by its buffer, is in the order of the
\* writes: for any workers and payloads, with DAP_SOCK_REASSIGN_ONCE.
THEOREM WritesKeepOrder == Spec => []WriteOrder
<1>1. Init => ArmedInv /\ OrdInv
    <2>1. Init => ArmedInv
        BY DEF Init, ArmedInv, Armed
    <2>2. Init => OrdInv
        BY DEF Init, OrdInv, Ord, Homes, Untouched, AtHome, InOrder, Holds, Mine
    <2> QED BY <2>1, <2>2
<1>2. IInv /\ ArmedInv /\ OrdInv /\ [Next]_vars => ArmedInv' /\ OrdInv'
    BY StepArmed, StepOrd
<1>3. IInv /\ ArmedInv /\ OrdInv => WriteOrder
    <2> SUFFICES ASSUME IInv, ArmedInv, OrdInv, NEW e \in Once
                 PROVE  LET s == sent[e] \o out[e]
                        IN  \A i, j \in DOMAIN s : i < j => Position(e, s[i]) < Position(e, s[j])
        BY DEF WriteOrder
    <2>1. e \in Esockets
        BY OnceAssumption
    <2>2. \A m : Position(e, m) = Pos(issued[e], m)
        BY DEF Position, Pos
    <2>3. CASE life[e] # "fresh"
        BY <2>1, <2>2, <2>3 DEF OrdInv, Ord, InOrder, Line
    <2>4. CASE life[e] = "fresh"
        <3>1. sent[e] = <<>> /\ out[e] = <<>>
            BY <2>1, <2>4 DEF OrdInv, Ord, Untouched, ArmedInv, Armed
        <3>2. DOMAIN (sent[e] \o out[e]) = {}
            BY <3>1
        <3> QED BY <3>2
    <2> QED BY <2>3, <2>4
<1> QED BY <1>1, <1>2, <1>3, AlwaysIInv, PTL DEF Spec

(***************************************************************************)
(* Delete requests                                                         *)
(***************************************************************************)

\* A delete request is for an esocket that was handed over, and is in the queue
\* of its home worker as long as the esocket was not reassigned.
Asked(e) ==
    \A w \in Workers : Holds(delQ, w, e) =>
        life[e] # "fresh" /\ (moved[e] \/ w = home[e])

AskedInv == \A e \in Esockets : Asked(e)

\* What s_queue_delete_es_callback() does of a request: the esocket is freed, by
\* this request or earlier; or it was lost in a full queue, or is or will be on
\* another worker; or, never reassigned, its add message is still in the other
\* queue of this worker, and only then is the report of a disconnection wrong.
DeleteMeets ==
    \A w \in Workers : ServeDelete(w) =>
        LET e == Head(delQ[w])
        IN  \/ life'[e] = "freed"
            \/ e \in dropped
            \/ IF moved[e] THEN InTransit(e) \/ owner[e] \in Workers \ {w} ELSE Holds(newQ, w, e)

\* A step that sends no delete request and adds or moves no esocket it is about
LEMMA AskedRest ==
    ASSUME AskedInv, NEW e \in Esockets, UNCHANGED home,
           \A w \in Workers : Holds(delQ, w, e)' => Holds(delQ, w, e),
           life[e] # "fresh" => life'[e] # "fresh",
           moved[e] => moved'[e]
    PROVE  Asked(e)'
BY DEF AskedInv, Asked

LEMMA HeldInTail ==
    ASSUME NEW q \in [Workers -> Seq(Esockets)], NEW v \in Workers, q[v] # <<>>,
           NEW w \in Workers, NEW e, Holds(Pop(q, v), w, e)
    PROVE  Holds(q, w, e)
<1>1. CASE w # v
    BY <1>1 DEF Holds, Pop
<1>2. CASE w = v
    <2>1. PICK s \in Seq(Esockets) : s = q[v] /\ s # <<>>
        OBVIOUS
    <2>2. Pop(q, v)[w] = Tail(s)
        BY <1>2, <2>1 DEF Pop
    <2>3. PICK i \in DOMAIN Tail(s) : Tail(s)[i] = e
        BY <2>2 DEF Holds
    <2>4. i + 1 \in DOMAIN s /\ s[i + 1] = e
        BY <2>1, <2>3
    <2> QED BY <1>2, <2>1, <2>4 DEF Holds
<1> QED BY <1>1, <1>2

\* dap_events_socket_remove_and_delete_mt() sends to the esocket's worker.
LEMMA DeleteMtAsked ==
    ASSUME IInv, OrdInv, AskedInv, NEW d \in Esockets, DeleteMt(d), NEW e \in Esockets
    PROVE  Asked(e)'
<1>1. /\ life[d] # "fresh" /\ UNCHANGED <<life, moved, home>>
      /\ delQ' = Send(delQ, home[d], d)
    BY DEF DeleteMt, Ask, socket
<1>2. delQ \in [Workers -> Seq(Esockets)]
    BY DEF IInv, Typed, TypeOK, QueueTypes
<1>3. home[d] \in Workers
    BY <1>1 DEF OrdInv, Ord, Homes
<1>4. ASSUME NEW w \in Workers, Holds(delQ, w, e)'
      PROVE  Holds(delQ, w, e) \/ (w = home[d] /\ e = d)
    <2>1. CASE delQ'[w] = delQ[w]
        BY <1>4, <2>1 DEF Holds
    <2>2. CASE w = home[d] /\ delQ'[w] = Append(delQ[w], d)
        BY <1>2, <1>4, <2>2, AppendParts DEF Holds
    <2> QED BY <1>1, <1>2, <1>3, <2>1, <2>2 DEF Send
<1> QED BY <1>1, <1>4 DEF AskedInv, Asked

LEMMA StepAsked ==
    ASSUME IInv, OrdInv, AskedInv, [Next]_vars
    PROVE  AskedInv'
<1> SUFFICES ASSUME NEW e \in Esockets PROVE Asked(e)'
    BY DEF AskedInv
<1> USE SeqTypes
<1>1. CASE UNCHANGED vars \/ \E d \in Esockets : GoIdle(d)
    <2>1. UNCHANGED <<life, moved, home, delQ>>
        BY <1>1 DEF GoIdle, vars, socket, queues, app
    <2> QED BY <2>1, AskedRest DEF Holds
<1>2. ASSUME NEW d \in Esockets, NEW w \in Workers, AddMt(w, d) PROVE Asked(e)'
    <2>1. /\ life[d] = "fresh" /\ life' = [life EXCEPT ![d] = "live"]
          /\ home' = [home EXCEPT ![d] = w] /\ UNCHANGED <<moved, delQ>>
        BY <1>2 DEF AddMt
    <2>2. CASE e = d
        <3>1. \A v \in Workers : ~Holds(delQ, v, e)
            BY <2>1, <2>2 DEF AskedInv, Asked
        <3> QED BY <2>1, <3>1 DEF Asked, Holds
    <2>3. CASE e # d
        <3>1. life'[e] = life[e] /\ home'[e] = home[e] /\ UNCHANGED <<moved, delQ>>
            BY <2>1, <2>3
        <3> QED BY <3>1 DEF AskedInv, Asked, Holds
    <2> QED BY <2>2, <2>3
<1>3. ASSUME NEW d \in Esockets, \/ \E to \in Workers : ReassignMt(d, to)
                                 \/ \E m \in Msgs : WriteMt(d, m)
      PROVE Asked(e)'
    <2>1. UNCHANGED <<life, moved, home, delQ>>
        BY <1>3 DEF ReassignMt, WriteMt, socket
    <2> QED BY <2>1, AskedRest DEF Holds
<1>4. ASSUME NEW w \in Workers, WorkerStep(w) PROVE Asked(e)'
    <2>1. ASSUME NEW E \in SUBSET table[w], RemoveAndDelete(w, E), UNCHANGED <<moved, home>>,
                 \A v \in Workers : Holds(delQ, v, e)' => Holds(delQ, v, e)
          PROVE  Asked(e)'
        <3>1. life'[e] = life[e] \/ life'[e] = "freed"
            BY <2>1, RemovedAreLive
        <3> QED BY <2>1, <3>1, AskedRest
    <2>2. CASE Poll(w) \/ EndPass(w) \/ ServeIo(w)
        <3>1. UNCHANGED <<life, moved, home, delQ>>
            BY <2>2 DEF Poll, EndPass, ServeIo, socket, queues, app
        <3> QED BY <3>1, AskedRest DEF Holds
    <2>3. CASE ServeDelete(w)
        <3>1. /\ RemoveAndDelete(w, {Head(delQ[w])} \cap table[w]) /\ UNCHANGED <<moved, home>>
              /\ delQ' = Pop(delQ, w) /\ SlotDelete \in ready[w]
            BY <2>3 DEF ServeDelete, Serving, app
        <3>2. delQ \in [Workers -> Seq(Esockets)] /\ delQ[w] # <<>>
            BY <3>1 DEF IInv, Typed, TypeOK, QueueTypes, ReadyBacked
        <3>3. \A v \in Workers : Holds(delQ, v, e)' => Holds(delQ, v, e)
            <4> SUFFICES ASSUME NEW v \in Workers, Holds(delQ', v, e) PROVE Holds(delQ, v, e)
                BY DEF Holds
            <4> QED BY <3>1, <3>2, HeldInTail
        <3> QED BY <2>1, <3>1, <3>3
    <2>4. CASE ServeTimer(w)
        <3>1. /\ RemoveAndDelete(w, {d \in Expired(w) : Reached(w, d)}) /\ UNCHANGED <<moved, home, delQ>>
              /\ {d \in Expired(w) : Reached(w, d)} \in SUBSET table[w]
            BY <2>4 DEF ServeTimer, Expired, queues, app
        <3> QED BY <2>1, <3>1 DEF Holds
    <2>5. CASE ServeNew(w)
        <3>1. /\ UNCHANGED <<life, moved, delQ>>
              /\ UNCHANGED home \/ home' = [home EXCEPT ![Head(newQ[w])] = w]
              /\ SlotNew \in ready[w]
            BY <2>5 DEF ServeNew, Serving, socket
        <3>2. newQ[w] # <<>>
            BY <3>1 DEF IInv, Typed, ReadyBacked
        <3>3. Holds(newQ, w, Head(newQ[w]))
            <4>1. PICK q \in Seq(Esockets) : q = newQ[w]
                OBVIOUS
            <4>2. 1 \in DOMAIN q /\ q[1] = Head(q)
                BY <3>2, <4>1
            <4> QED BY <4>1, <4>2 DEF Holds
        <3>4. Head(newQ[w]) = e /\ ~moved[e] => w = home[e]
            BY <3>3 DEF OrdInv, Ord, Homes
        <3>5. ~moved[e] => home'[e] = home[e]
            BY <3>1, <3>4
        <3> QED BY <3>1, <3>5 DEF AskedInv, Asked, Holds
    <2>6. CASE ServeReassign(w)
        <3>1. /\ UNCHANGED <<life, delQ, home>>
              /\ UNCHANGED moved \/ moved' = [moved EXCEPT ![Head(reQ[w]).es] = TRUE]
            BY <2>6 DEF ServeReassign, app
        <3>2. moved[e] => moved'[e]
            BY <3>1
        <3> QED BY <3>1, <3>2, AskedRest DEF Holds
    <2>7. ASSUME NEW i \in DOMAIN poll[w], ServeSlot(w, i) PROVE Asked(e)'
        <3>1. UNCHANGED <<moved, home, delQ>>
            BY <2>7 DEF ServeSlot, SkipSlot, ServeBroken, ServeClient, socket, queues, app
        <3>2. \/ UNCHANGED life
              \/ poll[w][i] # Null /\ RemoveAndDelete(w, {poll[w][i]})
            BY <2>7 DEF ServeSlot, SkipSlot, ServeBroken, ServeClient, socket
        <3>3. poll[w][i] # Null => {poll[w][i]} \in SUBSET table[w]
            BY DEF IInv, Typed, TypeOK, ContextTypes, TableConsistent, TableOwns, SlotsMatch
        <3> QED BY <2>1, <3>1, <3>2, <3>3, AskedRest DEF Holds
    <2> QED BY <1>4, <2>2, <2>3, <2>4, <2>5, <2>6, <2>7 DEF WorkerStep
<1> QED BY <1>1, <1>2, <1>3, <1>4, DeleteMtAsked DEF Next, AppStep

\* A delete request frees its esocket, or meets one that is gone, lost or on
\* another worker, or was sent behind an add message that is still unread.
THEOREM DeleteIsExcused == Spec => [][DeleteMeets]_vars
<1>1. Init => ArmedInv /\ OrdInv /\ AskedInv
    <2>1. Init => ArmedInv
        BY DEF Init, ArmedInv, Armed
    <2>2. Init => OrdInv
        BY DEF Init, OrdInv, Ord, Homes, Untouched, AtHome, InOrder, Holds, Mine
    <2>3. Init => AskedInv
        BY DEF Init, AskedInv, Asked, Holds
    <2> QED BY <2>1, <2>2, <2>3
<1>2. IInv /\ ArmedInv /\ OrdInv /\ AskedInv /\ [Next]_vars => ArmedInv' /\ OrdInv' /\ AskedInv'
    BY StepArmed, StepOrd, StepAsked
<1>3. IInv /\ OrdInv /\ AskedInv => DeleteMeets
    <2> SUFFICES ASSUME IInv, OrdInv, AskedInv, NEW w \in Workers, ServeDelete(w),
                        NEW e, e = Head(delQ[w]), life'[e] # "freed", e \notin dropped
                 PROVE  IF moved[e] THEN InTransit(e) \/ owner[e] \in Workers \ {w} ELSE Holds(newQ, w, e)
        BY DEF DeleteMeets
    <2>1. /\ RemoveAndDelete(w, {e} \cap table[w]) /\ SlotDelete \in ready[w]
        BY DEF ServeDelete, Serving
    <2>2. PICK q \in Seq(Esockets) : q = delQ[w] /\ q # <<>>
        BY <2>1 DEF IInv, Typed, TypeOK, QueueTypes, ReadyBacked
    <2>3. 1 \in DOMAIN q /\ q[1] = e /\ e \in Esockets
        BY <2>2
    <2>4. life[e] # "fresh" /\ (moved[e] \/ w = home[e])
        BY <2>2, <2>3 DEF AskedInv, Asked, Holds
    <2>5. life'[e] = IF e \in table[w] THEN "freed" ELSE life[e]
        BY <2>1, <2>3 DEF RemoveAndDelete
    <2>6. e \notin table[w] /\ life[e] = "live"
        BY <2>3, <2>4, <2>5, SeqTypes
    <2>7. owner[e] \in Workers \cup {NoWorker} /\ owner[e] # w
        BY <2>3, <2>6, SeqTypes DEF IInv, TableConsistent, TableOwns
    <2>8. (owner[e] # NoWorker /\ ~InTransit(e)) \/ (owner[e] = NoWorker /\ InTransit(e))
        BY <2>3, <2>6 DEF IInv, Accounted
    <2>9. CASE moved[e]
        BY <2>7, <2>8, <2>9
    <2>10. CASE ~moved[e]
        <3>1. Homes(e) /\ w = home[e]
            BY <2>3, <2>4, <2>10 DEF OrdInv, Ord
        <3>2. InTransit(e)
            BY <2>7, <2>8, <3>1 DEF Homes
        <3> QED BY <2>10, <3>1, <3>2 DEF InTransit, Homes
    <2> QED BY <2>9, <2>10
<1> QED BY <1>1, <1>2, <1>3, AlwaysIInv, PTL DEF Spec
=============================================================================
