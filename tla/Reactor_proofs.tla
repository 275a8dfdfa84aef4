---------------------------- MODULE Reactor_proofs ----------------------------
(***************************************************************************)
(* Theorems about Reactor, for any sets of workers and esockets.           *)
(***************************************************************************)
EXTENDS Reactor, FiniteSetTheorems, WellFoundedInduction, TLAPS

(***************************************************************************)
(* The queues                                                              *)
(***************************************************************************)

\* Sending, which may lose the message, keeps the type of a queue and never
\* empties one (dap_events_socket_queue_ptr_send).
LEMMA SendKeeps ==
    ASSUME NEW S, NEW q \in [Workers -> Seq(S)], NEW m \in S, NEW w
    PROVE  /\ Send(q, w, m) \in [Workers -> Seq(S)]
           /\ \A v \in Workers : q[v] # <<>> => Send(q, w, m)[v] # <<>>
<1>1. \A s \in Seq(S) : Append(s, m) \in Seq(S) /\ Append(s, m) # <<>>
    OBVIOUS
<1>2. CASE w \in Workers
    <2>1. Send(q, w, m) = [v \in Workers |-> IF v = w /\ ~Full(q, w)
                                             THEN Append(q[w], m) ELSE q[v]]
        BY <1>2 DEF Send
    <2> QED BY <1>1, <1>2, <2>1
<1>3. CASE w \notin Workers
    BY <1>3 DEF Send
<1> QED BY <1>2, <1>3

\* Reading one message of a reported queue keeps the type of the queue, takes
\* a well-typed message and leaves other workers' queues alone
\* (dap_events_socket_queue_proc_input_unsafe).
LEMMA PopKeeps ==
    ASSUME NEW S, NEW q \in [Workers -> Seq(S)], NEW w \in Workers, q[w] # <<>>
    PROVE  /\ Pop(q, w) \in [Workers -> Seq(S)]
           /\ Head(q[w]) \in S
           /\ \A v \in Workers \ {w} : Pop(q, w)[v] = q[v]
BY DEF Pop

(***************************************************************************)
(* Squeezing the poll array                                                *)
(***************************************************************************)

\* The slots in use are finitely many.
LEMMA UsedIsFinite ==
    ASSUME NEW S, NEW s \in Seq(S)
    PROVE  /\ Used(s) \subseteq 1..Len(s)
           /\ IsFiniteSet(Used(s))
           /\ Cardinality(Used(s)) \in Nat
<1>1. Used(s) \subseteq 1..Len(s) /\ Len(s) \in Nat
    BY DEF Used
<1>2. IsFiniteSet(1..Len(s))
    BY <1>1, FS_Interval
<1>3. IsFiniteSet(Used(s))
    BY <1>1, <1>2, FS_Subset
<1> QED BY <1>1, <1>3, FS_CardinalityType

\* Ranking the slots in use numbers them 1..n without repetition.
LEMMA RankIsBijection ==
    ASSUME NEW S, NEW s \in Seq(S)
    PROVE  /\ \A i \in Used(s) : Rank(s, i) \in 1..Cardinality(Used(s))
           /\ \A i, j \in Used(s) : Rank(s, i) = Rank(s, j) => i = j
           /\ \A r \in 1..Cardinality(Used(s)) : \E i \in Used(s) : Rank(s, i) = r
<1> DEFINE U == Used(s)
           n == Cardinality(U)
           Upto(i) == {j \in U : j <= i}
           rank == [i \in U |-> Rank(s, i)]
<1>1. U \subseteq 1..Len(s) /\ IsFiniteSet(U) /\ n \in Nat
    BY UsedIsFinite
<1>2. ASSUME NEW i \in U
      PROVE  /\ IsFiniteSet(Upto(i))
             /\ Rank(s, i) = Cardinality(Upto(i))
             /\ Rank(s, i) \in 1..n
    <2>1. Upto(i) \in SUBSET U /\ i \in Upto(i)
        BY <1>1
    <2>2. /\ IsFiniteSet(Upto(i))
          /\ Cardinality(Upto(i)) \in Nat
          /\ Cardinality(Upto(i)) <= n
        BY <1>1, <2>1, FS_Subset, FS_CardinalityType
    <2>3. Cardinality(Upto(i)) # 0
        BY <2>1, <2>2, FS_EmptySet
    <2>4. Rank(s, i) = Cardinality(Upto(i))
        BY DEF Rank
    <2> HIDE DEF Upto, n
    <2> QED BY <1>1, <2>2, <2>3, <2>4
<1>3. ASSUME NEW i \in U, NEW j \in U, i < j
      PROVE  Rank(s, i) # Rank(s, j)
    <2>1. Upto(i) \in SUBSET Upto(j) /\ j \in Upto(j) /\ j \notin Upto(i)
        BY <1>1, <1>3
    <2>2. Cardinality(Upto(j)) = Cardinality(Upto(i)) => Upto(j) = Upto(i)
        BY <1>2, <2>1, FS_Subset
    <2> QED BY <1>2, <2>1, <2>2
<1>4. \A i, j \in U : Rank(s, i) = Rank(s, j) => i = j
    <2> SUFFICES ASSUME NEW i \in U, NEW j \in U, i # j
                 PROVE  Rank(s, i) # Rank(s, j)
        OBVIOUS
    <2>1. i \in Int /\ j \in Int
        BY <1>1
    <2> QED BY <1>3, <2>1
<1>5. rank \in Injection(U, 1..n)
    BY <1>2, <1>4 DEF Injection, IsInjective
<1>6. IsFiniteSet(1..n) /\ Cardinality(1..n) = n
    BY <1>1, FS_Interval
<1>7. rank \in Surjection(U, 1..n)
    BY <1>5, <1>6, FS_Injection
<1>8. \A r \in 1..n : \E i \in U : Rank(s, i) = r
    BY <1>7 DEF Surjection
<1> QED BY <1>2, <1>4, <1>8

\* Squeezing keeps every esocket of the array, at its rank, and no hole.
LEMMA CompressKeeps ==
    ASSUME NEW S, NEW s \in Seq(S)
    PROVE  /\ Compress(s) \in Seq(S)
           /\ \A i \in Used(s) : /\ Rank(s, i) \in DOMAIN Compress(s)
                                 /\ Compress(s)[Rank(s, i)] = s[i]
           /\ \A r \in DOMAIN Compress(s) :
                 \E i \in Used(s) : Rank(s, i) = r /\ Compress(s)[r] = s[i]
<1> DEFINE n == Cardinality(Used(s))
           Slot(r) == CHOOSE i \in Used(s) : Rank(s, i) = r
<1>1. n \in Nat /\ Used(s) \subseteq DOMAIN s
    BY UsedIsFinite DEF Used
<1>2. \A r \in 1..n : Slot(r) \in Used(s) /\ Rank(s, Slot(r)) = r
    BY RankIsBijection
<1>3. Compress(s) = [r \in 1..n |-> s[Slot(r)]]
    BY DEF Compress
<1>4. \A i \in Used(s) : Rank(s, i) \in 1..n /\ Slot(Rank(s, i)) = i
    BY <1>2, RankIsBijection
<1>5. \A r \in 1..n : s[Slot(r)] \in S
    BY <1>1, <1>2
<1> HIDE DEF n, Slot
<1>6. Compress(s) \in Seq(S) /\ DOMAIN Compress(s) = 1..n
    BY <1>1, <1>3, <1>5
<1> QED BY <1>2, <1>3, <1>4, <1>6

(***************************************************************************)
(* Types                                                                   *)
(***************************************************************************)

\* TypeOK needs ReadyBacked: only then is there a message to take.
Typed == TypeOK /\ ReadyBacked

\* Slot s of worker w being served, no queue is emptied but the slot's own.
QueuesKept(w, s) ==
    \A v \in Workers :
        /\ newQ[v] # <<>> /\ (v # w \/ s # SlotNew) => newQ'[v] # <<>>
        /\ delQ[v] # <<>> /\ (v # w \/ s # SlotDelete) => delQ'[v] # <<>>
        /\ ioQ[v] # <<>> /\ (v # w \/ s # SlotIo) => ioQ'[v] # <<>>
        /\ reQ[v] # <<>> /\ (v # w \/ s # SlotReassign) => reQ'[v] # <<>>

\* The other queues untouched and the slot served, what poll() reported stays.
LEMMA ServedKeepsReady ==
    ASSUME ContextTypes, ReadyBacked,
           NEW w \in Workers, NEW s \in Nat, Serving(w, s), Served(w, s), QueuesKept(w, s),
           \A v \in Workers : DOMAIN poll[v] \subseteq DOMAIN poll'[v]
    PROVE  /\ ReadyBacked'
           /\ inPass' \in [Workers -> BOOLEAN]
           /\ ready' \in [Workers -> SUBSET Nat]
BY DEF QueuesKept, ReadyBacked, Served, Serving, ContextTypes, ServiceSlots, SlotNew,
       SlotDelete, SlotIo, SlotReassign

LEMMA AddMtTyped ==
    ASSUME Typed, NEW w \in Workers, NEW e \in Esockets, AddMt(w, e)
    PROVE  Typed'
<1>1. /\ newQ' \in [Workers -> Seq(Esockets)]
      /\ \A v \in Workers : newQ[v] # <<>> => newQ'[v] # <<>>
    <2>1. newQ \in [Workers -> Seq(Esockets)] /\ newQ' = Send(newQ, w, e)
        BY DEF Typed, TypeOK, QueueTypes, AddMt
    <2> QED BY <2>1, SendKeeps
<1> USE DEF Typed, TypeOK, AddMt, flags, context, pass
<1>2. SocketTypes' /\ FlagTypes' /\ ContextTypes'
    BY DEF SocketTypes, FlagTypes, ContextTypes
<1>3. QueueTypes' /\ AppTypes'
    BY <1>1 DEF QueueTypes, AppTypes
<1>4. ReadyBacked'
    BY <1>1 DEF ReadyBacked
<1> QED BY <1>2, <1>3, <1>4

LEMMA AskTyped ==
    ASSUME Typed, NEW e \in Esockets, Ask(e)
    PROVE  asked' \in 0..MaxRequests
BY BoundsAssumption DEF Typed, TypeOK, AppTypes, Ask

LEMMA DeleteMtTyped ==
    ASSUME Typed, NEW e \in Esockets, DeleteMt(e)
    PROVE  Typed'
<1> USE DEF Typed, TypeOK, DeleteMt, socket, flags, context, pass
<1>1. /\ delQ' \in [Workers -> Seq(Esockets)]
      /\ \A v \in Workers : delQ[v] # <<>> => delQ'[v] # <<>>
    BY SendKeeps DEF QueueTypes
<1>2. SocketTypes' /\ FlagTypes' /\ ContextTypes'
    BY DEF SocketTypes, FlagTypes, ContextTypes
<1>3. QueueTypes' /\ AppTypes'
    BY <1>1, AskTyped DEF QueueTypes, AppTypes
<1>4. ReadyBacked'
    BY <1>1 DEF ReadyBacked
<1> QED BY <1>2, <1>3, <1>4

LEMMA ReassignMtTyped ==
    ASSUME Typed, NEW e \in Esockets, NEW to \in Workers, ReassignMt(e, to)
    PROVE  Typed'
<1> USE DEF Typed, TypeOK, ReassignMt, socket, flags, context, pass
<1>1. [es |-> e, to |-> to] \in ReassignMessages
    BY DEF ReassignMessages
<1>2. /\ reQ' \in [Workers -> Seq(ReassignMessages)]
      /\ \A v \in Workers : reQ[v] # <<>> => reQ'[v] # <<>>
    BY <1>1, SendKeeps DEF QueueTypes
<1>3. SocketTypes' /\ FlagTypes' /\ ContextTypes'
    BY DEF SocketTypes, FlagTypes, ContextTypes
<1>4. QueueTypes' /\ AppTypes'
    BY <1>2, AskTyped DEF QueueTypes, AppTypes
<1>5. ReadyBacked'
    BY <1>2 DEF ReadyBacked
<1> QED BY <1>3, <1>4, <1>5

LEMMA WriteMtTyped ==
    ASSUME Typed, NEW e \in Esockets, NEW m \in Msgs, WriteMt(e, m)
    PROVE  Typed'
<1> USE DEF Typed, TypeOK, WriteMt, socket, flags, context, pass
<1>1. [es |-> e, msg |-> m] \in IoMessages
    BY DEF IoMessages
<1>2. /\ ioQ' \in [Workers -> Seq(IoMessages)]
      /\ \A v \in Workers : ioQ[v] # <<>> => ioQ'[v] # <<>>
    BY <1>1, SendKeeps DEF QueueTypes
<1>3. SocketTypes' /\ FlagTypes' /\ ContextTypes'
    BY DEF SocketTypes, FlagTypes, ContextTypes
<1>4. QueueTypes' /\ AppTypes'
    BY <1>2 DEF QueueTypes, AppTypes
<1>5. ReadyBacked'
    BY <1>2 DEF ReadyBacked
<1> QED BY <1>3, <1>4, <1>5

LEMMA PollTyped ==
    ASSUME Typed, NEW w \in Workers, Poll(w)
    PROVE  Typed'
<1> USE DEF Typed, TypeOK, Poll, socket, flags, context, queues, app
<1>1. /\ Pollable(w) \subseteq Nat
      /\ \A s \in Pollable(w) :
            /\ s = SlotNew => newQ[w] # <<>>
            /\ s = SlotDelete => delQ[w] # <<>>
            /\ s = SlotIo => ioQ[w] # <<>>
            /\ s = SlotReassign => reQ[w] # <<>>
            /\ s \notin ServiceSlots => s - 5 \in DOMAIN poll[w]
    BY DEF Pollable, ClientSlot, SlotNew, SlotDelete, SlotIo, SlotReassign, SlotTimer,
           ServiceSlots, ContextTypes
<1>2. PICK r \in SUBSET Pollable(w) : ready' = [ready EXCEPT ![w] = r]
    OBVIOUS
<1>3. SocketTypes' /\ FlagTypes' /\ QueueTypes' /\ AppTypes'
    BY DEF SocketTypes, FlagTypes, QueueTypes, AppTypes
<1>4. ContextTypes'
    BY <1>1, <1>2 DEF ContextTypes
<1>5. ReadyBacked'
    BY <1>1, <1>2 DEF ReadyBacked, ContextTypes
<1> QED BY <1>3, <1>4, <1>5

LEMMA ServeNewTyped ==
    ASSUME Typed, NEW w \in Workers, ServeNew(w)
    PROVE  Typed'
<1> DEFINE e == Head(newQ[w])
<1>1. /\ newQ' \in [Workers -> Seq(Esockets)]
      /\ e \in Esockets
      /\ \A v \in Workers \ {w} : newQ'[v] = newQ[v]
    <2>1. newQ \in [Workers -> Seq(Esockets)] /\ newQ' = Pop(newQ, w)
        BY DEF Typed, TypeOK, QueueTypes, ServeNew
    <2>2. newQ[w] # <<>>
        BY DEF Typed, ReadyBacked, ServeNew, Serving
    <2> QED BY <2>1, <2>2, PopKeeps
<1>8. Serving(w, SlotNew) /\ Served(w, SlotNew) /\ QueuesKept(w, SlotNew)
    BY <1>1 DEF ServeNew, QueuesKept
<1>2. CASE e \in table[w]
    <2>1. UNCHANGED <<socket, flags, context, home>>
        BY <1>2 DEF ServeNew
    <2>2. SocketTypes' /\ FlagTypes' /\ AppTypes'
        BY <2>1 DEF Typed, TypeOK, ServeNew, SocketTypes, FlagTypes, AppTypes, socket, flags
    <2>3. QueueTypes'
        BY <1>1 DEF Typed, TypeOK, ServeNew, QueueTypes
    <2>4. ReadyBacked' /\ ContextTypes'
        BY <1>1, <1>8, <2>1, ServedKeepsReady DEF Typed, TypeOK, ContextTypes, context, SlotNew
    <2> QED BY <2>2, <2>3, <2>4 DEF Typed, TypeOK
<1>3. CASE e \notin table[w]
    <2>1. /\ ContextAdd(w, e)
          /\ FirstInstall(e)
          /\ idle' = [idle EXCEPT ![e] = FALSE]
          /\ home' = [home EXCEPT ![e] = w]
          /\ UNCHANGED <<life, moved, closing>>
        BY <1>3 DEF ServeNew
    <2>2. SocketTypes'
        BY <1>1, <2>1 DEF Typed, TypeOK, SocketTypes, ContextTypes, ContextAdd, FirstInstall
    <2>7. out' \in [Esockets -> Seq(Payloads)]
        <3>1. \A s \in Seq(Payloads) : Append(s, Greeting) \in Seq(Payloads)
            BY DEF Payloads
        <3>2. out \in [Esockets -> Seq(Payloads)]
            BY DEF Typed, TypeOK, FlagTypes
        <3>3. PICK greets \in Greets(e) :
                out' = [out EXCEPT ![e] = IF greets THEN Append(@, Greeting) ELSE @]
            BY <2>1 DEF FirstInstall
        <3> QED BY <1>1, <3>1, <3>2, <3>3
    <2>8. want' \in [Esockets -> BOOLEAN] /\ armed' \in [Esockets -> BOOLEAN]
        BY <1>1, <2>1 DEF Typed, TypeOK, FlagTypes, ContextAdd, FirstInstall, Greets
    <2>9. FlagTypes'
        BY <2>1, <2>7, <2>8 DEF Typed, TypeOK, FlagTypes
    <2>3. AppTypes'
        BY <1>1, <2>1 DEF Typed, TypeOK, ServeNew, AppTypes
    <2>4. QueueTypes'
        BY <1>1 DEF Typed, TypeOK, ServeNew, QueueTypes
    <2>5. /\ poll' \in [Workers -> Seq(Esockets \cup {Null})]
          /\ table' \in [Workers -> SUBSET Esockets]
          /\ count' \in [Workers -> Int]
          /\ \A v \in Workers : DOMAIN poll[v] \subseteq DOMAIN poll'[v]
        BY <1>1, <2>1 DEF Typed, TypeOK, ContextTypes, ContextAdd
    <2>6. ReadyBacked' /\ ContextTypes'
        BY <1>1, <1>8, <2>5, ServedKeepsReady DEF Typed, TypeOK, ContextTypes, SlotNew
    <2> QED BY <2>2, <2>9, <2>3, <2>4, <2>6 DEF Typed, TypeOK
<1> QED BY <1>2, <1>3

\* Removing a set of esockets keeps the types and the length of the poll array.
LEMMA ContextRemoveTyped ==
    ASSUME SocketTypes, ContextTypes, NEW w \in Workers, NEW E \in SUBSET Esockets,
           IsFiniteSet(E), ContextRemove(w, E)
    PROVE  /\ owner' \in [Esockets -> Workers \cup {NoWorker}]
           /\ index' \in [Esockets -> Nat]
           /\ table' \in [Workers -> SUBSET Esockets]
           /\ count' \in [Workers -> Int]
           /\ poll' \in [Workers -> Seq(Esockets \cup {Null})]
           /\ \A v \in Workers : DOMAIN poll'[v] = DOMAIN poll[v]
<1>1. Cardinality(E) \in Nat
    BY FS_CardinalityType
<1>2. /\ poll' \in [Workers -> Seq(Esockets \cup {Null})]
      /\ \A v \in Workers : DOMAIN poll'[v] = DOMAIN poll[v]
    <2> DEFINE Cleared == [i \in DOMAIN poll[w] |->
                              IF \E e \in E : index[e] = i THEN Null ELSE poll[w][i]]
    <2>1. poll[w] \in Seq(Esockets \cup {Null})
        BY DEF ContextTypes
    <2>2. Cleared \in Seq(Esockets \cup {Null}) /\ DOMAIN Cleared = DOMAIN poll[w]
        <3>1. DOMAIN poll[w] = 1..Len(poll[w]) /\ Len(poll[w]) \in Nat
            BY <2>1
        <3>2. Cleared \in [1..Len(poll[w]) -> Esockets \cup {Null}]
            BY <2>1, <3>1
        <3> QED BY <3>1, <3>2
    <2>3. poll' = [poll EXCEPT ![w] = Cleared]
        BY DEF ContextRemove
    <2> HIDE DEF Cleared
    <2> QED BY <2>2, <2>3 DEF ContextTypes
<1>3. /\ owner' \in [Esockets -> Workers \cup {NoWorker}]
      /\ index' \in [Esockets -> Nat]
    BY DEF ContextRemove, SocketTypes
<1>4. /\ table' \in [Workers -> SUBSET Esockets]
      /\ count' \in [Workers -> Int]
    BY <1>1 DEF ContextRemove, ContextTypes
<1> QED BY <1>2, <1>3, <1>4

LEMMA FiniteSubset ==
    ASSUME NEW E \in SUBSET Esockets
    PROVE  IsFiniteSet(E) /\ Cardinality(E) \in Nat
BY EsocketsAssumption, FS_Subset, FS_CardinalityType

\* Deleting a set of esockets keeps the types.
LEMMA RemoveAndDeleteTyped ==
    ASSUME Typed, NEW w \in Workers, NEW E \in SUBSET Esockets, RemoveAndDelete(w, E),
           UNCHANGED <<init, moved>>
    PROVE  /\ SocketTypes'
           /\ table' \in [Workers -> SUBSET Esockets]
           /\ count' \in [Workers -> Int]
           /\ poll' \in [Workers -> Seq(Esockets \cup {Null})]
           /\ \A v \in Workers : DOMAIN poll[v] \subseteq DOMAIN poll'[v]
<1>1. ContextRemove(w, E) /\ SocketTypes /\ ContextTypes
    BY DEF RemoveAndDelete, Typed, TypeOK
<1>2. life' \in [Esockets -> {"fresh", "live", "freed"}]
    BY <1>1 DEF RemoveAndDelete, SocketTypes
<1>3. IsFiniteSet(E)
    BY FiniteSubset
<1>4. /\ owner' \in [Esockets -> Workers \cup {NoWorker}]
      /\ index' \in [Esockets -> Nat]
      /\ table' \in [Workers -> SUBSET Esockets]
      /\ count' \in [Workers -> Int]
      /\ poll' \in [Workers -> Seq(Esockets \cup {Null})]
      /\ \A v \in Workers : DOMAIN poll'[v] = DOMAIN poll[v]
    BY <1>1, <1>3, ContextRemoveTyped
<1> QED BY <1>1, <1>2, <1>4 DEF SocketTypes

LEMMA ServeDeleteTyped ==
    ASSUME Typed, NEW w \in Workers, ServeDelete(w)
    PROVE  Typed'
<1>1. /\ delQ' \in [Workers -> Seq(Esockets)]
      /\ \A v \in Workers \ {w} : delQ'[v] = delQ[v]
    <2>1. delQ \in [Workers -> Seq(Esockets)] /\ delQ' = Pop(delQ, w)
        BY DEF Typed, TypeOK, QueueTypes, ServeDelete
    <2>2. delQ[w] # <<>>
        BY DEF Typed, ReadyBacked, ServeDelete, Serving
    <2> QED BY <2>1, <2>2, PopKeeps
<1> DEFINE E == {Head(delQ[w])} \cap table[w]
<1>2. E \in SUBSET Esockets
    BY DEF Typed, TypeOK, ContextTypes
<1>3. RemoveAndDelete(w, E) /\ UNCHANGED <<init, moved>>
    BY DEF ServeDelete
<1>4. /\ SocketTypes'
      /\ table' \in [Workers -> SUBSET Esockets]
      /\ count' \in [Workers -> Int]
      /\ poll' \in [Workers -> Seq(Esockets \cup {Null})]
      /\ \A v \in Workers : DOMAIN poll[v] \subseteq DOMAIN poll'[v]
    BY <1>2, <1>3, RemoveAndDeleteTyped
<1>5. FlagTypes' /\ AppTypes'
    BY DEF Typed, TypeOK, ServeDelete, FlagTypes, AppTypes, flags, app
<1>6. QueueTypes'
    BY <1>1 DEF Typed, TypeOK, ServeDelete, QueueTypes
<1>8. Serving(w, SlotDelete) /\ Served(w, SlotDelete) /\ QueuesKept(w, SlotDelete)
    BY <1>1 DEF ServeDelete, QueuesKept
<1>7. ReadyBacked' /\ ContextTypes'
    BY <1>4, <1>8, ServedKeepsReady DEF Typed, TypeOK, ContextTypes, SlotDelete
<1> QED BY <1>4, <1>5, <1>6, <1>7 DEF Typed, TypeOK

LEMMA ServeIoTyped ==
    ASSUME Typed, NEW w \in Workers, ServeIo(w)
    PROVE  Typed'
<1> DEFINE e == Head(ioQ[w]).es
           m == Head(ioQ[w]).msg
<1>1. /\ ioQ' \in [Workers -> Seq(IoMessages)]
      /\ Head(ioQ[w]) \in IoMessages
      /\ \A v \in Workers \ {w} : ioQ'[v] = ioQ[v]
    <2>1. ioQ \in [Workers -> Seq(IoMessages)] /\ ioQ' = Pop(ioQ, w)
        BY DEF Typed, TypeOK, QueueTypes, ServeIo
    <2>2. ioQ[w] # <<>>
        BY DEF Typed, ReadyBacked, ServeIo, Serving
    <2> QED BY <2>1, <2>2, PopKeeps
<1>2. e \in Esockets /\ m \in Payloads
    BY <1>1 DEF IoMessages, Payloads
<1>3. FlagTypes'
    <2>1. CASE e \notin table[w]
        BY <2>1 DEF Typed, TypeOK, FlagTypes, ServeIo
    <2>2. CASE e \in table[w]
        <3>1. /\ want'  = [want EXCEPT ![e] = TRUE]
              /\ armed' = [armed EXCEPT ![e] = @ \/ ~want[e]]
              /\ out'   = [out EXCEPT ![e] = IF closing[e] THEN @ ELSE Append(@, m)]
              /\ UNCHANGED <<closing, idle>>
            BY <2>2 DEF ServeIo
        <3>2. out' \in [Esockets -> Seq(Payloads)]
            <4>1. \A s \in Seq(Payloads) : Append(s, m) \in Seq(Payloads)
                BY <1>2
            <4>2. out \in [Esockets -> Seq(Payloads)]
                BY DEF Typed, TypeOK, FlagTypes
            <4> QED BY <1>2, <3>1, <4>1, <4>2
        <3>3. want' \in [Esockets -> BOOLEAN] /\ armed' \in [Esockets -> BOOLEAN]
            BY <1>2, <3>1 DEF Typed, TypeOK, FlagTypes
        <3> QED BY <3>1, <3>2, <3>3 DEF Typed, TypeOK, FlagTypes
    <2> QED BY <2>1, <2>2
<1>4. SocketTypes' /\ AppTypes'
    BY DEF Typed, TypeOK, ServeIo, SocketTypes, AppTypes, socket, app
<1>5. QueueTypes'
    BY <1>1 DEF Typed, TypeOK, ServeIo, QueueTypes
<1>8. Serving(w, SlotIo) /\ Served(w, SlotIo) /\ QueuesKept(w, SlotIo)
    BY <1>1 DEF ServeIo, QueuesKept
<1>9. UNCHANGED context
    BY DEF ServeIo
<1>6. ReadyBacked' /\ ContextTypes'
    BY <1>9, <1>8, ServedKeepsReady DEF Typed, TypeOK, ContextTypes, SlotIo, context
<1> QED BY <1>3, <1>4, <1>5, <1>6 DEF Typed, TypeOK

LEMMA ServeReassignTyped ==
    ASSUME Typed, NEW w \in Workers, ServeReassign(w)
    PROVE  Typed'
<1> DEFINE e  == Head(reQ[w]).es
           to == Head(reQ[w]).to
<1>1. /\ reQ' \in [Workers -> Seq(ReassignMessages)]
      /\ Head(reQ[w]) \in ReassignMessages
      /\ \A v \in Workers \ {w} : reQ'[v] = reQ[v]
    <2>1. reQ \in [Workers -> Seq(ReassignMessages)] /\ reQ' = Pop(reQ, w)
        BY DEF Typed, TypeOK, QueueTypes, ServeReassign
    <2>2. reQ[w] # <<>>
        BY DEF Typed, ReadyBacked, ServeReassign, Serving
    <2> QED BY <2>1, <2>2, PopKeeps
<1>2. e \in Esockets /\ to \in Workers
    BY <1>1 DEF ReassignMessages
<1>3. /\ SocketTypes'
      /\ table' \in [Workers -> SUBSET Esockets]
      /\ count' \in [Workers -> Int]
      /\ poll' \in [Workers -> Seq(Esockets \cup {Null})]
      /\ \A v \in Workers : DOMAIN poll[v] \subseteq DOMAIN poll'[v]
      /\ newQ' \in [Workers -> Seq(Esockets)]
      /\ \A v \in Workers : newQ[v] # <<>> => newQ'[v] # <<>>
      /\ dropped' \in SUBSET Esockets
    <2>1. CASE e \notin table[w] \/ DeclinesReassign(e)
        BY <2>1 DEF Typed, TypeOK, ServeReassign, SocketTypes, ContextTypes, QueueTypes,
                    AppTypes, context
    <2>2. CASE ~(e \notin table[w] \/ DeclinesReassign(e))
        <3>1. /\ ContextRemove(w, {e})
              /\ moved' = [moved EXCEPT ![e] = TRUE]
              /\ newQ'  = Send(newQ, to, e)
              /\ dropped' = IF Full(newQ, to) THEN dropped \cup {e} ELSE dropped
            BY <2>2 DEF ServeReassign
        <3>2. newQ \in [Workers -> Seq(Esockets)]
            BY DEF Typed, TypeOK, QueueTypes
        <3>3. /\ newQ' \in [Workers -> Seq(Esockets)]
              /\ \A v \in Workers : newQ[v] # <<>> => newQ'[v] # <<>>
            BY <1>2, <3>1, <3>2, SendKeeps
        <3>4. dropped' \in SUBSET Esockets
            BY <1>2, <3>1 DEF Typed, TypeOK, AppTypes
        <3>5. IsFiniteSet({e}) /\ {e} \in SUBSET Esockets
            BY <1>2, FS_Singleton
        <3>6. /\ owner' \in [Esockets -> Workers \cup {NoWorker}]
              /\ index' \in [Esockets -> Nat]
              /\ table' \in [Workers -> SUBSET Esockets]
              /\ count' \in [Workers -> Int]
              /\ poll' \in [Workers -> Seq(Esockets \cup {Null})]
              /\ \A v \in Workers : DOMAIN poll'[v] = DOMAIN poll[v]
            BY <3>1, <3>5, ContextRemoveTyped DEF Typed, TypeOK
        <3>7. SocketTypes'
            BY <1>2, <3>1, <3>6 DEF Typed, TypeOK, SocketTypes, ServeReassign
        <3> QED BY <3>3, <3>4, <3>6, <3>7
    <2> QED BY <2>1, <2>2
<1>4. FlagTypes' /\ AppTypes'
    BY <1>3 DEF Typed, TypeOK, ServeReassign, FlagTypes, AppTypes, flags, app
<1>5. QueueTypes'
    BY <1>1, <1>3 DEF Typed, TypeOK, ServeReassign, QueueTypes
<1>8. Serving(w, SlotReassign) /\ Served(w, SlotReassign) /\ QueuesKept(w, SlotReassign)
    BY <1>1, <1>3 DEF ServeReassign, QueuesKept
<1>6. ReadyBacked' /\ ContextTypes'
    BY <1>3, <1>8, ServedKeepsReady DEF Typed, TypeOK, ContextTypes, SlotReassign
<1> QED BY <1>3, <1>4, <1>5, <1>6 DEF Typed, TypeOK

LEMMA ServeTimerTyped ==
    ASSUME Typed, NEW w \in Workers, ServeTimer(w)
    PROVE  Typed'
<1> DEFINE E == {e \in Expired(w) : Reached(w, e)}
<1>1. E \in SUBSET Esockets
    BY DEF Typed, TypeOK, ContextTypes, Expired
<1>2. RemoveAndDelete(w, E) /\ UNCHANGED <<init, moved>>
    BY DEF ServeTimer
<1>3. /\ SocketTypes'
      /\ table' \in [Workers -> SUBSET Esockets]
      /\ count' \in [Workers -> Int]
      /\ poll' \in [Workers -> Seq(Esockets \cup {Null})]
      /\ \A v \in Workers : DOMAIN poll[v] \subseteq DOMAIN poll'[v]
    BY <1>1, <1>2, RemoveAndDeleteTyped
<1>4. FlagTypes' /\ AppTypes' /\ QueueTypes'
    BY DEF Typed, TypeOK, ServeTimer, FlagTypes, AppTypes, QueueTypes, flags, app, queues
<1>8. Serving(w, SlotTimer) /\ Served(w, SlotTimer) /\ QueuesKept(w, SlotTimer)
    BY DEF ServeTimer, QueuesKept, queues
<1>5. ReadyBacked' /\ ContextTypes'
    BY <1>3, <1>8, ServedKeepsReady DEF Typed, TypeOK, ContextTypes, SlotTimer
<1> QED BY <1>3, <1>4, <1>5 DEF Typed, TypeOK

LEMMA SkipSlotTyped ==
    ASSUME Typed, NEW w \in Workers, NEW i \in Nat, SkipSlot(w, i)
    PROVE  Typed'
<1>1. SocketTypes' /\ FlagTypes' /\ QueueTypes' /\ AppTypes'
    BY DEF Typed, TypeOK, SkipSlot, SocketTypes, FlagTypes, QueueTypes, AppTypes, socket,
           flags, queues, app
<1>2. /\ Serving(w, ClientSlot(i)) /\ Served(w, ClientSlot(i))
      /\ QueuesKept(w, ClientSlot(i)) /\ ClientSlot(i) \in Nat
      /\ UNCHANGED context
    BY DEF SkipSlot, QueuesKept, queues, ClientSlot
<1>3. ReadyBacked' /\ ContextTypes'
    BY <1>2, ServedKeepsReady DEF Typed, TypeOK, ContextTypes, context
<1> QED BY <1>1, <1>3 DEF Typed, TypeOK

LEMMA ServeBrokenTyped ==
    ASSUME Typed, NEW w \in Workers, NEW i \in Nat, ServeBroken(w, i)
    PROVE  Typed'
<1> DEFINE e == poll[w][i]
<1>1. e \in Esockets
    BY DEF Typed, TypeOK, ContextTypes, ServeBroken
<1>2. RemoveAndDelete(w, {e}) /\ UNCHANGED <<init, moved>>
    BY DEF ServeBroken
<1>3. /\ SocketTypes'
      /\ table' \in [Workers -> SUBSET Esockets]
      /\ count' \in [Workers -> Int]
      /\ poll' \in [Workers -> Seq(Esockets \cup {Null})]
      /\ \A v \in Workers : DOMAIN poll[v] \subseteq DOMAIN poll'[v]
    <2>1. {e} \in SUBSET Esockets
        BY <1>1
    <2> QED BY <1>2, <2>1, RemoveAndDeleteTyped
<1>4. FlagTypes'
    <2>1. <<>> \in Seq(Payloads)
        OBVIOUS
    <2> QED BY <1>1, <2>1 DEF Typed, TypeOK, ServeBroken, FlagTypes
<1>5. AppTypes' /\ QueueTypes'
    BY DEF Typed, TypeOK, ServeBroken, AppTypes, QueueTypes, app, queues
<1>6. /\ Serving(w, ClientSlot(i)) /\ Served(w, ClientSlot(i))
      /\ QueuesKept(w, ClientSlot(i)) /\ ClientSlot(i) \in Nat
    BY DEF ServeBroken, QueuesKept, queues, ClientSlot
<1>7. ReadyBacked' /\ ContextTypes'
    BY <1>3, <1>6, ServedKeepsReady DEF Typed, TypeOK, ContextTypes
<1> QED BY <1>3, <1>4, <1>5, <1>7 DEF Typed, TypeOK

LEMMA ServeClientTyped ==
    ASSUME Typed, NEW w \in Workers, NEW i \in Nat, NEW rd \in BOOLEAN,
           NEW wr \in BOOLEAN, NEW k \in Nat, ServeClient(w, i, rd, wr, k)
    PROVE  Typed'
<1> DEFINE e     == poll[w][i]
           write == wr /\ armed[e] /\ want[e]
           left  == SubSeq(out[e], k + 1, Len(out[e]))
<1>1. e \in Esockets
    BY DEF Typed, TypeOK, ContextTypes, ServeClient
<1>2. left \in Seq(Payloads) /\ SubSeq(out[e], 1, k) \in Seq(Payloads)
    <2>1. out[e] \in Seq(Payloads)
        BY <1>1 DEF Typed, TypeOK, FlagTypes
    <2>2. k <= Len(out[e])
        BY <2>1 DEF ServeClient
    <2> QED BY <2>1, <2>2
<1>3. PICK c \in BOOLEAN :
        /\ closing' = [closing EXCEPT ![e] = c]
        /\ IF c /\ left = <<>>
           THEN RemoveAndDelete(w, {e})
           ELSE UNCHANGED <<life, owner, index, context>>
    BY <1>1 DEF Typed, TypeOK, FlagTypes, ServeClient
<1>4. /\ SocketTypes'
      /\ table' \in [Workers -> SUBSET Esockets]
      /\ count' \in [Workers -> Int]
      /\ poll' \in [Workers -> Seq(Esockets \cup {Null})]
      /\ \A v \in Workers : DOMAIN poll[v] \subseteq DOMAIN poll'[v]
    <2>1. UNCHANGED <<init, moved>> /\ {e} \in SUBSET Esockets
        BY <1>1 DEF ServeClient
    <2>2. CASE RemoveAndDelete(w, {e})
        BY <2>1, <2>2, RemoveAndDeleteTyped
    <2>3. CASE UNCHANGED <<life, owner, index, context>>
        BY <2>1, <2>3 DEF Typed, TypeOK, SocketTypes, ContextTypes, context
    <2> QED BY <1>3, <2>2, <2>3
<1>5. FlagTypes'
    <2>1. out' \in [Esockets -> Seq(Payloads)]
        BY <1>2 DEF Typed, TypeOK, FlagTypes, ServeClient
    <2>2. closing' \in [Esockets -> BOOLEAN]
        BY <1>3 DEF Typed, TypeOK, FlagTypes
    <2>3. /\ want' \in [Esockets -> BOOLEAN]
          /\ armed' \in [Esockets -> BOOLEAN]
          /\ idle' \in [Esockets -> BOOLEAN]
        BY <1>1 DEF Typed, TypeOK, FlagTypes, ServeClient
    <2> QED BY <2>1, <2>2, <2>3 DEF FlagTypes
<1>6. AppTypes'
    <2>1. sent \in [Esockets -> Seq(Payloads)] /\ UNCHANGED <<app, dropped>>
        BY DEF Typed, TypeOK, AppTypes, ServeClient
    <2>2. sent' = [sent EXCEPT ![e] = @ \o SubSeq(out[e], 1, k)]
        BY DEF ServeClient
    <2>3. \A s \in Seq(Payloads) : s \o SubSeq(out[e], 1, k) \in Seq(Payloads)
        BY <1>2
    <2>4. sent' \in [Esockets -> Seq(Payloads)]
        BY <2>1, <2>2, <2>3
    <2> QED BY <2>1, <2>4 DEF Typed, TypeOK, AppTypes, app
<1>7. QueueTypes'
    BY DEF Typed, TypeOK, ServeClient, QueueTypes, queues
<1>8. /\ Serving(w, ClientSlot(i)) /\ Served(w, ClientSlot(i))
      /\ QueuesKept(w, ClientSlot(i)) /\ ClientSlot(i) \in Nat
    BY DEF ServeClient, QueuesKept, queues, ClientSlot
<1>9. ReadyBacked' /\ ContextTypes'
    BY <1>4, <1>8, ServedKeepsReady DEF Typed, TypeOK, ContextTypes
<1> QED BY <1>4, <1>5, <1>6, <1>7, <1>9 DEF Typed, TypeOK

LEMMA EndPassTyped ==
    ASSUME Typed, NEW w \in Workers, EndPass(w)
    PROVE  Typed'
<1>1. FlagTypes' /\ QueueTypes' /\ AppTypes'
    BY DEF Typed, TypeOK, EndPass, FlagTypes, QueueTypes, AppTypes, flags, queues, app
<1>2. poll[w] \in Seq(Esockets \cup {Null})
    BY DEF Typed, TypeOK, ContextTypes
<1>3. ContextTypes'
    <2>1. Compress(poll[w]) \in Seq(Esockets \cup {Null})
        BY <1>2, CompressKeeps
    <2> QED BY <2>1 DEF Typed, TypeOK, ContextTypes, EndPass
<1>4. SocketTypes'
    <2>1. \A n \in Nat : Rank(poll[w], n) \in Nat
        <3> TAKE n \in Nat
        <3>1. {j \in Used(poll[w]) : j <= n} \in SUBSET Used(poll[w])
            OBVIOUS
        <3>2. IsFiniteSet({j \in Used(poll[w]) : j <= n})
            BY <1>2, <3>1, UsedIsFinite, FS_Subset
        <3> QED BY <3>2, FS_CardinalityType DEF Rank
    <2> QED BY <2>1 DEF Typed, TypeOK, SocketTypes, EndPass
<1>5. ReadyBacked'
    BY DEF Typed, TypeOK, ReadyBacked, ContextTypes, EndPass, queues
<1> QED BY <1>1, <1>3, <1>4, <1>5 DEF Typed, TypeOK

LEMMA GoIdleTyped ==
    ASSUME Typed, NEW e \in Esockets, GoIdle(e)
    PROVE  Typed'
BY DEF Typed, TypeOK, GoIdle, SocketTypes, FlagTypes, ContextTypes, QueueTypes, AppTypes,
       ReadyBacked, socket, context, pass, queues, app

LEMMA InitTyped ==
    ASSUME Init
    PROVE  Typed
<1>1. SocketTypes /\ FlagTypes /\ AppTypes
    BY BoundsAssumption DEF Init, SocketTypes, FlagTypes, AppTypes
<1>2. ContextTypes /\ QueueTypes /\ ReadyBacked
    BY DEF Init, ContextTypes, QueueTypes, ReadyBacked, ServiceSlots
<1> QED BY <1>1, <1>2 DEF Typed, TypeOK

LEMMA StepTyped ==
    ASSUME Typed, [Next]_vars
    PROVE  Typed'
<1>1. CASE AppStep
    BY <1>1, AddMtTyped, DeleteMtTyped, ReassignMtTyped, WriteMtTyped DEF AppStep
<1>2. ASSUME NEW w \in Workers, WorkerStep(w)
      PROVE  Typed'
    <2>1. ASSUME NEW i \in DOMAIN poll[w], ServeSlot(w, i)
          PROVE  Typed'
        <3>1. i \in Nat
            BY DEF Typed, TypeOK, ContextTypes
        <3>2. ASSUME NEW rd \in BOOLEAN, NEW wr \in BOOLEAN, NEW k \in Nat,
                     ServeClient(w, i, rd, wr, k)
              PROVE  Typed'
            BY <3>1, <3>2, ServeClientTyped
        <3>3. CASE \E rd, wr \in BOOLEAN, k \in 0..Cardinality(Msgs \cup {Greeting}) :
                      ServeClient(w, i, rd, wr, k)
            BY <3>2, <3>3
        <3> QED BY <2>1, <3>1, <3>3, SkipSlotTyped, ServeBrokenTyped DEF ServeSlot
    <2> QED BY <1>2, <2>1, PollTyped, ServeNewTyped, ServeDeleteTyped, ServeIoTyped,
               ServeReassignTyped, ServeTimerTyped, EndPassTyped DEF WorkerStep
<1>3. CASE \E e \in Esockets : GoIdle(e)
    BY <1>3, GoIdleTyped
<1>4. CASE UNCHANGED vars
    <2>1. SocketTypes' /\ FlagTypes' /\ AppTypes' /\ ReadyBacked'
        BY <1>4 DEF Typed, TypeOK, SocketTypes, FlagTypes, AppTypes, ReadyBacked, vars,
                    socket, flags, app, queues, context, pass
    <2>2. ContextTypes' /\ QueueTypes'
        BY <1>4 DEF Typed, TypeOK, ContextTypes, QueueTypes, vars, context, pass, queues
    <2> QED BY <2>1, <2>2 DEF Typed, TypeOK
<1> QED BY <1>1, <1>2, <1>3, <1>4 DEF Next

LEMMA AlwaysTyped == Spec => []Typed
<1>1. Init => Typed
    BY InitTyped
<1>2. Typed /\ [Next]_vars => Typed'
    BY StepTyped
<1> QED BY <1>1, <1>2, PTL DEF Spec

\* Every field of esockets, contexts and queue messages keeps its type.
THEOREM TypeInvariant == Spec => []TypeOK
<1>1. Typed => TypeOK
    BY DEF Typed
<1> QED BY <1>1, AlwaysTyped, PTL

\* A worker never serves a slot that poll() did not report: there is a message
\* in the queue it reads and a slot at the index it follows.
THEOREM ReadyIsBacked == Spec => []ReadyBacked
<1>1. Typed => ReadyBacked
    BY DEF Typed
<1> QED BY <1>1, AlwaysTyped, PTL

-----------------------------------------------------------------------------
(***************************************************************************)
(* Tables and places.  The contexts' tables stay consistent and every      *)
(* esocket is accounted for.  The two hold only together: an esocket may   *)
(* enter a table because the add queue it came from was the only place it  *)
(* was in, and leaves a table for one other place.                         *)
(***************************************************************************)

\* The part of TableConsistent every single step keeps.
Tables ==
    /\ TableOwns
    /\ \A w \in Workers : count[w] = Cardinality(table[w])
    /\ SlotsMatch

\* The inductive invariant.
IInv == Typed /\ TableConsistent /\ Accounted

(***************************************************************************)
(* Contexts                                                                *)
(***************************************************************************)

\* dap_context_add() of an esocket no context has.
LEMMA AddKeepsTables ==
    ASSUME Typed, Tables, NEW w \in Workers, NEW e \in Esockets, owner[e] = NoWorker,
           ContextAdd(w, e)
    PROVE  Tables'
<1>1. TableOwns'
    BY WorkersAssumption DEF Typed, TypeOK, SocketTypes, ContextTypes, Tables, TableOwns,
                             ContextAdd
<1>2. \A v \in Workers : count'[v] = Cardinality(table'[v])
    <2>1. e \notin table[w] /\ IsFiniteSet(table[w])
        BY WorkersAssumption, FiniteSubset DEF Typed, TypeOK, ContextTypes, Tables, TableOwns
    <2>2. Cardinality(table[w] \cup {e}) = Cardinality(table[w]) + 1
        BY <2>1, FS_AddElement
    <2> QED BY <2>2 DEF Typed, TypeOK, ContextTypes, Tables, ContextAdd
<1>3. SlotsMatch'
    <2>1. /\ DOMAIN poll[w] = 1..Len(poll[w]) /\ Len(poll[w]) \in Nat
          /\ DOMAIN poll'[w] = 1..Len(poll[w]) + 1
          /\ poll'[w][Len(poll[w]) + 1] = e
          /\ \A i \in DOMAIN poll[w] : poll'[w][i] = poll[w][i]
          /\ \A v \in Workers \ {w} : poll'[v] = poll[v]
        BY DEF Typed, TypeOK, ContextTypes, ContextAdd
    <2>2. /\ index' = [index EXCEPT ![e] = Len(poll[w]) + 1]
          /\ owner' = [owner EXCEPT ![e] = w]
        BY DEF ContextAdd
    <2>3. \A v \in Workers : \A i \in DOMAIN poll[v] : poll[v][i] # e
        BY WorkersAssumption, EsocketsAssumption DEF Tables, SlotsMatch, Typed, TypeOK,
           SocketTypes
    <2>4. ASSUME NEW d \in Esockets, NEW v \in Workers, owner'[d] = v
          PROVE  index'[d] \in DOMAIN poll'[v] /\ poll'[v][index'[d]] = d
        <3>1. CASE d = e
            <4>1. v = w /\ index'[d] = Len(poll[w]) + 1
                BY <2>2, <2>4, <3>1 DEF Typed, TypeOK, SocketTypes
            <4> QED BY <2>1, <3>1, <4>1
        <3>2. CASE d # e
            <4>1. index'[d] = index[d] /\ owner[d] = v
                BY <2>2, <2>4, <3>2 DEF Typed, TypeOK, SocketTypes
            <4>2. index[d] \in DOMAIN poll[v] /\ poll[v][index[d]] = d
                BY <4>1 DEF Tables, SlotsMatch
            <4> QED BY <2>1, <4>1, <4>2
        <3> QED BY <3>1, <3>2
    <2>5. ASSUME NEW v \in Workers, NEW i \in DOMAIN poll'[v], poll'[v][i] # Null
          PROVE  owner'[poll'[v][i]] = v /\ index'[poll'[v][i]] = i
        <3>1. CASE v = w /\ i = Len(poll[w]) + 1
            BY <2>1, <2>2, <3>1 DEF Typed, TypeOK, SocketTypes
        <3>2. CASE ~(v = w /\ i = Len(poll[w]) + 1)
            <4>1. i \in DOMAIN poll[v] /\ poll'[v][i] = poll[v][i]
                BY <2>1, <3>2
            <4>2. /\ poll[v][i] \in Esockets /\ poll[v][i] # e
                  /\ owner[poll[v][i]] = v /\ index[poll[v][i]] = i
                BY <2>3, <2>5, <4>1 DEF Tables, SlotsMatch, Typed, TypeOK, ContextTypes
            <4> QED BY <2>2, <4>1, <4>2 DEF Typed, TypeOK, SocketTypes
        <3> QED BY <3>1, <3>2
    <2> QED BY <2>4, <2>5 DEF SlotsMatch
<1> QED BY <1>1, <1>2, <1>3 DEF Tables

\* dap_context_remove() of esockets the context has.
LEMMA RemoveKeepsTables ==
    ASSUME Typed, Tables, NEW w \in Workers, NEW E \in SUBSET table[w], ContextRemove(w, E)
    PROVE  /\ Tables'
           /\ \A e \in Esockets : owner'[e] = IF e \in E THEN NoWorker ELSE owner[e]
<1>1. /\ E \in SUBSET Esockets
      /\ \A e \in E : owner[e] = w
      /\ \A e \in Esockets : owner'[e] = IF e \in E THEN NoWorker ELSE owner[e]
    BY DEF Typed, TypeOK, ContextTypes, Tables, TableOwns, ContextRemove
<1>2. TableOwns'
    BY <1>1, WorkersAssumption DEF Typed, TypeOK, ContextTypes, Tables, TableOwns,
                                   ContextRemove
<1>3. \A v \in Workers : count'[v] = Cardinality(table'[v])
    <2>1. IsFiniteSet(table[w]) /\ IsFiniteSet(E) /\ table[w] \in SUBSET Esockets
        BY <1>1, FiniteSubset DEF Typed, TypeOK, ContextTypes
    <2>2. Cardinality(table[w] \ E) = Cardinality(table[w]) - Cardinality(table[w] \cap E)
        BY <2>1, FS_Difference
    <2>3. table[w] \cap E = E
        OBVIOUS
    <2> QED BY <2>2, <2>3 DEF Typed, TypeOK, ContextTypes, Tables, ContextRemove
<1>4. SlotsMatch'
    <2>1. /\ \A v \in Workers : DOMAIN poll'[v] = DOMAIN poll[v]
          /\ \A v \in Workers \ {w} : poll'[v] = poll[v]
          /\ \A i \in DOMAIN poll[w] :
                poll'[w][i] = IF \E e \in E : index[e] = i THEN Null ELSE poll[w][i]
        BY DEF Typed, TypeOK, ContextTypes, ContextRemove
    <2>2. UNCHANGED index
        BY DEF ContextRemove
    <2>3. ASSUME NEW e \in Esockets, NEW v \in Workers, owner'[e] = v
          PROVE  index'[e] \in DOMAIN poll'[v] /\ poll'[v][index'[e]] = e
        <3>1. e \notin E /\ owner[e] = v
            BY <1>1, <2>3, WorkersAssumption
        <3>2. index[e] \in DOMAIN poll[v] /\ poll[v][index[e]] = e
            BY <3>1 DEF Tables, SlotsMatch
        <3>3. \A d \in E : poll[w][index[d]] = d
            BY <1>1 DEF Tables, SlotsMatch
        <3>4. CASE v = w
            <4>1. ~\E d \in E : index[d] = index[e]
                BY <3>1, <3>2, <3>3, <3>4
            <4> QED BY <2>1, <2>2, <3>2, <3>4, <4>1
        <3> QED BY <2>1, <2>2, <3>2, <3>4
    <2>4. ASSUME NEW v \in Workers, NEW i \in DOMAIN poll'[v], poll'[v][i] # Null
          PROVE  owner'[poll'[v][i]] = v /\ index'[poll'[v][i]] = i
        <3>1. poll'[v][i] = poll[v][i] /\ i \in DOMAIN poll[v]
            BY <2>1, <2>4
        <3>2. /\ poll[v][i] \in Esockets
              /\ owner[poll[v][i]] = v
              /\ index[poll[v][i]] = i
            BY <2>4, <3>1 DEF Tables, SlotsMatch, Typed, TypeOK, ContextTypes
        <3>3. poll[v][i] \notin E
            BY <1>1, <2>1, <2>4, <3>1, <3>2
        <3> QED BY <1>1, <2>2, <3>1, <3>2, <3>3
    <2> QED BY <2>3, <2>4 DEF SlotsMatch
<1> QED BY <1>1, <1>2, <1>3, <1>4 DEF Tables

\* Squeezing the array at the end of a pass and renumbering the esockets.
LEMMA EndPassKeepsTables ==
    ASSUME Typed, Tables, NEW w \in Workers, EndPass(w)
    PROVE  /\ Tables'
           /\ \A i \in DOMAIN poll'[w] : poll'[w][i] # Null
<1> DEFINE s == poll[w]
<1>1. s \in Seq(Esockets \cup {Null}) /\ poll' = [poll EXCEPT ![w] = Compress(s)]
    BY DEF Typed, TypeOK, ContextTypes, EndPass
<1>2. /\ \A i \in Used(s) : Rank(s, i) \in DOMAIN Compress(s) /\ Compress(s)[Rank(s, i)] = s[i]
      /\ \A r \in DOMAIN Compress(s) :
            \E i \in Used(s) : Rank(s, i) = r /\ Compress(s)[r] = s[i]
    BY <1>1, CompressKeeps
<1>3. UNCHANGED <<owner, table, count>>
    BY DEF EndPass
<1>4. \A e \in Esockets : index'[e] = IF owner[e] = w THEN Rank(s, index[e]) ELSE index[e]
    BY DEF EndPass
<1>5. poll'[w] = Compress(s) /\ \A v \in Workers \ {w} : poll'[v] = poll[v]
    BY <1>1 DEF Typed, TypeOK, ContextTypes
<1>6. \A i \in Used(s) : i \in DOMAIN s /\ s[i] \in Esockets /\ s[i] # Null
    BY <1>1 DEF Used
<1> HIDE DEF s
<1>7. ASSUME NEW e \in Esockets, NEW v \in Workers, owner'[e] = v
      PROVE  index'[e] \in DOMAIN poll'[v] /\ poll'[v][index'[e]] = e
    <2>1. index[e] \in DOMAIN poll[v] /\ poll[v][index[e]] = e /\ owner[e] = v
        BY <1>3, <1>7 DEF Tables, SlotsMatch
    <2>2. CASE v = w
        <3>1. index[e] \in Used(s) /\ s[index[e]] = e
            BY <2>1, <2>2, EsocketsAssumption DEF Used, s
        <3> QED BY <1>2, <1>4, <1>5, <2>1, <2>2, <3>1
    <2>3. CASE v # w
        BY <1>4, <1>5, <2>1, <2>3
    <2> QED BY <2>2, <2>3
<1>8. ASSUME NEW v \in Workers, NEW r \in DOMAIN poll'[v], poll'[v][r] # Null
      PROVE  owner'[poll'[v][r]] = v /\ index'[poll'[v][r]] = r
    <2>1. CASE v = w
        <3>1. PICK i \in Used(s) : Rank(s, i) = r /\ Compress(s)[r] = s[i]
            BY <1>2, <1>5, <2>1
        <3>2. owner[s[i]] = w /\ index[s[i]] = i /\ s[i] \in Esockets
            BY <1>6, <2>1 DEF Tables, SlotsMatch, s
        <3> QED BY <1>3, <1>4, <1>5, <2>1, <3>1, <3>2
    <2>2. CASE v # w
        <3>1. /\ poll[v][r] \in Esockets
              /\ owner[poll[v][r]] = v
              /\ index[poll[v][r]] = r
            BY <1>5, <1>8, <2>2 DEF Tables, SlotsMatch, Typed, TypeOK, ContextTypes
        <3> QED BY <1>3, <1>4, <1>5, <2>2, <3>1
    <2> QED BY <2>1, <2>2
<1>9. \A i \in DOMAIN poll'[w] : poll'[w][i] # Null
    BY <1>2, <1>5, <1>6
<1> QED BY <1>3, <1>7, <1>8, <1>9 DEF Tables, TableOwns, SlotsMatch

(***************************************************************************)
(* Add queues                                                              *)
(***************************************************************************)

\* No pointer is twice in the queues q.
NoRepeat(q) ==
    \A v, w \in Workers : \A i \in DOMAIN q[v], j \in DOMAIN q[w] :
        q[v][i] = q[w][j] => v = w /\ i = j

\* A pointer sent to an add queue is in it, or met a full pipe.
LEMMA SendAccounts ==
    ASSUME NEW q \in [Workers -> Seq(Esockets)], NEW w \in Workers, NEW e \in Esockets,
           NoRepeat(q), \A v \in Workers : ~Holds(q, v, e)
    PROVE  /\ NoRepeat(Send(q, w, e))
           /\ \A v \in Workers, d \in Esockets :
                 Holds(Send(q, w, e), v, d)
                    <=> Holds(q, v, d) \/ (v = w /\ d = e /\ ~Full(q, w))
<1>1. CASE Full(q, w)
    <2>1. Send(q, w, e) = q
        BY <1>1 DEF Send
    <2> QED BY <1>1, <2>1
<1>2. CASE ~Full(q, w)
    <2> DEFINE p == Send(q, w, e)
    <2>1. /\ p[w] = Append(q[w], e)
          /\ \A v \in Workers \ {w} : p[v] = q[v]
        BY <1>2 DEF Send
    <2>2. /\ DOMAIN q[w] = 1..Len(q[w]) /\ Len(q[w]) \in Nat
          /\ DOMAIN p[w] = 1..Len(q[w]) + 1
          /\ p[w][Len(q[w]) + 1] = e
          /\ \A i \in DOMAIN q[w] : p[w][i] = q[w][i]
        BY <2>1
    <2> HIDE DEF p
    <2>3. \A v \in Workers : \A i \in DOMAIN p[v] :
             \/ i \in DOMAIN q[v] /\ p[v][i] = q[v][i] /\ q[v][i] # e
             \/ v = w /\ i = Len(q[w]) + 1 /\ p[v][i] = e
        BY <2>1, <2>2 DEF Holds
    <2>4. NoRepeat(p)
        <3> SUFFICES ASSUME NEW u \in Workers, NEW v \in Workers,
                            NEW i \in DOMAIN p[u], NEW j \in DOMAIN p[v], p[u][i] = p[v][j]
                     PROVE  u = v /\ i = j
            BY DEF NoRepeat
        <3>1. CASE i \in DOMAIN q[u] /\ p[u][i] = q[u][i] /\ q[u][i] # e
            <4>1. j \in DOMAIN q[v] /\ p[v][j] = q[v][j]
                BY <2>3, <3>1
            <4>2. i \in DOMAIN q[u] /\ q[u][i] = q[v][j]
                BY <3>1, <4>1
            <4>3. \A x, y \in Workers : \A a \in DOMAIN q[x], b \in DOMAIN q[y] :
                     q[x][a] = q[y][b] => x = y /\ a = b
                BY DEF NoRepeat
            <4> QED BY <4>1, <4>2, <4>3
        <3>2. CASE u = w /\ i = Len(q[w]) + 1 /\ p[u][i] = e
            BY <2>3, <3>2
        <3> QED BY <2>3, <3>1, <3>2
    <2>5. ASSUME NEW v \in Workers, NEW d \in Esockets
          PROVE  Holds(p, v, d) <=> Holds(q, v, d) \/ (v = w /\ d = e)
        <3>1. Holds(p, v, d) => Holds(q, v, d) \/ (v = w /\ d = e)
            <4> SUFFICES ASSUME NEW i \in DOMAIN p[v], p[v][i] = d
                         PROVE  Holds(q, v, d) \/ (v = w /\ d = e)
                BY DEF Holds
            <4>1. (i \in DOMAIN q[v] /\ q[v][i] = d) \/ (v = w /\ d = e)
                BY <2>3
            <4> QED BY <4>1 DEF Holds
        <3>2. Holds(q, v, d) => Holds(p, v, d)
            BY <2>1, <2>2 DEF Holds
        <3>3. Holds(p, w, e)
            <4>1. Len(q[w]) + 1 \in DOMAIN p[w]
                BY <2>2
            <4> QED BY <2>2, <4>1 DEF Holds
        <3> QED BY <3>1, <3>2, <3>3, Zenon
    <2> QED BY <1>2, <2>4, <2>5 DEF p
<1> QED BY <1>1, <1>2

\* Taking a pointer off an add queue leaves it in none.
LEMMA PopAccounts ==
    ASSUME NEW q \in [Workers -> Seq(Esockets)], NEW w \in Workers, q[w] # <<>>,
           NoRepeat(q)
    PROVE  /\ NoRepeat(Pop(q, w))
           /\ Holds(q, w, Head(q[w]))
           /\ \A v \in Workers, d \in Esockets :
                 Holds(Pop(q, w), v, d) <=> Holds(q, v, d) /\ d # Head(q[w])
<1> DEFINE p == Pop(q, w)
<1>1. /\ p[w] = Tail(q[w])
      /\ \A v \in Workers \ {w} : p[v] = q[v]
    BY DEF Pop
<1>2. /\ DOMAIN q[w] = 1..Len(q[w]) /\ Len(q[w]) \in Nat \ {0}
      /\ DOMAIN p[w] = 1..Len(q[w]) - 1
      /\ \A i \in DOMAIN p[w] : p[w][i] = q[w][i + 1]
      /\ Head(q[w]) = q[w][1]
    BY <1>1
<1> HIDE DEF p
<1>3. \A v \in Workers : \A i \in DOMAIN p[v] :
         \/ v # w /\ i \in DOMAIN q[v] /\ p[v][i] = q[v][i]
         \/ v = w /\ i + 1 \in DOMAIN q[v] /\ p[v][i] = q[v][i + 1] /\ i \in Nat \ {0}
    BY <1>1, <1>2
<1>4. NoRepeat(p)
    <2> SUFFICES ASSUME NEW u \in Workers, NEW v \in Workers,
                        NEW i \in DOMAIN p[u], NEW j \in DOMAIN p[v], p[u][i] = p[v][j]
                 PROVE  u = v /\ i = j
        BY DEF NoRepeat
    <2> QED BY <1>3 DEF NoRepeat
<1>5. Holds(q, w, Head(q[w]))
    BY <1>2 DEF Holds
<1>6. ASSUME NEW v \in Workers, NEW d \in Esockets
      PROVE  Holds(p, v, d) <=> Holds(q, v, d) /\ d # Head(q[w])
    <2>1. ASSUME Holds(p, v, d)
          PROVE  Holds(q, v, d) /\ d # Head(q[w])
        <3>1. PICK i \in DOMAIN p[v] : p[v][i] = d
            BY <2>1 DEF Holds
        <3>2. CASE v = w
            <4>1. i + 1 \in DOMAIN q[w] /\ q[w][i + 1] = d /\ i + 1 # 1 /\ 1 \in DOMAIN q[w]
                BY <1>2, <1>3, <3>1, <3>2
            <4> QED BY <1>2, <3>2, <4>1 DEF Holds, NoRepeat
        <3>3. CASE v # w
            <4>1. i \in DOMAIN q[v] /\ q[v][i] = d /\ 1 \in DOMAIN q[w]
                BY <1>2, <1>3, <3>1, <3>3
            <4> QED BY <1>2, <3>3, <4>1 DEF Holds, NoRepeat
        <3> QED BY <3>2, <3>3
    <2>2. ASSUME Holds(q, v, d), d # Head(q[w])
          PROVE  Holds(p, v, d)
        <3>1. PICK i \in DOMAIN q[v] : q[v][i] = d
            BY <2>2 DEF Holds
        <3>2. CASE v = w
            <4>1. i # 1 /\ i \in 1..Len(q[w])
                BY <1>2, <2>2, <3>1, <3>2
            <4>2. i - 1 \in DOMAIN p[w] /\ p[w][i - 1] = q[w][i - 1 + 1]
                BY <1>2, <4>1
            <4>3. i - 1 + 1 = i
                BY <4>1
            <4> QED BY <3>1, <3>2, <4>2, <4>3 DEF Holds
        <3>3. CASE v # w
            BY <1>1, <3>1, <3>3 DEF Holds
        <3> QED BY <3>2, <3>3
    <2> QED BY <2>1, <2>2
<1> QED BY <1>4, <1>5, <1>6 DEF p

(***************************************************************************)
(* Steps                                                                   *)
(***************************************************************************)

\* What Accounted says of one esocket.
PlacedRight(e) ==
    IF life[e] = "live"
    THEN \/ owner[e] # NoWorker /\ ~InTransit(e) /\ e \notin dropped
         \/ owner[e] = NoWorker /\ InTransit(e)  /\ e \notin dropped
         \/ owner[e] = NoWorker /\ ~InTransit(e) /\ e \in dropped
    ELSE owner[e] = NoWorker /\ ~InTransit(e) /\ e \notin dropped

\* A worker removes slots in a pass only, and adds none that is empty.
LEMMA HolesOnlyInPass ==
    ASSUME NoHoleBetweenPasses,
           \A v \in Workers : ~inPass'[v] => ~inPass[v] /\ poll'[v] = poll[v]
    PROVE  NoHoleBetweenPasses'
BY DEF NoHoleBetweenPasses

\* Steps that hand over, install or remove no esocket.
LEMMA OtherStepsKeep ==
    ASSUME IInv, UNCHANGED <<life, owner, index, context, newQ, dropped>>,
           \A v \in Workers : ~inPass'[v] => ~inPass[v]
    PROVE  TableConsistent' /\ Accounted'
<1>1. TableOwns' /\ (\A w \in Workers : count'[w] = Cardinality(table'[w])) /\ SlotsMatch'
    BY DEF IInv, TableConsistent, TableOwns, SlotsMatch, context
<1>2. NoHoleBetweenPasses'
    BY HolesOnlyInPass DEF IInv, TableConsistent, context
<1>3. Accounted'
    BY DEF IInv, Accounted, TransitOnce, InTransit, Holds
<1> QED BY <1>1, <1>2, <1>3 DEF TableConsistent

\* Deleting esockets of a context.
LEMMA DeletingKeeps ==
    ASSUME IInv, NEW w \in Workers, NEW E \in SUBSET table[w], RemoveAndDelete(w, E),
           inPass[w], UNCHANGED <<newQ, dropped, inPass>>
    PROVE  TableConsistent' /\ Accounted'
<1>1. Typed /\ Tables /\ ContextRemove(w, E)
    BY DEF IInv, TableConsistent, Tables, RemoveAndDelete
<1>2. /\ Tables'
      /\ \A e \in Esockets : owner'[e] = IF e \in E THEN NoWorker ELSE owner[e]
    BY <1>1, RemoveKeepsTables
<1>3. \A v \in Workers \ {w} : poll'[v] = poll[v]
    BY <1>1 DEF Typed, TypeOK, ContextTypes, ContextRemove
<1>4. NoHoleBetweenPasses'
    BY <1>3, HolesOnlyInPass DEF IInv, TableConsistent
<1>5. TransitOnce' /\ \A e \in Esockets : InTransit(e)' <=> InTransit(e)
    BY DEF IInv, Accounted, TransitOnce, InTransit, Holds
<1>6. ASSUME NEW e \in E
      PROVE  e \in Esockets /\ owner[e] # NoWorker
    BY <1>1, WorkersAssumption DEF Typed, TypeOK, ContextTypes, Tables, TableOwns
<1>7. \A e \in Esockets : life'[e] = IF e \in E THEN "freed" ELSE life[e]
    BY DEF RemoveAndDelete
<1>8. Accounted'
    <2> SUFFICES ASSUME NEW e \in Esockets
                 PROVE  PlacedRight(e)'
        BY <1>5 DEF Accounted, PlacedRight
    <2>1. PlacedRight(e)
        BY DEF IInv, Accounted, PlacedRight
    <2>2. CASE e \in E
        BY <1>2, <1>5, <1>6, <1>7, <2>1, <2>2 DEF PlacedRight
    <2>3. CASE e \notin E
        BY <1>2, <1>5, <1>7, <2>1, <2>3 DEF PlacedRight
    <2> QED BY <2>2, <2>3
<1> QED BY <1>2, <1>4, <1>8 DEF Tables, TableConsistent

\* Sending an esocket, now in no other place, to the add queue of a worker.
LEMMA SendingKeeps ==
    ASSUME IInv, NEW to \in Workers, NEW e \in Esockets, ~InTransit(e), e \notin dropped,
           newQ' = Send(newQ, to, e),
           dropped' = IF Full(newQ, to) THEN dropped \cup {e} ELSE dropped,
           life'[e] = "live", owner'[e] = NoWorker,
           \A d \in Esockets \ {e} : life'[d] = life[d] /\ owner'[d] = owner[d]
    PROVE  Accounted'
<1>1. newQ \in [Workers -> Seq(Esockets)] /\ NoRepeat(newQ)
    BY DEF IInv, Typed, TypeOK, QueueTypes, Accounted, TransitOnce, NoRepeat
<1>2. \A v \in Workers : ~Holds(newQ, v, e)
    BY DEF InTransit
<1>3. /\ NoRepeat(newQ')
      /\ \A v \in Workers, d \in Esockets :
            Holds(newQ', v, d) <=> Holds(newQ, v, d) \/ (v = to /\ d = e /\ ~Full(newQ, to))
    BY <1>1, <1>2, SendAccounts
<1>4. TransitOnce'
    BY <1>3 DEF TransitOnce, NoRepeat
<1>5. \A d \in Esockets \ {e} : InTransit(d)' <=> InTransit(d)
    BY <1>3 DEF InTransit
<1>6. InTransit(e)' <=> ~Full(newQ, to)
    BY <1>2, <1>3 DEF InTransit
<1>7. ASSUME NEW d \in Esockets
      PROVE  PlacedRight(d)'
    <2>1. CASE d = e
        <3>1. CASE Full(newQ, to)
            <4>1. ~InTransit(e)' /\ e \in dropped'
                BY <1>6, <3>1
            <4> QED BY <2>1, <4>1 DEF PlacedRight
        <3>2. CASE ~Full(newQ, to)
            <4>1. InTransit(e)' /\ e \notin dropped'
                BY <1>6, <3>2
            <4> QED BY <2>1, <4>1 DEF PlacedRight
        <3> QED BY <3>1, <3>2
    <2>2. CASE d # e
        <3>1. PlacedRight(d)
            BY DEF IInv, Accounted, PlacedRight
        <3>2. d \in dropped' <=> d \in dropped
            BY <2>2
        <3> QED BY <1>5, <2>2, <3>1, <3>2 DEF PlacedRight
    <2> QED BY <2>1, <2>2
<1> QED BY <1>4, <1>7 DEF Accounted, PlacedRight

LEMMA AddMtKeeps ==
    ASSUME IInv, NEW w \in Workers, NEW e \in Esockets, AddMt(w, e)
    PROVE  TableConsistent' /\ Accounted'
<1>1. owner[e] = NoWorker /\ ~InTransit(e) /\ e \notin dropped
    BY DEF IInv, Accounted, AddMt
<1>2. /\ newQ' = Send(newQ, w, e)
      /\ dropped' = IF Full(newQ, w) THEN dropped \cup {e} ELSE dropped
      /\ life' = [life EXCEPT ![e] = "live"]
      /\ UNCHANGED <<owner, index, context, inPass>>
    BY DEF AddMt, pass
<1>3. Accounted'
    BY <1>1, <1>2, SendingKeeps DEF IInv, Typed, TypeOK, SocketTypes
<1>4. TableOwns' /\ (\A v \in Workers : count'[v] = Cardinality(table'[v])) /\ SlotsMatch'
    BY <1>2 DEF IInv, TableConsistent, TableOwns, SlotsMatch, context
<1>5. NoHoleBetweenPasses'
    BY <1>2 DEF IInv, TableConsistent, NoHoleBetweenPasses, context
<1> QED BY <1>3, <1>4, <1>5 DEF TableConsistent

LEMMA ServeNewKeeps ==
    ASSUME IInv, NEW w \in Workers, ServeNew(w)
    PROVE  TableConsistent' /\ Accounted'
<1>1. /\ newQ \in [Workers -> Seq(Esockets)] /\ NoRepeat(newQ) /\ newQ[w] # <<>>
      /\ newQ' = Pop(newQ, w) /\ inPass[w] /\ UNCHANGED <<inPass, dropped>>
    BY DEF IInv, Typed, TypeOK, QueueTypes, Accounted, TransitOnce, NoRepeat, ReadyBacked,
           ServeNew, Serving, Served
<1>2. PICK e \in Esockets : e = Head(newQ[w])
    BY <1>1, PopKeeps
<1>3. /\ NoRepeat(newQ')
      /\ Holds(newQ, w, e)
      /\ \A v \in Workers, d \in Esockets :
            Holds(newQ', v, d) <=> Holds(newQ, v, d) /\ d # e
    BY <1>1, <1>2, PopAccounts
<1>4. life[e] = "live" /\ owner[e] = NoWorker /\ InTransit(e) /\ e \notin dropped
    BY <1>3 DEF IInv, Accounted, InTransit
<1>5. Typed /\ Tables /\ e \notin table[w]
    BY <1>4, WorkersAssumption DEF IInv, TableConsistent, Tables, TableOwns
<1>6. ContextAdd(w, e) /\ UNCHANGED life
    BY <1>2, <1>5 DEF ServeNew
<1>7. Tables'
    BY <1>4, <1>5, <1>6, AddKeepsTables
<1>8. NoHoleBetweenPasses'
    <2>1. \A v \in Workers \ {w} : poll'[v] = poll[v]
        BY <1>5, <1>6 DEF Typed, TypeOK, ContextTypes, ContextAdd
    <2> QED BY <1>1, <2>1, HolesOnlyInPass DEF IInv, TableConsistent
<1>9. Accounted'
    <2>1. TransitOnce'
        BY <1>3 DEF TransitOnce, NoRepeat
    <2>2. /\ ~InTransit(e)'
          /\ \A d \in Esockets \ {e} : InTransit(d)' <=> InTransit(d)
        BY <1>3 DEF InTransit
    <2>3. owner' = [owner EXCEPT ![e] = w]
        BY <1>6 DEF ContextAdd
    <2>4. ASSUME NEW d \in Esockets
          PROVE  PlacedRight(d)'
        <3>1. PlacedRight(d)
            BY DEF IInv, Accounted, PlacedRight
        <3>2. CASE d = e
            BY <1>1, <1>4, <1>6, <2>2, <2>3, <3>2, WorkersAssumption
            DEF PlacedRight, IInv, Typed, TypeOK, SocketTypes
        <3>3. CASE d # e
            BY <1>1, <1>6, <2>2, <2>3, <3>1, <3>3
            DEF PlacedRight, IInv, Typed, TypeOK, SocketTypes
        <3> QED BY <3>2, <3>3
    <2> QED BY <2>1, <2>4 DEF Accounted, PlacedRight
<1> QED BY <1>7, <1>8, <1>9 DEF Tables, TableConsistent

LEMMA ServeReassignKeeps ==
    ASSUME IInv, NEW w \in Workers, ServeReassign(w)
    PROVE  TableConsistent' /\ Accounted'
<1> DEFINE e  == Head(reQ[w]).es
           to == Head(reQ[w]).to
<1>1. inPass[w] /\ UNCHANGED <<inPass, life>>
    BY DEF ServeReassign, Serving, Served
<1>2. CASE e \notin table[w] \/ DeclinesReassign(e)
    <2>1. UNCHANGED <<life, owner, index, context, newQ, dropped, inPass>>
        BY <1>1, <1>2 DEF ServeReassign
    <2> QED BY <2>1, OtherStepsKeep
<1>3. CASE ~(e \notin table[w] \/ DeclinesReassign(e))
    <2>1. reQ \in [Workers -> Seq(ReassignMessages)] /\ reQ[w] # <<>>
        BY DEF IInv, Typed, TypeOK, QueueTypes, ReadyBacked, ServeReassign, Serving
    <2>2. Head(reQ[w]) \in ReassignMessages
        BY <2>1, PopKeeps
    <2>3. e \in Esockets /\ to \in Workers
        BY <2>2 DEF ReassignMessages
    <2>4. /\ ContextRemove(w, {e})
          /\ newQ'  = Send(newQ, to, e)
          /\ dropped' = IF Full(newQ, to) THEN dropped \cup {e} ELSE dropped
        BY <1>3 DEF ServeReassign
    <2>5. Typed /\ Tables /\ {e} \in SUBSET table[w]
        BY <1>3 DEF IInv, TableConsistent, Tables
    <2>6. /\ Tables'
          /\ \A d \in Esockets : owner'[d] = IF d \in {e} THEN NoWorker ELSE owner[d]
        BY <2>4, <2>5, RemoveKeepsTables
    <2>7. life[e] = "live" /\ ~InTransit(e) /\ e \notin dropped
        <3>1. owner[e] # NoWorker
            BY <2>3, <2>5, WorkersAssumption DEF Tables, TableOwns
        <3> QED BY <2>3, <3>1 DEF IInv, Accounted
    <2>8. Accounted'
        BY <1>1, <2>3, <2>4, <2>6, <2>7, SendingKeeps
    <2>9. \A v \in Workers \ {w} : poll'[v] = poll[v]
        BY <2>4, <2>5 DEF Typed, TypeOK, ContextTypes, ContextRemove
    <2>10. NoHoleBetweenPasses'
        BY <1>1, <2>9, HolesOnlyInPass DEF IInv, TableConsistent
    <2> QED BY <2>6, <2>8, <2>10 DEF Tables, TableConsistent
<1> QED BY <1>2, <1>3

LEMMA ServeClientKeeps ==
    ASSUME IInv, NEW w \in Workers, NEW i \in Nat, NEW rd \in BOOLEAN,
           NEW wr \in BOOLEAN, NEW k \in Nat, ServeClient(w, i, rd, wr, k)
    PROVE  TableConsistent' /\ Accounted'
<1> DEFINE e == poll[w][i]
<1>1. /\ UNCHANGED <<newQ, dropped, inPass>> /\ inPass[w]
      /\ i \in DOMAIN poll[w] /\ e # Null
    BY DEF ServeClient, Served, Serving, queues
<1>2. {e} \in SUBSET table[w]
    <2>1. e \in Esockets /\ owner[e] = w
        BY <1>1 DEF IInv, Typed, TypeOK, ContextTypes, TableConsistent, SlotsMatch
    <2>2. e \in table[w]
        BY <2>1 DEF IInv, TableConsistent, TableOwns
    <2> QED BY <2>2
<1>3. CASE RemoveAndDelete(w, {e})
    BY <1>1, <1>2, <1>3, DeletingKeeps
<1>4. CASE UNCHANGED <<life, owner, index, context>>
    BY <1>1, <1>4, OtherStepsKeep
<1> QED BY <1>3, <1>4 DEF ServeClient

LEMMA EndPassKeeps ==
    ASSUME IInv, NEW w \in Workers, EndPass(w)
    PROVE  TableConsistent' /\ Accounted'
<1>1. Tables' /\ \A i \in DOMAIN poll'[w] : poll'[w][i] # Null
    BY EndPassKeepsTables DEF IInv, TableConsistent, Tables
<1>2. NoHoleBetweenPasses'
    BY <1>1 DEF IInv, Typed, TypeOK, ContextTypes, TableConsistent, NoHoleBetweenPasses, EndPass
<1>3. Accounted'
    BY DEF IInv, Accounted, TransitOnce, InTransit, Holds, EndPass, queues
<1> QED BY <1>1, <1>2, <1>3 DEF Tables, TableConsistent

\* The steps of a worker that delete what their slot asks for.
LEMMA DeletingStepsKeep ==
    ASSUME IInv, NEW w \in Workers, NEW i \in Nat,
           ServeDelete(w) \/ ServeTimer(w) \/ ServeBroken(w, i)
    PROVE  TableConsistent' /\ Accounted'
<1>1. CASE ServeDelete(w)
    <2>1. /\ inPass[w] /\ UNCHANGED <<newQ, dropped, inPass>>
          /\ RemoveAndDelete(w, {Head(delQ[w])} \cap table[w])
        BY <1>1 DEF ServeDelete, Serving, Served
    <2> QED BY <2>1, DeletingKeeps
<1>2. CASE ServeTimer(w)
    <2>1. /\ inPass[w] /\ UNCHANGED <<newQ, dropped, inPass>>
          /\ RemoveAndDelete(w, {e \in Expired(w) : Reached(w, e)})
        BY <1>2 DEF ServeTimer, Serving, Served, queues
    <2>2. {e \in Expired(w) : Reached(w, e)} \in SUBSET table[w]
        BY DEF Expired
    <2> QED BY <2>1, <2>2, DeletingKeeps
<1>3. CASE ServeBroken(w, i)
    <2>1. /\ inPass[w] /\ UNCHANGED <<newQ, dropped, inPass>>
          /\ i \in DOMAIN poll[w] /\ poll[w][i] # Null
          /\ RemoveAndDelete(w, {poll[w][i]})
        BY <1>3 DEF ServeBroken, Serving, Served, queues
    <2>2. {poll[w][i]} \in SUBSET table[w]
        BY <2>1 DEF IInv, Typed, TypeOK, ContextTypes, TableConsistent, TableOwns, SlotsMatch
    <2> QED BY <2>1, <2>2, DeletingKeeps
<1> QED BY <1>1, <1>2, <1>3

LEMMA InitIInv ==
    ASSUME Init
    PROVE  IInv
<1>1. TableOwns /\ SlotsMatch /\ NoHoleBetweenPasses
    BY WorkersAssumption DEF Init, TableOwns, SlotsMatch, NoHoleBetweenPasses
<1>2. \A w \in Workers : count[w] = Cardinality(table[w])
    BY FS_EmptySet DEF Init
<1>3. Accounted
    BY DEF Init, Accounted, TransitOnce, InTransit, Holds
<1> QED BY <1>1, <1>2, <1>3, InitTyped DEF IInv, TableConsistent

LEMMA StepIInv ==
    ASSUME IInv, [Next]_vars
    PROVE  IInv'
<1>1. Typed'
    BY StepTyped DEF IInv
<1>2. CASE AppStep
    <2>1. ASSUME NEW w \in Workers, NEW e \in Esockets, AddMt(w, e)
          PROVE  TableConsistent' /\ Accounted'
        BY <2>1, AddMtKeeps
    <2>2. ASSUME UNCHANGED <<socket, context, pass, newQ, dropped>>
          PROVE  TableConsistent' /\ Accounted'
        <3>1. UNCHANGED <<life, owner, index, context, newQ, dropped, inPass>>
            BY <2>2 DEF socket, pass
        <3> QED BY <3>1, OtherStepsKeep
    <2>3. ASSUME NEW e \in Esockets, DeleteMt(e)
          PROVE  TableConsistent' /\ Accounted'
        BY <2>2, <2>3 DEF DeleteMt
    <2>4. ASSUME NEW e \in Esockets, NEW to \in Workers, ReassignMt(e, to)
          PROVE  TableConsistent' /\ Accounted'
        BY <2>2, <2>4 DEF ReassignMt
    <2>5. ASSUME NEW e \in Esockets, NEW m \in Msgs, WriteMt(e, m)
          PROVE  TableConsistent' /\ Accounted'
        BY <2>2, <2>5 DEF WriteMt
    <2> QED BY <1>1, <1>2, <2>1, <2>3, <2>4, <2>5 DEF AppStep, IInv
<1>3. ASSUME NEW w \in Workers, WorkerStep(w)
      PROVE  TableConsistent' /\ Accounted'
    <2>1. CASE Poll(w) \/ ServeIo(w)
        <3>1. /\ UNCHANGED <<life, owner, index, context, newQ, dropped>>
              /\ \A v \in Workers : ~inPass'[v] => ~inPass[v]
            BY <2>1 DEF Poll, ServeIo, Served, socket, queues, IInv, Typed, TypeOK,
                        ContextTypes
        <3> QED BY <3>1, OtherStepsKeep
    <2>2. ASSUME NEW i \in DOMAIN poll[w], ServeSlot(w, i)
          PROVE  TableConsistent' /\ Accounted'
        <3>1. i \in Nat
            BY DEF IInv, Typed, TypeOK, ContextTypes
        <3>2. CASE SkipSlot(w, i)
            <4>1. UNCHANGED <<life, owner, index, context, newQ, dropped, inPass>>
                BY <3>2 DEF SkipSlot, Served, socket, queues
            <4> QED BY <4>1, OtherStepsKeep
        <3>3. ASSUME NEW rd \in BOOLEAN, NEW wr \in BOOLEAN, NEW k \in Nat,
                     ServeClient(w, i, rd, wr, k)
              PROVE  TableConsistent' /\ Accounted'
            BY <3>1, <3>3, ServeClientKeeps
        <3>4. CASE \E rd, wr \in BOOLEAN, k \in 0..Cardinality(Msgs \cup {Greeting}) :
                      ServeClient(w, i, rd, wr, k)
            BY <3>3, <3>4
        <3> QED BY <2>2, <3>1, <3>2, <3>4, DeletingStepsKeep DEF ServeSlot
    <2>3. CASE ServeDelete(w) \/ ServeTimer(w)
        BY <2>3, DeletingStepsKeep
    <2> QED BY <1>3, <2>1, <2>2, <2>3, ServeNewKeeps, ServeReassignKeeps, EndPassKeeps
            DEF WorkerStep
<1>4. CASE (\E e \in Esockets : GoIdle(e)) \/ UNCHANGED vars
    <2>1. UNCHANGED <<socket, context, pass, queues, dropped>>
        BY <1>4 DEF GoIdle, vars
    <2>2. UNCHANGED <<life, owner, index, context, newQ, dropped, inPass>>
        BY <2>1 DEF socket, context, pass, queues
    <2> QED BY <1>1, <2>2, OtherStepsKeep DEF IInv
<1> QED BY <1>1, <1>2, <1>3, <1>4 DEF Next, IInv

LEMMA AlwaysIInv == Spec => []IInv
<1>1. Init => IInv
    BY InitIInv
<1>2. IInv /\ [Next]_vars => IInv'
    BY StepIInv
<1> QED BY <1>1, <1>2, PTL DEF Spec

\* The hash table, the count, the poll array and the esockets' own fields agree
\* whatever the workers and the application do, and in whatever order.
THEOREM TablesConsistent == Spec => []TableConsistent
<1>1. IInv => TableConsistent
    BY DEF IInv
<1> QED BY <1>1, AlwaysIInv, PTL

\* No esocket is on two workers, in a queue after it was freed, or nowhere
\* without a full queue to blame.
THEOREM EsocketsAccounted == Spec => []Accounted
<1>1. IInv => Accounted
    BY DEF IInv
<1> QED BY <1>1, AlwaysIInv, PTL

(***************************************************************************)
(* The ownership promise                                                   *)
(***************************************************************************)

\* Place for one esocket, of any lives, owners and add queues.
PlaceIn(l, o, q, e) ==
    CASE l[e] = "fresh" -> Ownership!New
      [] l[e] = "freed" -> Ownership!Gone
      [] l[e] = "live" /\ o[e] # NoWorker -> Ownership!Owned(o[e])
      [] l[e] = "live" /\ o[e] = NoWorker /\ (\E w \in Workers : Holds(q, w, e))
                        -> Ownership!Transit(CHOOSE w \in Workers : Holds(q, w, e))
      [] OTHER          -> Ownership!Lost

LEMMA PlaceIsIn ==
    /\ Place = [e \in Esockets |-> PlaceIn(life, owner, newQ, e)]
    /\ Place' = [e \in Esockets |-> PlaceIn(life', owner', newQ', e)]
BY DEF Place, PlaceIn, InTransit, Ownership!New, Ownership!Gone, Ownership!Owned,
       Ownership!Transit, Ownership!Lost, Ownership!At

LEMMA PlaceCases ==
    ASSUME NEW l \in [Esockets -> {"fresh", "live", "freed"}], NEW o, NEW q, NEW e \in Esockets,
           NoRepeat(q)
    PROVE  /\ l[e] = "fresh" => PlaceIn(l, o, q, e) = Ownership!New
           /\ l[e] = "freed" => PlaceIn(l, o, q, e) = Ownership!Gone
           /\ l[e] = "live" /\ o[e] # NoWorker => PlaceIn(l, o, q, e) = Ownership!Owned(o[e])
           /\ l[e] = "live" /\ o[e] = NoWorker /\ (\A w \in Workers : ~Holds(q, w, e))
                 => PlaceIn(l, o, q, e) = Ownership!Lost
           /\ \A w \in Workers : l[e] = "live" /\ o[e] = NoWorker /\ Holds(q, w, e)
                 => PlaceIn(l, o, q, e) = Ownership!Transit(w)
<1>1. l[e] \in {"fresh", "live", "freed"}
    OBVIOUS
<1>2. \A v, w \in Workers : Holds(q, v, e) /\ Holds(q, w, e) => v = w
    BY DEF Holds, NoRepeat
<1>3. ASSUME NEW w \in Workers, l[e] = "live", o[e] = NoWorker, Holds(q, w, e)
      PROVE  PlaceIn(l, o, q, e) = Ownership!Transit(w)
    <2>1. PlaceIn(l, o, q, e) = Ownership!Transit(CHOOSE v \in Workers : Holds(q, v, e))
        BY <1>3 DEF PlaceIn
    <2>2. (CHOOSE v \in Workers : Holds(q, v, e)) = w
        BY <1>2, <1>3
    <2> QED BY <2>1, <2>2
<1>4. /\ l[e] = "fresh" => PlaceIn(l, o, q, e) = Ownership!New
      /\ l[e] = "freed" => PlaceIn(l, o, q, e) = Ownership!Gone
      /\ l[e] = "live" /\ o[e] # NoWorker => PlaceIn(l, o, q, e) = Ownership!Owned(o[e])
    BY <1>1 DEF PlaceIn
<1>5. l[e] = "live" /\ o[e] = NoWorker /\ (\A w \in Workers : ~Holds(q, w, e))
         => PlaceIn(l, o, q, e) = Ownership!Lost
    BY <1>1 DEF PlaceIn
<1> QED BY <1>3, <1>4, <1>5

\* An esocket whose life, owner and add queue stay is where it was.
LEMMA SamePlace ==
    ASSUME NEW e, NEW l, NEW o, NEW q, NEW m, NEW p, NEW r, l[e] = m[e], o[e] = p[e],
           \A w \in Workers : Holds(q, w, e) <=> Holds(r, w, e)
    PROVE  PlaceIn(l, o, q, e) = PlaceIn(m, p, r, e)
<1>1. (CHOOSE w \in Workers : Holds(q, w, e)) = (CHOOSE w \in Workers : Holds(r, w, e))
    OBVIOUS
<1>2. (\E w \in Workers : Holds(q, w, e)) <=> (\E w \in Workers : Holds(r, w, e))
    OBVIOUS
<1> QED BY <1>1, <1>2 DEF PlaceIn

\* What the invariant gives PlaceCases.
LEMMA PlaceTypes ==
    ASSUME IInv
    PROVE  /\ life \in [Esockets -> {"fresh", "live", "freed"}] /\ NoRepeat(newQ)
           /\ newQ \in [Workers -> Seq(Esockets)] /\ owner \in [Esockets -> Workers \cup {NoWorker}]
BY DEF IInv, Typed, TypeOK, SocketTypes, QueueTypes, Accounted, TransitOnce, NoRepeat

\* Steps that move no esocket.
LEMMA PlaceKept ==
    ASSUME UNCHANGED <<life, owner, newQ>>
    PROVE  UNCHANGED Place
BY PlaceIsIn

\* An esocket that is in no other place is sent to the add queue of a worker.
LEMMA SendingMoves ==
    ASSUME IInv, NEW to \in Workers, NEW e \in Esockets, ~InTransit(e),
           newQ' = Send(newQ, to, e), life' \in [Esockets -> {"fresh", "live", "freed"}],
           life'[e] = "live", owner'[e] = NoWorker,
           \A d \in Esockets \ {e} : life'[d] = life[d] /\ owner'[d] = owner[d],
           Place[e] = Ownership!New \/ \E v \in Workers : Place[e] = Ownership!Owned(v)
    PROVE  Ownership!SendTo(e, to)
<1>1. /\ NoRepeat(newQ')
      /\ \A v \in Workers, d \in Esockets :
            Holds(newQ', v, d) <=> Holds(newQ, v, d) \/ (v = to /\ d = e /\ ~Full(newQ, to))
    <2>1. \A v \in Workers : ~Holds(newQ, v, e)
        BY DEF InTransit
    <2> QED BY <2>1, PlaceTypes, SendAccounts
<1>2. PICK p \in {Ownership!Transit(to), Ownership!Lost} : PlaceIn(life', owner', newQ', e) = p
    <2>1. CASE Full(newQ, to)
        <3>1. \A v \in Workers : ~Holds(newQ', v, e)
            BY <1>1, <2>1 DEF InTransit
        <3> QED BY <1>1, <3>1, PlaceCases
    <2>2. CASE ~Full(newQ, to)
        <3>1. Holds(newQ', to, e)
            BY <1>1, <2>2
        <3> QED BY <1>1, <3>1, PlaceCases
    <2> QED BY <2>1, <2>2
<1>3. ASSUME NEW d \in Esockets, d # e
      PROVE  PlaceIn(life', owner', newQ', d) = PlaceIn(life, owner, newQ, d)
    <2>1. \A v \in Workers : Holds(newQ', v, d) <=> Holds(newQ, v, d)
        BY <1>1, <1>3
    <2> QED BY <1>3, <2>1, SamePlace
<1>4. Place' = [Place EXCEPT ![e] = p]
    BY <1>2, <1>3, PlaceIsIn
<1> QED BY <1>4 DEF Ownership!SendTo

LEMMA AddMtMoves ==
    ASSUME IInv, NEW w \in Workers, NEW e \in Esockets, AddMt(w, e)
    PROVE  Ownership!SendTo(e, w)
<1>1. /\ life[e] = "fresh" /\ life' = [life EXCEPT ![e] = "live"]
      /\ newQ' = Send(newQ, w, e) /\ UNCHANGED owner
    BY DEF AddMt
<1>2. owner[e] = NoWorker /\ ~InTransit(e)
    BY <1>1 DEF IInv, Accounted
<1>3. Place[e] = Ownership!New
    BY <1>1, PlaceTypes, PlaceCases, PlaceIsIn
<1>4. /\ life'[e] = "live" /\ \A d \in Esockets \ {e} : life'[d] = life[d]
      /\ life' \in [Esockets -> {"fresh", "live", "freed"}]
    BY <1>1, PlaceTypes
<1> QED BY <1>1, <1>2, <1>3, <1>4, SendingMoves

LEMMA ServeReassignMoves ==
    ASSUME IInv, NEW w \in Workers, ServeReassign(w)
    PROVE  UNCHANGED Place \/ \E e \in Esockets, to \in Workers : Ownership!SendTo(e, to)
<1>1. CASE Head(reQ[w]).es \notin table[w] \/ DeclinesReassign(Head(reQ[w]).es)
    <2>1. UNCHANGED <<life, owner, newQ>>
        BY <1>1 DEF ServeReassign
    <2> QED BY <2>1, PlaceKept
<1>2. CASE ~(Head(reQ[w]).es \notin table[w] \/ DeclinesReassign(Head(reQ[w]).es))
    <2>1. reQ \in [Workers -> Seq(ReassignMessages)] /\ reQ[w] # <<>>
        BY DEF IInv, Typed, TypeOK, QueueTypes, ReadyBacked, ServeReassign, Serving
    <2>2. Head(reQ[w]) \in ReassignMessages
        BY <2>1, PopKeeps
    <2>3. PICK e \in Esockets, to \in Workers : e = Head(reQ[w]).es /\ to = Head(reQ[w]).to
        BY <2>2 DEF ReassignMessages
    <2>4. ContextRemove(w, {e}) /\ newQ' = Send(newQ, to, e) /\ UNCHANGED life /\ e \in table[w]
        BY <1>2, <2>3 DEF ServeReassign
    <2>5. owner[e] = w /\ w # NoWorker
        BY <2>4, WorkersAssumption DEF IInv, TableConsistent, TableOwns
    <2>6. life[e] = "live" /\ ~InTransit(e)
        BY <2>5 DEF IInv, Accounted
    <2>7. \A d \in Esockets : owner'[d] = IF d \in {e} THEN NoWorker ELSE owner[d]
        BY <2>4 DEF ContextRemove
    <2>8. Place[e] = Ownership!Owned(w)
        BY <2>5, <2>6, PlaceTypes, PlaceCases, PlaceIsIn
    <2>9. Ownership!SendTo(e, to)
        BY <2>4, <2>6, <2>7, <2>8, PlaceTypes, SendingMoves
    <2> QED BY <2>9
<1> QED BY <1>1, <1>2

LEMMA ServeNewMoves ==
    ASSUME IInv, NEW w \in Workers, ServeNew(w)
    PROVE  \E e \in Esockets : Ownership!Arrive(e, w)
<1>1. /\ newQ \in [Workers -> Seq(Esockets)] /\ NoRepeat(newQ) /\ newQ[w] # <<>>
      /\ newQ' = Pop(newQ, w)
    BY DEF IInv, Typed, TypeOK, QueueTypes, Accounted, TransitOnce, NoRepeat, ReadyBacked,
           ServeNew, Serving
<1>2. PICK e \in Esockets : e = Head(newQ[w])
    BY <1>1, PopKeeps
<1>3. /\ NoRepeat(newQ') /\ Holds(newQ, w, e)
      /\ \A v \in Workers, d \in Esockets : Holds(newQ', v, d) <=> Holds(newQ, v, d) /\ d # e
    BY <1>1, <1>2, PopAccounts
<1>4. life[e] = "live" /\ owner[e] = NoWorker
    BY <1>3 DEF IInv, Accounted, InTransit
<1>5. owner' = [owner EXCEPT ![e] = w] /\ UNCHANGED life
    <2>1. e \notin table[w]
        BY <1>4, WorkersAssumption DEF IInv, TableConsistent, TableOwns
    <2> QED BY <1>2, <2>1 DEF ServeNew, ContextAdd
<1>6. Place[e] = Ownership!Transit(w)
    BY <1>3, <1>4, PlaceTypes, PlaceCases, PlaceIsIn
<1>7. PlaceIn(life', owner', newQ', e) = Ownership!Owned(w)
    <2>1. owner'[e] = w /\ w # NoWorker /\ life'[e] = "live"
        BY <1>4, <1>5, PlaceTypes, WorkersAssumption
    <2>2. life' \in [Esockets -> {"fresh", "live", "freed"}]
        BY <1>5, PlaceTypes
    <2> QED BY <1>3, <2>1, <2>2, PlaceCases
<1>8. ASSUME NEW d \in Esockets, d # e
      PROVE  PlaceIn(life', owner', newQ', d) = PlaceIn(life, owner, newQ, d)
    <2>1. \A v \in Workers : Holds(newQ', v, d) <=> Holds(newQ, v, d)
        BY <1>3, <1>8
    <2>2. owner'[d] = owner[d] /\ life'[d] = life[d]
        BY <1>5, <1>8, PlaceTypes
    <2> QED BY <2>1, <2>2, SamePlace
<1>9. Place' = [Place EXCEPT ![e] = Ownership!Owned(w)]
    BY <1>7, <1>8, PlaceIsIn
<1> QED BY <1>6, <1>9 DEF Ownership!Arrive

LEMMA DeletingMoves ==
    ASSUME IInv, NEW w \in Workers, NEW E \in SUBSET table[w], RemoveAndDelete(w, E),
           UNCHANGED newQ
    PROVE  \E D \in SUBSET Esockets : Ownership!Close(w, D)
<1>1. /\ E \in SUBSET Esockets /\ w # NoWorker /\ \A e \in E : owner[e] = w
    BY WorkersAssumption DEF IInv, Typed, TypeOK, ContextTypes, TableConsistent, TableOwns
<1>2. \A e \in E : life[e] = "live"
    BY <1>1 DEF IInv, Accounted
<1>3. /\ \A e \in Esockets : owner'[e] = IF e \in E THEN NoWorker ELSE owner[e]
      /\ life' = [e \in Esockets |-> IF e \in E THEN "freed" ELSE life[e]]
    BY DEF RemoveAndDelete, ContextRemove
<1>4. life' \in [Esockets -> {"fresh", "live", "freed"}] /\ NoRepeat(newQ')
    BY <1>3, PlaceTypes
<1>5. ASSUME NEW e \in E
      PROVE  Place[e] = Ownership!Owned(w) /\ PlaceIn(life', owner', newQ', e) = Ownership!Gone
    <2>1. life'[e] = "freed"
        BY <1>1, <1>3
    <2>2. PlaceIn(life', owner', newQ', e) = Ownership!Gone
        BY <1>1, <1>4, <2>1, PlaceCases
    <2>3. PlaceIn(life, owner, newQ, e) = Ownership!Owned(w)
        BY <1>1, <1>2, PlaceTypes, PlaceCases
    <2> QED BY <1>1, <2>2, <2>3, PlaceIsIn
<1>6. ASSUME NEW e \in Esockets \ E
      PROVE  PlaceIn(life', owner', newQ', e) = PlaceIn(life, owner, newQ, e)
    <2>1. life'[e] = life[e] /\ owner'[e] = owner[e]
        BY <1>3
    <2> QED BY <2>1, SamePlace
<1>7. Place' = [e \in Esockets |-> IF e \in E THEN Ownership!Gone ELSE Place[e]]
    BY <1>5, <1>6, PlaceIsIn
<1>8. Ownership!Close(w, E)
    BY <1>5, <1>7 DEF Ownership!Close
<1> QED BY <1>1, <1>8

LEMMA StepMoves ==
    ASSUME IInv, [Next]_vars
    PROVE  [Ownership!Next]_Place
<1>1. CASE AppStep
    <2>1. ASSUME NEW w \in Workers, NEW e \in Esockets, AddMt(w, e) PROVE Ownership!Next
        BY <2>1, AddMtMoves DEF Ownership!Next
    <2>2. CASE UNCHANGED <<socket, newQ>>
        <3>1. UNCHANGED <<life, owner, newQ>>
            BY <2>2 DEF socket
        <3> QED BY <3>1, PlaceKept
    <2> QED BY <1>1, <2>1, <2>2 DEF AppStep, DeleteMt, ReassignMt, WriteMt
<1>2. CASE (\E e \in Esockets : GoIdle(e)) \/ UNCHANGED vars
    <2>1. UNCHANGED <<life, owner, newQ>>
        BY <1>2 DEF GoIdle, vars, socket, queues
    <2> QED BY <2>1, PlaceKept
<1>3. ASSUME NEW w \in Workers, WorkerStep(w)
      PROVE  [Ownership!Next]_Place
    <2>1. ASSUME NEW E \in SUBSET table[w], RemoveAndDelete(w, E), UNCHANGED newQ
          PROVE  Ownership!Next
        BY <2>1, DeletingMoves DEF Ownership!Next
    <2>2. CASE Poll(w) \/ ServeIo(w) \/ EndPass(w)
        <3>1. UNCHANGED <<life, owner, newQ>>
            BY <2>2 DEF Poll, ServeIo, EndPass, socket, queues
        <3> QED BY <3>1, PlaceKept
    <2>3. CASE ServeNew(w)
        BY <2>3, ServeNewMoves DEF Ownership!Next
    <2>4. CASE ServeReassign(w)
        BY <2>4, ServeReassignMoves DEF Ownership!Next
    <2>5. CASE ServeDelete(w)
        <3>1. RemoveAndDelete(w, {Head(delQ[w])} \cap table[w]) /\ UNCHANGED newQ
            BY <2>5 DEF ServeDelete
        <3> QED BY <2>1, <3>1
    <2>6. CASE ServeTimer(w)
        <3>1. /\ RemoveAndDelete(w, {e \in Expired(w) : Reached(w, e)}) /\ UNCHANGED newQ
              /\ {e \in Expired(w) : Reached(w, e)} \in SUBSET table[w]
            BY <2>6 DEF ServeTimer, Expired, queues
        <3> QED BY <2>1, <3>1
    <2>7. ASSUME NEW i \in DOMAIN poll[w], ServeSlot(w, i)
          PROVE  [Ownership!Next]_Place
        <3>1. CASE SkipSlot(w, i)
            <4>1. UNCHANGED <<life, owner, newQ>>
                BY <3>1 DEF SkipSlot, socket, queues
            <4> QED BY <4>1, PlaceKept
        <3>2. poll[w][i] # Null => {poll[w][i]} \in SUBSET table[w]
            BY DEF IInv, Typed, TypeOK, ContextTypes, TableConsistent, TableOwns, SlotsMatch
        <3>3. CASE ServeBroken(w, i)
            <4>1. RemoveAndDelete(w, {poll[w][i]}) /\ UNCHANGED newQ /\ poll[w][i] # Null
                BY <3>3 DEF ServeBroken, queues
            <4> QED BY <2>1, <3>2, <4>1
        <3>4. ASSUME NEW rd, NEW wr, NEW k, ServeClient(w, i, rd, wr, k)
              PROVE  [Ownership!Next]_Place
            <4>1. /\ poll[w][i] # Null /\ UNCHANGED newQ
                  /\ RemoveAndDelete(w, {poll[w][i]}) \/ UNCHANGED <<life, owner>>
                BY <3>4 DEF ServeClient, queues
            <4> QED BY <2>1, <3>2, <4>1, PlaceKept
        <3> QED BY <2>7, <3>1, <3>3, <3>4 DEF ServeSlot
    <2> QED BY <1>3, <2>2, <2>3, <2>4, <2>5, <2>6, <2>7 DEF WorkerStep
<1> QED BY <1>1, <1>2, <1>3 DEF Next

\* The reactor implements EsocketOwnership: every esocket is with the
\* application, on the way to one worker, on one worker, lost or gone, and only
\* its owner sends it on or closes it.
THEOREM ReactorKeepsOwnership == Spec => ImplementsOwnership
<1>1. Init => Ownership!Init
    <2> SUFFICES ASSUME Init PROVE Ownership!Init
        OBVIOUS
    <2>1. \A e \in Esockets : PlaceIn(life, owner, newQ, e) = Ownership!New
        BY DEF Init, PlaceIn
    <2> QED BY <2>1, PlaceIsIn DEF Ownership!Init
<1>2. IInv /\ [Next]_vars => [Ownership!Next]_Place
    BY StepMoves
<1> QED BY <1>1, <1>2, AlwaysIInv, PTL DEF Spec, ImplementsOwnership, Ownership!Spec

(***************************************************************************)
(* The scan of the activity timer                                          *)
(***************************************************************************)

LessThan == {ss \in Nat \X Nat : ss[1] < ss[2]}

\* A set of numbers has a least one.
LEMMA Smallest ==
    ASSUME NEW T \in SUBSET Nat, T # {}
    PROVE  \E x \in T : \A y \in T : x <= y
<1>1. IsWellFoundedOn(LessThan, Nat)
    BY NatLessThanWellFounded, Zenon DEF LessThan, OpToRel
<1>2. \E x \in T : \A y \in T : ~(<<y, x>> \in LessThan)
    BY <1>1, WFMin, Zenon
<1>3. PICK x \in T : \A y \in T : ~(<<y, x>> \in LessThan)
    BY <1>2
<1>4. ASSUME NEW y \in T PROVE x <= y
    <2>1. <<y, x>> \in Nat \X Nat /\ <<y, x>>[1] = y /\ <<y, x>>[2] = x
        OBVIOUS
    <2>2. ~(y < x)
        BY <1>3, <2>1, Zenon DEF LessThan
    <2> QED BY <2>2
<1> QED BY <1>4

\* The scan gets as far as the first esocket it would close: nothing it has
\* closed before makes event_sockets_count fall behind its own counter.
LEMMA FirstIsReached ==
    ASSUME IInv, NEW w \in Workers, Expired(w) # {}
    PROVE  \E e \in Expired(w) : Reached(w, e)
<1>1. table[w] \in SUBSET Esockets /\ index \in [Esockets -> Nat] /\ Expired(w) \subseteq table[w]
    BY DEF IInv, Typed, TypeOK, SocketTypes, ContextTypes, Expired
<1>2. {index[e] : e \in Expired(w)} \in SUBSET Nat /\ {index[e] : e \in Expired(w)} # {}
    BY <1>1
<1>3. PICK n \in {index[e] : e \in Expired(w)} : \A m \in {index[e] : e \in Expired(w)} : n <= m
    BY <1>2, Smallest
<1>4. PICK e \in Expired(w) : index[e] = n
    BY <1>3
<1>5. Ahead(w, e) \cap Expired(w) = {}
    <2> SUFFICES ASSUME NEW d \in Ahead(w, e), d \in Expired(w) PROVE FALSE
        OBVIOUS
    <2>1. index[d] < index[e] /\ index[e] <= index[d]
        BY <1>3, <1>4 DEF Ahead
    <2>2. index[d] \in Nat /\ index[e] \in Nat
        BY <1>1
    <2> QED BY <2>1, <2>2
<1>6. IsFiniteSet(table[w]) /\ count[w] = Cardinality(table[w])
    BY <1>1, FiniteSubset DEF IInv, TableConsistent
<1>7. Ahead(w, e) \subseteq table[w] \ {e}
    BY <1>1 DEF Ahead
<1>8. /\ IsFiniteSet(table[w] \ {e}) /\ Cardinality(table[w] \ {e}) = Cardinality(table[w]) - 1
      /\ Cardinality(table[w]) \in Nat
    BY <1>1, <1>6, FS_RemoveElement, FS_CardinalityType
<1>9. IsFiniteSet(Ahead(w, e)) /\ Cardinality(Ahead(w, e)) <= Cardinality(table[w] \ {e})
    BY <1>7, <1>8, FS_Subset
<1>10. Cardinality(Ahead(w, e)) \in Nat
    BY <1>9, FS_CardinalityType
<1>11. Cardinality(Ahead(w, e) \cap Expired(w)) = 0
    BY <1>5, FS_EmptySet
<1>12. Reached(w, e)
    BY <1>6, <1>8, <1>9, <1>10, <1>11 DEF Reached
<1> QED BY <1>4, <1>12

\* A scan that finds esockets without traffic closes one of them at least, for
\* any number of esockets and in any state of the tables.
THEOREM TimerMakesProgress == Spec => ScanCloses
<1> DEFINE Closes(w) == ServeTimer(w) /\ Expired(w) # {}
                           => \E e \in Expired(w) : life'[e] = "freed"
<1>1. ASSUME IInv, [Next]_vars, NEW w \in Workers
      PROVE  Closes(w)
    <2> SUFFICES ASSUME ServeTimer(w), Expired(w) # {}
                 PROVE  \E e \in Expired(w) : life'[e] = "freed"
        OBVIOUS
    <2>1. PICK e \in Expired(w) : Reached(w, e)
        BY <1>1, FirstIsReached
    <2>2. e \in Esockets
        BY <1>1 DEF IInv, Typed, TypeOK, ContextTypes, Expired
    <2>3. RemoveAndDelete(w, {d \in Expired(w) : Reached(w, d)})
        BY DEF ServeTimer
    <2>4. life'[e] = "freed"
        BY <2>1, <2>2, <2>3 DEF RemoveAndDelete
    <2> QED BY <2>4
<1>2. IInv /\ [Next]_vars => [\A w \in Workers : Closes(w)]_vars
    BY <1>1
<1> QED BY <1>2, AlwaysIInv, PTL DEF Spec, ScanCloses

=============================================================================
