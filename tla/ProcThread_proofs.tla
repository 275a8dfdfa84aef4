-------------------------- MODULE ProcThread_proofs --------------------------
(***************************************************************************)
(* Theorems about ProcThread, for any callbacks, priorities and bounds.    *)
(***************************************************************************)
EXTENDS ProcThread, FiniteSetTheorems, TLAPS

\* A deleted proc_queue has taken its lists with it.
GoneIsEmpty == queue \in {"freed", "misused"} => \A p \in Levels : list[p] = <<>>

\* The inductive invariant: a queue is only read when it has a message, the
\* event is only cleared on entering the loop, and the loop goes downwards.
IInv == TypeOK /\ QueueBacked /\ Awake /\ NothingAbove /\ GoneIsEmpty

USE DEF PriMax, PriNormal, PriHigh, Levels

LEMMA PostTyped ==
    ASSUME TypeOK, NEW m \in Message, Post(m)
    PROVE  pipe' \in Seq(Message) /\ (pipe # <<>> => pipe' # <<>>)
<1>1. pipe \in Seq(Message)
    BY DEF TypeOK
<1>2. Append(pipe, m) \in Seq(Message) /\ Append(pipe, m) # <<>>
    <2>1. Append(pipe, m) \in Seq(Message)
        BY <1>1
    <2>2. Len(Append(pipe, m)) = Len(pipe) + 1 /\ Len(pipe) \in Nat
        BY <1>1
    <2> QED BY <2>1, <2>2
<1>3. pipe' = pipe \/ pipe' = Append(pipe, m)
    BY DEF Post
<1> QED BY <1>1, <1>2, <1>3

LEMMA AddCallbackKeeps ==
    ASSUME IInv, NEW m \in Items, NEW p \in Priorities, AddCallback(m, p)
    PROVE  IInv'
<1>1. [item |-> m, pri |-> Legal(p)] \in Message
    BY PrioritiesAssumption DEF Message, Legal
<1>2. pipe' \in Seq(Message) /\ (pipe # <<>> => pipe' # <<>>)
    BY <1>1, PostTyped DEF IInv, AddCallback
<1>3. TypeOK'
    BY <1>2 DEF IInv, TypeOK, AddCallback, thread
<1>4. QueueBacked' /\ Awake' /\ NothingAbove' /\ GoneIsEmpty'
    BY <1>2 DEF IInv, QueueBacked, Awake, NothingAbove, GoneIsEmpty, AddCallback, thread
<1> QED BY <1>3, <1>4 DEF IInv

LEMMA DeleteKeeps ==
    ASSUME IInv, Delete
    PROVE  IInv'
<1>1. [item |-> NoItem, pri |-> PriHigh] \in Message
    BY DEF Message
<1>2. pipe' \in Seq(Message) /\ (pipe # <<>> => pipe' # <<>>)
    BY <1>1, PostTyped DEF IInv, Delete
<1>3. TypeOK'
    BY <1>2 DEF IInv, TypeOK, Delete, thread, history
<1>4. QueueBacked' /\ Awake' /\ NothingAbove' /\ GoneIsEmpty'
    BY <1>2 DEF IInv, QueueBacked, Awake, NothingAbove, GoneIsEmpty, Delete, thread
<1> QED BY <1>3, <1>4 DEF IInv

LEMMA PollKeeps ==
    ASSUME IInv, Poll
    PROVE  IInv'
<1>1. TypeOK'
    BY DEF IInv, TypeOK, Poll, Pollable, history
<1>2. QueueBacked' /\ Awake' /\ NothingAbove' /\ GoneIsEmpty'
    BY DEF IInv, QueueBacked, Awake, NothingAbove, GoneIsEmpty, Poll, Pollable
<1> QED BY <1>1, <1>2 DEF IInv

LEMMA ServeQueueKeeps ==
    ASSUME IInv, ServeQueue
    PROVE  IInv'
<1>1. pipe \in Seq(Message) /\ pipe # <<>>
    BY DEF IInv, TypeOK, QueueBacked, ServeQueue
<1>2. Head(pipe) \in Message /\ pipe' \in Seq(Message)
    BY <1>1 DEF ServeQueue
<1>3. at = "pass" /\ at' = "pass" /\ cur' = cur
    BY DEF ServeQueue
<1>4. list' \in [Levels -> Seq(Items)] /\ event' \in BOOLEAN /\ Awake'
    <2>1. CASE Head(pipe).item = NoItem
        BY <1>3, <2>1 DEF IInv, TypeOK, Awake, ServeQueue
    <2>2. CASE Head(pipe).item # NoItem
        <3>1. Head(pipe).item \in Items /\ Clamp(Head(pipe).pri) \in Levels
            BY <1>2, <2>2 DEF Message, Clamp
        <3>2. Enlist(Head(pipe))
            BY <2>2 DEF ServeQueue
        <3>3. \A s \in Seq(Items) : Append(s, Head(pipe).item) \in Seq(Items)
            BY <3>1
        <3>4. list' \in [Levels -> Seq(Items)]
            BY <3>1, <3>2, <3>3 DEF Enlist, IInv, TypeOK
        <3>5. event' = TRUE
            BY <3>2 DEF Enlist
        <3> QED BY <3>4, <3>5 DEF Awake
    <2> QED BY <2>1, <2>2
<1>5. TypeOK'
    BY <1>2, <1>4 DEF IInv, TypeOK, ServeQueue, history
<1>6. QueueBacked' /\ NothingAbove' /\ GoneIsEmpty'
    BY <1>3 DEF QueueBacked, NothingAbove, GoneIsEmpty, ServeQueue, IInv, TypeOK
<1> QED BY <1>4, <1>5, <1>6 DEF IInv

LEMMA CloseQueueKeeps ==
    ASSUME IInv, CloseQueue
    PROVE  IInv'
<1>1. lost' \in SUBSET (Items \cup {NoItem})
    <2>1. ASSUME NEW m \in Range(pipe)
          PROVE  m.item \in Items \cup {NoItem}
        <3>1. pipe \in Seq(Message)
            BY DEF IInv, TypeOK
        <3>2. PICK i \in DOMAIN pipe : m = pipe[i]
            BY DEF Range
        <3>3. m \in Message
            BY <3>1, <3>2
        <3> QED BY <3>3 DEF Message
    <2>2. \A p \in Levels : Range(list[p]) \subseteq Items
        BY DEF IInv, TypeOK, Range
    <2> QED BY <2>1, <2>2 DEF IInv, TypeOK, CloseQueue
<1>2. TypeOK'
    BY <1>1 DEF IInv, TypeOK, CloseQueue
<1>3. QueueBacked' /\ Awake' /\ NothingAbove' /\ GoneIsEmpty'
    BY DEF QueueBacked, Awake, NothingAbove, GoneIsEmpty, CloseQueue, IInv, TypeOK
<1> QED BY <1>2, <1>3 DEF IInv

LEMMA ServeEventKeeps ==
    ASSUME IInv, ServeEvent
    PROVE  IInv'
<1>1. TypeOK'
    <2>1. UNCHANGED <<pipe, list, repeats, ran, done, lost>>
        BY DEF ServeEvent, history
    <2>2. event' = FALSE /\ ready' = ready \ {"event"}
        BY DEF ServeEvent
    <2>3. queue' \in {queue, "misused"} /\ at' \in {at, "callback"} /\ cur' \in {cur, 3}
        BY DEF ServeEvent
    <2>4. /\ ready' \in SUBSET {"queue", "event"}
          /\ queue' \in {"live", "closing", "freed", "misused"}
          /\ at' \in {"poll", "pass", "callback"}
          /\ cur' \in Levels
        BY <2>2, <2>3 DEF IInv, TypeOK
    <2>5. event' \in BOOLEAN
        BY <2>2
    <2>6. /\ pipe' \in Seq(Message) /\ list' \in [Levels -> Seq(Items)]
          /\ repeats' \in [Items -> Nat] /\ ran' \in SUBSET Items /\ done' \in SUBSET Items
          /\ lost' \in SUBSET (Items \cup {NoItem})
        BY <2>1 DEF IInv, TypeOK
    <2> QED BY <2>4, <2>5, <2>6, Zenon DEF TypeOK
<1>2. QueueBacked' /\ Awake' /\ NothingAbove' /\ GoneIsEmpty'
    BY DEF IInv, QueueBacked, Awake, NothingAbove, GoneIsEmpty, ServeEvent, TypeOK
<1> QED BY <1>1, <1>2 DEF IInv

LEMMA RunKeeps ==
    ASSUME IInv, NEW p \in Levels, Run(p)
    PROVE  IInv'
<1> DEFINE m == Head(list[p])
<1>1. list[p] \in Seq(Items) /\ list[p] # <<>> /\ p \in 1..cur /\ cur \in Levels
    BY DEF Run, Next2Run, IInv, TypeOK
<1>2. m \in Items /\ Tail(list[p]) \in Seq(Items) /\ Append(Tail(list[p]), m) \in Seq(Items)
    BY <1>1
<1>3. /\ list' \in [Levels -> Seq(Items)]
      /\ \A q \in Levels \ {p} : list'[q] = list[q]
    BY <1>2 DEF Run, PutBack, IInv, TypeOK
<1>4. repeats' \in [Items -> Nat] /\ done' \in SUBSET Items /\ ran' \in SUBSET Items
    BY <1>2 DEF Run, IInv, TypeOK
<1>5. TypeOK'
    BY <1>1, <1>3, <1>4 DEF Run, IInv, TypeOK
<1>6. NothingAbove'
    <2>1. \A q \in (p + 1)..3 : list[q] = <<>>
        BY <1>1 DEF Run, Next2Run, IInv, NothingAbove
    <2> QED BY <1>1, <1>3, <2>1 DEF Run, NothingAbove
<1>7. QueueBacked' /\ Awake'
    BY DEF Run, IInv, QueueBacked, Awake
<1>8. GoneIsEmpty'
    BY <1>1 DEF Run, IInv, GoneIsEmpty
<1> QED BY <1>5, <1>6, <1>7, <1>8 DEF IInv

LEMMA ReturnKeeps ==
    ASSUME IInv, Return
    PROVE  IInv'
<1>1. TypeOK'
    BY DEF IInv, TypeOK, Return, history
<1>2. QueueBacked' /\ Awake' /\ NothingAbove' /\ GoneIsEmpty'
    BY DEF IInv, QueueBacked, Awake, NothingAbove, GoneIsEmpty, Return
<1> QED BY <1>1, <1>2 DEF IInv

LEMMA InitIInv ==
    ASSUME Init
    PROVE  IInv
<1>1. TypeOK
    <2>1. <<>> \in Seq(Message) /\ <<>> \in Seq(Items)
        OBVIOUS
    <2>2. list \in [Levels -> Seq(Items)] /\ repeats \in [Items -> Nat]
        BY <2>1 DEF Init
    <2>3. cur \in Levels /\ event \in BOOLEAN
        BY DEF Init
    <2>4. /\ queue \in {"live", "closing", "freed", "misused"}
          /\ at \in {"poll", "pass", "callback"}
          /\ ready \in SUBSET {"queue", "event"}
          /\ ran \in SUBSET Items /\ done \in SUBSET Items
          /\ lost \in SUBSET (Items \cup {NoItem})
        BY DEF Init
    <2>5. pipe \in Seq(Message)
        BY <2>1 DEF Init
    <2> QED BY <2>2, <2>3, <2>4, <2>5, Zenon DEF TypeOK
<1>2. QueueBacked /\ Awake /\ NothingAbove /\ GoneIsEmpty
    BY DEF Init, QueueBacked, Awake, NothingAbove, GoneIsEmpty
<1> QED BY <1>1, <1>2 DEF IInv

LEMMA StepIInv ==
    ASSUME IInv, [Next]_vars
    PROVE  IInv'
<1>1. CASE Callers
    BY <1>1, AddCallbackKeeps, DeleteKeeps DEF Callers
<1>2. CASE EndPass
    BY <1>2 DEF IInv, TypeOK, QueueBacked, Awake, NothingAbove, GoneIsEmpty, EndPass, history
<1>3. CASE ThreadStep
    BY <1>2, <1>3, PollKeeps, ServeQueueKeeps, CloseQueueKeeps, ServeEventKeeps, RunKeeps,
       ReturnKeeps DEF ThreadStep, RunSome
<1>4. CASE UNCHANGED vars
    BY <1>4 DEF IInv, TypeOK, QueueBacked, Awake, NothingAbove, GoneIsEmpty, vars, thread,
                history
<1> QED BY <1>1, <1>3, <1>4 DEF Next

LEMMA AlwaysIInv == Spec => []IInv
<1>1. Init => IInv
    BY InitIInv
<1>2. IInv /\ [Next]_vars => IInv'
    BY StepIInv
<1> QED BY <1>1, <1>2, PTL DEF Spec

\* Messages, lists and flags keep their types, whatever priorities are asked.
THEOREM TypeInvariant == Spec => []TypeOK
<1>1. IInv => TypeOK
    BY DEF IInv
<1> QED BY <1>1, AlwaysIInv, PTL

\* No wake-up is lost: a callback that waits in a list has its event signalled
\* or is being come to.
THEOREM AlwaysAwake == Spec => []Awake
<1>1. IInv => Awake
    BY DEF IInv
<1> QED BY <1>1, AlwaysIInv, PTL

\* No callback is run while one of a higher priority waits.
THEOREM HigherFirst == Spec => []NothingAbove
<1>1. IInv => NothingAbove
    BY DEF IInv
<1> QED BY <1>1, AlwaysIInv, PTL

-----------------------------------------------------------------------------
(***************************************************************************)
(* Where a callback is                                                     *)
(***************************************************************************)

HIDE DEF PriMax, PriNormal, PriHigh, Levels

\* A callback asked for has not been run, and its message is the only one.
PipePlaces ==
    \A i \in 1..Len(pipe) : pipe[i].item \in Items =>
        /\ pipe[i].item \notin ran \cup done \cup lost
        /\ \A j \in 1..Len(pipe) : pipe[j].item = pipe[i].item => j = i
        /\ \A p \in Levels : \A k \in 1..Len(list[p]) : list[p][k] # pipe[i].item

\* A callback enlisted has not finished, and its place is the only one.
ListPlaces ==
    \A p \in Levels : \A k \in 1..Len(list[p]) :
        /\ list[p][k] \notin done \cup lost
        /\ \A q \in Levels : \A l \in 1..Len(list[q]) : list[q][l] = list[p][k] => q = p /\ l = k

DoneOrLost == \A m \in Items : m \in done => m \in ran /\ m \notin lost

Places == PipePlaces /\ ListPlaces /\ DoneOrLost

\* The elements of a sequence are at its positions.
LEMMA RangeOfSeq ==
    ASSUME NEW S, NEW s \in Seq(S)
    PROVE  Range(s) = {s[i] : i \in 1..Len(s)}
BY DEF Range

\* What Append and Tail put where.
LEMMA AppendAt ==
    ASSUME NEW S, NEW s \in Seq(S), NEW x \in S
    PROVE  /\ Append(s, x) \in Seq(S) /\ Len(Append(s, x)) = Len(s) + 1 /\ Len(s) \in Nat
           /\ Append(s, x)[Len(s) + 1] = x
           /\ \A i \in 1..Len(s) : Append(s, x)[i] = s[i]
           /\ \A i \in 1..Len(Append(s, x)) : i \in 1..Len(s) \/ i = Len(s) + 1
OBVIOUS

LEMMA TailAt ==
    ASSUME NEW S, NEW s \in Seq(S), s # <<>>
    PROVE  /\ Tail(s) \in Seq(S) /\ Len(Tail(s)) = Len(s) - 1 /\ Len(s) \in Nat
           /\ Head(s) = s[1] /\ s[1] \in S /\ 1 \in 1..Len(s)
           /\ \A i \in 1..Len(Tail(s)) : Tail(s)[i] = s[i + 1] /\ i + 1 \in 2..Len(s)
<1>1. Len(s) \in Nat \ {0}
  OBVIOUS
<1>2. Tail(s) \in Seq(S) /\ Len(Tail(s)) = Len(s) - 1 /\ \A i \in 1..Len(Tail(s)) : Tail(s)[i] = s[i + 1]
  BY <1>1
<1> QED
  BY <1>1, <1>2

\* At the start nothing is anywhere.
LEMMA InitPlaces == Init => Places
BY DEF Init, Places, PipePlaces, ListPlaces, DoneOrLost

\* A new message is of a callback that is nowhere.
LEMMA AddCallbackPlaces ==
    ASSUME TypeOK, Places, NEW m \in Items, NEW p \in Priorities, AddCallback(m, p)
    PROVE  Places'
<1> DEFINE new == [item |-> m, pri |-> Legal(p)]
<1>1. new \in Message /\ new.item = m
    BY PrioritiesAssumption DEF Message, Legal, PriMax, PriNormal
<1>2. UNCHANGED <<list, ran, done>>
    BY DEF AddCallback
<1>3. pipe \in Seq(Message) /\ \A q \in Levels : list[q] \in Seq(Items)
    BY DEF TypeOK
<1>4. /\ m \notin ran \cup lost
      /\ \A i \in 1..Len(pipe) : pipe[i].item # m
      /\ \A q \in Levels : \A k \in 1..Len(list[q]) : list[q][k] # m
    <2>1. m \notin ran \cup lost /\ m \notin {x.item : x \in Range(pipe)}
          /\ \A q \in Levels : m \notin Range(list[q])
        BY DEF AddCallback, Requested
    <2>2. Range(pipe) = {pipe[i] : i \in 1..Len(pipe)}
        BY <1>3, RangeOfSeq
    <2>3. \A q \in Levels : Range(list[q]) = {list[q][k] : k \in 1..Len(list[q])}
        BY <1>3, RangeOfSeq
    <2> QED BY <2>1, <2>2, <2>3
<1> HIDE DEF new
<1>5. CASE Len(pipe) < PipeCap
    <2>1. pipe' = Append(pipe, new) /\ lost' = lost
        BY <1>5 DEF AddCallback, Post, new
    <2>2. m \notin done
        BY <1>4 DEF Places, DoneOrLost
    <2>3. PipePlaces'
        BY <1>1, <1>2, <1>3, <1>4, <2>1, <2>2, AppendAt DEF Places, PipePlaces
    <2>4. ListPlaces' /\ DoneOrLost'
        BY <1>2, <2>1 DEF Places, ListPlaces, DoneOrLost
    <2> QED BY <2>3, <2>4 DEF Places
<1>6. CASE ~(Len(pipe) < PipeCap)
    <2>1. pipe' = pipe /\ lost' = lost \cup {m}
        BY <1>6 DEF AddCallback, Post
    <2>2. PipePlaces' /\ ListPlaces'
        BY <1>2, <1>4, <2>1 DEF Places, PipePlaces, ListPlaces
    <2>3. DoneOrLost'
        BY <1>2, <1>4, <2>1 DEF Places, DoneOrLost
    <2> QED BY <2>2, <2>3 DEF Places
<1> QED BY <1>5, <1>6

\* dap_proc_queue_delete() asks with a message that is no callback.
LEMMA DeletePlaces ==
    ASSUME TypeOK, Places, Delete
    PROVE  Places'
<1> DEFINE new == [item |-> NoItem, pri |-> PriHigh]
<1>1. new \in Message /\ new.item \notin Items
    BY ItemsAssumption DEF Message, PriHigh
<1>2. UNCHANGED <<list, ran, done, lost>>
    BY DEF Delete, history
<1>3. pipe \in Seq(Message)
    BY DEF TypeOK
<1> HIDE DEF new
<1>4. CASE pipe' = Append(pipe, new)
    BY <1>1, <1>2, <1>3, <1>4, AppendAt DEF Places, PipePlaces, ListPlaces, DoneOrLost
<1>5. CASE pipe' = pipe
    BY <1>2, <1>5 DEF Places, PipePlaces, ListPlaces, DoneOrLost
<1> QED BY <1>4, <1>5 DEF Delete, Post, new

\* The first message's callback goes from the pipe to a list.
LEMMA ServeQueuePlaces ==
    ASSUME TypeOK, QueueBacked, Places, ServeQueue
    PROVE  Places'
<1>1. pipe \in Seq(Message) /\ pipe # <<>> /\ list \in [Levels -> Seq(Items)]
    BY DEF TypeOK, QueueBacked, ServeQueue
<1>2. /\ pipe' = Tail(pipe) /\ UNCHANGED <<ran, done, lost>>
      /\ Head(pipe) = pipe[1] /\ pipe[1] \in Message /\ 1 \in 1..Len(pipe)
    BY <1>1, TailAt DEF ServeQueue, history
<1>3. \A i \in 1..Len(pipe') : pipe'[i] = pipe[i + 1] /\ i + 1 \in 1..Len(pipe) /\ i + 1 # 1 /\ i \in Nat
    BY <1>1, <1>2, TailAt
<1>4. DoneOrLost'
    BY <1>2 DEF Places, DoneOrLost
<1>5. CASE Head(pipe).item = NoItem
    <2>1. list' = list
        BY <1>5 DEF ServeQueue
    <2>2. PipePlaces'
        BY <1>2, <1>3, <2>1 DEF Places, PipePlaces
    <2>3. ListPlaces'
        BY <1>2, <2>1 DEF Places, ListPlaces
    <2> QED BY <1>4, <2>2, <2>3 DEF Places
<1>6. CASE Head(pipe).item # NoItem
    <2> DEFINE m == pipe[1].item
    <2> DEFINE p == Clamp(pipe[1].pri)
    <2>1. m \in Items /\ p \in Levels
        BY <1>2, <1>6 DEF Message, Clamp, Levels, PriMax
    <2>2. list' = [list EXCEPT ![p] = Append(list[p], m)]
        BY <1>2, <1>6 DEF ServeQueue, Enlist
    <2> HIDE DEF m, p
    <2>3. /\ list'[p] = Append(list[p], m) /\ list[p] \in Seq(Items)
          /\ \A q \in Levels \ {p} : list'[q] = list[q]
        BY <1>1, <2>1, <2>2
    <2>4. /\ \A k \in 1..Len(list[p]) : list'[p][k] = list[p][k]
          /\ list'[p][Len(list[p]) + 1] = m
          /\ \A k \in 1..Len(list'[p]) : k \in 1..Len(list[p]) \/ k = Len(list[p]) + 1
        BY <2>1, <2>3, AppendAt
    <2>5. /\ m \notin done \cup lost
          /\ \A j \in 1..Len(pipe) : pipe[j].item = m => j = 1
          /\ \A q \in Levels : \A k \in 1..Len(list[q]) : list[q][k] # m
        BY <1>2, <2>1 DEF Places, PipePlaces, m
    <2>6. ASSUME NEW q \in Levels, NEW k \in 1..Len(list'[q])
          PROVE  \/ q = p /\ k = Len(list[p]) + 1 /\ list'[q][k] = m
                 \/ k \in 1..Len(list[q]) /\ list'[q][k] = list[q][k]
        BY <2>3, <2>4
    <2>7. PipePlaces'
        <3> SUFFICES ASSUME NEW i \in 1..Len(pipe'), pipe'[i].item \in Items
                     PROVE  /\ pipe'[i].item \notin ran \cup done \cup lost
                            /\ \A j \in 1..Len(pipe') : pipe'[j].item = pipe'[i].item => j = i
                            /\ \A q \in Levels : \A k \in 1..Len(list'[q]) : list'[q][k] # pipe'[i].item
            BY <1>2 DEF PipePlaces
        <3>1. pipe'[i] = pipe[i + 1] /\ i + 1 \in 1..Len(pipe) /\ i + 1 # 1
            BY <1>3
        <3>2. pipe'[i].item \notin ran \cup done \cup lost
            BY <3>1 DEF Places, PipePlaces
        <3>3. \A j \in 1..Len(pipe') : pipe'[j].item = pipe'[i].item => j = i
            <4> SUFFICES ASSUME NEW j \in 1..Len(pipe'), pipe'[j].item = pipe'[i].item
                         PROVE  j = i
                OBVIOUS
            <4>1. pipe[j + 1].item = pipe[i + 1].item /\ j + 1 \in 1..Len(pipe) /\ j \in Nat /\ i \in Nat
                BY <1>3
            <4>2. j + 1 = i + 1
                BY <3>1, <4>1 DEF Places, PipePlaces
            <4> QED BY <4>1, <4>2
        <3>4. pipe[i + 1].item # m
            BY <3>1, <2>5
        <3>5. \A q \in Levels : \A k \in 1..Len(list[q]) : list[q][k] # pipe[i + 1].item
            BY <3>1 DEF Places, PipePlaces
        <3> QED BY <2>6, <3>1, <3>2, <3>3, <3>4, <3>5
    <2>8. ListPlaces'
        <3> SUFFICES ASSUME NEW q \in Levels, NEW k \in 1..Len(list'[q])
                     PROVE  /\ list'[q][k] \notin done \cup lost
                            /\ \A r \in Levels : \A l \in 1..Len(list'[r]) :
                                 list'[r][l] = list'[q][k] => r = q /\ l = k
            BY <1>2 DEF ListPlaces
        <3>1. list'[q][k] \notin done \cup lost
            BY <2>5, <2>6 DEF Places, ListPlaces
        <3>2. ASSUME NEW r \in Levels, NEW l \in 1..Len(list'[r]), list'[r][l] = list'[q][k]
              PROVE  r = q /\ l = k
            <4>1. CASE k \in 1..Len(list[q]) /\ l \in 1..Len(list[r])
                       /\ list'[q][k] = list[q][k] /\ list'[r][l] = list[r][l]
                BY <3>2, <4>1 DEF Places, ListPlaces
            <4> QED BY <3>2, <4>1, <2>5, <2>6
        <3> QED BY <3>1, <3>2
    <2> QED BY <1>4, <2>7, <2>8 DEF Places
<1> QED BY <1>5, <1>6

\* The proc_queue goes with all it held.
LEMMA CloseQueuePlaces ==
    ASSUME TypeOK, Places, CloseQueue
    PROVE  Places'
<1>1. pipe' = <<>> /\ list' = [p \in Levels |-> <<>>] /\ UNCHANGED <<ran, done>>
    BY DEF CloseQueue
<1>2. PipePlaces' /\ ListPlaces'
    BY <1>1 DEF PipePlaces, ListPlaces
<1>3. ASSUME NEW m \in Items, m \in done PROVE m \in ran /\ m \notin lost'
    <2>1. m \in ran /\ m \notin lost
        BY <1>3 DEF Places, DoneOrLost
    <2>2. m \notin {x.item : x \in Range(pipe)}
        <3>1. pipe \in Seq(Message)
            BY DEF TypeOK
        <3>2. Range(pipe) = {pipe[i] : i \in 1..Len(pipe)}
            BY <3>1, RangeOfSeq
        <3> QED BY <1>3, <3>2 DEF Places, PipePlaces
    <2>3. ASSUME NEW p \in Levels PROVE m \notin Range(list[p])
        <3>1. list[p] \in Seq(Items)
            BY DEF TypeOK
        <3>2. Range(list[p]) = {list[p][k] : k \in 1..Len(list[p])}
            BY <3>1, RangeOfSeq
        <3> QED BY <1>3, <3>2 DEF Places, ListPlaces
    <2> QED BY <2>1, <2>2, <2>3 DEF CloseQueue
<1> QED BY <1>1, <1>2, <1>3 DEF Places, DoneOrLost

\* A callback that is run leaves its list, or goes to the end of it.
LEMMA RunPlaces ==
    ASSUME TypeOK, Places, NEW p \in Levels, Run(p)
    PROVE  Places'
<1> DEFINE m == Head(list[p])
<1>1. list[p] \in Seq(Items) /\ list[p] # <<>> /\ list \in [Levels -> Seq(Items)]
    BY DEF Run, Next2Run, TypeOK
<1>2. /\ m = list[p][1] /\ m \in Items /\ 1 \in 1..Len(list[p]) /\ Len(list[p]) \in Nat
      /\ Tail(list[p]) \in Seq(Items) /\ Len(Tail(list[p])) = Len(list[p]) - 1
      /\ \A k \in 1..Len(Tail(list[p])) : Tail(list[p])[k] = list[p][k + 1] /\ k + 1 \in 2..Len(list[p])
    BY <1>1, TailAt
<1>3. UNCHANGED <<pipe, lost>> /\ ran' = ran \cup {m}
    BY DEF Run
<1>4. /\ m \notin done \cup lost
      /\ \A q \in Levels : \A k \in 1..Len(list[q]) : list[q][k] = m => q = p /\ k = 1
    BY <1>2 DEF Places, ListPlaces
<1>5. \A i \in 1..Len(pipe) : pipe[i].item \in Items => pipe[i].item # m
    BY <1>2 DEF Places, PipePlaces
<1> HIDE DEF m
<1>6. CASE list' = [list EXCEPT ![p] = Tail(list[p])] /\ done' = done \cup {m}
    <2>1. list'[p] = Tail(list[p]) /\ \A q \in Levels \ {p} : list'[q] = list[q]
        BY <1>1, <1>6
    <2>2. ASSUME NEW q \in Levels, NEW k \in 1..Len(list'[q])
          PROVE  \/ q # p /\ k \in 1..Len(list[q]) /\ list'[q][k] = list[q][k]
                 \/ q = p /\ k \in Nat /\ k + 1 \in 2..Len(list[q]) /\ list'[q][k] = list[q][k + 1]
        <3>1. CASE q # p
            BY <2>1, <3>1
        <3>2. CASE q = p
            <4>1. k \in 1..Len(Tail(list[p])) /\ list'[p][k] = Tail(list[p])[k]
                BY <2>1, <3>2
            <4>2. k \in Nat /\ k + 1 \in 2..Len(list[p]) /\ Tail(list[p])[k] = list[p][k + 1]
                BY <1>2, <4>1
            <4> QED BY <3>2, <4>1, <4>2
        <3> QED BY <3>1, <3>2
    <2>3. ASSUME NEW q \in Levels, NEW k \in 1..Len(list'[q])
          PROVE  \E j \in 1..Len(list[q]) : /\ list'[q][k] = list[q][j] /\ list[q][j] # m
                                            /\ j = IF q = p THEN k + 1 ELSE k
        <3>1. CASE q # p
            BY <2>2, <3>1, <1>4
        <3>2. CASE q = p
            <4>1. k + 1 \in 1..Len(list[p]) /\ k + 1 # 1 /\ list'[p][k] = list[p][k + 1]
                BY <2>2, <3>2, <1>2
            <4>2. list[p][k + 1] # m
                BY <4>1, <1>4
            <4> QED BY <3>2, <4>1, <4>2
        <3> QED BY <3>1, <3>2
    <2>4. PipePlaces'
        BY <1>3, <1>5, <1>6, <2>3 DEF Places, PipePlaces
    <2>5. ListPlaces'
        <3>1. ASSUME NEW q \in Levels, NEW k \in 1..Len(list'[q])
              PROVE  list'[q][k] \notin done' \cup lost'
            BY <1>3, <1>6, <2>3 DEF Places, ListPlaces
        <3>2. ASSUME NEW q \in Levels, NEW k \in 1..Len(list'[q]),
                     NEW r \in Levels, NEW l \in 1..Len(list'[r]), list'[r][l] = list'[q][k]
              PROVE  r = q /\ l = k
            <4>1. PICK j \in 1..Len(list[q]) : list'[q][k] = list[q][j] /\ j = IF q = p THEN k + 1 ELSE k
                BY <2>3
            <4>2. PICK i \in 1..Len(list[r]) : list'[r][l] = list[r][i] /\ i = IF r = p THEN l + 1 ELSE l
                BY <2>3
            <4>3. r = q /\ i = j
                BY <3>2, <4>1, <4>2 DEF Places, ListPlaces
            <4>4. k \in Nat /\ l \in Nat
                BY <2>2
            <4> QED BY <4>1, <4>2, <4>3, <4>4
        <3> QED BY <3>1, <3>2 DEF ListPlaces
    <2>6. DoneOrLost'
        BY <1>3, <1>4, <1>6 DEF Places, DoneOrLost
    <2> QED BY <2>4, <2>5, <2>6 DEF Places
<1>7. CASE list' = [list EXCEPT ![p] = Append(Tail(list[p]), m)] /\ done' = done
    <2> DEFINE n == Len(list[p])
    <2>1. list'[p] = Append(Tail(list[p]), m) /\ \A q \in Levels \ {p} : list'[q] = list[q]
        BY <1>1, <1>7
    <2>2. /\ Len(list'[p]) = n /\ list'[p][n] = m
          /\ \A k \in 1..(n - 1) : list'[p][k] = list[p][k + 1]
        <3>1. /\ Len(Append(Tail(list[p]), m)) = n
              /\ Append(Tail(list[p]), m)[n] = m
              /\ \A k \in 1..(n - 1) : Append(Tail(list[p]), m)[k] = Tail(list[p])[k]
            BY <1>2, AppendAt
        <3> QED BY <1>2, <2>1, <3>1
    <2> DEFINE Was(q, k) == IF q = p THEN IF k = n THEN 1 ELSE k + 1 ELSE k
    <2>3. ASSUME NEW q \in Levels, NEW k \in 1..Len(list'[q])
          PROVE  Was(q, k) \in 1..Len(list[q]) /\ list'[q][k] = list[q][Was(q, k)]
        <3>1. CASE q # p
            BY <2>1, <3>1
        <3>2. CASE q = p /\ k = n
            BY <1>2, <2>2, <3>2
        <3>3. CASE q = p /\ k # n
            <4>1. k \in 1..(n - 1) /\ k + 1 \in 1..n
                BY <1>2, <2>2, <3>3
            <4> QED BY <4>1, <2>2, <3>3
        <3> QED BY <3>1, <3>2, <3>3
    <2>4. ASSUME NEW q \in Levels, NEW k \in 1..Len(list'[q]), NEW l \in 1..Len(list'[q]), Was(q, k) = Was(q, l)
          PROVE  k = l
        <3>1. CASE q # p
            BY <2>4, <3>1
        <3>2. CASE q = p
            <4>1. k \in 1..n /\ l \in 1..n /\ n \in Nat
                BY <1>2, <2>2, <3>2
            <4> HIDE DEF n
            <4> QED BY <2>4, <3>2, <4>1
        <3> QED BY <3>1, <3>2
    <2> HIDE DEF Was
    <2>5. PipePlaces'
        BY <1>3, <1>5, <1>7, <2>3 DEF Places, PipePlaces
    <2>6. ListPlaces'
        <3>1. ASSUME NEW q \in Levels, NEW k \in 1..Len(list'[q])
              PROVE  list'[q][k] \notin done' \cup lost'
            <4>1. \A j \in 1..Len(list[q]) : list[q][j] \notin done \cup lost
                BY DEF Places, ListPlaces
            <4>2. list'[q][k] \notin done \cup lost
                BY <2>3, <4>1
            <4> QED BY <1>3, <1>7, <4>2
        <3>2. ASSUME NEW q \in Levels, NEW k \in 1..Len(list'[q]),
                     NEW r \in Levels, NEW l \in 1..Len(list'[r]), list'[r][l] = list'[q][k]
              PROVE  r = q /\ l = k
            <4>1. list[r][Was(r, l)] = list[q][Was(q, k)]
                  /\ Was(r, l) \in 1..Len(list[r]) /\ Was(q, k) \in 1..Len(list[q])
                BY <2>3, <3>2
            <4>2. r = q /\ Was(r, l) = Was(q, k)
                BY <4>1 DEF Places, ListPlaces
            <4> QED BY <2>4, <4>2
        <3> QED BY <3>1, <3>2 DEF ListPlaces
    <2>7. DoneOrLost'
        BY <1>3, <1>7 DEF Places, DoneOrLost
    <2> QED BY <2>5, <2>6, <2>7 DEF Places
<1> QED BY <1>6, <1>7 DEF Run, PutBack, m

\* Every step leaves each callback in one place.
LEMMA StepPlaces ==
    ASSUME IInv, Places, [Next]_vars
    PROVE  Places'
<1>1. TypeOK /\ QueueBacked
    BY DEF IInv
<1>2. CASE Callers
    BY <1>1, <1>2, AddCallbackPlaces, DeletePlaces DEF Callers
<1>3. CASE ServeQueue \/ CloseQueue \/ RunSome
    BY <1>1, <1>3, ServeQueuePlaces, CloseQueuePlaces, RunPlaces DEF RunSome
<1>4. CASE Poll \/ ServeEvent \/ Return \/ EndPass \/ UNCHANGED vars
    BY <1>4 DEF Poll, ServeEvent, Return, EndPass, vars, history, Places, PipePlaces, ListPlaces,
                DoneOrLost
<1> QED BY <1>2, <1>3, <1>4 DEF Next, ThreadStep

\* Positions say what OnePlace says with sets and cardinalities.
LEMMA PlacesOnePlace == TypeOK /\ Places => OnePlace
<1> SUFFICES ASSUME TypeOK, Places, NEW m \in Items
             PROVE  /\ m \in done => m \notin lost
                    /\ m \in done \cup lost => \A p \in Levels : m \notin Range(list[p])
                    /\ \A p \in Levels : Times(list[p], m) <= 1
                    /\ \A p, q \in Levels : m \in Range(list[p]) \cap Range(list[q]) => p = q
                    /\ \A i \in DOMAIN pipe : pipe[i].item = m =>
                          /\ m \notin ran \cup lost
                          /\ \A p \in Levels : m \notin Range(list[p])
    BY DEF OnePlace
<1>1. \A p \in Levels : /\ Range(list[p]) = {list[p][k] : k \in 1..Len(list[p])}
                        /\ DOMAIN list[p] = 1..Len(list[p])
    <2>1. \A p \in Levels : list[p] \in Seq(Items)
        BY DEF TypeOK
    <2> QED BY <2>1, RangeOfSeq
<1>2. m \in done => m \notin lost
    BY DEF Places, DoneOrLost
<1>3. m \in done \cup lost => \A p \in Levels : m \notin Range(list[p])
    BY <1>1 DEF Places, ListPlaces
<1>4. ASSUME NEW p \in Levels PROVE Times(list[p], m) <= 1
    <2> DEFINE at_m == {i \in DOMAIN list[p] : list[p][i] = m}
    <2>1. CASE at_m = {}
        BY <2>1, FS_EmptySet DEF Times
    <2>2. CASE at_m # {}
        <3>1. PICK k \in at_m : TRUE
            BY <2>2
        <3>2. at_m = {k}
            BY <1>1, <3>1 DEF Places, ListPlaces
        <3> QED BY <3>2, FS_Singleton DEF Times
    <2> QED BY <2>1, <2>2
<1>5. ASSUME NEW p \in Levels, NEW q \in Levels, m \in Range(list[p]) \cap Range(list[q])
      PROVE  p = q
    <2>1. PICK k \in 1..Len(list[p]) : list[p][k] = m
        BY <1>1, <1>5
    <2>2. PICK l \in 1..Len(list[q]) : list[q][l] = m
        BY <1>1, <1>5
    <2> QED BY <2>1, <2>2 DEF Places, ListPlaces
<1>6. ASSUME NEW i \in DOMAIN pipe, pipe[i].item = m
      PROVE  m \notin ran \cup lost /\ \A p \in Levels : m \notin Range(list[p])
    <2>1. i \in 1..Len(pipe)
        BY DEF TypeOK
    <2>2. m \notin ran \cup lost /\ \A p \in Levels : \A k \in 1..Len(list[p]) : list[p][k] # m
        BY <1>6, <2>1 DEF Places, PipePlaces
    <2>3. ASSUME NEW p \in Levels, m \in Range(list[p]) PROVE FALSE
        <3>1. PICK k \in 1..Len(list[p]) : list[p][k] = m
            BY <1>1, <2>3
        <3> QED BY <2>2, <3>1
    <2> QED BY <2>2, <2>3
<1> QED BY <1>2, <1>3, <1>4, <1>5, <1>6

\* A callback is asked for, enlisted, finished or lost, and never two of these:
\* it is not run after it has finished, nor enlisted twice.
THEOREM CallbackInOnePlace == Spec => []OnePlace
<1>1. Init => Places
    BY InitPlaces
<1>2. IInv /\ Places /\ [Next]_vars => Places'
    BY StepPlaces
<1>3. IInv => TypeOK
    BY DEF IInv
<1> QED BY <1>1, <1>2, <1>3, AlwaysIInv, PlacesOnePlace, PTL DEF Spec
=============================================================================
