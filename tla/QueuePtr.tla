------------------------------ MODULE QueuePtr ------------------------------
(***************************************************************************)
(* The queues of one context, as dap_events_socket_queue_ptr_send() and    *)
(* dap_events_socket_queue_proc_input_unsafe() implement them on Linux: a  *)
(* sender allocates a box with the pointer and an aiocb and starts an      *)
(* asynchronous write of the box into a pipe; the context's thread reads   *)
(* the box's contents, runs the callback, and frees box and aiocb, or puts *)
(* the aiocb on the context's garbage list if its write is still going on. *)
(***************************************************************************)
EXTENDS Integers, Sequences, FiniteSets, Functions

CONSTANTS
    Queues,    \* queue esockets of the context
    Msgs,      \* pointers, each sent once; also names of their boxes and aiocbs
    PipeCap,   \* packets a pipe holds
    NoMsg      \* the AIO helper is not in a write

ASSUME MsgsAssumption == NoMsg \notin Msgs
ASSUME CapAssumption  == PipeCap \in Nat \ {0}

VARIABLES
    todo,      \* per queue: accepted writes the AIO helper has not started on
    writing,   \* per queue: write done whose aiocb still says EINPROGRESS
    pipe,      \* per queue: boxes in the pipe
    box,       \* memory of each box: none, used, freed
    aiocb,     \* memory of each aiocb
    garbage,   \* context->garbage_list
    got,       \* per queue: pointers handed to the callback
    lost       \* sends that failed, at once or in the helper

io   == <<todo, writing, pipe>>
mem  == <<box, aiocb, garbage>>
vars == <<io, mem, got, lost>>

-----------------------------------------------------------------------------
(***************************************************************************)
(* The asynchronous I/O of the C library, as the code relies on it         *)
(***************************************************************************)

\* aio_error(m) == EINPROGRESS
InProgress(m) == \E q \in Queues : m \in Range(todo[q]) \/ m = writing[q]

\* Variant: a write that finds the pipe full is tried again after the others.
WriteAgain(q) ==
    /\ writing[q] = NoMsg
    /\ todo[q] # <<>>
    /\ LET m == Head(todo[q]) IN
        IF Len(pipe[q]) < PipeCap
        THEN /\ todo' = [todo EXCEPT ![q] = Tail(@)]
             /\ pipe' = [pipe EXCEPT ![q] = Append(@, m)]
             /\ writing' = [writing EXCEPT ![q] = m]
        ELSE /\ todo' = [todo EXCEPT ![q] = Append(Tail(@), m)]
             /\ UNCHANGED <<pipe, writing>>
    /\ UNCHANGED <<mem, got, lost>>

\* Writes to one descriptor are done one after the other.
Write(q) ==
    /\ writing[q] = NoMsg
    /\ todo[q] # <<>>
    /\ todo' = [todo EXCEPT ![q] = Tail(@)]
    /\ LET m == Head(todo[q]) IN
        IF Len(pipe[q]) < PipeCap
        THEN /\ pipe' = [pipe EXCEPT ![q] = Append(@, m)]
             /\ writing' = [writing EXCEPT ![q] = m]
             /\ UNCHANGED lost
        ELSE /\ lost' = lost \cup {m}
             /\ UNCHANGED <<pipe, writing>>
    /\ UNCHANGED <<mem, got>>

Finish(q) ==
    /\ writing[q] # NoMsg
    /\ writing' = [writing EXCEPT ![q] = NoMsg]
    /\ UNCHANGED <<todo, pipe, mem, got, lost>>

-----------------------------------------------------------------------------

Allocate(m) ==
    /\ box[m] = "none"
    /\ box' = [box EXCEPT ![m] = "used"]
    /\ aiocb' = [aiocb EXCEPT ![m] = "used"]

\* dap_events_socket_queue_ptr_send()
QueuePtrSend(q, m) ==
    /\ Allocate(m)
    /\ todo' = [todo EXCEPT ![q] = Append(@, m)]
    /\ UNCHANGED <<writing, pipe, garbage, got, lost>>

\* The same, when aio_write() refuses: box and aiocb are not freed.
QueuePtrSendFails(m) ==
    /\ Allocate(m)
    /\ lost' = lost \cup {m}
    /\ UNCHANGED <<io, garbage, got>>

\* Variant: the aiocb's state is not asked for.
KeepNever(m) == FALSE

\* Whether the aiocb of a message just read must be kept.
Keep(m) == InProgress(m)

\* Variant: the aiocb of an unfinished write is forgotten.
ListWithForgotten(m) == garbage

\* The garbage list after dap_slist_add2tail(), if it is called.
ListWith(m) == IF Keep(m) THEN Append(garbage, m) ELSE garbage

\* Elements the while loop takes off the garbage list: it stops at the first
\* whose write is still going on.
Drained(g) == {j \in DOMAIN g : \A i \in 1..j : ~InProgress(g[i])}

\* Variant: the callback is put off until the write is finished.
HandOverFinished(q, m) == got' = [got EXCEPT ![q] = IF Keep(m) THEN @ ELSE Append(@, m)]

\* callbacks.queue_ptr_callback(), first of all.
HandOver(q, m) == got' = [got EXCEPT ![q] = Append(@, m)]

\* dap_events_socket_queue_proc_input_unsafe()
QueueProcInput(q) ==
    /\ pipe[q] # <<>>
    /\ LET m    == Head(pipe[q])
           list == ListWith(m)
           free == {list[j] : j \in Drained(list)} \cup {d \in {m} : ~Keep(d)}
       IN  /\ HandOver(q, m)
           /\ garbage' = SubSeq(list, Cardinality(Drained(list)) + 1, Len(list))
           /\ aiocb' = [d \in Msgs |-> IF d \in free THEN "freed" ELSE aiocb[d]]
           /\ box' = [box EXCEPT ![m] = "freed"]
    /\ pipe' = [pipe EXCEPT ![q] = Tail(@)]
    /\ UNCHANGED <<todo, writing, lost>>

-----------------------------------------------------------------------------

Init ==
    /\ todo = [q \in Queues |-> <<>>]
    /\ writing = [q \in Queues |-> NoMsg]
    /\ pipe = [q \in Queues |-> <<>>]
    /\ box = [m \in Msgs |-> "none"]
    /\ aiocb = [m \in Msgs |-> "none"]
    /\ garbage = <<>>
    /\ got = [q \in Queues |-> <<>>]
    /\ lost = {}

Helper(q) == Write(q) \/ Finish(q)

Next ==
    \/ \E q \in Queues, m \in Msgs : QueuePtrSend(q, m)
    \/ \E m \in Msgs : QueuePtrSendFails(m)
    \/ \E q \in Queues : Helper(q) \/ QueueProcInput(q)

Spec == Init /\ [][Next]_vars

\* The AIO helper goes on, and poll() reports a pipe that is not empty.
Fairness == \A q \in Queues : WF_vars(Helper(q)) /\ WF_vars(QueueProcInput(q))

FairSpec == Spec /\ Fairness

-----------------------------------------------------------------------------
(***************************************************************************)
(* Properties                                                              *)
(***************************************************************************)

Memory == {"none", "used", "freed"}

\* Queues, memory and the garbage list keep their types.
TypeOK ==
    /\ todo \in [Queues -> Seq(Msgs)]
    /\ writing \in [Queues -> Msgs \cup {NoMsg}]
    /\ pipe \in [Queues -> Seq(Msgs)]
    /\ box \in [Msgs -> Memory]
    /\ aiocb \in [Msgs -> Memory]
    /\ garbage \in Seq(Msgs)
    /\ got \in [Queues -> Seq(Msgs)]
    /\ lost \in SUBSET Msgs

\* What the AIO helper still works on is not freed under its hands: the aiocb
\* of an unfinished write, and the box of one that has not read it.
HelperSafe ==
    \A q \in Queues :
        /\ writing[q] # NoMsg => aiocb[writing[q]] = "used"
        /\ \A i \in DOMAIN todo[q] : aiocb[todo[q][i]] = "used" /\ box[todo[q][i]] = "used"

\* Box and aiocb of a message are freed by its reader, once: what waits in a
\* pipe is allocated, what waits on the garbage list is allocated and there
\* once, and nothing but a failed send stays allocated otherwise.
Reclaimed ==
    /\ \A q \in Queues : \A i \in DOMAIN pipe[q] :
          box[pipe[q][i]] = "used" /\ aiocb[pipe[q][i]] = "used"
    /\ \A i, j \in DOMAIN garbage :
          aiocb[garbage[i]] = "used" /\ (garbage[i] = garbage[j] => i = j)
    /\ \A m \in Msgs : aiocb[m] = "used" =>
          \/ m \in lost \cup Range(garbage)
          \/ \E q \in Queues : m \in Range(todo[q]) \cup Range(pipe[q])

\* The pointers on their way through each queue, in the order of the sends.
Fifo == INSTANCE LossyFifo WITH
    pending <- [q \in Queues |-> pipe[q] \o todo[q]],
    used    <- {m \in Msgs : box[m] # "none"}

\* The queue implements its promise: nothing handed over twice, or out of the
\* order of the sends, whatever the helper and the garbage list do.
ImplementsFifo == Fifo!Spec

\* A write that was accepted reaches the callback, or meets a full pipe.
AcceptedArrives ==
    \A q \in Queues, m \in Msgs : m \in Range(todo[q]) ~> m \in Range(got[q]) \cup lost
=============================================================================
