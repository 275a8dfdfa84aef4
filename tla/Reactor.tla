------------------------------- MODULE Reactor -------------------------------
(***************************************************************************)
(* The worker reactor of the DAP SDK: worker threads that own event        *)
(* sockets (esockets), and the queues through which other threads ask a    *)
(* worker to add, delete, write to or hand over an esocket.                *)
(* Sources: modules/io/dap_worker.c, dap_context.c, dap_events_socket.c    *)
(* in the Linux configuration (poll(), pipe queues written with POSIX AIO).*)
(*                                                                         *)
(* A worker blocks in poll(), then serves the ready slots of its poll      *)
(* array in index order (one pass), then squeezes removed slots out of the *)
(* array.  The slots of its own service esockets (queues and the activity  *)
(* timer) come first and never move; poll[w] is the rest of the array.     *)
(***************************************************************************)
EXTENDS Integers, Sequences, FiniteSets, Functions

CONSTANTS
    Workers,      \* worker threads
    Esockets,     \* client esockets the application may create
    Msgs,         \* payloads an application thread may write, each once
    Greeting,     \* payload a new_callback writes
    Greeters,     \* esockets whose new_callback may write Greeting
    Once,         \* esockets created with DAP_SOCK_REASSIGN_ONCE
    QueueCap,     \* packets a queue pipe holds
    MaxRequests,  \* bound: delete and reassign requests sent in all
    NoWorker,     \* context == NULL
    Null          \* poll_esocket[n] == NULL, fd == -1

ASSUME WorkersAssumption   == NoWorker \notin Workers
ASSUME EsocketsAssumption  == Null \notin Esockets /\ IsFiniteSet(Esockets)
ASSUME GreetingAssumption  == Greeting \notin Msgs /\ Greeters \subseteq Esockets
ASSUME OnceAssumption      == Once \subseteq Esockets
ASSUME BoundsAssumption    == QueueCap \in Nat \ {0} /\ MaxRequests \in Nat

VARIABLES
    \* Esocket fields
    life,      \* fresh (wrapped, not handed over), live, freed
    owner,     \* a_es->context
    index,     \* a_es->poll_index
    init,      \* a_es->is_initalized
    moved,     \* a_es->was_reassigned
    closing,   \* DAP_SOCK_SIGNAL_CLOSE
    want,      \* DAP_SOCK_READY_TO_WRITE
    armed,     \* POLLOUT in the events of the esocket's poll slot
    out,       \* payloads in buf_out
    idle,      \* last_time_active is older than s_connection_timeout
    \* Context fields
    table,     \* context->esockets, the hash table
    count,     \* context->event_sockets_count
    poll,      \* context->poll_esocket from the first client slot on
    inPass,    \* the worker is between poll() and the end of its for loop
    ready,     \* slots of the current pass still to be served
    \* Queues, per worker
    newQ, delQ, ioQ, reQ,
    \* The application and the peers
    home,      \* worker the application was last told the esocket is on
    asked,     \* delete and reassign requests sent so far
    issued,    \* payloads written through the queue, in order
    sent,      \* payloads the peer received, in order
    dropped    \* esockets whose add message met a full pipe

flags    == <<closing, want, armed, out, idle>>
socket   == <<life, owner, index, init, moved>>
context  == <<table, count, poll>>
pass     == <<inPass, ready>>
queues   == <<newQ, delQ, ioQ, reQ>>
app      == <<home, asked, issued>>
vars     == <<socket, flags, context, pass, queues, app, sent, dropped>>

-----------------------------------------------------------------------------
(***************************************************************************)
(* Slots and queues                                                        *)
(***************************************************************************)

SlotNew      == 1
SlotDelete   == 2
SlotIo       == 3
SlotReassign == 4
SlotTimer    == 5
ServiceSlots == 1..5

\* Array index of the i-th client slot.
ClientSlot(i) == 5 + i

IoMessages       == [es : Esockets, msg : Msgs]
ReassignMessages == [es : Esockets, to : Workers]

Full(q, w) == Len(q[w]) >= QueueCap

\* aio_write() accepts every request, and its result is never collected: a
\* message that finds the pipe full is gone and the sender sees success.
Send(q, w, m) == [q EXCEPT ![w] = IF Full(q, w) THEN @ ELSE Append(@, m)]

Pop(q, w) == [q EXCEPT ![w] = Tail(@)]

Holds(q, w, e) == \E i \in DOMAIN q[w] : q[w][i] = e

\* Slots poll() may report: a queue with a message, the activity timer, any
\* client (its peer decides), but no removed slot.
Pollable(w) ==
       {s \in {SlotNew} : newQ[w] # <<>>}
  \cup {s \in {SlotDelete} : delQ[w] # <<>>}
  \cup {s \in {SlotIo} : ioQ[w] # <<>>}
  \cup {s \in {SlotReassign} : reQ[w] # <<>>}
  \cup {SlotTimer}
  \cup {ClientSlot(i) : i \in {j \in DOMAIN poll[w] : poll[w][j] # Null}}

\* The for loop of s_thread_loop() has reached slot s.
Serving(w, s) == inPass[w] /\ s \in ready[w] /\ \A r \in ready[w] : s <= r

Served(w, s) == /\ ready' = [ready EXCEPT ![w] = @ \ {s}]
                /\ UNCHANGED inPass

-----------------------------------------------------------------------------
(***************************************************************************)
(* Context operations                                                      *)
(***************************************************************************)

\* Variant: the slot is polled for input only, whatever the flags say.
ContextAddInputOnly(w, e) ==
    /\ poll'  = [poll EXCEPT ![w] = Append(@, e)]
    /\ index' = [index EXCEPT ![e] = Len(poll[w]) + 1]
    /\ owner' = [owner EXCEPT ![e] = w]
    /\ table' = [table EXCEPT ![w] = @ \cup {e}]
    /\ count' = [count EXCEPT ![w] = @ + 1]
    /\ armed' = [armed EXCEPT ![e] = FALSE]

\* dap_context_add(): the slot's events are computed from the flags.  Esockets
\* have a socket here (neither 0 nor INVALID_SOCKET, which the table leaves out).
ContextAdd(w, e) ==
    /\ poll'  = [poll EXCEPT ![w] = Append(@, e)]
    /\ index' = [index EXCEPT ![e] = Len(poll[w]) + 1]
    /\ owner' = [owner EXCEPT ![e] = w]
    /\ table' = [table EXCEPT ![w] = @ \cup {e}]
    /\ count' = [count EXCEPT ![w] = @ + 1]
    /\ armed' = [armed EXCEPT ![e] = want[e]]

\* Variant: the array is shortened at once, in the middle of a pass.
ContextRemoveAtOnce(w, E) ==
    /\ poll'  = [poll EXCEPT ![w] = SelectSeq(@, LAMBDA e : e \notin E)]
    /\ owner' = [e \in Esockets |-> IF e \in E THEN NoWorker ELSE owner[e]]
    /\ table' = [table EXCEPT ![w] = @ \ E]
    /\ count' = [count EXCEPT ![w] = @ - Cardinality(E)]
    /\ UNCHANGED index

\* dap_context_remove() of every esocket of E, all of them on worker w.
ContextRemove(w, E) ==
    /\ poll'  = [poll EXCEPT ![w] =
                    [i \in DOMAIN @ |-> IF \E e \in E : index[e] = i THEN Null ELSE @[i]]]
    /\ owner' = [e \in Esockets |-> IF e \in E THEN NoWorker ELSE owner[e]]
    /\ table' = [table EXCEPT ![w] = @ \ E]
    /\ count' = [count EXCEPT ![w] = @ - Cardinality(E)]
    /\ UNCHANGED index

\* dap_events_socket_remove_and_delete_unsafe() of every esocket of E.
RemoveAndDelete(w, E) ==
    /\ ContextRemove(w, E)
    /\ life' = [e \in Esockets |-> IF e \in E THEN "freed" ELSE life[e]]

\* Squeezing the array: the slots still in use, in their order.
Used(s)     == {i \in DOMAIN s : s[i] # Null}
Rank(s, i)  == Cardinality({j \in Used(s) : j <= i})
\* Variant: the last slot kept is not copied and holds what realloc() left.
CompressShort(s) == [r \in 1..Cardinality(Used(s)) |->
                        IF r = Len(s) THEN s[r] ELSE
                        IF r = Cardinality(Used(s)) THEN "garbage" ELSE
                        s[CHOOSE i \in Used(s) : Rank(s, i) = r]]

Compress(s) == [r \in 1..Cardinality(Used(s)) |->
                    s[CHOOSE i \in Used(s) : Rank(s, i) = r]]

-----------------------------------------------------------------------------
(***************************************************************************)
(* Application threads: each action is one call of an _mt function         *)
(***************************************************************************)

\* dap_worker_add_events_socket() of an esocket wrapped with wrap_no_add.
AddMt(w, e) ==
    /\ life[e] = "fresh"
    /\ life' = [life EXCEPT ![e] = "live"]
    /\ home' = [home EXCEPT ![e] = w]
    /\ newQ' = Send(newQ, w, e)
    /\ dropped' = IF Full(newQ, w) THEN dropped \cup {e} ELSE dropped
    /\ UNCHANGED <<owner, index, init, moved, flags, context, pass, delQ, ioQ,
                   reQ, asked, issued, sent>>

Ask(e) == /\ life[e] # "fresh"
          /\ asked < MaxRequests
          /\ asked' = asked + 1

\* dap_events_socket_remove_and_delete_mt()
DeleteMt(e) ==
    /\ Ask(e)
    /\ delQ' = Send(delQ, home[e], e)
    /\ UNCHANGED <<socket, flags, context, pass, newQ, ioQ, reQ, home, issued,
                   sent, dropped>>

\* dap_events_socket_reassign_between_workers_mt()
ReassignMt(e, to) ==
    /\ Ask(e)
    /\ reQ' = Send(reQ, home[e], [es |-> e, to |-> to])
    /\ UNCHANGED <<socket, flags, context, pass, newQ, delQ, ioQ, home, issued,
                   sent, dropped>>

\* dap_events_socket_write_mt()
WriteMt(e, m) ==
    /\ life[e] # "fresh"
    /\ \A d \in Esockets : m \notin Range(issued[d])
    /\ issued' = [issued EXCEPT ![e] = Append(@, m)]
    /\ ioQ' = Send(ioQ, home[e], [es |-> e, msg |-> m])
    /\ UNCHANGED <<socket, flags, context, pass, newQ, delQ, reQ, home, asked,
                   sent, dropped>>

-----------------------------------------------------------------------------
(***************************************************************************)
(* Worker threads                                                          *)
(***************************************************************************)

\* poll() returns.  A queue whose write the AIO helper thread has not done
\* yet is not reported, hence any non-empty subset.
Poll(w) ==
    /\ ~inPass[w]
    /\ \E r \in SUBSET Pollable(w) \ {{}} : ready' = [ready EXCEPT ![w] = r]
    /\ inPass' = [inPass EXCEPT ![w] = TRUE]
    /\ UNCHANGED <<socket, flags, context, queues, app, sent, dropped>>

\* Whether a new_callback is called that writes.
Greets(e) == IF ~init[e] /\ e \in Greeters THEN BOOLEAN ELSE {FALSE}

\* The new_callback runs before is_initalized is set, so that its
\* dap_events_socket_write_unsafe() raises the flag and not the slot's POLLOUT.
FirstInstall(e) ==
    \E greets \in Greets(e) :
        /\ init' = [init EXCEPT ![e] = TRUE]
        /\ out'  = [out EXCEPT ![e] = IF greets THEN Append(@, Greeting) ELSE @]
        /\ want' = [want EXCEPT ![e] = @ \/ greets]

\* Variant: an initialised esocket is taken for one that is present already.
ServeNewOnlyUninitialised(w) ==
    /\ Serving(w, SlotNew)
    /\ newQ' = Pop(newQ, w)
    /\ LET e == Head(newQ[w]) IN
        IF init[e]
        THEN UNCHANGED <<socket, flags, context, home>>
        ELSE /\ ContextAdd(w, e)
             /\ FirstInstall(e)
             /\ idle' = [idle EXCEPT ![e] = FALSE]
             /\ home' = [home EXCEPT ![e] = w]
             /\ UNCHANGED <<life, moved, closing>>
    /\ Served(w, SlotNew)
    /\ UNCHANGED <<delQ, ioQ, reQ, asked, issued, sent, dropped>>

\* s_queue_add_es_callback()
ServeNew(w) ==
    /\ Serving(w, SlotNew)
    /\ newQ' = Pop(newQ, w)
    /\ LET e == Head(newQ[w]) IN
        IF e \in table[w]
        THEN UNCHANGED <<socket, flags, context, home>>
        ELSE /\ ContextAdd(w, e)
             /\ FirstInstall(e)
             /\ idle' = [idle EXCEPT ![e] = FALSE]
             /\ home' = [home EXCEPT ![e] = w]
             /\ UNCHANGED <<life, moved, closing>>
    /\ Served(w, SlotNew)
    /\ UNCHANGED <<delQ, ioQ, reQ, asked, issued, sent, dropped>>

\* Variant: the esocket is freed through its pointer, found or not.
ServeDeleteUnfound(w) ==
    /\ Serving(w, SlotDelete)
    /\ delQ' = Pop(delQ, w)
    /\ ContextRemove(w, {Head(delQ[w])} \cap table[w])
    /\ life' = [life EXCEPT ![Head(delQ[w])] = "freed"]
    /\ Served(w, SlotDelete)
    /\ UNCHANGED <<init, moved, flags, newQ, ioQ, reQ, app, sent, dropped>>

\* Variant: the esocket is only flagged for closing (dap_worker.c:195).
ServeDeleteFlagOnly(w) ==
    /\ Serving(w, SlotDelete)
    /\ delQ' = Pop(delQ, w)
    /\ closing' = [closing EXCEPT ![Head(delQ[w])] = @ \/ Head(delQ[w]) \in table[w]]
    /\ Served(w, SlotDelete)
    /\ UNCHANGED <<socket, context, want, armed, out, idle, newQ, ioQ, reQ, app,
                   sent, dropped>>

\* s_queue_delete_es_callback()
ServeDelete(w) ==
    /\ Serving(w, SlotDelete)
    /\ delQ' = Pop(delQ, w)
    /\ RemoveAndDelete(w, {Head(delQ[w])} \cap table[w])
    /\ Served(w, SlotDelete)
    /\ UNCHANGED <<init, moved, flags, newQ, ioQ, reQ, app, sent, dropped>>

\* s_queue_es_io_callback() of a write: the write flag is raised first, then
\* the payload is appended unless the esocket is closing.
ServeIo(w) ==
    /\ Serving(w, SlotIo)
    /\ ioQ' = Pop(ioQ, w)
    /\ LET e == Head(ioQ[w]).es
           m == Head(ioQ[w]).msg
       IN  IF e \notin table[w]
           THEN UNCHANGED <<want, armed, out>>
           ELSE /\ want'  = [want EXCEPT ![e] = TRUE]
                /\ armed' = [armed EXCEPT ![e] = @ \/ ~want[e]]
                /\ out'   = [out EXCEPT ![e] = IF closing[e] THEN @ ELSE Append(@, m)]
    /\ Served(w, SlotIo)
    /\ UNCHANGED <<socket, closing, idle, context, newQ, delQ, reQ, app, sent, dropped>>

\* Variant: DAP_SOCK_REASSIGN_ONCE is not looked at.
DeclinesNever(e) == FALSE

DeclinesReassign(e) == moved[e] /\ e \in Once

\* Variant: the esocket stays in its old context.
ServeReassignKeep(w) ==
    /\ Serving(w, SlotReassign)
    /\ reQ' = Pop(reQ, w)
    /\ LET e  == Head(reQ[w]).es
           to == Head(reQ[w]).to
       IN  IF e \notin table[w] \/ DeclinesReassign(e)
           THEN UNCHANGED <<moved, newQ, dropped>>
           ELSE /\ moved' = [moved EXCEPT ![e] = TRUE]
                /\ newQ'  = Send(newQ, to, e)
                /\ dropped' = IF Full(newQ, to) THEN dropped \cup {e} ELSE dropped
    /\ Served(w, SlotReassign)
    /\ UNCHANGED <<life, owner, index, init, context, flags, delQ, ioQ, app, sent>>

\* s_queue_es_reassign_callback()
ServeReassign(w) ==
    /\ Serving(w, SlotReassign)
    /\ reQ' = Pop(reQ, w)
    /\ LET e  == Head(reQ[w]).es
           to == Head(reQ[w]).to
       IN  IF e \notin table[w] \/ DeclinesReassign(e)
           THEN UNCHANGED <<owner, index, moved, context, newQ, dropped>>
           ELSE /\ ContextRemove(w, {e})
                /\ moved' = [moved EXCEPT ![e] = TRUE]
                /\ newQ'  = Send(newQ, to, e)
                /\ dropped' = IF Full(newQ, to) THEN dropped \cup {e} ELSE dropped
    /\ Served(w, SlotReassign)
    /\ UNCHANGED <<life, init, flags, delQ, ioQ, app, sent>>

\* Esockets of w ahead of e in the hash table: it keeps insertion order, and
\* so does the poll array.
Ahead(w, e) == {d \in table[w] : index[d] < index[e]}

Expired(w) == {e \in table[w] : idle[e] /\ ~closing[e]}

\* Variant: iterations counted from one.
ReachedFromOne(w, e) == Cardinality(Ahead(w, e)) + 1
                    < count[w] - Cardinality(Ahead(w, e) \cap Expired(w))

\* The scan of s_socket_all_check_activity() gets as far as e.  It counts its
\* iterations and compares them with event_sockets_count, which falls each
\* time the scan itself closes an esocket.
Reached(w, e) == Cardinality(Ahead(w, e))
                    < count[w] - Cardinality(Ahead(w, e) \cap Expired(w))

\* It stops short: "Something wrong with context's esocket table".
Alarm(w) == \E e \in table[w] : ~Reached(w, e)

\* The activity timer: s_socket_all_check_activity(), re-armed.
ServeTimer(w) ==
    /\ Serving(w, SlotTimer)
    /\ RemoveAndDelete(w, {e \in Expired(w) : Reached(w, e)})
    /\ Served(w, SlotTimer)
    /\ UNCHANGED <<init, moved, flags, queues, app, sent, dropped>>

\* A client slot removed earlier in the same pass.
SkipSlot(w, i) ==
    /\ Serving(w, ClientSlot(i))
    /\ i \in DOMAIN poll[w]
    /\ poll[w][i] = Null
    /\ Served(w, ClientSlot(i))
    /\ UNCHANGED <<socket, flags, context, queues, app, sent, dropped>>

\* The esocket's peer is gone (POLLRDHUP, POLLERR, POLLHUP with a socket
\* error, or a failing send): the output buffer is dropped, the esocket is
\* flagged for closing, and closed at the end of the same iteration.
ServeBroken(w, i) ==
    /\ Serving(w, ClientSlot(i))
    /\ i \in DOMAIN poll[w]
    /\ poll[w][i] # Null
    /\ LET e == poll[w][i] IN
        /\ out' = [out EXCEPT ![e] = <<>>]
        /\ closing' = [closing EXCEPT ![e] = TRUE]
        /\ want'  = [want EXCEPT ![e] = FALSE]
        /\ armed' = [armed EXCEPT ![e] = FALSE]
        /\ RemoveAndDelete(w, {e})
    /\ Served(w, ClientSlot(i))
    /\ UNCHANGED <<init, moved, idle, queues, app, sent, dropped>>

\* An iteration on a live client: POLLIN (rd, ignored once the esocket is
\* flagged for closing), and POLLOUT if the slot asked for it (wr).  The
\* read_callback may flag the esocket (but does not take it off the context
\* itself); the write sends the first k payloads; a flagged esocket with nothing
\* left to send is closed.
ServeClient(w, i, rd, wr, k) ==
    /\ Serving(w, ClientSlot(i))
    /\ i \in DOMAIN poll[w]
    /\ poll[w][i] # Null
    /\ LET e     == poll[w][i]
           read  == rd /\ ~closing[e]
           write == wr /\ armed[e] /\ want[e]
           left  == SubSeq(out[e], k + 1, Len(out[e]))
       IN  /\ (rd \/ write)
           /\ k \in 0..(IF write THEN Len(out[e]) ELSE 0)
           /\ \E c \in IF read THEN BOOLEAN ELSE {closing[e]} :
                /\ closing' = [closing EXCEPT ![e] = c]
                /\ IF c /\ left = <<>>
                   THEN RemoveAndDelete(w, {e})
                   ELSE UNCHANGED <<life, owner, index, context>>
           /\ out'   = [out EXCEPT ![e] = left]
           /\ sent'  = [sent EXCEPT ![e] = @ \o SubSeq(out[e], 1, k)]
           /\ want'  = [want EXCEPT ![e] = @ /\ ~(write /\ left = <<>>)]
           /\ armed' = [armed EXCEPT ![e] = @ /\ ~(write /\ left = <<>>)]
           /\ idle'  = [idle EXCEPT ![e] = @ /\ ~read /\ k = 0]
    /\ Served(w, ClientSlot(i))
    /\ UNCHANGED <<init, moved, queues, app, dropped>>

\* Variant: the esockets' poll_index is not renumbered.
EndPassStaleIndex(w) ==
    /\ inPass[w] /\ ready[w] = {}
    /\ inPass' = [inPass EXCEPT ![w] = FALSE]
    /\ poll'  = [poll EXCEPT ![w] = Compress(@)]
    /\ UNCHANGED <<socket, flags, table, count, ready, queues, app, sent, dropped>>

\* The for loop is over: removed slots are squeezed out of the poll array.
EndPass(w) ==
    /\ inPass[w] /\ ready[w] = {}
    /\ inPass' = [inPass EXCEPT ![w] = FALSE]
    /\ poll'  = [poll EXCEPT ![w] = Compress(@)]
    /\ index' = [e \in Esockets |-> IF owner[e] = w THEN Rank(poll[w], index[e])
                                                    ELSE index[e]]
    /\ UNCHANGED <<life, owner, init, moved, flags, table, count, ready, queues,
                   app, sent, dropped>>

\* s_connection_timeout passes without traffic on e.
GoIdle(e) ==
    /\ owner[e] # NoWorker /\ ~idle[e]
    /\ idle' = [idle EXCEPT ![e] = TRUE]
    /\ UNCHANGED <<socket, closing, want, armed, out, context, pass, queues, app,
                   sent, dropped>>

-----------------------------------------------------------------------------

Init ==
    /\ life    = [e \in Esockets |-> "fresh"]
    /\ owner   = [e \in Esockets |-> NoWorker]
    /\ index   = [e \in Esockets |-> 0]
    /\ init    = [e \in Esockets |-> FALSE]
    /\ moved   = [e \in Esockets |-> FALSE]
    /\ closing = [e \in Esockets |-> FALSE]
    /\ want    = [e \in Esockets |-> FALSE]
    /\ armed   = [e \in Esockets |-> FALSE]
    /\ out     = [e \in Esockets |-> <<>>]
    /\ idle    = [e \in Esockets |-> FALSE]
    /\ table   = [w \in Workers |-> {}]
    /\ count   = [w \in Workers |-> 0]
    /\ poll    = [w \in Workers |-> <<>>]
    /\ inPass  = [w \in Workers |-> FALSE]
    /\ ready   = [w \in Workers |-> {}]
    /\ newQ    = [w \in Workers |-> <<>>]
    /\ delQ    = [w \in Workers |-> <<>>]
    /\ ioQ     = [w \in Workers |-> <<>>]
    /\ reQ     = [w \in Workers |-> <<>>]
    /\ home    = [e \in Esockets |-> NoWorker]
    /\ asked   = 0
    /\ issued  = [e \in Esockets |-> <<>>]
    /\ sent    = [e \in Esockets |-> <<>>]
    /\ dropped = {}

ServeSlot(w, i) ==
    \/ SkipSlot(w, i)
    \/ ServeBroken(w, i)
    \/ \E rd, wr \in BOOLEAN, k \in 0..Cardinality(Msgs \cup {Greeting}) :
            ServeClient(w, i, rd, wr, k)

WorkerStep(w) ==
    \/ Poll(w)
    \/ ServeNew(w)
    \/ ServeDelete(w)
    \/ ServeIo(w)
    \/ ServeReassign(w)
    \/ ServeTimer(w)
    \/ \E i \in DOMAIN poll[w] : ServeSlot(w, i)
    \/ EndPass(w)

AppStep ==
    \/ \E w \in Workers, e \in Esockets : AddMt(w, e)
    \/ \E e \in Esockets : DeleteMt(e)
    \/ \E e \in Esockets, to \in Workers : ReassignMt(e, to)
    \/ \E e \in Esockets, m \in Msgs : WriteMt(e, m)

Next ==
    \/ AppStep
    \/ \E w \in Workers : WorkerStep(w)
    \/ \E e \in Esockets : GoIdle(e)

Spec == Init /\ [][Next]_vars

\* The kernel runs every worker thread, and a queue whose message the AIO
\* helper has written, or an expired timer, is reported by some later poll().
Fairness ==
    \A w \in Workers :
        /\ WF_vars(WorkerStep(w))
        /\ \A s \in ServiceSlots : SF_vars(Poll(w) /\ s \in ready'[w])

FairSpec == Spec /\ Fairness

-----------------------------------------------------------------------------
(***************************************************************************)
(* Properties                                                              *)
(***************************************************************************)

Payloads == Msgs \cup {Greeting}

SocketTypes ==
    /\ life \in [Esockets -> {"fresh", "live", "freed"}]
    /\ owner \in [Esockets -> Workers \cup {NoWorker}]
    /\ index \in [Esockets -> Nat]
    /\ init \in [Esockets -> BOOLEAN]
    /\ moved \in [Esockets -> BOOLEAN]

FlagTypes ==
    /\ closing \in [Esockets -> BOOLEAN]
    /\ want \in [Esockets -> BOOLEAN]
    /\ armed \in [Esockets -> BOOLEAN]
    /\ out \in [Esockets -> Seq(Payloads)]
    /\ idle \in [Esockets -> BOOLEAN]

ContextTypes ==
    /\ table \in [Workers -> SUBSET Esockets]
    /\ count \in [Workers -> Int]
    /\ poll \in [Workers -> Seq(Esockets \cup {Null})]
    /\ inPass \in [Workers -> BOOLEAN]
    /\ ready \in [Workers -> SUBSET Nat]

QueueTypes ==
    /\ newQ \in [Workers -> Seq(Esockets)]
    /\ delQ \in [Workers -> Seq(Esockets)]
    /\ ioQ \in [Workers -> Seq(IoMessages)]
    /\ reQ \in [Workers -> Seq(ReassignMessages)]

AppTypes ==
    /\ home \in [Esockets -> Workers \cup {NoWorker}]
    /\ asked \in 0..MaxRequests
    /\ issued \in [Esockets -> Seq(Msgs)]
    /\ sent \in [Esockets -> Seq(Payloads)]
    /\ dropped \in SUBSET Esockets

\* Every field keeps its type: the shape of the esocket and context structures
\* and of the messages the worker queues carry.
TypeOK == SocketTypes /\ FlagTypes /\ ContextTypes /\ QueueTypes /\ AppTypes

\* The hash table of a context holds the esockets whose context it is.
TableOwns == \A w \in Workers, e \in Esockets : e \in table[w] <=> owner[e] = w

\* An owned esocket and its poll slot point at each other, at any moment of a
\* pass, and every other slot is empty.
SlotsMatch ==
    \A w \in Workers :
        /\ \A e \in Esockets :
              owner[e] = w => index[e] \in DOMAIN poll[w] /\ poll[w][index[e]] = e
        /\ \A i \in DOMAIN poll[w] :
              poll[w][i] # Null => owner[poll[w][i]] = w /\ index[poll[w][i]] = i

\* Between passes the poll array has no removed slot left, so poll() never
\* waits on one.
NoHoleBetweenPasses ==
    \A w \in Workers : ~inPass[w] => \A i \in DOMAIN poll[w] : poll[w][i] # Null

\* The hash table, event_sockets_count, the poll array and the esockets' own
\* context and poll_index describe one and the same set, through every add,
\* delete, reassign, timeout and close, whatever the interleaving.
TableConsistent ==
    /\ TableOwns
    /\ \A w \in Workers : count[w] = Cardinality(table[w])
    /\ SlotsMatch
    /\ NoHoleBetweenPasses

\* What poll() reported is still there when the slot is served: only the
\* worker itself consumes its queues, and slots keep their index in a pass.
ReadyBacked ==
    \A w \in Workers :
        /\ ~inPass[w] => ready[w] = {}
        /\ SlotNew \in ready[w] => newQ[w] # <<>>
        /\ SlotDelete \in ready[w] => delQ[w] # <<>>
        /\ SlotIo \in ready[w] => ioQ[w] # <<>>
        /\ SlotReassign \in ready[w] => reQ[w] # <<>>
        /\ \A s \in ready[w] \ ServiceSlots : s - 5 \in DOMAIN poll[w]

InTransit(e) == \E w \in Workers : Holds(newQ, w, e)

\* No esocket pointer is in two add queues, or twice in one.
TransitOnce ==
    \A v, w \in Workers : \A i \in DOMAIN newQ[v], j \in DOMAIN newQ[w] :
        newQ[v][i] = newQ[w][j] => v = w /\ i = j

\* An esocket that is handed over is on one worker, or in one add queue, or
\* was dropped by a full one; a freed esocket is in none of these, so that no
\* worker ever dereferences it.
Accounted ==
    /\ TransitOnce
    /\ \A e \in Esockets :
        IF life[e] = "live"
        THEN \/ owner[e] # NoWorker /\ ~InTransit(e) /\ e \notin dropped
             \/ owner[e] = NoWorker /\ InTransit(e)  /\ e \notin dropped
             \/ owner[e] = NoWorker /\ ~InTransit(e) /\ e \in dropped
        ELSE owner[e] = NoWorker /\ ~InTransit(e) /\ e \notin dropped

\* The part of the state the ownership promise is about.
Place == [e \in Esockets |->
    CASE life[e] = "fresh"      -> [where |-> "new",   worker |-> NoWorker]
      [] life[e] = "freed"      -> [where |-> "gone",  worker |-> NoWorker]
      [] life[e] = "live" /\ owner[e] # NoWorker
                                -> [where |-> "owned", worker |-> owner[e]]
      [] life[e] = "live" /\ owner[e] = NoWorker /\ InTransit(e)
                                -> [where |-> "transit",
                                    worker |-> CHOOSE w \in Workers : Holds(newQ, w, e)]
      [] OTHER                  -> [where |-> "lost",  worker |-> NoWorker]]

Ownership == INSTANCE EsocketOwnership WITH place <- Place

\* The reactor implements the ownership promise: every step of a worker or of
\* the application moves esockets as EsocketOwnership allows, or not at all.
ImplementsOwnership == Ownership!Spec

\* Where a payload stands in the order of writing; a greeting is written
\* before any other payload can reach the buffer.
Position(e, m) == IF m = Greeting THEN 0
                  ELSE CHOOSE i \in DOMAIN issued[e] : issued[e][i] = m

\* Payloads written to an esocket leave it in the order they were written,
\* although they pass through the io queues of different workers: this needs
\* DAP_SOCK_REASSIGN_ONCE, since an esocket that could go back to its first
\* worker would meet writes left behind there.
WriteOrder ==
    \A e \in Once :
        LET s == sent[e] \o out[e]
        IN  \A i, j \in DOMAIN s : i < j => Position(e, s[i]) < Position(e, s[j])

\* The buffer begins with what a new_callback wrote, and no reassign has
\* rebuilt the slot since.
BehindGreeting(e) == ~moved[e] /\ out[e] # <<>> /\ Head(out[e]) = Greeting

\* A worker that holds output of an esocket polls it for POLLOUT, through
\* writes, sends in part and reassigns, which rebuild the slot from the flags.
\* The exception is the code's: what a new_callback writes is not polled for
\* before the first reassign, and holds up all that is written behind it,
\* since the flag is up already and raising it again does nothing.
BufferedIsArmed ==
    \A e \in Esockets :
        owner[e] # NoWorker /\ out[e] # <<>>
            => want[e] /\ (armed[e] \/ BehindGreeting(e))

\* The delete callback reports "While we were sending the delete() message,
\* esocket ... has been disconnected" only for an esocket that is gone.
DeleteReportTruthful ==
    [][\A w \in Workers :
          ServeDelete(w) /\ Head(delQ[w]) \notin table[w]
            => life[Head(delQ[w])] = "freed"]_vars

\* An esocket that entered a worker's add queue is eventually installed there.
HandOverArrives ==
    \A e \in Esockets, w \in Workers : Holds(newQ, w, e) ~> owner[e] = w

Reassigning(e) == \E w \in Workers : \E i \in DOMAIN reQ[w] : reQ[w][i].es = e

\* A delete request that is in the queue of the esocket's own worker frees the
\* esocket in the end, unless a reassign takes it elsewhere first.
DeleteTakesEffect ==
    \A e \in Esockets, w \in Workers :
        (owner[e] = w /\ Holds(delQ, w, e) /\ ~Reassigning(e))
            ~> (life[e] = "freed" \/ Reassigning(e))

\* The activity timer makes progress: a scan that finds esockets without
\* traffic closes one at least, although it may stop before it has seen all,
\* so that the timer's next rounds get to the others.
ScanCloses ==
    [][\A w \in Workers :
          ServeTimer(w) /\ Expired(w) # {} => \E e \in Expired(w) : life'[e] = "freed"]_vars
=============================================================================
