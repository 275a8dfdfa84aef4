----------------------------- MODULE ProcThread -----------------------------
(***************************************************************************)
(* A processing thread of the DAP SDK: callbacks that other threads ask it *)
(* to run come in through a queue esocket, are sorted into one list per    *)
(* priority, and are run by the callback of an event esocket, which is     *)
(* signalled when a callback is enlisted and when some are left over.      *)
(* Sources: modules/io/dap_proc_queue.c, dap_proc_thread.c, and the read   *)
(* cases of dap_context.c for queue and event esockets.                    *)
(***************************************************************************)
EXTENDS Integers, Sequences, FiniteSets, Functions

CONSTANTS
    Items,       \* callbacks, each requested once
    Priorities,  \* priorities callers ask for, legal or not
    Stubborn,    \* callbacks that always ask to be run again
    MaxRepeats,  \* bound: times another callback may ask to be run again
    PipeCap,     \* packets the queue pipe holds
    MayKill,     \* whether dap_proc_queue_delete() may be called
    NoItem       \* callback == NULL

ASSUME ItemsAssumption      == NoItem \notin Items /\ IsFiniteSet(Items)
ASSUME PrioritiesAssumption == Priorities \subseteq Int
ASSUME StubbornAssumption   == Stubborn \subseteq Items
ASSUME LimitsAssumption     == MaxRepeats \in Nat /\ PipeCap \in Nat \ {0}
ASSUME MayKillAssumption    == MayKill \in BOOLEAN

VARIABLES
    pipe,      \* messages in the queue's pipe
    list,      \* proc_queue->list[pri].items
    event,     \* the eventfd of proc_event is not zero
    queue,     \* proc_queue and its esocket: live, closing, freed, misused
    ready,     \* esockets of the current pass still to be served
    at,        \* where the thread is: poll, pass, or in s_proc_event_callback
    cur,       \* l_cur_pri
    repeats,   \* times each callback has asked to be run again
    ran,       \* callbacks that have been run at least once
    done,      \* callbacks that have finished
    lost       \* callbacks whose message met a full pipe or a closed queue

thread  == <<ready, at, cur>>
history == <<repeats, ran, done, lost>>
vars    == <<pipe, list, event, queue, thread, history>>

-----------------------------------------------------------------------------

PriMax    == 4
PriNormal == 2
PriHigh   == 3
Levels    == 0..(PriMax - 1)

Message == [item : Items \cup {NoItem}, pri : Int]

Requested == ran \cup lost \cup {m.item : m \in Range(pipe)} \cup
             UNION {Range(list[p]) : p \in Levels}

\* A message that finds the pipe full is gone; its sender is told nothing.
Post(m) == pipe' = IF Len(pipe) < PipeCap THEN Append(pipe, m) ELSE pipe

\* The check of dap_proc_queue_add_callback_ext() and its siblings.
Legal(p) == IF p < PriMax THEN p ELSE PriNormal

\* The check of s_queue_esocket_callback().
Clamp(p) == IF p > PriMax - 1 THEN PriMax - 1 ELSE IF p < 0 THEN 0 ELSE p

\* dap_proc_queue_add_callback_ext(), dap_proc_queue_add_callback_inter_ext(),
\* dap_proc_thread_add_callback_mt()
AddCallback(m, p) ==
    /\ queue \in {"live", "closing"}
    /\ m \notin Requested
    /\ Post([item |-> m, pri |-> Legal(p)])
    /\ lost' = IF Len(pipe) < PipeCap THEN lost ELSE lost \cup {m}
    /\ UNCHANGED <<list, event, queue, thread, repeats, ran, done>>

\* dap_proc_queue_delete(), once.
Delete ==
    /\ MayKill /\ queue = "live"
    /\ NoItem \notin {m.item : m \in Range(pipe)}
    /\ Post([item |-> NoItem, pri |-> PriHigh])
    /\ UNCHANGED <<list, event, queue, thread, history>>

-----------------------------------------------------------------------------
(***************************************************************************)
(* The thread's loop                                                       *)
(***************************************************************************)

Pollable == {s \in {"queue"} : pipe # <<>> /\ queue \in {"live", "closing"}}
       \cup {s \in {"event"} : event}

Poll ==
    /\ at = "poll"
    /\ ready' \in SUBSET Pollable \ {{}}
    /\ at' = "pass"
    /\ UNCHANGED <<pipe, list, event, queue, cur, history>>

Enlist(m) ==
    LET p == Clamp(m.pri) IN
        /\ list'  = [list EXCEPT ![p] = Append(@, m.item)]
        /\ event' = TRUE

\* Variant: a queue flagged for closing is read all the same.
ServeQueueClosing ==
    /\ at = "pass" /\ "queue" \in ready
    /\ pipe' = Tail(pipe)
    /\ IF Head(pipe).item = NoItem
       THEN queue' = "closing" /\ UNCHANGED <<list, event>>
       ELSE Enlist(Head(pipe)) /\ UNCHANGED queue
    /\ ready' = ready \ {"queue"}
    /\ UNCHANGED <<at, cur, history>>

\* s_queue_esocket_callback() of one message.  The read case of a queue skips
\* the rest of the iteration, the check of DAP_SOCK_SIGNAL_CLOSE included.
ServeQueue ==
    /\ at = "pass" /\ "queue" \in ready
    /\ queue = "live"
    /\ pipe' = Tail(pipe)
    /\ IF Head(pipe).item = NoItem
       THEN queue' = "closing" /\ UNCHANGED <<list, event>>
       ELSE Enlist(Head(pipe)) /\ UNCHANGED queue
    /\ ready' = ready \ {"queue"}
    /\ UNCHANGED <<at, cur, history>>

\* A queue flagged for closing is not read any more; the iteration gets to the
\* check and deletes the esocket, its pipe and the proc_queue with its lists.
CloseQueue ==
    /\ at = "pass" /\ "queue" \in ready
    /\ queue = "closing"
    /\ queue' = "freed"
    /\ lost' = lost \cup {m.item : m \in Range(pipe)}
                    \cup UNION {Range(list[p]) : p \in Levels}
    /\ pipe' = <<>>
    /\ list' = [p \in Levels |-> <<>>]
    /\ ready' = ready \ {"queue"}
    /\ UNCHANGED <<event, at, cur, repeats, ran, done>>

\* Variant: the loop starts at the default priority.
ServeEventNormal ==
    /\ at = "pass" /\ "queue" \notin ready /\ "event" \in ready
    /\ event' = FALSE
    /\ ready' = ready \ {"event"}
    /\ at' = "callback" /\ cur' = PriNormal
    /\ UNCHANGED <<pipe, list, queue, history>>

\* Variant: the loop starts past the last list.
ServeEventMax ==
    /\ at = "pass" /\ "queue" \notin ready /\ "event" \in ready
    /\ event' = FALSE
    /\ ready' = ready \ {"event"}
    /\ at' = "callback" /\ cur' = PriMax
    /\ UNCHANGED <<pipe, list, queue, history>>

\* The event is read and s_proc_event_callback() starts at the highest
\* priority.  It reaches the lists through l_thread->proc_queue, which
\* CloseQueue has freed.
ServeEvent ==
    /\ at = "pass" /\ "queue" \notin ready /\ "event" \in ready
    /\ event' = FALSE
    /\ ready' = ready \ {"event"}
    /\ IF queue \in {"freed", "misused"}
       THEN queue' = "misused" /\ UNCHANGED <<at, cur>>
       ELSE at' = "callback" /\ cur' = PriMax - 1 /\ UNCHANGED queue
    /\ UNCHANGED <<pipe, list, history>>

\* The for loop gets down to the highest list in use, and not to list 0.
Next2Run(p) == /\ p \in 1..cur
               /\ list[p] # <<>>
               /\ \A q \in (p + 1)..cur : list[q] = <<>>

\* Variant: an unfinished callback goes back to the head of its list.
PutBackFirst(p, m) == [list EXCEPT ![p] = <<m>> \o Tail(@)]

\* Variant: the callback is looked at, not taken.
PutBackCopy(p, m) == [list EXCEPT ![p] = Append(@, m)]

PutBack(p, m) == [list EXCEPT ![p] = Append(Tail(@), m)]

\* One callback runs, in less than the second the callback started in; it
\* finishes or is put back to the tail.
Run(p) ==
    /\ at = "callback"
    /\ Next2Run(p)
    /\ cur' = p
    /\ LET m == Head(list[p]) IN
        /\ ran' = ran \cup {m}
        /\ \/ /\ m \notin Stubborn
              /\ list' = [list EXCEPT ![p] = Tail(@)]
              /\ done' = done \cup {m}
              /\ UNCHANGED repeats
           \/ /\ m \in Stubborn \/ repeats[m] < MaxRepeats
              /\ list' = PutBack(p, m)
              /\ repeats' = [repeats EXCEPT ![m] = IF m \in Stubborn THEN 0 ELSE @ + 1]
              /\ UNCHANGED done
    /\ UNCHANGED <<pipe, event, queue, ready, at, lost>>

\* Variant: left-over callbacks do not signal the event.
ReturnQuiet ==
    /\ at = "callback"
    /\ at' = "pass"
    /\ UNCHANGED <<pipe, list, event, queue, ready, cur, history>>

\* The lists are empty, or the clock's second is over: the do-while repeats
\* once more and finds the same.  Left-over callbacks signal the event.
Return ==
    /\ at = "callback"
    /\ event' = (event \/ \E p \in 1..(PriMax - 1) : list[p] # <<>>)
    /\ at' = "pass"
    /\ UNCHANGED <<pipe, list, queue, ready, cur, history>>

EndPass ==
    /\ at = "pass" /\ ready = {}
    /\ at' = "poll"
    /\ UNCHANGED <<pipe, list, event, queue, ready, cur, history>>

-----------------------------------------------------------------------------

Init ==
    /\ pipe = <<>>
    /\ list = [p \in Levels |-> <<>>]
    /\ event = FALSE
    /\ queue = "live"
    /\ ready = {}
    /\ at = "poll"
    /\ cur = 0
    /\ repeats = [m \in Items |-> 0]
    /\ ran = {} /\ done = {} /\ lost = {}

RunSome == \E p \in Levels : Run(p)

ThreadStep == Poll \/ ServeQueue \/ CloseQueue \/ ServeEvent \/ RunSome \/ Return \/ EndPass

Callers == \/ \E m \in Items, p \in Priorities : AddCallback(m, p)
           \/ Delete

Next == Callers \/ ThreadStep

Spec == Init /\ [][Next]_vars

\* The kernel runs the thread and reports a pending esocket by some later
\* poll(); the clock's second is not always over before the first callback.
Fairness == /\ WF_vars(ThreadStep)
            /\ SF_vars(RunSome)
            /\ \A s \in {"queue", "event"} : SF_vars(Poll /\ s \in ready')

FairSpec == Spec /\ Fairness

-----------------------------------------------------------------------------
(***************************************************************************)
(* Properties                                                              *)
(***************************************************************************)

\* Messages, lists and flags keep their types.
TypeOK ==
    /\ pipe \in Seq(Message)
    /\ list \in [Levels -> Seq(Items)]
    /\ event \in BOOLEAN
    /\ queue \in {"live", "closing", "freed", "misused"}
    /\ ready \in SUBSET {"queue", "event"}
    /\ at \in {"poll", "pass", "callback"}
    /\ cur \in Levels
    /\ repeats \in [Items -> Nat]
    /\ ran \in SUBSET Items
    /\ done \in SUBSET Items
    /\ lost \in SUBSET (Items \cup {NoItem})

\* A callback that waits in a list is known to the thread: either it is going
\* through the lists, or its event is signalled, so that poll() will wake it up
\* even when the loop was cut short by the clock.
Awake == (\E p \in 1..(PriMax - 1) : list[p] # <<>>) => event \/ at = "callback"

\* While the loop is at a priority no callback of a higher one waits.
NothingAbove ==
    at = "callback" => \A p \in (cur + 1)..(PriMax - 1) : list[p] = <<>>

\* What poll() reported about the queue is still so when it is served.
QueueBacked == "queue" \in ready => pipe # <<>> /\ queue # "freed"

\* Times callback m is in sequence s.
Times(s, m) == Cardinality({i \in DOMAIN s : s[i] = m})

\* A callback is in one place at a time: it is not run after it has finished,
\* and not enlisted twice by being put back.
OnePlace ==
    \A m \in Items :
        /\ m \in done => m \notin lost
        /\ m \in done \cup lost => \A p \in Levels : m \notin Range(list[p])
        /\ \A p \in Levels : Times(list[p], m) <= 1
        /\ \A p, q \in Levels : m \in Range(list[p]) \cap Range(list[q]) => p = q
        /\ \A i \in DOMAIN pipe : pipe[i].item = m =>
                /\ m \notin ran \cup lost
                /\ \A p \in Levels : m \notin Range(list[p])

StubbornAbove(p) == \E q \in (p + 1)..(PriMax - 1) : Range(list[q]) \cap Stubborn # {}

\* A callback accepted with a priority above idle finishes, although others of
\* its priority ask to be run again for ever and the clock cuts the loop short;
\* only one of a higher priority that repeats for ever keeps it from its turn.
AcceptedFinish ==
    \A m \in Items \ Stubborn, p \in 1..(PriMax - 1) :
        (\E i \in DOMAIN pipe : pipe[i].item = m /\ Clamp(pipe[i].pri) = p)
            ~> (m \in done \/ StubbornAbove(p) \/ queue # "live")

\* A proc_queue that was asked to die and has one more message is deleted: it
\* is the message that brings the thread to look at the closing flag.
NextMessageKills ==
    (queue = "closing" /\ pipe # <<>>) ~> queue \in {"freed", "misused"}
=============================================================================
