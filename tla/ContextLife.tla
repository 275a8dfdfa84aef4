---------------------------- MODULE ContextLife ----------------------------
(***************************************************************************)
(* Start and stop of the reactor: dap_events_start() creates a context and *)
(* a thread for every worker and then for every processing thread, one     *)
(* after the other, each waited for on the context's condition variable;   *)
(* between the two it connects the workers with queue inputs.  The stop is *)
(* dap_events_stop_all() followed by dap_events_deinit(), which ends the   *)
(* processing threads, last one first, and joins the workers.              *)
(*                                                                         *)
(* Contexts are numbered in the order of their creation.  A thread frees   *)
(* its context when it ends; workers and their queues stay.                *)
(***************************************************************************)
EXTENDS Naturals

CONSTANT N              \* s_threads_count: workers, and processing threads

ASSUME NAssumption == N \in Nat \ {0}

VARIABLES
    main,       \* where the starting and stopping thread is
    ctx,        \* the context it works on
    thread,     \* how far the thread of a context is
    inputs,     \* workers that have their queue inputs
    signalled,  \* contexts whose event_exit was signalled
    spurious    \* pthread_cond_timedwait() returned without a broadcast

vars == <<main, ctx, thread, inputs, signalled, spurious>>

Workers == 0..(N - 1)
ProcThreads == N..(2 * N - 1)
Contexts == Workers \cup ProcThreads

\* The callback of the start has created the queues of the worker.
HasQueues(w) == thread[w] \notin {"none", "created"}

\* The context is allocated, and its memory not given back.
Live(c) == thread[c] # "ended"

Up == main # "crashed"

-----------------------------------------------------------------------------
(***************************************************************************)
(* dap_context_run(), by the starting thread                               *)
(***************************************************************************)

\* dap_context_new(), started_mutex locked, pthread_create(); main = "locked"
\* means that started_mutex is held.
Create ==
    /\ main = "new"
    /\ \/ thread' = [thread EXCEPT ![ctx] = "created"] /\ main' = "locked"
       \/ UNCHANGED thread /\ main' = "failed"
    /\ UNCHANGED <<ctx, inputs, signalled, spurious>>

\* Variant: the context runs without DAP_CONTEXT_FLAG_WAIT_FOR_STARTED.
WaitNot ==
    /\ main = "locked"
    /\ main' = "started"
    /\ UNCHANGED <<ctx, thread, inputs, signalled, spurious>>

\* pthread_cond_timedwait() lets go of started_mutex.
Wait ==
    /\ main = "locked"
    /\ main' = "waiting"
    /\ UNCHANGED <<ctx, thread, inputs, signalled, spurious>>

\* A return of the wait that no broadcast caused: ETIMEDOUT is an error, a
\* spurious wake-up is taken for the start.
TimedOut ==
    /\ main = "waiting"
    /\ main' = "failed"
    /\ UNCHANGED <<ctx, thread, inputs, signalled, spurious>>

WakeSpuriously ==
    /\ main = "waiting"
    /\ main' = "started"
    /\ spurious' = TRUE
    /\ UNCHANGED <<ctx, thread, inputs, signalled>>

\* Variant: the loop goes one too far.
LastContextBeyond == 2 * N

LastContext == 2 * N - 1

\* The loops of dap_events_start() and dap_proc_thread_init().
NextContext ==
    /\ main = "started"
    /\ IF ctx + 1 = N THEN main' = "inputs" /\ ctx' = 0
       ELSE IF ctx = LastContext THEN main' = "running" /\ UNCHANGED ctx
       ELSE main' = "new" /\ ctx' = ctx + 1
    /\ UNCHANGED <<thread, inputs, signalled, spurious>>

\* "Create inputs for inter-context message queues": those of worker ctx to
\* the queues of every worker, added to its context.  Queues that are not
\* there are NULL pointers.
CreateInputs ==
    /\ main = "inputs"
    /\ IF \A w \in Workers : HasQueues(w)
       THEN /\ inputs' = inputs \cup {ctx}
            /\ ctx' = ctx + 1
            /\ main' = IF ctx + 1 = N THEN "new" ELSE "inputs"
       ELSE main' = "crashed" /\ UNCHANGED <<ctx, inputs>>
    /\ UNCHANGED <<thread, signalled, spurious>>

-----------------------------------------------------------------------------
(***************************************************************************)
(* s_context_thread()                                                      *)
(***************************************************************************)

\* callback_started: dap_worker_context_callback_started() creates the
\* worker's queues, s_context_callback_started() inputs to the queues of
\* every worker.
CallbackStarted(c) ==
    /\ Up
    /\ thread[c] = "created"
    /\ IF c \in Workers \/ \A w \in Workers : HasQueues(w)
       THEN thread' = [thread EXCEPT ![c] = "ready"] /\ UNCHANGED main
       ELSE main' = "crashed" /\ UNCHANGED thread
    /\ UNCHANGED <<ctx, inputs, signalled, spurious>>

\* Variant: the broadcast does not wait for started_mutex.
AnnounceUnlocked(c) ==
    /\ Up
    /\ thread[c] = "ready"
    /\ thread' = [thread EXCEPT ![c] = "loop"]
    /\ main' = IF main = "waiting" /\ ctx = c THEN "started" ELSE main
    /\ UNCHANGED <<ctx, inputs, signalled, spurious>>

\* started_mutex locked, broadcast, unlocked
Announce(c) ==
    /\ Up
    /\ thread[c] = "ready"
    /\ ~(main = "locked" /\ ctx = c)
    /\ thread' = [thread EXCEPT ![c] = "loop"]
    /\ main' = IF main = "waiting" /\ ctx = c THEN "started" ELSE main
    /\ UNCHANGED <<ctx, inputs, signalled, spurious>>

\* s_event_exit_callback() ends s_thread_loop(); callback_stopped.
LeaveLoop(c) ==
    /\ Up
    /\ thread[c] = "loop"
    /\ c \in signalled
    /\ thread' = [thread EXCEPT ![c] = "leaving"]
    /\ UNCHANGED <<main, ctx, inputs, signalled, spurious>>

\* The context leaves the list and is freed; the thread ends.
FreeContext(c) ==
    /\ Up
    /\ thread[c] = "leaving"
    /\ thread' = [thread EXCEPT ![c] = "ended"]
    /\ UNCHANGED <<main, ctx, inputs, signalled, spurious>>

-----------------------------------------------------------------------------
(***************************************************************************)
(* The stop                                                                *)
(***************************************************************************)

\* dap_events_stop_all(), called when everything runs
StopAll ==
    /\ main = "running"
    /\ signalled' = signalled \cup Workers
    /\ main' = "kill"
    /\ UNCHANGED <<ctx, thread, inputs, spurious>>

\* Variant: event_exit is signalled before thread_id is read.
StopNKillSignal ==
    /\ main = "kill"
    /\ signalled' = signalled \cup {ctx}
    /\ main' = "signal"
    /\ UNCHANGED <<ctx, thread, inputs, spurious>>

\* dap_context_stop_n_kill() of processing thread ctx: thread_id is read from
\* its context ...
StopNKill ==
    /\ main = "kill"
    /\ main' = "signal"
    /\ UNCHANGED <<ctx, thread, inputs, signalled, spurious>>

\* Variant: nothing is signalled.
SignalNobody == {}

Signalled == {ctx}

\* ... event_exit signalled ...
SignalExit ==
    /\ main = "signal"
    /\ signalled' = signalled \cup Signalled
    /\ main' = "join"
    /\ UNCHANGED <<ctx, thread, inputs, spurious>>

\* ... and the thread joined; dap_proc_thread_deinit() takes the next one,
\* downwards, and dap_events_wait() follows.
Joined ==
    /\ main = "join"
    /\ thread[ctx] = "ended"
    /\ IF ctx = N THEN main' = "wait" /\ ctx' = 0
       ELSE main' = "kill" /\ ctx' = ctx - 1
    /\ UNCHANGED <<thread, inputs, signalled, spurious>>

\* dap_events_wait() reads thread_id of worker ctx from its context, which
\* may be free memory: what it finds there is the number, or anything.
ReadThreadId ==
    /\ main = "wait"
    /\ \/ main' = "joinWorker"
       \/ ~Live(ctx) /\ main' = "crashed"
    /\ UNCHANGED <<ctx, thread, inputs, signalled, spurious>>

JoinedWorker ==
    /\ main = "joinWorker"
    /\ thread[ctx] = "ended"
    /\ IF ctx + 1 = N THEN main' = "over" /\ UNCHANGED ctx
       ELSE main' = "wait" /\ ctx' = ctx + 1
    /\ UNCHANGED <<thread, inputs, signalled, spurious>>

-----------------------------------------------------------------------------

Init ==
    /\ main = "new"
    /\ ctx = 0
    /\ thread = [c \in Contexts |-> "none"]
    /\ inputs = {}
    /\ signalled = {}
    /\ spurious = FALSE

MainStep ==
    \/ Create \/ Wait \/ NextContext \/ CreateInputs
    \/ StopNKill \/ SignalExit \/ Joined \/ ReadThreadId \/ JoinedWorker

ThreadStep(c) ==
    CallbackStarted(c) \/ Announce(c) \/ LeaveLoop(c) \/ FreeContext(c)

Next ==
    \/ MainStep \/ TimedOut \/ WakeSpuriously \/ StopAll
    \/ \E c \in Contexts : ThreadStep(c)

Spec == Init /\ [][Next]_vars

\* The kernel runs every thread; nothing is owed to the clock, to spurious
\* wake-ups or to whoever asks for the stop.
Fairness == WF_vars(MainStep) /\ \A c \in Contexts : WF_vars(ThreadStep(c))

FairSpec == Spec /\ Fairness

-----------------------------------------------------------------------------
(***************************************************************************)
(* Properties                                                              *)
(***************************************************************************)

\* The places of the starting thread and of the others keep their types.
TypeOK ==
    /\ main \in {"new", "locked", "waiting", "started", "inputs", "running",
                 "failed", "kill", "signal", "join", "wait", "joinWorker",
                 "over", "crashed"}
    /\ ctx \in Contexts
    /\ thread \in [Contexts -> {"none", "created", "ready", "loop", "leaving",
                                "ended"}]
    /\ inputs \subseteq Workers
    /\ signalled \subseteq Contexts
    /\ spurious \in BOOLEAN

\* "here we can safety handle alien contexts fields" (dap_events.c): whenever
\* queue inputs are made, by dap_events_start() for the workers or by a
\* processing thread for itself, the queues of all workers are there, and the
\* workers are connected before a processing thread exists.  Only a spurious
\* wake-up, which the wait takes for a start, breaks it.
QueuesThere ==
    ~spurious =>
        /\ main = "inputs" => \A w \in Workers : HasQueues(w)
        /\ \A c \in ProcThreads : thread[c] # "none" =>
              inputs = Workers /\ \A w \in Workers : HasQueues(w)

\* dap_context_run() cannot miss the broadcast, however fast the thread is:
\* while it waits, the thread has its broadcast still to make.
NoLostWakeUp == main = "waiting" => thread[ctx] \in {"created", "ready"}

\* dap_context_stop_n_kill() works on contexts that their threads have not
\* freed yet.
KillTouchesLive == main \in {"kill", "signal"} => Live(ctx)

\* dap_events_start() comes to an end without help of the timeout.
StartEnds == (main = "new") ~> main \in {"running", "failed", "crashed"}

\* A stop ends every thread and comes to an end, unless the read of a freed
\* context in dap_events_wait() goes wrong.
StopEnds ==
    (main = "kill") ~> \/ main = "over" /\ \A c \in Contexts : ~Live(c)
                       \/ main = "crashed"
=============================================================================
