------------------------- MODULE ContextLife_proofs -------------------------
(***************************************************************************)
(* Proofs about ContextLife, for any number of threads.                    *)
(***************************************************************************)
EXTENDS ContextLife, TLAPS

\* dap_context_run() is at work.
Running == {"new", "locked", "waiting", "started", "failed"}

Stopping == {"kill", "signal", "join", "wait", "joinWorker", "over", "crashed"}

\* Contexts in the order of their creation: workers, then processing threads.
LEMMA ContextSets ==
    /\ N \in Nat /\ N > 0
    /\ \A c : c \in Contexts <=> c \in Nat /\ c < 2 * N
    /\ \A c : c \in Workers <=> c \in Nat /\ c < N
    /\ \A c : c \in ProcThreads <=> c \in Nat /\ N <= c /\ c < 2 * N
<1>1. N \in Nat /\ N > 0
  BY NAssumption
<1> QED
  BY <1>1 DEF Contexts, Workers, ProcThreads

-----------------------------------------------------------------------------
(***************************************************************************)
(* Types, with where the loops of the start may be                         *)
(***************************************************************************)

TypeInv ==
    /\ TypeOK
    /\ main \in {"inputs", "wait", "joinWorker"} => ctx \in Workers
    /\ main \in {"kill", "signal", "join", "running"} => ctx \in ProcThreads
    /\ main = "running" => ctx = LastContext

\* Init and every action keep the types.
LEMMA TypeInit == Init => TypeInv
<1> SUFFICES ASSUME Init PROVE TypeInv
  OBVIOUS
<1>1. spurious \in BOOLEAN /\ inputs \subseteq Workers /\ signalled \subseteq Contexts
  BY DEF Init
<1>2. ctx \in Contexts
  BY ContextSets DEF Init
<1> QED
  BY <1>1, <1>2 DEF Init, TypeInv, TypeOK

\* Every step keeps the types.
LEMMA TypeStep == TypeInv /\ [Next]_vars => TypeInv'
<1> SUFFICES ASSUME TypeInv, [Next]_vars
             PROVE  TypeInv'
  OBVIOUS
<1> USE ContextSets DEF TypeInv, TypeOK, LastContext
<1>1. CASE Create
  BY <1>1 DEF Create
<1>2. CASE Wait
  BY <1>2 DEF Wait
<1>3. CASE NextContext
  BY <1>3 DEF NextContext
<1>4. CASE CreateInputs
  BY <1>4 DEF CreateInputs
<1>5. CASE StopNKill \/ SignalExit \/ Joined
  BY <1>5 DEF StopNKill, SignalExit, Joined, Signalled
<1>6. CASE ReadThreadId \/ JoinedWorker
  BY <1>6 DEF ReadThreadId, JoinedWorker
<1>7. CASE TimedOut \/ WakeSpuriously \/ StopAll
  <2>1. spurious' \in BOOLEAN
    BY <1>7 DEF TimedOut, WakeSpuriously, StopAll
  <2>2. CASE TimedOut \/ StopAll
    BY <2>2 DEF TimedOut, StopAll
  <2>3. CASE WakeSpuriously
    BY <2>1, <2>3 DEF WakeSpuriously
  <2> QED
    BY <1>7, <2>2, <2>3
<1>8. ASSUME NEW c \in Contexts, ThreadStep(c)
      PROVE  TypeInv'
  <2>1. CASE CallbackStarted(c)
    BY <2>1 DEF CallbackStarted
  <2>2. CASE Announce(c)
    BY <2>2 DEF Announce
  <2>3. CASE LeaveLoop(c) \/ FreeContext(c)
    BY <2>3 DEF LeaveLoop, FreeContext
  <2> QED
    BY <1>8, <2>1, <2>2, <2>3 DEF ThreadStep
<1>9. CASE UNCHANGED vars
  BY <1>9 DEF vars
<1> QED
  BY <1>1, <1>2, <1>3, <1>4, <1>5, <1>6, <1>7, <1>8, <1>9 DEF Next, MainStep

\* The type invariant of the start and stop, for any number of threads.
THEOREM TypeInvariant == Spec => []TypeOK
<1>1. TypeInv => TypeOK
  BY DEF TypeInv
<1> QED
  BY <1>1, TypeInit, TypeStep, PTL DEF Spec

-----------------------------------------------------------------------------
(***************************************************************************)
(* The start                                                               *)
(***************************************************************************)

\* Threads exist up to the context at work, connections up to the workers.
InOrder ==
    /\ main = "new" => \A c \in Contexts : c >= ctx => thread[c] = "none"
    /\ main \in Running => \A c \in Contexts : c > ctx => thread[c] = "none"
    /\ main = "inputs" => \A c \in ProcThreads : thread[c] = "none"
    /\ main = "inputs" => \A w \in Workers : w < ctx => w \in inputs
    /\ main \in Running /\ ctx >= N => inputs = Workers
    /\ main \in {"locked", "waiting"} => thread[ctx] \in {"created", "ready"}

\* Without a spurious wake-up the callback of every context before the one at
\* work has run.
InTurn ==
    /\ main \in Running => \A w \in Workers : w < ctx => HasQueues(w)
    /\ main = "started" /\ ctx \in Workers => HasQueues(ctx)
    /\ main = "inputs" => \A w \in Workers : HasQueues(w)
    /\ \A c \in ProcThreads : thread[c] # "none" =>
          inputs = Workers /\ \A w \in Workers : HasQueues(w)

StartInv == TypeInv /\ InOrder /\ (~spurious => InTurn)

\* Nothing is created before the start.
LEMMA StartInit == Init => StartInv
<1> SUFFICES ASSUME Init PROVE InOrder /\ InTurn
  BY TypeInit DEF StartInv
<1> QED
  BY ContextSets DEF Init, InOrder, InTurn, Running

\* A step of a thread other than its creation gives no queue away.
LEMMA ThreadKeeps ==
    ASSUME TypeInv, NEW c \in Contexts, ThreadStep(c)
    PROVE  /\ ctx' = ctx /\ inputs' = inputs /\ spurious' = spurious
           /\ thread[c] # "none" /\ thread'[c] # "none"
           /\ \A d \in Contexts : d # c => thread'[d] = thread[d]
           /\ \A d \in Contexts : HasQueues(d) => HasQueues(d)'
           /\ \/ main' = main
              \/ main' = "crashed"
              \/ main = "waiting" /\ main' = "started" /\ ctx = c /\ HasQueues(c)
<1> USE DEF TypeInv, TypeOK
<1>1. CASE CallbackStarted(c)
  BY <1>1 DEF CallbackStarted, HasQueues
<1>2. CASE Announce(c)
  BY <1>2 DEF Announce, HasQueues
<1>3. CASE LeaveLoop(c) \/ FreeContext(c)
  BY <1>3 DEF LeaveLoop, FreeContext, HasQueues
<1> QED
  BY <1>1, <1>2, <1>3 DEF ThreadStep

\* Contexts are created one after the other, connections after the workers.
LEMMA OrderStep == TypeInv /\ InOrder /\ [Next]_vars => InOrder'
<1> SUFFICES ASSUME TypeInv, InOrder, [Next]_vars
             PROVE  InOrder'
  OBVIOUS
<1> TypeInv'
  BY TypeStep
<1> USE ContextSets DEF InOrder, Running, TypeInv, TypeOK, LastContext
<1>1. CASE Create
  BY <1>1 DEF Create
<1>2. CASE Wait
  BY <1>2 DEF Wait
<1>3. CASE NextContext
  BY <1>3 DEF NextContext
<1>4. CASE CreateInputs
  <2>1. CASE main' = "new"
    <3>1. ctx' = N /\ ctx + 1 = N /\ inputs' = inputs \cup {ctx} /\ thread' = thread
      BY <1>4, <2>1 DEF CreateInputs
    <3>2. \A w \in Workers : w \in inputs'
      BY <1>4, <3>1 DEF CreateInputs
    <3>3. \A c \in Contexts : c >= ctx' => thread'[c] = "none"
      BY <1>4, <3>1 DEF CreateInputs
    <3>4. inputs' = Workers
      BY <3>2
    <3> QED
      BY <2>1, <3>1, <3>3, <3>4
  <2>2. CASE main' = "inputs"
    BY <1>4, <2>2 DEF CreateInputs
  <2>3. CASE main' = "crashed"
    BY <2>3
  <2> QED
    BY <1>4, <2>1, <2>2, <2>3 DEF CreateInputs
<1>5. CASE StopNKill \/ SignalExit \/ Joined
  BY <1>5 DEF StopNKill, SignalExit, Joined
<1>6. CASE ReadThreadId \/ JoinedWorker
  BY <1>6 DEF ReadThreadId, JoinedWorker
<1>7. CASE TimedOut \/ WakeSpuriously \/ StopAll
  BY <1>7 DEF TimedOut, WakeSpuriously, StopAll
<1>8. ASSUME NEW c \in Contexts, ThreadStep(c)
      PROVE  InOrder'
  <2>1. main' \in {"locked", "waiting"} => thread'[ctx'] \in {"created", "ready"}
    BY <1>8 DEF ThreadStep, CallbackStarted, Announce, LeaveLoop, FreeContext
  <2> QED
    BY <1>8, <2>1, ThreadKeeps
<1>9. CASE UNCHANGED vars
  BY <1>9 DEF vars
<1> QED
  BY <1>1, <1>2, <1>3, <1>4, <1>5, <1>6, <1>7, <1>8, <1>9 DEF Next, MainStep

\* Every context waits for the queues of the ones before it.
LEMMA TurnStep ==
    TypeInv /\ InOrder /\ InTurn /\ [Next]_vars /\ ~spurious' => InTurn'
<1> SUFFICES ASSUME TypeInv, InOrder, InTurn, [Next]_vars, ~spurious'
             PROVE  InTurn'
  OBVIOUS
<1> TypeInv'
  BY TypeStep
<1> USE ContextSets DEF InOrder, InTurn, Running, TypeInv, TypeOK, LastContext
<1>1. CASE Create
  BY <1>1 DEF Create, HasQueues
<1>2. CASE Wait
  BY <1>2 DEF Wait, HasQueues
<1>3. CASE NextContext
  BY <1>3 DEF NextContext, HasQueues
<1>4. CASE CreateInputs
  BY <1>4 DEF CreateInputs, HasQueues
<1>5. CASE StopNKill \/ SignalExit \/ Joined
  BY <1>5 DEF StopNKill, SignalExit, Joined, HasQueues
<1>6. CASE ReadThreadId \/ JoinedWorker
  BY <1>6 DEF ReadThreadId, JoinedWorker, HasQueues
<1>7. CASE TimedOut \/ WakeSpuriously \/ StopAll
  BY <1>7 DEF TimedOut, WakeSpuriously, StopAll, HasQueues
<1>8. ASSUME NEW c \in Contexts, ThreadStep(c)
      PROVE  InTurn'
  BY <1>8, ThreadKeeps
<1>9. CASE UNCHANGED vars
  BY <1>9 DEF vars, HasQueues
<1> QED
  BY <1>1, <1>2, <1>3, <1>4, <1>5, <1>6, <1>7, <1>8, <1>9 DEF Next, MainStep

\* A spurious wake-up is never forgotten.
LEMMA SpuriousStays == [Next]_vars /\ spurious => spurious'
  BY DEF Next, vars, MainStep, Create, Wait, NextContext, CreateInputs, StopNKill,
         SignalExit, Joined, ReadThreadId, JoinedWorker, TimedOut,
         WakeSpuriously, StopAll, ThreadStep, CallbackStarted, Announce,
         LeaveLoop, FreeContext

\* Whoever makes queue inputs finds all queues, but for spurious wake-ups.
THEOREM QueuesFound == Spec => []QueuesThere
<1>1. StartInv => QueuesThere
  BY DEF StartInv, InTurn, QueuesThere
<1>2. StartInv /\ [Next]_vars => StartInv'
  BY TypeStep, OrderStep, TurnStep, SpuriousStays DEF StartInv
<1> QED
  BY <1>1, <1>2, StartInit, PTL DEF Spec

\* The broadcast of a thread never comes before the wait for it.
THEOREM BroadcastInTime == Spec => []NoLostWakeUp
<1>1. StartInv => NoLostWakeUp
  BY DEF StartInv, InOrder, NoLostWakeUp
<1>2. StartInv /\ [Next]_vars => StartInv'
  BY TypeStep, OrderStep, TurnStep, SpuriousStays DEF StartInv
<1> QED
  BY <1>1, <1>2, StartInit, PTL DEF Spec

-----------------------------------------------------------------------------
(***************************************************************************)
(* The stop                                                                *)
(***************************************************************************)

\* Processing threads still to be stopped have not been signalled, and only
\* signalled threads leave.
NotYetSignalled ==
    /\ main \notin Stopping => signalled = {}
    /\ main \in {"kill", "signal"} => \A c \in ProcThreads : c <= ctx => c \notin signalled
    /\ main = "join" => \A c \in ProcThreads : c < ctx => c \notin signalled
    /\ \A c \in Contexts : thread[c] \in {"leaving", "ended"} => c \in signalled

\* Processing threads are signalled in turn, and leave only when signalled.
LEMMA SignalStep == TypeInv /\ NotYetSignalled /\ [Next]_vars => NotYetSignalled'
<1> SUFFICES ASSUME TypeInv, NotYetSignalled, [Next]_vars
             PROVE  NotYetSignalled'
  OBVIOUS
<1> TypeInv'
  BY TypeStep
<1> USE ContextSets DEF NotYetSignalled, Stopping, TypeInv, TypeOK, LastContext
<1>1. CASE Create
  BY <1>1 DEF Create
<1>2. CASE Wait \/ NextContext \/ CreateInputs
  BY <1>2 DEF Wait, NextContext, CreateInputs
<1>3. CASE StopNKill
  BY <1>3 DEF StopNKill
<1>4. CASE SignalExit
  BY <1>4 DEF SignalExit, Signalled
<1>5. CASE Joined
  BY <1>5 DEF Joined
<1>6. CASE ReadThreadId \/ JoinedWorker
  BY <1>6 DEF ReadThreadId, JoinedWorker
<1>7. CASE TimedOut \/ WakeSpuriously
  BY <1>7 DEF TimedOut, WakeSpuriously
<1>8. CASE StopAll
  BY <1>8 DEF StopAll
<1>9. ASSUME NEW c \in Contexts, ThreadStep(c)
      PROVE  NotYetSignalled'
  <2>1. signalled' = signalled /\ ctx' = ctx
    BY <1>9 DEF ThreadStep, CallbackStarted, Announce, LeaveLoop, FreeContext
  <2>2. \A d \in Contexts : thread'[d] \in {"leaving", "ended"} => d \in signalled
    BY <1>9 DEF ThreadStep, CallbackStarted, Announce, LeaveLoop, FreeContext
  <2> QED
    BY <1>9, <2>1, <2>2, ThreadKeeps
<1>10. CASE UNCHANGED vars
  BY <1>10 DEF vars
<1> QED
  BY <1>1, <1>2, <1>3, <1>4, <1>5, <1>6, <1>7, <1>8, <1>9, <1>10 DEF Next, MainStep

\* dap_context_stop_n_kill() never touches a context that is freed.
THEOREM KillIsSafe == Spec => []KillTouchesLive
<1> DEFINE Inv == TypeInv /\ NotYetSignalled
<1>1. Init => Inv
  BY TypeInit, ContextSets DEF Init, NotYetSignalled, Stopping
<1>2. Inv /\ [Next]_vars => Inv'
  BY TypeStep, SignalStep
<1>3. Inv => KillTouchesLive
  BY ContextSets DEF TypeInv, TypeOK, NotYetSignalled, KillTouchesLive, Live
<1> QED
  BY <1>1, <1>2, <1>3, PTL DEF Spec
=============================================================================
