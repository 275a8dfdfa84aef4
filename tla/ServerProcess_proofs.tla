------------------------ MODULE ServerProcess_proofs ------------------------
(***************************************************************************)
(* Theorems about ServerProcess, for any pids and any number of starts.    *)
(***************************************************************************)
EXTENDS ServerProcess, FiniteSetTheorems, TLAPS

\* How far a process can be.
Stages ==
    Startup \cup Leaving \cup Settled \cup
        {"check", "probe", "fork", "stop", "stopProbe", "stopKill"}

\* One process at most is between its begin and its end.
OneBusy == \A p, q \in Pids : at[p] \notin Settled /\ at[q] \notin Settled => p = q

\* Next to a server there are only processes that have not decided yet, and
\* those that have read the pid file have read the server's pid.
BesideServer ==
    \A p, q \in Pids : at[q] = "serving" /\ p # q =>
        /\ at[p] \in {"free", "alien", "check", "probe", "stop", "stopProbe", "stopKill"}
        /\ at[p] \in {"probe", "stopProbe", "stopKill"} => seen[p] = q

\* The files and the board of a copy, as far as its start is.
Holds ==
    \A p \in Pids :
        /\ at[p] \in {"handlers", "opened", "saved", "board", "serving"} => console = p
        /\ at[p] \in {"saved", "board", "serving"} => file = p
        /\ at[p] \in {"board", "serving"} => board = p

\* Crowd or not, a server has the port.
HasPort == \A p \in Pids : at[p] = "serving" => port = p

\* The inductive invariant.
Alone == OneBusy /\ BesideServer /\ Holds
IInv == TypeOK /\ HasPort /\ (~crowded => Alone)

USE DEF Startup, Leaving, Settled

\* Every step of main(), of a signal handler or of the kernel keeps the types.
LEMMA TypeKeeps ==
    ASSUME TypeOK, Next
    PROVE  TypeOK'
<1> PICK p \in Pids :
        \/ \E what \in {"check", "stop", "alien"} : Start(p, what)
        \/ Steps(p) \/ Catch(p) \/ Die(p)
    BY DEF Next
<1>1. CASE \E what \in {"check", "stop", "alien"} : Start(p, what)
    <2>1. at' \in [Pids -> Stages] /\ started' \in 0..MaxStarts
        BY <1>1, MaxStartsAssumption DEF Start, Go, TypeOK, Stages
    <2>2. crowded' \in BOOLEAN
        BY <1>1 DEF Start, Begin, TypeOK
    <2> QED BY <1>1, <2>1, <2>2 DEF Start, TypeOK, Stages
<1>2. CASE ReadPid(p)
    BY <1>2 DEF ReadPid, Go, PidInFile, TypeOK
<1>3. CASE Probe(p)
    BY <1>3 DEF Probe, Go, IsProcessRunning, Alive, TypeOK
<1>4. CASE StopProbe(p)
    BY <1>4 DEF StopProbe, Go, IsProcessRunning, Alive, TypeOK
<1>5. CASE StopKill(p)
    BY <1>5 DEF StopKill, TypeOK
<1>6. CASE \E child \in Pids : Daemonize(p, child)
    BY <1>6 DEF Daemonize, TypeOK
<1>7. CASE UnlinkConsole(p)
    BY <1>7 DEF UnlinkConsole, Go, TypeOK
<1>8. CASE BindConsole(p)
    BY <1>8 DEF BindConsole, Go, TypeOK
<1>9. CASE OpenPidFile(p)
    BY <1>9, NoPidAssumption DEF OpenPidFile, Go, TypeOK
<1>10. CASE WritePid(p)
    BY <1>10 DEF WritePid, Go, Saved, TypeOK
<1>11. CASE EthSrvInit(p)
    BY <1>11 DEF EthSrvInit, Go, TypeOK
<1>12. CASE EthSrvStart(p)
    BY <1>12 DEF EthSrvStart, Go, TypeOK
<1>13. CASE Catch(p)
    BY <1>13 DEF Catch, Go, Begin, TypeOK
<1>14. CASE ClearPidFile(p)
    BY <1>14 DEF ClearPidFile, Go, TypeOK
<1>15. CASE Exit(p)
    BY <1>15, NoPidAssumption DEF Exit, Go, Gone, Saved, TypeOK
<1>16. CASE Die(p)
    BY <1>16, NoPidAssumption DEF Die, Go, Gone, TypeOK
<1> QED BY <1>1, <1>2, <1>3, <1>4, <1>5, <1>6, <1>7, <1>8, <1>9, <1>10, <1>11, <1>12, <1>13, <1>14, <1>15, <1>16 DEF Steps

\* bind() gives the port to one copy, and only the end of a process frees it.
LEMMA PortKeeps ==
    ASSUME TypeOK, HasPort, Next
    PROVE  HasPort'
<1> PICK p \in Pids :
        \/ \E what \in {"check", "stop", "alien"} : Start(p, what)
        \/ Steps(p) \/ Catch(p) \/ Die(p)
    BY DEF Next
<1>1. CASE \E what \in {"check", "stop", "alien"} : Start(p, what)
    BY <1>1 DEF Start, Go, Begin, TypeOK, HasPort
<1>2. CASE ReadPid(p)
    BY <1>2 DEF ReadPid, Go, PidInFile, TypeOK, HasPort
<1>3. CASE Probe(p)
    BY <1>3 DEF Probe, Go, IsProcessRunning, Alive, TypeOK, HasPort
<1>4. CASE StopProbe(p)
    BY <1>4 DEF StopProbe, Go, IsProcessRunning, Alive, TypeOK, HasPort
<1>5. CASE StopKill(p)
    BY <1>5, NoPidAssumption DEF StopKill, TypeOK, HasPort
<1>6. CASE \E child \in Pids : Daemonize(p, child)
    BY <1>6 DEF Daemonize, TypeOK, HasPort
<1>7. CASE UnlinkConsole(p)
    BY <1>7 DEF UnlinkConsole, Go, TypeOK, HasPort
<1>8. CASE BindConsole(p)
    BY <1>8 DEF BindConsole, Go, TypeOK, HasPort
<1>9. CASE OpenPidFile(p)
    BY <1>9 DEF OpenPidFile, Go, TypeOK, HasPort
<1>10. CASE WritePid(p)
    BY <1>10 DEF WritePid, Go, Saved, TypeOK, HasPort
<1>11. CASE EthSrvInit(p)
    BY <1>11 DEF EthSrvInit, Go, TypeOK, HasPort
<1>12. CASE EthSrvStart(p)
    BY <1>12, NoPidAssumption DEF EthSrvStart, Go, TypeOK, HasPort
<1>13. CASE Catch(p)
    BY <1>13 DEF Catch, Go, Begin, TypeOK, HasPort
<1>14. CASE ClearPidFile(p)
    BY <1>14 DEF ClearPidFile, Go, TypeOK, HasPort
<1>15. CASE Exit(p)
    BY <1>15, NoPidAssumption DEF Exit, Go, Gone, Saved, TypeOK, HasPort
<1>16. CASE Die(p)
    BY <1>16, NoPidAssumption DEF Die, Go, Gone, TypeOK, HasPort
<1> QED BY <1>1, <1>2, <1>3, <1>4, <1>5, <1>6, <1>7, <1>8, <1>9, <1>10, <1>11, <1>12, <1>13, <1>14, <1>15, <1>16 DEF Steps

\* A step that makes no crowd leaves the one copy alone with its files: the
\* pid check reads the pid of a server that is up and then leaves.
LEMMA AloneKeeps ==
    ASSUME IInv, ~crowded', Next
    PROVE  Alone'
<1> PICK p \in Pids :
        \/ \E what \in {"check", "stop", "alien"} : Start(p, what)
        \/ Steps(p) \/ Catch(p) \/ Die(p)
    BY DEF Next
<1> USE DEF TypeOK, HasPort, Alone, OneBusy, BesideServer, Holds, IInv
<1>1. CASE \E what \in {"check", "stop", "alien"} : Start(p, what)
    <2> PICK what \in {"check", "stop", "alien"} : Start(p, what)
        BY <1>1
    <2>1. Alone
        BY DEF Start, Begin
    <2>2. what # "alien" => \A q \in Pids \ {p} : at[q] \in Settled
        BY DEF Start, Begin
    <2>3. at' = [at EXCEPT ![p] = what] /\ UNCHANGED <<seen, file, console, board, port>>
        BY DEF Start, Go
    <2> QED BY <2>1, <2>2, <2>3 DEF Start
<1>2. CASE ReadPid(p)
    BY <1>2 DEF ReadPid, Go, PidInFile
<1>3. CASE Probe(p)
    BY <1>3, NoPidAssumption DEF Probe, Go, IsProcessRunning, Alive
<1>4. CASE StopProbe(p)
    BY <1>4, NoPidAssumption DEF StopProbe, Go, IsProcessRunning, Alive
<1>5. CASE StopKill(p)
    BY <1>5 DEF StopKill
<1>6. CASE \E child \in Pids : Daemonize(p, child)
    BY <1>6 DEF Daemonize
<1>7. CASE UnlinkConsole(p)
    BY <1>7 DEF UnlinkConsole, Go
<1>8. CASE BindConsole(p)
    BY <1>8, NoPidAssumption DEF BindConsole, Go
<1>9. CASE OpenPidFile(p)
    BY <1>9 DEF OpenPidFile, Go
<1>10. CASE WritePid(p)
    BY <1>10 DEF WritePid, Go, Saved
<1>11. CASE EthSrvInit(p)
    BY <1>11 DEF EthSrvInit, Go
<1>12. CASE EthSrvStart(p)
    BY <1>12 DEF EthSrvStart, Go
<1>13. CASE Catch(p)
    <2>1. Alone /\ \A q \in Pids \ {p} : at[q] \in Settled
        BY <1>13 DEF Catch, Begin
    <2>2. \A q \in Pids \ {p} : at[q] # "serving"
        BY <1>13, <2>1 DEF Catch
    <2> QED BY <1>13, <2>1, <2>2 DEF Catch, Go
<1>14. CASE ClearPidFile(p)
    BY <1>14 DEF ClearPidFile, Go
<1>15. CASE Exit(p)
    BY <1>15 DEF Exit, Go, Gone, Saved
<1>16. CASE Die(p)
    BY <1>16 DEF Die, Go, Gone
<1> QED BY <1>1, <1>2, <1>3, <1>4, <1>5, <1>6, <1>7, <1>8, <1>9, <1>10, <1>11, <1>12, <1>13, <1>14, <1>15, <1>16 DEF Steps

\* IInv is inductive.
LEMMA InvariantHolds == Spec => []IInv
<1>1. ASSUME Init
      PROVE  IInv
    <2>1. TypeOK
        <3>1. crowded \in BOOLEAN
            BY <1>1 DEF Init
        <3>2. started \in 0..MaxStarts
            BY <1>1, MaxStartsAssumption DEF Init
        <3> QED BY <1>1, <3>1, <3>2 DEF Init, TypeOK
    <2>2. HasPort /\ Alone
        BY <1>1 DEF Init, HasPort, Alone, OneBusy, BesideServer, Holds
    <2> QED BY <2>1, <2>2 DEF IInv
<1>2. ASSUME IInv, [Next]_vars
      PROVE  IInv'
    <2>1. CASE Next
        BY <1>2, <2>1, TypeKeeps, PortKeeps, AloneKeeps DEF IInv
    <2>2. CASE UNCHANGED vars
        BY <1>2, <2>2 DEF vars, IInv, TypeOK, HasPort, Alone, OneBusy, BesideServer, Holds
    <2> QED BY <1>2, <2>1, <2>2
<1> QED BY <1>1, <1>2, PTL DEF Spec

\* Process states, files and owners keep their types, whatever starts, stops,
\* crashes and pids used again main() meets.
THEOREM TypeInvariant == Spec => []TypeOK
<1>1. IInv => TypeOK
    BY DEF IInv
<1> QED BY <1>1, InvariantHolds, PTL

\* eth_srv_start() goes on to listen only with the port in its hands, so that no
\* two copies ever listen.
THEOREM ListenerHasPort == Spec => []OnePort
<1>1. IInv => OnePort
    BY DEF IInv, HasPort, OnePort
<1> QED BY <1>1, InvariantHolds, PTL

\* s_exit_if_server_already_running() keeps a second copy away as long as
\* starts, stops and exits are made one after the other.
THEOREM NoSecondCopy == Spec => []LoneCopy
<1>1. ASSUME IInv, ~crowded
      PROVE  Cardinality(Running) <= 1
    <2>1. \A p, q \in Running : p = q
        BY <1>1 DEF IInv, HasPort, Alone, OneBusy, BesideServer, Running
    <2>2. CASE Running = {}
        BY <2>2, FS_EmptySet
    <2>3. CASE Running # {}
        <3>1. PICK p : Running = {p}
            BY <2>1, <2>3
        <3>2. Cardinality({p}) = 1
            BY FS_Singleton
        <3> QED BY <3>1, <3>2
    <2> QED BY <2>2, <2>3
<1>2. IInv => LoneCopy
    BY <1>1 DEF LoneCopy
<1> QED BY <1>2, InvariantHolds, PTL

\* Until then the pid file names the server, the console's socket file is its
\* own and it set up the board last.
THEOREM ServerUndisturbed == Spec => []Undisturbed
<1>1. IInv => Undisturbed
    BY DEF IInv, HasPort, Alone, Holds, Undisturbed
<1> QED BY <1>1, InvariantHolds, PTL

\* "drs_server --stop" that kills kills the server: none is left serving.
THEOREM StopIsFinal == Spec => StopStops
<1> DEFINE Kills ==
        \A p \in Pids : StopKill(p) /\ ~crowded => \A q \in Pids : at'[q] # "serving"
<1>1. ASSUME IInv, [Next]_vars
      PROVE  [Kills]_vars
    <2> SUFFICES ASSUME NEW p \in Pids, StopKill(p), ~crowded, NEW q \in Pids
                 PROVE  at'[q] # "serving"
        OBVIOUS
    <2>1. at[q] = "serving" => seen[p] = q
        BY <1>1 DEF IInv, Alone, BesideServer, StopKill
    <2> QED BY <1>1, <2>1 DEF IInv, TypeOK, StopKill
<1> QED BY <1>1, InvariantHolds, PTL DEF Spec, StopStops

=============================================================================
