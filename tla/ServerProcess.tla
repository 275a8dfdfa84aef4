--------------------------- MODULE ServerProcess ---------------------------
(***************************************************************************)
(* Copies of drs_server on one machine: main() from parse_args() to        *)
(* eth_srv_loop(), "drs_server --stop", the exit signals, and what copies  *)
(* share: the pid file, the console's socket file, the board and the port. *)
(* A pid is named again for another process once its process is gone.      *)
(*                                                                         *)
(* The console is the unix socket of section [conserver], pids have all    *)
(* the same number of digits, and every process may signal every other.    *)
(***************************************************************************)
EXTENDS Naturals, FiniteSets

CONSTANTS
    Pids,       \* numbers the kernel gives to processes
    NoPid,      \* 0, an empty pid file; nobody
    MaxStarts   \* bound: processes started

ASSUME NoPidAssumption == NoPid \notin Pids
ASSUME MaxStartsAssumption == MaxStarts \in Nat

VARIABLES
    at,         \* what runs under a pid, and how far it is
    seen,       \* the pid a process read from the file
    file,       \* the pid file
    console,    \* whose socket the console's file is
    board,      \* who set up the board last
    port,       \* who listens on PORT
    started,    \* processes started so far
    crowded     \* something began while a process was starting or stopping

vars == <<at, seen, file, console, board, port, started, crowded>>

\* main() after parse_args(), in order.
Startup == {"setup", "unlinked", "handlers", "opened", "saved", "board"}
Leaving == {"caught", "cleared", "caughtSaving", "clearedSaving"}
Running == {p \in Pids : at[p] \in Startup \cup Leaving \cup {"serving"}}
Settled == {"free", "alien", "serving"}

Alive(p) == at[p] # "free"

Go(p, where) == at' = [at EXCEPT ![p] = where]

Begin(p) == crowded' = (crowded \/ \E q \in Pids \ {p} : at[q] \notin Settled)

\* The kernel's part of the end of a process.
Gone(p) ==
    /\ Go(p, "free")
    /\ port' = IF port = p THEN NoPid ELSE port
    /\ UNCHANGED <<console, board, started, crowded>>

-----------------------------------------------------------------------------
(***************************************************************************)
(* parse_args()                                                            *)
(***************************************************************************)

\* A process starts: a server, "--stop", or somebody else's program.
Start(p, what) ==
    /\ at[p] = "free"
    /\ started < MaxStarts
    /\ started' = started + 1
    /\ Go(p, what)
    /\ IF what = "alien" THEN UNCHANGED crowded ELSE Begin(p)
    /\ UNCHANGED <<seen, file, console, board, port>>

\* get_pid_from_file()
PidInFile == file

ReadPid(p) ==
    /\ at[p] \in {"check", "stop"}
    /\ seen' = [seen EXCEPT ![p] = PidInFile]
    /\ Go(p, IF at[p] = "check" THEN "probe" ELSE "stopProbe")
    /\ UNCHANGED <<file, console, board, port, started, crowded>>

\* Variant: a pid in the file is taken for a leftover.
IsProcessRunningNever(pid) == FALSE

\* is_process_running(), not asked for pid 0
IsProcessRunning(pid) == pid # NoPid /\ Alive(pid)

\* s_exit_if_server_already_running(): exit(-2), or on with main()
Probe(p) ==
    /\ at[p] = "probe"
    /\ IF IsProcessRunning(seen[p]) THEN Go(p, "free")
       ELSE Go(p, "setup") \/ Go(p, "fork")
    /\ UNCHANGED <<seen, file, console, board, port, started, crowded>>

\* daemonize_process(): the parent is gone and a child goes on.
Daemonize(p, child) ==
    /\ at[p] = "fork"
    /\ at[child] = "free"
    /\ at' = [at EXCEPT ![p] = "free", ![child] = "setup"]
    /\ UNCHANGED <<seen, file, console, board, port, started, crowded>>

\* --stop: pid 0 and pids of no process are refused.
StopProbe(p) ==
    /\ at[p] = "stopProbe"
    /\ Go(p, IF IsProcessRunning(seen[p]) THEN "stopKill" ELSE "free")
    /\ UNCHANGED <<seen, file, console, board, port, started, crowded>>

\* Variant: that the process is there is taken for success.
StopKillNothing(p) ==
    /\ at[p] = "stopKill"
    /\ Go(p, "free")
    /\ UNCHANGED <<seen, file, console, board, port, started, crowded>>

\* kill(pid, SIGKILL) and exit
StopKill(p) ==
    /\ at[p] = "stopKill"
    /\ at' = [at EXCEPT ![p] = "free", ![seen[p]] = "free"]
    /\ port' = IF port = seen[p] THEN NoPid ELSE port
    /\ UNCHANGED <<seen, file, console, board, started, crowded>>

-----------------------------------------------------------------------------
(***************************************************************************)
(* main() after parse_args()                                               *)
(***************************************************************************)

\* dap_cli_server_init(): a socket file that is there is unlinked ...
UnlinkConsole(p) ==
    /\ at[p] = "setup"
    /\ console' = NoPid
    /\ Go(p, "unlinked")
    /\ UNCHANGED <<seen, file, board, port, started, crowded>>

\* ... and a new one bound, unless there is one again: return -11. Then
\* sig_unix_handler_init().
BindConsole(p) ==
    /\ at[p] = "unlinked"
    /\ IF console = NoPid THEN console' = p /\ Go(p, "handlers")
       ELSE UNCHANGED console /\ Go(p, "free")
    /\ UNCHANGED <<seen, file, board, port, started, crowded>>

\* save_process_pid_in_file(): fopen() empties the file ...
OpenPidFile(p) ==
    /\ at[p] = "handlers"
    /\ file' = NoPid
    /\ Go(p, "opened")
    /\ UNCHANGED <<seen, console, board, port, started, crowded>>

\* Variant: the pid is not flushed to the file.
SavedNothing(p) == NoPid

Saved(p) == p

\* ... and fclose() writes the pid.
WritePid(p) ==
    /\ at[p] = "opened"
    /\ file' = Saved(p)
    /\ Go(p, "saved")
    /\ UNCHANGED <<seen, console, board, port, started, crowded>>

\* eth_srv_init(), which sets up the board, or fails in init_mem(); main()
\* then calls accept() on no socket, and eth_srv_loop() exits.
EthSrvInit(p) ==
    /\ at[p] = "saved"
    /\ \/ board' = p /\ Go(p, "board")
       \/ UNCHANGED board /\ Go(p, "free")
    /\ UNCHANGED <<seen, file, console, port, started, crowded>>

\* eth_srv_start(): exit(1) when the port is taken
EthSrvStart(p) ==
    /\ at[p] = "board"
    /\ IF port = NoPid THEN port' = p /\ Go(p, "serving")
       ELSE UNCHANGED port /\ Go(p, "free")
    /\ UNCHANGED <<seen, file, console, board, started, crowded>>

-----------------------------------------------------------------------------
(***************************************************************************)
(* Signals                                                                 *)
(***************************************************************************)

\* SIGTERM and the like with sig_exit_handler() installed; the FILE of
\* save_process_pid_in_file() may hold the pid.
Catch(p) ==
    /\ at[p] \in {"handlers", "opened", "saved", "board", "serving"}
    /\ Go(p, IF at[p] = "opened" THEN "caughtSaving" ELSE "caught")
    /\ Begin(p)
    /\ UNCHANGED <<seen, file, console, board, port, started>>

\* clear_pid_file()
ClearPidFile(p) ==
    /\ at[p] \in {"caught", "caughtSaving"}
    /\ file' = NoPid
    /\ Go(p, IF at[p] = "caught" THEN "cleared" ELSE "clearedSaving")
    /\ UNCHANGED <<seen, console, board, port, started, crowded>>

\* exit(0), which flushes open FILEs
Exit(p) ==
    /\ at[p] \in {"cleared", "clearedSaving"}
    /\ file' = IF at[p] = "clearedSaving" THEN Saved(p) ELSE file
    /\ Gone(p)
    /\ UNCHANGED seen

\* A crash, SIGKILL, or a signal before the handlers are installed; also the
\* end of a program that is not drs_server.
Die(p) ==
    /\ Alive(p)
    /\ Gone(p)
    /\ UNCHANGED <<seen, file>>

-----------------------------------------------------------------------------

Init ==
    /\ at = [p \in Pids |-> "free"]
    /\ seen = [p \in Pids |-> NoPid]
    /\ file \in Pids \cup {NoPid}
    /\ console = NoPid
    /\ board = NoPid
    /\ port = NoPid
    /\ started = 0
    /\ crowded = FALSE

Steps(p) ==
    \/ ReadPid(p) \/ Probe(p) \/ StopProbe(p) \/ StopKill(p)
    \/ \E child \in Pids : Daemonize(p, child)
    \/ UnlinkConsole(p) \/ BindConsole(p) \/ OpenPidFile(p) \/ WritePid(p)
    \/ EthSrvInit(p) \/ EthSrvStart(p)
    \/ ClearPidFile(p) \/ Exit(p)

Next ==
    \E p \in Pids :
        \/ \E what \in {"check", "stop", "alien"} : Start(p, what)
        \/ Steps(p)
        \/ Catch(p) \/ Die(p)

Spec == Init /\ [][Next]_vars

-----------------------------------------------------------------------------
(***************************************************************************)
(* Properties                                                              *)
(***************************************************************************)

\* Process states, the files and the owners keep their types.
TypeOK ==
    /\ at \in [Pids -> Startup \cup Leaving \cup Settled \cup
                {"check", "probe", "fork", "stop", "stopProbe", "stopKill"}]
    /\ seen \in [Pids -> Pids \cup {NoPid}]
    /\ {file, console, board, port} \subseteq Pids \cup {NoPid}
    /\ started \in 0..MaxStarts
    /\ crowded \in BOOLEAN

\* s_exit_if_server_already_running() keeps a second copy away from console,
\* pid file and board if starts, stops and exits are made one after the other,
\* in spite of crashes, leftover pid files and pids used again.
LoneCopy == ~crowded => Cardinality(Running) <= 1

\* Nothing but a crowd separates the copy that listens from what it needs: the
\* pid file names it, so that --stop and the next start find it, the console's
\* file is its own, and it set up the board last.
Undisturbed ==
    ~crowded => \A p \in Pids :
        at[p] = "serving" => file = p /\ console = p /\ board = p /\ port = p

\* Whoever listens owns the port: a copy that finds it taken does not go on.
OnePort == \A p, q \in Pids : at[p] = "serving" /\ at[q] = "serving" => p = q

\* --stop does not report success over a server that goes on.
StopStops ==
    [][\A p \in Pids : StopKill(p) /\ ~crowded =>
          \A q \in Pids : at'[q] # "serving"]_vars

\* What s_exit_if_server_already_running() says (main_server.c:231): "don't
\* allow to run more than one copy of DapServer".
OneCopy == Cardinality(Running) <= 1
=============================================================================
