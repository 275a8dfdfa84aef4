# drs_server: TLA+ models and proofs

drs_server is a data-acquisition server: a process that drives a digitiser
board, serves clients of a TCP port one after the other, and is built on the
reactor of the vendored DAP SDK (`src/sources/dap-sdk/modules/io`), whose
worker and processing threads are started in every copy. This directory holds
TLA+ modules of these parts, TLC configurations that check them on small
instances, and proofs that TLAPS checks for all instances.

Paths below are relative to `src/sources/`; `io/` is `dap-sdk/modules/io/`.

## 1. Inventory

| part | state | operations | interacts by |
|---|---|---|---|
| worker reactor (`io/dap_worker.c`, `io/dap_context.c`, `io/dap_events_socket.c`) | per context: hash table of esockets, `event_sockets_count`, poll array; per esocket: flags, `context`, `poll_index`, `buf_out` | add, delete, reassign, write requests; poll pass; squeezing of the array; activity timer | messages through queue esockets; callbacks |
| queue esockets (same files, `core/include/dap_list.h`) | pipe, boxes and aiocbs, the context's garbage list | send, AIO helper's write, read and callback | AIO of the C library |
| processing threads (`io/dap_proc_thread.c`, `io/dap_proc_queue.c`) | lists by priority, event esocket | add a callback, run callbacks, delete the queue | queue and event esockets |
| life cycle (`io/dap_events.c`, `dap_context_run` and others) | contexts, their threads, `started_cond` | start, wait, stop, join | threads |
| timers (`io/dap_timerfd.c`) | timerfd esockets | expiry, re-arming, reset and delete from other threads | worker queues |
| esocket buffers (`io/dap_events_socket.c`) | `buf_in`, `buf_out` | write, insert, shrink, pop | none |
| server process (`main_server.c`, `sig_unix_handler.c`, `dap_process_manager.c`) | pid file, signal handlers | start, `-D`, `--stop`, exit signals | file, signals |
| acquisition server (`eth_srv.c`) | sockets, `buf_in`, `tmasFast`, `shift`, `ini`, `COEFF` | accept, receive, handle, send | TCP, board library |
| console server (`dap_cli_server.c`) | socket file, command table, a thread per connection | accept, read a request, execute, reply, hang up | unix socket |
| console client (`main_cli.c`, `dap_app_cli_net.c`) | the request, the answer, its status | connect, send, receive, the shell's next command | unix socket |
| rest | | | configuration, strings, ciphers, other network modules: see `PROJECT.json` |

What is hard in this code: the reactor removes esockets from tables it is
walking; every request between threads is a message that may be lost in a full
pipe or be overtaken by one of another queue; memory is freed by one of two
parties, whoever comes last; callbacks of four priorities share one thread and
one wake-up; copies of the process meet over a pid file that is checked early
and written late; the acquisition server keeps buffers from client to
client and trusts `recv()` to return one command; threads are started one after
the other over condition variables without a predicate, and free the contexts
they are stopped through; and either end of a console connection may be cut,
stopped or killed at any byte. `PROJECT.json` lists each of
these hazards at its line, with the properties about it.

What makes each part correct: *reactor*: all tables agree at every step, no
event is served for an esocket that is gone, an esocket is in exactly one
place, data leaves in the order it was written, output that waits is polled
for. *Queues*: at most once, in order, nothing freed too early or forgotten.
*Processing threads*: no wake-up lost, order of priorities, every accepted
callback ends. *Process*: one copy, and the pid file, console, board and port
belong to it. *Acquisition server*: answers in step with commands, pages and
shifts that belong together and are the connection's own wherever it acquired
any, turns for all connections. *Life cycle*: start and
stop end, and nobody uses what is not there yet or not there any more.
*Console*: a command runs as it was typed or not at all, success means a whole
answer to this command, and nobody waits for a peer that has gone.

## 2. Modules

| module | models | composed with |
|---|---|---|
| `Reactor` | workers, contexts, their request queues and the activity timer | refines `EsocketOwnership` |
| `EsocketOwnership` | abstract: an esocket is outside, moving, on one worker, or gone | |
| `QueuePtr` | queue esockets of one context, down to boxes and aiocbs | refines `LossyFifo` |
| `LossyFifo` | abstract: what users of a queue may rely on, and `Reactor` and `ProcThread` assume of their queues | |
| `ProcThread` | one processing thread and its proc_queue | |
| `ServerProcess` | copies of the process and what they share | |
| `EthSrv` | accept and command loop with its clients | |
| `ContextLife` | start and stop of all worker and processing threads | |
| `Console` | console clients and the threads that serve them | |
| `MC...` | bounds and symmetry for TLC | |
| `..._proofs` | theorems | |

### Reactor

Per esocket: `life`, `owner` (`context`), `index` (`poll_index`), `init`, `moved`,
`closing`, `want`, `armed`, `out` (`buf_out`), `idle`. Per worker: `table` (the
hash table), `count` (`event_sockets_count`), `poll` (the client part of the poll
array), `inPass` and `ready` (the slots poll() reported that are still to be
served), and the pipes `newQ`, `delQ`, `ioQ`, `reQ`. A message sent to a full
pipe is lost, as the helper's write to the non-blocking pipe is. `home` is the
worker the application was last told an esocket is on, where it sends its
requests. One `Poll` takes a snapshot of what is ready; every slot is then
served, in the order of the array, by one action (`ServeNew`, `ServeDelete`,
`ServeIo`, `ServeReassign`, `ServeTimer`, `ServeBroken`, `ServeClient`,
`SkipSlot`), which does all that the code does for this slot, callbacks, removal
and freeing included, and `EndPass` squeezes the array. Threads interleave
between slots: a worker's tables are touched by its own thread only, so that
slots are the grain at which other threads can matter, through the pipes.
`WriteOrder` is about esockets with `DAP_SOCK_REASSIGN_ONCE`: one that may go
back to its first worker may meet writes left behind there.

`Greeters` are the esockets whose `new_callback` may write. What it writes raises
the flag and not POLLOUT, as the esocket is not marked initialised yet, and a
later write finds the flag raised and leaves POLLOUT alone: until a reassign
rebuilds the slot, that output and all behind it waits. `BufferedIsArmed` says
that nothing else is ever left waiting so.

Not in this module: accept on listening esockets, connecting sockets, `no_close`
esockets, the set_readable/set_writable messages, thread exit. Esockets have a
socket: for one with 0 or INVALID_SOCKET `dap_context_add()` changes neither
table nor count (`io/dap_context.c:1334`), while `dap_context_remove()` lowers the
count in any case (:1355). And a `read_callback` that takes its own esocket off
the context (:719) is left out; none that drs_server is built with does so.

### QueuePtr

A send allocates box and aiocb and hands a write to the AIO helper; the helper
writes (`Write`, lost when the pipe is full) and later sets the aiocb's state
(`Finish`); the reader may come between the two, and then puts the aiocb on the
garbage list of its context. The helper is the C library's: writes to one
descriptor are done in the order of the sends.

### ProcThread

`list[pri]` are the callbacks of a priority, `event` the event esocket. A pass of
`s_proc_event_callback` is `ServeEvent`, then a `Run` per callback with the
choice to finish or to be put back, then `Return` when nothing is left or the
second is over. Messages may arrive between two runs: they stay in the pipe
until the pass is over, since one thread does both.

### ServerProcess

`at[p]` is how far the process with pid `p` is; a pid may name another process,
also somebody else's program, once the first is gone. Each system call that
copies can see is an action of its own: reading the pid file, `kill(pid, 0)`,
the fork of `-D`, unlinking and binding the console's socket, emptying and
writing the pid file, setting up the board, `bind()`. A signal with the handler
installed stops the normal course at any of these points, and `exit()` may still
flush the half-written pid file. `crowded` becomes true when a start, a stop or
an exit begins while another is under way; the safety properties are about
histories without it, `OneCopy` about all. Assumed: pids of one length, root
permissions, a writable pid file, the console on a unix socket.

### EthSrv

`stream[c]` are commands on their way; a `recv()` takes one or more of them and
handles the first (`RecvCommand`). The answer is sent by a step of its own
(`SendAnswer`), which blocks while the client's socket is full, or given up
(`SendFails`). The ini file is sent in as many parts as `read()` returns, or not
at all when it is missing, unreadable or empty (`SendIniFile`); no pages and
unknown numbers have no answer either. Commands that touch neither pages nor
shifts, and send something or nothing, are the action `Other`.

`tmasFast` is a sequence of blocks of 8192 doubles: a page is one, followed by its
X array when the command asks for X (`Stride`). A block is the acquisition it is
of and how often it was converted; a shift is the number of its acquisition.
`Filled` is what `readNPages()`, or `onceGet()` of a soft start, leaves in the
buffer, `Converted` the loop behind it, which goes over all pages asked for,
acquired or not. `own`, `since` and `strides` are history: the last acquisition of
each page by the connection served, the last one before it, and the layouts used
so far. Assumed: TCP hands over whole commands; the board library returns.

### ContextLife

`main` is where the starting (later the stopping) thread is in the context `ctx`
it works on, `thread[c]` how far the thread of context `c` is: created, ready
(its `callback_started` is done), in its loop, leaving, ended, which is when the
context is freed. `main = "locked"` is the time from `pthread_create()` to the
wait, when `started_mutex` is held and the new thread cannot broadcast. A wait
may time out or wake up spuriously, which the code takes for the start. The stop
is `dap_events_stop_all()` and then `dap_events_deinit()`, in the order of their
calls, for a reactor that started; drs_server itself ends by its exit signals
and never calls it. A read of a context that its thread has freed returns the
right number or ends in a crash.

### Console

A request on its way is a sequence of line contents and line ends (`EOL`): header
lines (one stands for all), an empty line, name and arguments, an empty line; an
answer is its head with the length, the empty line behind it and the body.
`Send`, `SendReply` and the receives move any number of these parts, so that
requests and answers are cut everywhere. `client[c]` and `session[c]` are the
program counters of the two ends; a program that is gone leaves nothing behind
but what it has sent. `Stall` is a client that is stopped longer than the five
seconds `dap_net_recv()` waits for a byte, and a receive may take longer than the
client's ten seconds. An argument with `;` is sent as base64 and reaches the
command so: the server does not decode it, and an empty argument ends the
request. `Understood` states this as the meaning of a request. `Known` stands for
the command table, to which drs_server adds nothing. Arguments come from the
command line or the shell; only the former can be empty.

## 3. Runs

| run | bounds | shows |
|---|---|---|
| `reactor_tables` | 2 workers, 2 esockets, 2 requests, pipes of 1 | tables agree in every state (`TableConsistent`), slots served are still there (`ReadyBacked`), an esocket is in one place (`Accounted`), refinement of `EsocketOwnership`, a scan that finds timed-out esockets closes one (`ScanCloses`) |
| `reactor_writes` | 1 esocket whose `new_callback` writes or not, 2 payloads, 2 requests, pipes of 2 | order of data over reassignments (`WriteOrder`), waiting output is polled for unless it stands behind a greeting before the first reassign (`BufferedIsArmed`) |
| `reactor_handover` | 1 esocket, fair threads | handed over means installed, deleted means freed |
| `reactor_delete_report` | as above | finding: "has been disconnected" is said of an esocket that lives on |
| `queue_ptr` | 2 queues, 4 pointers, pipes of 1 | memory safe and reclaimed, refinement of `LossyFifo`, accepted pointers arrive unless a pipe is full |
| `proc_thread` | 3 callbacks, one repeats for ever, priorities asked for 0, 1, 3 and the illegal 4, pipe of 2, a delete | wake-ups, order, no callback lost or doubled, an accepted callback ends, the message after a kill kills |
| `server_process` | 3 pids, 4 processes | without overlap there is one copy and all is its own; `--stop` leaves no server behind |
| `server_copies` | 2 pids, 2 processes | finding: two copies pass the check |
| `eth_srv` | 2 clients, 3 commands of a menu (2 pages by soft start or page mode, with X or without; 2 shifts; a value or nothing; the ini file in up to 2 parts), sockets of 1 answer | answers in step; shifts of the connection's own acquisition or from before it (`ShiftsOwnOrOlder`); pages that fit their shifts (`PagesFitShifts`); turns |
| `context_life` | 3 workers, 3 processing threads | queues are there when inputs are made (`QueuesThere`), no broadcast is lost, a stop reads no freed context of a processing thread, start and stop end |
| `console` | a command of a command line (an argument to encode and an empty one, or no name at all), a shell with 2 commands | commands run as typed, success is the whole answer to the command, neither end waits for a peer that has gone, all connections are accepted |
| `console_pipe` | the same | finding: a client that is killed ends the server |

Why these bounds are enough for the cases that matter: two workers and two
esockets give every overlap of removal, reassignment and squeezing (a slot
before, at and after the one removed); pipes of one packet make every queue
full; four pointers over two queues let a finished aiocb wait behind an
unfinished one of another queue; three pids give a server, a newcomer and a
`--stop` or a stranger at once, with a leftover file and a pid used again;
three commands let two be merged while one is answered, and a soft start follow
an acquisition of two pages by another client before the shifts are asked for; three workers give a
first, a middle and a last context to every loop of start and stop; two clients
let one session wait while another is opened, and two commands in a shell meet
the connection the server closes after one. Deadlock is not checked
where requests are bounded, since the system then rightly comes to rest.

Fairness. `Reactor`, `ProcThread`: weak fairness of each thread's loop, which
blocks only in poll(), and of the AIO helper inside a send. `QueuePtr`: the
helper and the reader. `ProcThread` also assumes that the clock ends a pass.
`EthSrv`: the server's thread and clients that take their answers;
`EveryTurn` states its condition, that the server comes back to `accept()`, in
the property, because a client may stay for ever. `ContextLife`: every thread, also the starting
one; not the clock, so that `StartEnds` holds without the timeout. `Console`: the
accepting thread, every session and every client that is neither stopped nor
killed; nothing of users, so that a client at its prompt may stay for ever. No
fairness is assumed of requests, signals, disconnections or failures.

## 4. Proofs

| theorem | module | for every |
|---|---|---|
| `TypeInvariant`, `ReadyIsBacked`, `TablesConsistent`, `EsocketsAccounted`, `ReactorKeepsOwnership`, `TimerMakesProgress` | `Reactor_proofs` | number of workers, esockets, payloads, pipe size |
| `OutputIsPolledFor`, `WritesKeepOrder`, `DeleteIsExcused` | `ReactorOrder_proofs` | the same |
| `TypeInvariant`, `AlwaysAwake`, `HigherFirst`, `CallbackInOnePlace` | `ProcThread_proofs` | set of callbacks, priorities |
| `TypeInvariant`, `HelperIsSafe`, `MemoryReclaimed`, `QueueIsLossyFifo` | `QueuePtr_proofs` | set of queues and pointers, pipe size |
| `TypeInvariant`, `ListenerHasPort`, `NoSecondCopy`, `ServerUndisturbed`, `StopIsFinal` | `ServerProcess_proofs` | set of pids, number of starts |
| `TypeInvariant`, `QueuesFound`, `BroadcastInTime`, `KillIsSafe` | `ContextLife_proofs` | number of workers |
| `TypeInvariant`, `OrderKept`, `PatientServedInStep`, `ShiftsKeptByPage`, `PagesKeptWithShifts`, `OneByOne`, `OwedIsInHand` | `EthSrv_proofs` | set of clients, number of pages and commands |
| `TypeInvariant`, `WholeCommand`, `DoneIsAnswered`, `ServedOnce`, `NeverWaitForEachOther` | `Console_proofs` | set of clients, commands, number of commands |

`ReadyIsBacked`: that poll()'s report stays true until its slot is served is
proved with the types, as a slot's report is cleared when its esocket leaves and
only the context's own thread takes packets from its pipes.

`TablesConsistent` and `EsocketsAccounted` are proved together, over the typing
invariant: neither is inductive alone. An esocket is put into a table when its
message is read, and this keeps the tables only because `Accounted` says that an
esocket in a queue has no context; and a worker that deletes or hands over an
esocket keeps the account only because the tables say that what it found is its
own. That `EndPass` may squeeze the array rests on `SlotsMatch`: slots and
`poll_index` are inverse to each other, so that ranks are distinct.

`ReactorKeepsOwnership` maps an esocket to its place by its life, its context and
the add queue it is in; that this is one queue is part of `Accounted`, and that a
worker closes or sends on only what it owns is part of `TableConsistent`.
`TimerMakesProgress`: the idle esocket with the lowest slot is reached, since
nothing was closed before it and fewer esockets are ahead of it than there are.

`OutputIsPolledFor` is inductive with two more facts about an esocket (`Armed`):
one that wants to write is armed or stands behind a greeting, also when its
buffer is empty, and before it is first installed it has no output. A greeting at
the head stays there: the slot that is not armed does not write.
`WritesKeepOrder` follows an esocket's payloads along a line: what has left, then
its buffer, then its messages in the io queue of its home worker are in the order
of writing (`Line`). Messages may be left in another worker's io queue only after
the one reassign that `DAP_SOCK_REASSIGN_ONCE` allows (`AtHome`), and the
esocket does not go back there, so that they are never appended.
`DeleteIsExcused` is the safety half of `DeleteTakesEffect` and bounds the first
disagreement of section 5: requests are sent to the home worker (`Asked`), which
is that of the add message until the first reassign (`Homes`), so that a request
finds its esocket, or finds it gone, lost or moved, or the add message is unread.

`HelperIsSafe` rests on `OnTheWay`, that a pointer is on its way in one place
once and its box allocated, and on `AiocbInUse`, that the aiocb of a write not
yet finished is allocated, although its box may have been read and freed.
`QueueIsLossyFifo` maps `pending` to the pipe followed
by the writes not yet done: a write that succeeds is a stutter, one that fails
loses an element in the middle, and a read takes the first. `MemoryReclaimed`
needs to know who owns each allocated aiocb (`Memories`): a write under way, the
garbage list, or nobody because the send failed; and that the loop over the
garbage list frees the first elements of it and keeps the rest (`DrainedPrefix`).

`AlwaysAwake` and `HigherFirst` are inductive together with the position of the
pass (above the current priority all lists are empty while the callback runs,
since the queue is read in other slots of the pass) and with `GoneIsEmpty`: a
proc_queue that was freed has no callbacks left. `CallbackInOnePlace` has its own
invariant, `Places`: a callback is at one position of one of pipe and lists, or
finished or lost, and only one that is in no place may be requested.

`NoSecondCopy`, `ServerUndisturbed` and `StopIsFinal` come from one invariant,
`Alone`, that holds as long as nothing began while a process was starting or
stopping: one process at most is between its begin and its end (`OneBusy`); next
to a server there are only processes that have not decided yet, and what they
have read from the pid file is the server's pid (`BesideServer`), which is why
the check sends them away and `--stop` hits its target; and a copy has the
console, the pid file and the board as far as its start has come (`Holds`).

The theorems of `ContextLife` come from one invariant over the position of the
starting thread: contexts behind it are in their loops or ahead of a wait that
did not last (`spurious`), those before it have no thread; while it waits, the
thread of its context has not broadcast; and a context above `ctx` has ended
once the stop has come down to it, while that of `ctx` has not been signalled.

The theorems of `EthSrv`: `OrderKept` from an invariant that lines up what a
client has received, the answer being sent and the commands still in its socket,
with numbers that only rise (`OrderInv`); `PatientServedInStep` from the stronger
one, for clients that wait, that these numbers have no gap and that one command
at most is on its way (`PatientInv`); `ShiftsKeptByPage` and `PagesKeptWithShifts`
from what the shared buffers hold, command after command (`BoardInv`): a shift is
of the connection's own last acquisition of its page, or older than the
connection (`OwnOrOlder`), and, as long as one stride was used, the block of every
page is of the acquisition of its shift and only a first page, which the next
acquisition replaces, may be left unconverted (`BlocksFit`); that pages do not
share blocks is arithmetic on strides. `OneByOne`: a connection that waits has one place
in the backlog, and the only one that is served is the server's (`ConnInv`).
`OwedIsInHand`, the safety half of `PatientAnswered`, adds that what a patient
client has asked for and not received is in its socket or about to be sent as
long as it stays (`UnderwayInv`).

The theorems of `Console` come from one invariant in three parts. Until it has a
whole command, a session stands between two lines of the first request its
client was given: what is left in the socket and in the client's `send()` goes
on from there, and `marker` and `params` are what the lines before it leave
behind (`InStep`). What the client has read, what is on the way and what the
session has still to send make up an end of the answer to that command
(`AnswersOf`). And a second command is typed only when something of the first
answer was read, or the connection has ended, so that no whole answer is left
for it (`SecondsOf`); that nothing is served twice needs `Fresh`, by which a
connection is made, waits and is accepted once. They assume that words of a
command hold no end of a line, and that it has a first word, which may be empty
(`CommandsAssumption`); an argument with a line end goes as base64 and is of the
class `Semicolon`, a name with one is not modelled. And no command is known
whose name has a ";" in it (`KnownAssumption`), which the server would split
like an argument; nothing in the repository calls `dap_cli_server_cmd_add()`.
`NeverWaitForEachOther` is the safety half of `PostEnds`: a client that waits for
the answer to a named command is waiting for an `accept()`, a line, a call or an
answer that the server can go on with. It says nothing of a request with an
empty name, which is read to its end and not answered.

Only model-checked: everything that must eventually happen (`HandOverArrives`,
`DeleteTakesEffect`, `AcceptedFinish`, `NextMessageKills`, `AcceptedArrives`,
`PatientAnswered`, `EveryTurn`, `StartEnds`, `StopEnds`, `PostEnds`,
`SessionEnds`), which is outside of what the prover can do. Every invariant and
every action property of a run that passes is proved.

## 5. What the code does otherwise than it says

1. A delete request that meets its esocket's add message in another queue
   reports a disconnection and is dropped (`io/dap_worker.c:199`).
2. Two copies of the server can pass the check for one (`main_server.c:225`).
3. A console client that is gone when its answer is sent ends the server by
   SIGPIPE, where the code means to close the connection
   (`dap_cli_server.c:827`).

Seen on the way, without a run of its own: the activity timer may raise its alarm
over a sound table and stop its scan, as it compares iterations with a count that
it lowers itself (`io/dap_worker.c:309`); callbacks of priority 0 are accepted,
sorted, and never run (`io/dap_proc_thread.c:190`); `dap_events_wait()` reads
contexts that their threads free (`io/dap_events.c:352`); what an application
writes behind a greeting of `new_callback` waits for a reassign that may never
come (`io/dap_worker.c:169`); a client that asks for the ini file waits for ever
when it is missing or empty (`eth_srv.c:115`), and so does one that asks for no
pages (:295, :409); a connection that asks for more shifts or pages than it
acquired is sent another client's (`eth_srv.c:397`, :432); a shell's second
command meets a closed connection (`main_cli.c:173`); a request without a name
is never answered (`dap_cli_server.c:765`).

## 6. Not modelled

Timers as an API, the SDK's TCP server, connecting and listening esockets and
the other network modules: drs_server starts or calls none of them; of the timers
it uses only the workers' activity timer, which is in `Reactor`. Byte-wise
esocket buffers, strings, lists, files, configuration: sequential helpers. The
board library is an empty submodule; `EthSrv` has what `eth_srv.c` relies on. The
ciphers and signatures, most of the repository's lines, are vendored algorithms
on bytes that drs_server does not call.

In the modelled parts: single commands of `EthSrv` that neither acquire nor send
pages or shifts (registers, ini values, calibration) have no state here, and a
failed `accept()` on port 3000 does not end the process (`eth_srv.c:202`);
failures of `accept()` and `pthread_create()` in the console server are left out;
`ServerProcess` and `EthSrv` are not composed, so that a second copy's set-up of
the board does not meet an acquisition.

Theorems to prove next: of `ProcThread`, that an accepted callback is in a list
whose turn comes as long as no list above it is filled again; of `QueuePtr`, that
the helper or the reader has a step to take for every pointer on its way.
