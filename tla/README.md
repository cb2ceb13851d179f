# A TLA+ model of the monitoring server

The repository holds a UDP server that reports the CPU usage of processes, a
client, and a utility that saves the server's journal. This directory models
all three: the message queue, the network connection with its two threads, the
worker process and the usage it reports, the journal in shared memory, the
parent process with its journal thread, the transfer to the utility, and the
client.

## The system

| Part | Source | Role | Module |
| --- | --- | --- | --- |
| message queue | `network/message_queue.c` | ring buffer with mutex and condition variable; drops half when full | `MessageQueue`, `DropQueue`, `QueueOps` |
| message | `network/message.c` | header and data buffer | in `MessageQueue`, `NetConnection` (allocation only) |
| UDP socket | `network/socket_udp.c` | socket, buffers, the address of the peer | in `NetConnection`, `Worker` |
| network connection | `network/net_connection.c` | receive and send thread between socket and queues | `NetConnection`, `ConnectionUser` |
| server worker | `server/server_worker.c` | create, start, stop, handle messages | `Worker` |
| worker process | `server/server.c`, `utility/safe_process.c` | handler, loop, check for a dead parent | `Worker` |
| CPU usage | `server/process_cpu_usage.c` | two readings of `/proc`, a percentage | `CpuUsage` |
| journal | `server/journal.c` | append-only log in shared memory | `Journal` |
| journal transfer, utility | `server/journal_transfer.c`, `journal_utility.c` | journal over a Unix socket to a file | `Transfer` |
| server main, journal thread | `server/server.c` | forks the workers, serves the journal | `Server` |
| client | `client/client.c` | sends PIDs, prints answers | `Client` |

A request arrives in `recvfrom`, becomes a message of the incoming queue, is
handled by the main thread of the worker (which logs it in the journal and
turns it into the reply), goes to the outgoing queue and leaves with `sendto`.

## The modules

**`MessageQueue`** has one program counter per thread. What runs under the
mutex is split at the calls that may fail and at each round of the clearing
loop. A mutex is its owner; `pthread_cond_wait` is a thread at `deq_wait`, which
a signal or a spurious wakeup moves to `deq_woken`, from where it needs the
mutex again. Locking and the reads that follow it are one step: no other thread
writes these fields without the mutex. `heap` is the set of allocated messages,
so that a freed address may be used again. `tainted` holds the messages of
calls that returned an error after they had taken effect (a failed signal or
unlock); what callers do with those is their ambiguity, and the properties
except them. `message_queue_delete` runs when no thread is in a call, as its
callers ensure (`DeleteIsLast` and `ExitIsClean` are that obligation).

**`DropQueue`** is the promise: a FIFO that drops `Capacity \div 2` of its
oldest messages when `Capacity - 1` are queued, and whose operations take
effect at most once, in one step between call and return. A call that fails
after it took effect is an action of its own there (`Retain`: the caller
believes it still owns a message the queue has; `Lose`). `QueueOps` holds the
effect of an enqueue on a sequence; `NetConnection` uses the queue through it.

**`Journal`** copies byte by byte. `ProcessOf` says which process an actor
belongs to: the mutex is in `malloc` memory, so each forked process has its own
copy. Two settings are checked: all actors in one process (what the lock is
meant to give) and one process each (what `server.c` does). `cur_size` is one
aligned word and is read and written in one step. `entries` records what was
appended. The bytes are `<<actor, call, position>>`.

**`NetConnection`** models both threads and the operations of the owner, given
the labels they lead from and to, so that `ConnectionUser` (any order of calls)
and `Worker` (the server's order) use the same definitions. `incoming_addr` is
one variable, written by `recvfrom` and by the send thread; it is taken as
copied in one step, although the code's race may also tear it. A datagram is
one of six kinds: `pid` and `none` (well-formed, of that type), `other` (any
other type), `long` (a length over the buffer), `short` (fewer bytes than the
header, so the buffer keeps the old message) and `empty` (the header of a PID
request without the data of one, so that the handler takes old memory for the
pid). The network may lose, repeat
and reorder: any datagram may arrive next. `sent` holds what `sendto` was
given; a failing `sendto` changes nothing else.

**`Worker`** is the main thread: creation call by call, start, optionally
`server_worker_wait_for_connection` (the server does not call it, its tests
do), the loop of `worker_process_job`, and deletion. `journal` is the sequence of
what was passed to `journal_write`. `held` is what creation has allocated. The
handler is two steps, since `get_process_cpu_usage` sleeps while the other
threads go on: `OnMessage` finds the result, `Reply` logs it and queues the
answer. `Reply` has the early returns of the handler: a failed `snprintf` (fault
`format`) leaves the request unlogged and unanswered, or, where a usage is
formatted a second time, logged and unanswered; a failed `realloc` leaves it
logged and unanswered. Whatever happened, `server_worker_update` sends the
message, which then goes back with the data it came with. `ReplyUnknown` does
that for a type that is neither NONE nor PID.

**`CpuUsage`** is a function of a history: the four states of the machine at
the four readings. `Later` says what the kernel may do between two of them: the
clock goes on, the process ends, its pid is given to another process. `Usage`
is the arithmetic of the source. Of the parsing it keeps that a process name
with a space does not parse. `Worker` chooses among all histories.

**`Transfer`** extends `Journal` with both ends of the Unix socket. The journal
thread listens anew for each transfer and closes the listening socket after
`accept`, which resets the utilities still in the backlog. `send` moves bytes
as the socket buffer has room. It may stop after a part, because the peer is gone
or because of an error; the code has `TODO: continue sending` there, closes the
socket and serves the next utility. With nothing sent, SIGPIPE ends the process
if the peer is gone, and an error ends the thread. `conn` tells a connection
closed inside the journal (`cut`) from one closed behind it; the utility sees no
difference. Each utility has a file of its own, which `fopen` truncates.
`unflushed` is what stdio has taken: `fclose` writes it, or a part if it fails,
and the code does not look at its result.

**`Server`** composes `Journal` and `Transfer` with `main`. The actors of
`Journal` are main and its thread, which share a mutex, and the workers, which
have one each. A worker is here what it is to the journal: it calls
`journal_write` and may end at any moment, also inside the call. When the first
`journal_write` cannot unlock the mutex (`LeftLocked`), the journal thread waits
in `journal_read` for ever, and so do the workers with their copies. After
`journal_delete` a `journal_read` in progress returns, or the process dies.

**`Client`** has a connection per port, reduced to its two threads, their flags
and its queues. `heap` is the set of allocated objects, so that error paths and
the order of deletion can be compared with what is in use; `misuse` records the
threads that used a freed object. What the printing thread does after that is
undefined and a choice of outcomes (`PollFreed`).

Operators marked `Slip` before a definition are wrong versions of it. They are
used by no specification; replacing the definition by its slip makes TLC report
the property that `PROJECT.json` pairs with it.

## The runs

Bounds: the queue runs use three slots, so overflow, odd halving and wrapping
happen with few messages; `queue_live` has three threads, for two waiting
readers and a producer. The journal runs fit two to four entries and refuse the
next. The worker runs allow one datagram more than a queue of `Capacity - 1`
holds, so that a queue overflows while the messages before it are in every
place they can be; `MaxTicks` = 2 in `worker_safety` gives histories in which a
process gets more ticks than the two total times are apart. In
`server` the socket buffer holds one byte and the journal two entries, so `send`
blocks in the middle; one worker and two utilities with `Backlog` = 0 (the code
has 1) make the second utility wait or be reset. There the journal does not fill
up; a full journal is the matter of the journal runs and of `WithinBounds`,
which is proved. `client` has two ports, so that creation, start and deletion can
fail between ports, and queues that overflow at the second message.
`MaxWrites`, `MaxDatagrams`, `MaxTicks` and `MaxMessages` (100 in the code) are
the bounds on counters.

| Run | Result | What it shows |
| --- | --- | --- |
| `queue_safety` | holds | with any pthread call failing: one owner per message, enqueue appends, the atomic queue is implemented |
| `queue_live` | holds | no reader sleeps beside a message; once calls stop, every call returns, except a read on an empty queue |
| `journal_threads` | holds | with one mutex nothing is lost, reads are snapshots, the size never decreases |
| `journal_lost` | violated | with a mutex per process entries are overwritten |
| `connection` | holds | flags and threads agree, delete is last, stops return |
| `worker_safety` | holds | requests are accounted for, answered in order and fitly; the log has them in order and no reply differs from its entry; usages fit what became of the process; exit joins the threads and releases all but a lone queue |
| `worker_live` | holds | requests are accounted for with the first one put back, unknown types, missing data and a failing `snprintf`; every request leaves the worker |
| `worker_orphan` | violated | an orphaned worker without requests does not exit |
| `worker_replies` | violated | a reply may go to another client than the one that asked |
| `worker_short` | violated | a short datagram is read as the message before it |
| `server` | holds | the first entry is never lost; a file reported as saved is what one `journal_read` returned, or a first part of it if `send` stopped early, the server ended or `fclose` failed; a connected utility ends, unless the first entry left the mutex locked |
| `client` | holds | only the printing thread may use freed objects, and only during deletion; what each exit leaves allocated; answers of every port are printed; the client ends in normal mode |

The violated runs state what a comment or the Readme says; `findings` in
`PROJECT.json` quotes the lines. `worker_safety` leaves out the kinds `other`,
`short` and `empty`, because they break `AnswerFits`: an unknown type is sent
back as it came, and a header without its data is answered as a PID request.
`worker_live` has `other` and `empty`, `worker_short` has `short`. Against the
Readme, which has the journal record all requests, `other` and a failed
`snprintf` go unlogged; `LogFitsReplies` therefore speaks of the requests that
are logged.

A failed `bind` is the one error of `journal_transfer_run_receiver` that leaves
its socket open; nobody can connect to that socket, so the model does not keep
it.

Two corners lie outside the runs' constants. With a capacity of 1, which
`message_queue_create` accepts, `next_tail` is always `head` and an enqueued
message cannot be dequeued: `EnqueueAppends` fails, and the theorems assume
`TwoSlots`. The code creates queues of 128 and 5. With a receive timeout of 0,
which `net_connection_create` accepts, `recvfrom` never times out and
`StopReturns` fails. The code passes 1.

Deadlock is checked except where the system stops by design (a deleted
connection, an exited process) or a failed unlock leaves the mutex locked.

Fairness is weak fairness of each thread: the scheduler runs a thread that can
run. `MessageQueue` needs no strong fairness because `QuietQueueSettles` speaks
of the time after the last call. In `NetConnection` the receive thread's timeout
is fair and the arrival of a datagram is not. `SendLoop` with an empty queue,
and `server_worker_update` with an empty queue, only go round and are not steps.
In `Server` the journal thread and each utility are fair; main and the workers
need not be. In `Client` main, the printing thread and both threads of each port
are fair, and no answer is owed. A thread's test of its flag and the body of its
loop are separate steps, so a thread that goes on receiving comes to its test.

## The proofs

TLAPS checks these for every value of the constants.

- `MessageQueueProofs`: `TypeOK`; and for a capacity above 1 (`TwoSlots`)
  `OneOwner`, `NoStuckWaiter`, `EnqueueAppends` and `ImplementsDropQueue`.
  `TypeInv` adds to the types that a thread in its critical section owns the
  mutex and that threads in an enqueue hold a message. `RingInv` says that an enqueue about to store has a free slot
  and where the clearing loop stands: without it a store could overwrite the
  head. `OneOwner` and `NoStuckWaiter` are inductive relative to these two. The
  refinement treats the messages already cleared as still queued until the
  store, which makes the drop and the store one abstract step; `Published` (a
  message just stored is the last of the queue until its enqueue returns) is
  needed where that enqueue reports an error. The lemmas about
  `Slot` and `Distance` reduce the modular arithmetic to cases.
- `JournalProofs`: `TypeOK` and `WithinBounds` for any processes; and, when all
  actors share a mutex (`SharedMutex`), `NothingLost`, `ReadIsSnapshot` and
  `NeverShrinks`. The invariant adds that only the owner of the mutex is inside
  a copy, that its `local` is the current size, and which bytes it has copied.
- `ConnectionProofs`: `FlagTracksThread` and `DeleteIsLast`. `ThreadInv` adds
  what the labels inside a stop say about the flag and the thread.
- `ServerProofs`: every step of `Server` is a step of `Journal` or leaves it
  alone, which gives `WithinBounds` for the composition. `HelloKept` does not
  follow from the journal, where entries can be lost: it rests on the order of
  main's steps. `HelloInv` adds that nobody else is in the journal before the
  forks (`Alone`), what main has written so far (`HelloInProgress`), and that
  every later write starts from a size behind the first entry (`WritesBehind`).
  `ServerInv` adds the transfer: `Sockets` (whom the thread serves is connected
  and no longer in the backlog, where nobody is twice), `ReadFits` (what the
  thread's `journal_read` copies fits the buffer) and `Flow`, which relates what
  was read for a utility to what is in its stream and its file: those two, one
  after the other, are the first `bytes_sent` bytes of it while it is being sent,
  all of it once the connection is closed, a part once it is cut, and nothing if
  the connection was reset while the server lived. `ServerTypeOK` and
  `SavedFromOneRead` follow.
  `SavedBeginsWithHello` needs also that main writes once (`HelloIsFirst`), that
  nothing was read before the thread existed (`NothingRead`) and that what
  `journal_read` has copied so far begins with the first entry
  (`BeginsWithHello`), which holds at each byte because of `HelloKept`.
- `ClientProofs`: `HeapInv` gives the allocated objects for every place main can
  be at (`Expected`), which yields `ReleasedAtExit`. `ThreadInv` says that a
  thread runs only with its flag set or while it is joined (`FlagCovers`) and
  where the flags are clear (`FlagsClear`): behind the deletion, port by port.
  With `HeapInv` it follows that a running thread has its objects, and
  `OnlyPrinterDangles` is then inductive. `TypeOK` adds that an enqueue leaves
  room in a queue of any capacity above 1.
- `CpuProofs`: for any number of ticks, a process that lives through the call
  under a name without spaces gets a usage that is not negative, at most 100
  unless a tick passes between the last two readings; a pid nobody has is not
  found. `WorkerProofs` uses the first and the last.
- `WorkerProofs`: `TypeOK`, `ExitIsClean`, `UsageFits` and `AnswerFits`. `HeldInv`
  says what is allocated at every place of the owner and `ThreadInv` which threads
  run there; together they give `ExitIsClean`. `TypeInv` adds to the types what
  each of the three threads holds where it is: a message to hand on, and only
  then. `FitInv` follows a message's type and text through the handler.
  `AnswerFits` assumes the kinds `pid`, `none` and `long`: with the others the run
  `worker_short`, or the handler's treatment of unknown types, refutes it.
- `DeliveryProofs`: `Accounted`, `RepliesInOrder` and `LogFitsReplies`. `At` gives the ids at each
  place a message can be, and `AccountInv` says that the places are disjoint and
  make up all that has arrived, and that no queue holds an id twice. A step moves
  a set of ids from one place to another (`Moved`) or puts a new one there
  (`Put`), and two lemmas about these (`MoveSpread`, `PutSpread`) carry the
  invariant through every action. `OrderInv` ranks the places from the socket to
  `sendto` and says that whatever is further on came earlier, also inside a queue;
  it assumes `~WaitFirst`, because `server_worker_wait_for_connection` puts a
  message back behind later ones, and only the tests call it. `LogInv` carries
  `LogFitsReplies`: every id in the log is smaller than the ids of the requests
  still ahead of the handler (`Ahead`), which `OrderInv` gives, and a message
  behind the handler has the text of its entry or the data it came with.

The assumptions on the constants are those of the modules, plus `TwoSlots`,
`SharedMutex` and those of the theorems on `Worker` where named. Every safety and
action property of a passing run has a theorem. Only model-checked are the
liveness properties (`QuietQueueSettles`, `StopReturns`, `RequestsLeave`,
`UtilityReturns`, `AnswersPrinted`, `ClientEnds`): fairness is outside the
prover's reach.

`tlapm` checks each of the eight modules from nothing in at most some eight
minutes. Most leaves name Zenon, whose obligations are cheap to prepare; those
that need arithmetic, or sequences as functions, name SMT.

## Not modelled

- The lifetime of `message->data`: `message_delete` does not free it, and the
  client does not delete what it prints. Messages are model values here, with
  `message_size`, `message_read` and `message_write` in what the threads copy.
- Errors of the queue inside the connection, after which `add_to_queue` and its
  caller both delete the message, so that nothing can be said of what follows.
- Errors of `pthread_join`, and of `setsockopt` for the receive timeout.
- A journal whose `journal_write` fails inside `Worker`: the handler ignores the
  result, and the bytes of `Journal` would multiply the worker's states.
- What a failed `fwrite` leaves in the output file; the utility reports an error.
- Time: the client's sleep before it deletes the connections, and so whether an
  answer comes before it.
- Two utilities that write one file at once. `JOURNAL_FILE_PATH` is one
  relative path; each utility here runs in a directory of its own.
- `sp_check_status_loop`, which nothing calls, and the callback of
  `udp_socket_receive_message`, which only a test passes.
- Logging, the text of replies and journal lines, the rest of the parsing of
  `/proc`, tests and build files.
