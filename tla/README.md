# Yotta in TLA+

A specification of [yotta](../src/README.md), a static file server built on an
edge-triggered epoll reactor, with model-checked instances and machine-checked
proofs. Paths below are relative to the repository; `core/` and `http/` stand
for `src/core/` and `src/http/` in it.

## 1. The system

| component | state | operations | talks to |
|---|---|---|---|
| worker event loop, `core/yta_event_loop.c` | `struct loop_core` (epoll sets, `current_clients`, `terminated`), one `struct yta_ctx` per connection | `serve`, `serve_sockets`, `serve_timers`, `accept_loop`, `read_loop`, `write_loop`, `cleanup_context`, `yta_async_*` | the kernel by system calls; the HTTP code by callbacks |
| HTTP connection, `yotta.cpp` | `struct user_data` | `accept_callback_http`, `read_callback_http`, `write_header_callback`, `http_finish_callback`, `http_cleanup`, `timer_callback` | the loop by `yta_async_*`; parser, path cleaning, files |
| path normalisation, `http/yta_http.cpp` | locals of `clean_path` | one pass over the path | called by `parse_url` |
| request parser, `picohttpparser/` (vendored) | none; `num_headers` is read and written | `phr_parse_request` | called by `read_callback_http` |
| response headers, `http/yta_http.cpp` | none | `serve_200` .. `serve_404` | called by the HTTP code |
| process manager, `core/yta_process.c` | `worker_pids`, `worker_count`, `upgraded`, the pid file | fork, respawn, forward signals, wait | signals; workers as children |
| upgrade, `core/yta_process.c`, `upgrade_yotta.sh` | pid files of all generations, `listen_fds` in the environment | `upgrade_handler`, `create_listen_fds_env`, `parse_listen_fds_env` | the next generation, by `execve` and shared sockets |
| listening sockets, privileges, command line | none that outlives start-up | `make_listen_socket`, `drop_root`, `get_program_opts` | |

The master is one process that forks the workers, each of which is one thread
that serves one listening socket for ever. What makes it hard is everything
around these threads:

* **Edges.** All descriptors are edge triggered, in two epoll sets nested in a
  third. A readiness that is neither served nor left in a ready list is lost.
* **Shared contexts.** A connection's socket and its timer are in different
  sets and point to the same heap object; either may free it.
* **Inner waits without a timeout.** `serve` trusts the master set that the
  inner `epoll_wait` has something to say.
* **Callbacks.** The state of a connection is which callback is armed; one
  report may run `read_loop`, which arms the write callback, and then
  `write_loop`, on events polled before.
* **Reuse.** `user_data` lives for many requests and is reset by hand;
  `num_headers` is a limit on the way into the parser and a result on the way
  out, and a request may take several calls.
* **Draining.** A worker told to quit stops when the last client is gone, and
  only the 300 s timer makes a silent client go.

* **Signals.** The handlers do the master's work: they kill, wait, rename, fork
  and exit, on top of whatever they interrupt, and on top of one another.
* **fork.** A child starts with its parent's handlers, tables and names, and
  `worker_pids` knows it only after `fork` has returned in the parent.
* **Generations.** Masters share a pid file path, listening sockets and, until
  `setsid`, a process group; upgrades can fail or overlap.

What makes each component correct:

* event loop: no use after free, no double free, an exact client count, no lost
  edge of any kind, no blocking inner wait, every connection closed in the end,
  a terminated worker stops, and only when drained;
* HTTP connection: each request answered once, in order, with the right bytes;
  the announced length sent; no file left open; no assertion reached; the
  buffer never full while waiting for input;
* path normalisation: the result is what the components resolve to, never
  leaves the root, never outgrows the input;
* process manager: every live child known, one per socket, signalled and waited
  for; a dead worker replaced, except after an upgrade or during shutdown; the
  pid file there as long as the master is;
* upgrade: until the operator stops the service some generation serves every
  socket; the same sockets in the same order in each; signals reach whom they
  are meant for; the pid files name the generations they should.

The hazards this list comes from are in `PROJECT.json`, each at its line.

## 2. The modules

| module | models | lines of the source |
|---|---|---|
| `EventLoop` | the reactor of one worker, the kernel around it, its clients | `core/yta_event_loop.c` 115-545 |
| `ConnectionPool` | abstract: what a worker promises about its connections | |
| `EventLoopProofs` | theorems about `EventLoop`: memory, counting, refinement | |
| `EventLoopReadinessProofs` | theorems about `EventLoop`: no edge is lost | |
| `HttpConnection` | the HTTP callbacks on one connection | `yotta.cpp` 19-413, `http/yta_http.cpp` 12-90, `picohttpparser.c` 206-392 |
| `HttpService` | abstract: what one keep-alive connection promises | |
| `HttpConnectionProofs` | theorems about `HttpConnection`, for any client | |
| `PatientClientProofs` | theorems about `HttpConnection`, for clients that wait | |
| `CleanPath` | `clean_path` and a reference definition of its result | `http/yta_http.cpp` 94-152 |
| `CleanPathProofs` | theorems about `CleanPath` | |
| `SequenceLemmas` | induction, recursion and folds for the two modules of proofs about text | |
| `Process` | one master, its workers, the signals | `core/yta_process.c` 14-27, 81-285 |
| `Supervisor` | abstract: what the process manager promises | |
| `ProcessProofs` | theorems about `Process` | |
| `ListenFds` | the listening descriptors as text in the environment | `core/yta_process.c` 29-79 |
| `Upgrade` | generations of masters, their pid files, the operator | `core/yta_process.c` 81-305, `core/yta_event_loop.c` 551-617, `upgrade_yotta.sh` |
| `UpgradeProofs` | theorems about `Upgrade` | |
| `MCEventLoop`, `MCHttpConnection`, `MCUpgrade` | symmetry, request sets and descriptors for TLC | |

Every module names some definitions *fault variant of X*: a form of X with a
plausible mistake in it. No specification uses them; they are there to show,
by putting them in X's place, that each property can fail.

### EventLoop

One action per system call (with the code up to the next one), because clients,
timers, signals and the other generation may act between any two of them. `pc`
says where the worker is: at the top of `serve` (`master`), about to wait on
an inner set (`socket`, `timer`), walking the entries of `events[]` (`events`,
`timerevents`), or in one of the loops (`accept`, `read`, `write`) or
`cleanup_context` (`close`); `exited` and `aborted` are the end of the process,
by the end of `serve` or by `exit(1)` or `assert(0)`.

| code | model |
|---|---|
| `events[]` and the index `i` | `events`, the entries still to be served (their order is free, as epoll promises none) and `cur`, the one being served |
| interest set and ready list of an epoll set | `watched`, `sockReady`, `timerReady`, `masterReady`; `Notify` is an edge |
| `EPOLLIN`, `EPOLLOUT`, `EPOLLERR` of a report | `Poll`, computed when `epoll_wait` returns; a broken connection may also be reported with the error alone |
| allocated, freed, freed twice | `ctx[f]` = `live`, `freed`, `corrupt` |
| `read_callback`, `write_callback`, `wtype` | `rd`, `wr` |
| `to_write - already_written` | `out` |
| `timer_fd` | `timer` |
| the HTTP callbacks | `ReadCallback`, `WriteCallback`: which callback they arm, and for how many units |

Choices that matter. A partial read or write moves any number of units. `write`
and `sendfile` of zero units end in `assert(0)` (`WriteNothing`). A failing
`accept` leaves the loop, a failing `calloc`, `setsockopt` or `timerfd_create`
ends the process (`AcceptFails`). The signalfd is never read, so a SIGQUIT
that is pending stays pending and wakes nobody again. `NestedRewake` says
whether the kernel signals the outer epoll set again for what a full inner
`epoll_wait` left behind; the properties that need it name it. Both a FIN and
a reset are visible to `Poll` until the socket is closed. A callback that ends
the worker, by a number `std::stoi` does not take or a failing `TCP_CORK`, is
`CallbackExit`. `AcceptRefused`, the accept callback answering `YTA_EXIT`, is the
loop's side of its contract; yotta's own callback does so only if `new` returns
null.

### HttpConnection

When a callback runs is `EventLoop`'s matter; here it may run whenever it is
armed and its data is there, and what counts is what it does to `user_data`.
The unit of input is a line. `stage` is the armed callback: `reading`
(`read_callback_http`), `header` (`write_header_callback`), `body`
(`http_finish_callback`, by `sendfile`); `closed` after `http_cleanup`,
`aborted` after an assertion or an exception nobody catches.

`Parse` follows `phr_parse_request`: on a later piece it first asks whether the
request is complete, skips one empty line, takes the header limit from
`num_headers` and leaves the number it found there. `Respond` is `parse_url`
followed by `parse_headers`, with one interesting header per request: none
(`whole`), a date not older than the file (`since`), one that does not parse
(`malformed`, a 400), a range of numbers (`range`), or of something else
(`nonnumeric`, where `std::stoi` throws). A date older than the file answers
like `whole`. For a missing file `parse_headers` stays idle because the
response is already final. Sizes are modulo `WordSize`, as in `size_t`;
`offset` keeps its value between requests.

`handle_range` computes in `int`, to which it narrows the size of the file:
`Narrow` wraps at `IntMax`, as gcc defines it. A length that is no `int` is
undefined in C++, and `RangeLengths` has both what wraps and what a wider
register holds. So `PatientClient`, and with it `ServesThePatient`, is for
files of at most `IntMax` bytes, and `http_large` shows what a larger one
gets. A number beyond `IntMax` throws in `std::stoi` (`Throws`). The count given
to `sendfile` may be negative as an `ssize_t`; the call then fails and the
connection is closed (`Refused`, then `Cleanup`). `WorkerExits` is a failing
`TCP_CORK`, or the end of the worker by another of its connections.

`answers` records, for each response, what the client sees: the status and the
length announced, the first byte and the number of bytes sent.

### CleanPath

One action per branch of the loop: `Skip` (slashes and "."), `DotDot`,
`Component`, and `Finish`. The code reads `path[r + 1]` before it tests
`r + 2 == length`; a read beyond the end cannot succeed there, because the
branch before has taken the case of a final ".".

The reference, `Correct`, knows nothing of the pass: `Names` takes up the
components one after the other, where a ".." takes the last name away, is
dropped at the root, or stays when there is nothing to take, and `Join` writes
what is left with slashes between.

### Process

The master's main flow is `yta_fork_workers` from the installed handlers on, and
`pc` is its place in it. On top of it run `signal_handler` (`down`) and
`upgrade_handler` (`up`); `top` is the one on top. A signal is blocked in its
own handler only (`signal()` of glibc), so SIGTERM and SIGQUIT interrupt each
other's handler and upgrades, and SIGUSR1 interrupts both.

| code | model |
|---|---|
| `i`, `worker_pid`, `pid` | `slot`, `child`, `found` |
| `worker_count`, `worker_pids`, its storage | `count`, `table`, `held` (`null`, `set`, `freed`) |
| `pidfile_to_delete` | `name`: `null`, `pid`, or `old` |
| the pid file | `file`: the name it has, or `none` |
| what a child copies at `fork` | `copy`, until `setup_worker_signal_handlers` |
| a worker | `state`: `forked` (the master's handlers), `started` (default ones), `serving` (SIGQUIT is read from the signalfd), `draining`, `zombie`, `reaped` |

Each assignment that a handler can see half done is an action of its own:
writing the pid file and storing its name, `worker_count` and `worker_pids`,
`fork` and the assignment of its result, `rename` and the new name.

Choices that matter. The `kill`s of one `forward_signal_to_workers` are one
step: they commute. The entry 0, a slot not filled yet, makes `kill` reach the
process group, the master included, and `waitpid` any of its children. A
worker that runs the inherited `signal_handler` does so in one step, because
its waits fail at once. Using `worker_pids` while it is `NULL`, or in a second handler after
the first has freed it, ends the master (`crashed`): by a fault, or by the
second `free` that follows (all workers are gone by then). Process ids ascend and are not used
again. A failing `waitpid(-1)` is a stutter. SIGINT is handled as SIGTERM, and
is not a signal of its own. The forked successor is a process that ends when it
likes.

Signals come to the master (`Kill`), from a terminal to everybody (`KillGroup`),
or to one worker (`KillWorker`). The last matters because of the handlers a
worker has inherited: signalled before `setup_worker_signal_handlers`, it runs
the master's shutdown, signals the workers it has copied, and removes the pid
file of a master that nobody told to stop. `PidfileStands` holds up to that:
the file is there, or some worker has ended in that handler (`EndedInHandler`).
`KillWorker` sends SIGTERM and SIGQUIT only. A worker keeps `upgrade_handler`
for SIGUSR1 and would start a generation of its own; nothing in the repository
sends it one, and it is left out.

### Upgrade and ListenFds

A generation is a record: its stage, process group, the signals blocked in it,
its `listen_fds` as text and as numbers, its name for the pid file (how
many times ".old" is appended), its flag and its workers. Its stages follow `yta_run`:
`forked`, `booting` (after `execve`), `session` (after `yta_daemonize`), `bound`
(after `get_listen_fds`), `starting` (handlers installed), `named` (pid file
written; the workers are being forked), `serving`; then `stopping` and `gone`,
or `failed`. What happens within a generation between two of its system calls is
`Process`'s matter; here a handler interrupts a generation only where another
generation or the operator could tell: `upgrade_handler` is two steps, so that
SIGQUIT can come between its `rename` and its `fork`, and a signal during the
first fork loop reaches the group (`Reached`). `upgrade_handler` may also run on
top of `signal_handler`, and is then finished before it.

What fails ends in `exit(1)`, which removes no file and stops no worker: before
the pid file is opened (`StartAborts`), with the file emptied (`WriteAborts`),
with the file written and some or no workers forked (`ForkAborts`), at a
respawn (`RespawnAborts`), or in `upgrade_handler` with the file renamed
(`UpgradeAborts`). The generation is then `failed`, its workers go on, and the
file still has its process id.

Until `execve` a successor has the handlers and the memory of the generation
that forked it. A SIGQUIT for the group runs `signal_handler` in it
(`ExitInherited`): it removes its parent's pid file; the parent's workers have
had the signal with the group. After `execve` the signal just ends it
(`DieOfQuit`). Process ids are not used again, so what a file of a dead
generation names is dead.

The operator runs `upgrade_yotta.sh`, once or again: SIGUSR1 to the process of
the pid file, some time, SIGQUIT to the process of the `.old` file, whoever that
is by then; and stops the service at the end (`ExecStop` of `yotta.unit`).
About the sleep of two seconds one thing is assumed: the generation that gets
the SIGQUIT has forked its workers. `kill` of a dead process ends the script.

`ListenFds` has characters where the code has them: `CreateListenFdsEnv`
writes decimals and blanks, `ParseListenFdsEnv` follows `iter` and `atoi`.

## 3. The runs

`tlc -workers 2 -config <cfg> <module>`. Deadlock is not checked: a worker
or a master that has exited, a connection that is closed and a path that is
cleaned stop, and a worker or a master with nothing to do waits.

| run | instance | what it shows |
|---|---|---|
| `loop_safety` | 2 connections, `events[]` of 2, 2 segments unread, send buffers of 1, bodies of 0 and 2 units, a shared listener | memory safety, client count, all the *NeverStalls* and *NeverMissed* properties; only another generation makes an inner wait block; only data that comes while a response is written loses its edge |
| `loop_liveness` | 1 connection, failing accepts, `FairSpec` | refines `ConnectionPool`; a quitting worker stops; every connection is closed |
| `http_patient` | a file no larger than `IntMax`; sessions of 3 requests, one after the other, each in one piece: plain ones in any order; one, a range, and another range or something without a body | all answered with exactly the right bytes, no request forgotten, no assertion, refines `HttpService` |
| `http_any` | 3 pipelined requests in pieces, 12 kinds | files, buffer, order of responses; the length announced is the length sent |
| `clean_path` | all paths of up to 8 characters over `/`, `.`, `a` | equal to the reference, within the root and the buffer |
| `process` | 2 workers, 5 process ids, 1 death, 2 different signals to the master or to a worker, SIGTERM also from the terminal, failing `fork` and `fopen`, `FairSpec` | shutdown complete, and over in the end; pid file; a dead worker is replaced, by one; the respawn loop has somebody to wait for; refines `Supervisor` |
| `upgrade` | 3 generations, 2 upgrades that may overlap, 2 workers, 1 death, `exit(1)` wherever a call fails, `FairSpec` | the text of the descriptors reads back, sockets handed on and served without a gap, stops are meant, pid files name the living and are kept, SIGUSR1 is heard again |

The bounds. Two connections are what every race in the loop needs: one that is
served and one that is left, closed by the other set, or behind in the queue;
sockets and timers share one context at a time. A send buffer of one unit
against a header of one and a body of two makes every partial write, full
buffer and later drain happen; an input queue of two segments makes a read that takes one and
leaves one. `events[]` of two entries against two connections and the listening socket is
the overflow of `MAX_EVENT_COUNT`. A buffer of four lines against requests of two
to five lines has the request that fits, fills and overflows it; a header
limit of 2 the request at it, below and above it (in `http_any`). With `IntMax` 3 the
size of a file of 5 bytes is no `int` (in `http_large`), and neither is the end of its open ranges. Three requests
are one more than any state carried from one to the next needs. Eight characters have room for
three components and for "../.." in front of a name.

Two workers are what the table needs: a slot that is filled and one that is
not yet, one being replaced and one that dies meanwhile. A signal sent to a
worker ends it too, so three workers can die, one of them while the loop is at
another, and five process ids have a replacement for each of the three. (Both
signals may hit workers just forked, which pass them on to those they copied:
more than three die then, and when no process id is left `fork` fails.) Two signals give every nesting of two different handlers
(the same signal does not nest in itself), and one that comes before, in and
after every step. Three generations are the second upgrade by a generation
that was itself upgraded to, and two upgrades are the overlap of one with the
end of the one before.
Descriptors of one to five digits, except four, are the shortest and the longest
the buffer is made for, in either order; that their text reads back
(`TextReadBack`) is proved for all of them.

`loop_liveness` has one connection: with two, the temporal part is out of
reach, and no connection's progress depends on another's except through
fairness. It does not share its listening socket: a worker that shares it can
block for ever, which is what `loop_shared` shows.

### What the code does otherwise

Five runs show a disagreement between the code and what a comment, an
assertion, a test or the README says; `PROJECT.json` quotes the lines.

| run | property | what happens |
|---|---|---|
| `loop_shared` | `InnerWaitNeverBlocks` | in an upgrade, the other generation takes the connection between the two waits and the worker blocks in the inner one, deaf to timers and SIGQUIT until something happens to one of its sockets |
| `http_split` | `WellFormedServed` | a request in two pieces is refused: the header limit is what the first piece had |
| `http_staleoffset` | `AssertionHolds` | a whole file asked for after a range starts at the range's offset and runs into the assertion at the file's end |
| `http_large` | `RangeLengthRight` | an open range of a file of more than `INT_MAX` bytes: the end is narrowed to an `int`, and the length and the `Content-Range` announced are wrong |
| `process_orphan` | `WorkersDieAnyway` | a shutdown signal between the respawn loop's `fork` and its assignment is forwarded to the dead worker's process id; the new worker outlives the master |

More, which the models contain and no run is spent on:

* a request that comes while the last response is written uses up its edge, and
  stays unread until the client sends something else or its timer expires
  (`OnlyPipelinedUnheard` says that this is the only way);
* an empty file ends in the same assertion (`WriteNothing`; `SendSizes` of
  `loop_safety` has the 0);
* a request that fills the buffer exactly is dropped without a response
  (`Read`, the last alternative);
* the connection stays open after a response that says "Connection: close"
  (`Finish` after a 400);
* a range of one byte, `bytes=2-2`, gets the rest of the file (`RangeEnd`,
  `yotta.cpp:248`: `end_value <= start_value`);
* SIGQUIT in `upgrade_handler`, between the `rename` and `fork`, stops the
  master without a successor (`Interrupted`); `test/run_upgrade_test.sh` sends
  the two signals one right after the other;
* an upgrade whose `fork` or `execve` fails leaves a master that no longer
  replaces its workers, and `upgrade_yotta.sh` then stops it (`Failed`);
* two upgrades that overlap give two generations the same `.old` name, and the
  operator loses one of them (`Reachable` says which);
* a worker signalled before it has set up its handlers removes the pid file of
  its master (`InheritedHandler`), and so does a successor before `execve` (`ExitInherited`);
* `exit(1)` of a master leaves its workers and its pid file (`Fail`);
* after an upgrade, a master without workers goes round its respawn loop
  without waiting (`Wait`).

So `http_patient` has to say what it leaves out: its requests come in one
piece and fit the buffer, its file is not empty and no larger than `IntMax`, its ranges start in the file
and have more than one byte (or no end), and no request for the whole file
follows one for a range. Within those limits the connection implements
`HttpService`. `http_any` has no such limits.

### Fairness

`FairSpec` assumes what the machine gives the worker: the process is scheduled
(`WF(Worker)`); an armed timer expires (`WF(TimerExpire)`); the ready list of
the master set is a FIFO, so an event that is in it again and again is taken
in the end (`SF(MasterWait)`). And one thing the code does not enforce:
`read_loop` reads until EAGAIN, so a client that sends faster than the worker
reads keeps it for ever; `SF(LeaveRead)` says no client does. Clients
themselves are under no fairness at all: `ForcedClose` and `QuitDrains` hold
because of the connection timer, and fail without it (`NoTimer`).

`FairSpec` of `Process` assumes of the master, its workers and the delivery of
signals that one of those that can go on does (`WF(Running)`). This is enough,
because each takes finitely many steps between two acts of the environment. Two things are not
in the hands of these processes, and no fairness is assumed of them. A draining
worker ends when its clients leave: `QuitDrains` shows that it does while it has
its listening socket for itself, but after an upgrade it shares it, and
`loop_shared` shows that it can block. So `ShutdownEnds` has it as a premise
(`WorkersDrain`). And with an entry 0 in the table `signal_handler` waits for
any child, the next master among them, which with `-g` ends at once
(`yta_daemonize`) but without goes on as long as it likes: that the handler is
not left in that wait (`WaitsForNext`) is the other premise. Signals and
deaths are under no fairness, except that there are boundedly many.

`FairSpec` of `Upgrade` assumes that a generation goes on with its start, its
upgrade and its stop, and replaces its workers; not that these drain. The
operator is under no fairness.

## 4. The proofs

`EventLoopProofs` proves, for any finite set of connections, any capacities
and both values of every switch (assumption `ConstantsAssumption`, which TLC
also evaluates):

| theorem | statement |
|---|---|
| `TypesCorrect` | `Spec => []TypeOK` |
| `ContextsSafe` | `Spec => []NoUseAfterFree` |
| `FreedOnce` | `Spec => []NoDoubleFree` |
| `CountCorrect` | `Spec => []ClientsCounted` |
| `ExitDrained` | `Spec => []ExitsDrained` |
| `PoolImplemented` | `Spec => ImplementsPool` |

None of these is inductive alone. `NoUseAfterFree` says that a pending entry
points to an allocated context; to keep it when a context is freed one has to
know that the entry of that very context is the one being served, and that no
other list still produces it. The strengthening is

    IInv == TypeOK /\ ContextsOK /\ QueueOK /\ EventsOK /\ QuitOK /\ ClientsCounted

* `ContextsOK`: a descriptor is in the socket set exactly while its context is
  allocated; a timer exists exactly as long as its context; ready lists hold
  only such descriptors;
* `QueueOK`: a connection is accepted once, so its context is allocated once;
* `EventsOK`: `events[]` is empty at the top of the loop, when the next report
  may be about any context; during a round only the entry being served
  (`cur`) is freed. This is where "only extract a single event" is used;
* `QuitOK`: SIGQUIT is handled once, because the signalfd is never read.

The proof that a step keeps `IInv` has a lemma per part of the program
(`EnvironmentStep`, `TopStep`, `AcceptStep`, `ReadStep`, `WriteStep`,
`SocketsStep`, `TimersStep`), with a step per action. `PoolStep` maps each
action to a step of `ConnectionPool` or to a stutter, under `IInv`: freeing a
context is `Close`, accepting is `Open`, handling SIGQUIT is `Drain`, leaving
the loop is `Stop`, the failing calls are `Crash`.

`ProcessProofs` proves, for any number of workers, process ids, deaths and
signals, whether calls fail or not and whatever a terminal sends:

| theorem | statement |
|---|---|
| `TypesCorrect` | `Spec => []TypeOK` |
| `OneWorker` | `Spec => []OneWorkerPerSocket` |
| `WaitSucceeds` | `Spec => []WaitNeverFails` |
| `ShutdownWaits` | `Spec => []ShutdownComplete` |
| `PidfileGone`, `PidfileKept` | `Spec => []PidfileRemoved`, `Spec => []PidfileStands` |
| `TableSafe` | `Spec => []TableIntact` |
| `SupervisorImplemented` | `Spec => ImplementsSupervisor` |

They follow from one invariant,

    IInv == TypeOK /\ KnownOK /\ FlowOK /\ FilledOK /\ HandlersOK /\ WaitingOK /\ FilesOK /\ EndOK

* `KnownOK`: a child is in the slot it was forked for, or in flight, and an
  entry is a worker of its slot. So entries are distinct;
* `FlowOK`: what the main flow has filled where it is; in particular the slot
  a new worker is forked for is empty or holds a reaped one, which is why no
  slot gets two;
* `FilledOK`: until an upgrade or a shutdown, the entries are children, except
  the one being replaced;
* `HandlersOK`: which handler runs on which, and what it blocks; a worker has a
  signal pending only after the master has one;
* `WaitingOK`: the entries `signal_handler` has passed are no children any more;
  where it finds the entry of a worker in flight empty, `kill(0)` has told
  that worker and `waitpid(0)` has waited for it, unless it took the next
  generation for it. This is what makes `ShutdownComplete` true, and with the
  exceptions it names;
* `FilesOK`, `EndOK`: the file has the name to delete, outside the windows
  between the two assignments, unless a worker has run the inherited handler;
  how the master ended.

The proof that a step keeps `IInv` has a lemma per part of the program, and a
step per action. For `SupervisorImplemented`, a slot's post is the one live
worker whose home it is (`PostIs`, from `OneWorkerPerSocket`); `fork` is
`Spawn` (`ForkSpawns`), the end of a worker is `Lose` (`EndLoses`), and every
other step keeps the workers and is `Stop`, `End` or a stutter
(`OthersStutter`).

`EventLoopReadinessProofs` goes on from `IInv` to the edges, under the same
assumptions:

| theorem | statement |
|---|---|
| `InnerWaits` | `Spec => []OnlySharingBlocks` |
| `WritesGoOn` | `Spec => []WriteNeverStalls` |
| `ResetsSeen` | `Spec => []ResetNeverMissed` |
| `AcceptsGoOn` | `Spec => []AcceptNeverStalls` |
| `ExpiriesSeen` | `Spec => []ExpiryNeverMissed` |
| `ReadsGoOn` | `Spec => OnlyPipelinedUnheard` |

These properties speak of the top of the loop, where `events[]` is empty and
what is ready must be in a ready list. The invariant has to say where it is
at every other point:

    RInv == ListsKnown /\ InnerOK /\ CallbacksOK /\ WritesOK /\ ResetsOK /\ AcceptsOK /\ ExpiriesOK

* `ListsKnown`: a non-empty inner ready list is known to the master set, or is
  about to be waited on (this is where `NestedRewake` is needed); `InnerOK`:
  between the two waits the inner list keeps an entry to report, unless a
  sharer takes the connection;
* `CallbacksOK`: a live connection has one callback armed;
* `WritesOK`, `ResetsOK`: room to write and a reset are in the ready list or
  in an entry of `events[]`, and such an entry has the flag that makes
  `serve_sockets` run the loop that will see it. It rests on `Poll`: readiness
  that comes after the report makes an edge of its own;
* `AcceptsOK`, `ExpiriesOK`: the same of the accept queue and the timers.

`HttpConnectionProofs` proves, for any requests, cut and pipelined in any way,
any buffer, header limit, file, word and `int` size (`HttpAssumption`):

| theorem | statement |
|---|---|
| `FilesAreClosed` | `Spec => []FilesClosed` |
| `RoomToRead` | `Spec => []ReadsSomething` |
| `LengthsHonoured` | `Spec => []LengthHonoured` |
| `AnsweredInOrder` | `Spec => []AnswersInOrder` |

    HInv == Typed /\ FilesClosed /\ ReadsSomething /\ StreamOK /\ OrderOK /\ BodyOK

* `StreamOK`: the lines in the buffer, in the socket and not sent yet follow one
  another in the order they were written in, over all requests; `OrderOK`: all
  of them, outside a response being sent, come after the first line of every
  request answered so far. `AnswersInOrder` is about `answers` only and does
  not say why the next one is of a later request;
* `BodyOK`: `already_written` is the offset and what was sent, `to_write` is the
  offset and the length announced, modulo the word: so the equality
  `http_finish_callback` waits for means that the length was sent, although
  either may have wrapped round.

`PatientClientProofs` proves what only some clients are owed. The hypotheses are
definitions of `HttpConnection`, and `MCHttpConnection` has TLC evaluate them on
the instance of `http_patient`:

| theorem | statement |
|---|---|
| `NoneForgotten` | `PatientClient` implies `Spec => []NoRequestForgotten` |
| `ServesThePatient` | `PatientClient` implies `Spec => ImplementsService` |
| `AssertionSafe` | `CarefulClient` implies `Spec => []AssertionHolds` |

`PatientClient` waits for each response, sends each request in one piece that
fits, and asks for ranges of two bytes or more of a file no larger than `IntMax`; `CarefulClient` also stays
inside of the file, which is not empty, and never asks for the whole file after
a range. They are needed: `http_split`, `http_large` and `http_staleoffset` are the
counterexamples, and section 3 lists the others. With such a client the
connection goes through four phases, `PInv`: resting, asking (one request in the
socket, nothing in the buffer), answering (all of it in the buffer, the right
reply made), transferring (the header sent); in each the request being
served is all there is. The refinement maps the answers completed (`Received`)
to those of `HttpService`; the end of a response is `GiveAnswer`, a request sent is `Ask`.
For `AssertionSafe`, `CInv` says that an offset other than zero is that of a
range asked for, and that something in the file is left to send.

`CleanPathProofs` proves, for paths of any length over any alphabet:

| theorem | statement |
|---|---|
| `BufferSuffices` | `Spec => []OutputFits` |
| `RootKept` | `Spec => []InsideRoot` |
| `PathResolved` | `Spec => []Correct` |

    PathInv  == Typed /\ Room /\ Inside
    NamesInv == (~done => AtEdge /\ \E f : NamesTo(f) /\ Written(f[r])) /\ Correct

`Room`: the pass has read more than it has written, unless the output is still the
root, or what comes next in the path is a slash or its end: so where a component
may begin there is room for the "/" put before it. `Inside` says by characters what `InsideRoot`
says of components, so that a character added or a component taken away can
be followed, and that `dotdot` stays at the root, so that backing up ends there.

`Correct` says something of the end only. What the pass keeps is that between
two components the output is the text of the names the part read so far
resolves to, and `dotdot` the length of the text of their leading "..":
`NamesTo(f)` says that `f[k]` are the names of the first `k` characters,
`Written(f[r])` that they are what stands in the output. A ".." then takes
the last name away in both, because backing up stops exactly in front of the
last slash behind `dotdot`, and a component adds one to both.

`Names` is a fold, and what a fold computes is an induction over its input. The
theorems on induction take an operator as a parameter, which the provers
cannot instantiate; `SequenceLemmas` states them about sets and functions
instead. `Induct`: a set with 0 in it and with `n + 1` whenever `n` is has all
of the naturals. `Recursion`: a function exists whose value is given or is a step from the value at
an element of lower rank. `FoldTable` is that for `FoldLeft`, `FlattenRows` for
`FlattenSeq`: they are defined by `CHOOSE`, and mean nothing until somebody has
shown that there is something to choose.

`UpgradeProofs` proves, for any number of generations, workers, upgrades that may
overlap and deaths, whether calls fail or not:

| theorem | statement |
|---|---|
| `ServiceIsKept` | `Spec => []ServiceKept` |
| `FilesNameLiving` | `Spec => []FilesNameTheLiving` |
| `ReachedByFile` | `Spec => Reachable` |
| `MeantToStop` | `Daemon` implies `Spec => []StopsAreMeant` |
| `SocketsInherited` | `Spec => []SocketsHandedOn` |

    UInv == Typed /\ NamesTell /\ SignalsTell /\ Chain /\ FilesOwned /\ YoungestServes

* `Chain`: a generation that has not upgraded is the youngest. All else rests on
  it: there is one such generation, so the file that `upgrade_handler` renames
  is its own (`OwnFile`), and so two generations can meet in the name `.old` only;
* `NamesTell`, `SignalsTell`: the suffix of the name says what a generation has
  been through; SIGUSR1 is pending only where an upgrade is still to come,
  and SIGQUIT while workers are being forked only when the service is to end;
* `FilesOwned`: each file is in the name its generation takes for its own, and
  that generation has not ended, or ended in one of the ways that leave a file;
* `YoungestServes`: `ServiceKept` with the witness named. The old generation can
  be told to quit because by then it is not the youngest; if it is, its upgrade
  failed or was interrupted. `Failed` stays true once it is; `Interrupted` ends only with
  the successor's start, or with a `fork` that fails.

`Fits(g)` says what most steps have in common: one generation changes, to what
its name and its signals tell, and gets only files it takes for its own.
`FitsKept` derives from it all of `UInv` but the last conjunct, which
`SameKept`, `UpgradedKept` and `ServiceGoesOn` add. `Reachable` is about steps:
whoever serves after one served before under the same name or has just been
given its file (`Steady`), so a file is lost only to a step that writes one. The
file of name 0 is taken by the youngest, the only one of that name; `rename`
and `remove` of `.old` are done by another one that has the name and is there.

For `StopsAreMeant`, `GroupsOwn` adds that with `-g` a generation that has
sockets is the only one in its process group, until it has ended, save for the
child it has just forked. Without `-g` all generations are in one group and the property fails:
SIGQUIT to a master that is still forking reaches all of them. For
`SocketsHandedOn`, `SocketsKnown` follows the list from generation to
generation, and the lemma `TextReads` (`TextReadBack`, for any number of
workers and any descriptors of up to five digits) says that the text is no
obstacle. `Decimal` writes digits that `Value` reads back, five at most
(`DecimalRead`); the text has them one behind the other, with a blank after each
but the last (`Spells`); so `Starts` finds the beginning of each number and
nothing else (`StartsSpelled`), and `atoi` from there stops at its end
(`AtoiSpelled`). The five digits are the assumption `DescriptorsAssumption`:
"max size per pid is 5" (`core/yta_process.c:30`), which the code relies on for
its buffer and does not check.

What stays model-checked only: liveness (`QuitDrains`, `ForcedClose`,
`ShutdownEnds`, `Replaced`, `UpgradeHeard`, `EverySocketServed`), which the
prover does not do. Every invariant and action property of the passing runs is
proved, and so are the three refinements.

## 5. Not modelled

Response text and media types (formatting), the tokens of the parser
(vendored; responses and chunked bodies, which yotta never parses), the command
line, `drop_root`, `make_listen_socket` and `set_nonblock`: straight lines of
code that return or exit, before any concurrency. A file that changes while it
is sent. Pipelined requests are modelled, but no property says they are
answered: the code drops them. SIGUSR1 to a worker, and process ids that are
used again, in `Process` and `Upgrade`.

What would come next: the action properties of `ConnectionPool` and
`Supervisor` for two masters at once; `Upgrade` with `Process` as each of its
generations; one response through the loop and the HTTP callbacks together.
