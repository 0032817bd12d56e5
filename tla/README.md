# XFiber in TLA+

Specifications, model-checking configurations and machine-checked proofs for
XFiber, a single-threaded coroutine library in C++: a cooperative scheduler
(`src/xfiber.cpp`, `src/xfiber.h`), counting semaphores between fibers, and
non-blocking TCP sockets on edge-triggered epoll (`src/xsocket.cpp`).

- [Inventory](#inventory): the parts of the library and what makes each hard
- [Modules](#modules): which module models what, and how it corresponds to the code
- [Runs](#runs): what TLC checks, bounds, fairness
- [Findings](#findings): where the code and its own comments disagree
- [Proofs](#proofs): what TLAPS proves, and along which argument
- [Not modelled](#not-modelled) and [Plan](#plan)

## Inventory

### Scheduler: class `XFiber` (xfiber.cpp:14-513)

*State.* `ready_fibers_` and `running_fibers_` (deques of `Fiber *`),
`cur_dispatch_fiber_`, `expire_events_` (map from deadline to a set of fibers),
`io_waiting_fibers_` (map from fd to its reader and writer), `sem_infos_` (map
from `Sem` to its `SemInfo`), and the local `now_ms` of a round.

*Operations.* `Dispatch` is an endless loop: run everything that is ready as one
round, wake everything whose deadline has passed, wait up to 2 ms in
`epoll_wait`, wake the fibers of the reported fds. A fiber calls `CreateFiber`,
`Yield`, `SleepMs`, or blocks through `RegisterWaitingEvents` followed by
`SwitchToScheduler`. `WakeUpFiber` is the one way back: it pushes the fiber on
`ready_fibers_` and takes it out of what it was waiting for.

*Hard.* No thread ever runs beside another, yet the order in which fibers,
timers, semaphores and the clock act on the shared queues is open. `WakeUpFiber`
does not ask whether a fiber is already queued, the timer loop terminates only
because of what `WakeUpFiber` removes, a deadline stored in a fiber outlives the
wait it belonged to, and a finished fiber is deleted at once: whoever still
holds its pointer holds a dangling one.

*Correct when* a live fiber is in exactly one place; a freed one in none; a sleep
is never short, and returns; sleepers come back by deadline; the queue is first
come first served; whatever is scheduled runs.

### Fiber: class `Fiber` (xfiber.cpp:880-966, xfiber.h:380-470)

*State.* context and stack, status, `waiting_events_` (deadline and fds of its
wait). *Operations.* construction, `Start` (run the entry function, become
FINISHED), deletion by `Dispatch`. *Correct when* it is resumed only at the point
where it is waiting and never after its deletion.

### Semaphores: struct `Sem`, `SemInfo`, `TryAcquireSem`, `ReleaseSem`, `RestoreSem` (xfiber.cpp:1025-1261)

*State.* Per semaphore the free units `value_`, the set `fibers_` of parked
fibers, and one *creditor* (`UCBA_fiber_`, `UCBA_value_`): a fiber that was
given part of what it asked for and keeps it while it waits for the rest. While
there is a creditor nobody else is given anything.

*Operations.* `Acquire` loops: try, return when satisfied, give everything back
(`RestoreSem`) when the deadline has passed, otherwise park and switch away.
`Release` adds units and wakes everyone who is parked. The constructor registers the
semaphore; `UnregisterSem` wakes the parked fibers and erases the record.

*Hard.* Partial grants are hold-and-wait and need the creditor rule to avoid
deadlock; a timeout races the release that would have satisfied the fiber; a
timeout of one fiber edits the record another one relies on; all waiters are
forgotten at each wake-up and must enter themselves again.

*Correct when* no unit is lost or made, there is one creditor and it is really
waiting, nobody is parked while units it could have are idle, a creditor is
satisfied when units come back, and the whole looks to its clients like an atomic
counting semaphore.

### Sockets: `Listener`, `Connection`, fd registration (xsocket.cpp; xfiber.cpp:405-450, 564-580, 664-691, 795-824)

*State.* `io_waiting_fibers_`, the fd lists in each fiber's `waiting_events_`,
what epoll watches and which edges it has yet to report.
*Operations.* `ListenTCP`, `Accept`, `ConnectTCP`, `Read`, `Write`, the
destructor of `Connection` (`UnregisterFd`, then `close`), `TakeOver`.
*Hard.* An edge is reported once; IN and OUT reported together serve only the
reader; registration does nothing when the fd has an entry; entries of one wait
are left over for the next, and fds are reused.
*Correct when* a fiber that waits for data or space is woken when it comes, no
wake-up goes to a fiber that waits for something else, and timeouts are honoured.

### The rest

`util::NowMs` (the time of day in milliseconds), logging (`log.h`), and
`cilent/main.cpp`, a stand-alone blocking TCP client.

### Demo: `main.cpp`

*State.* A list `buffer` and `Sem sem(4)` shared by a producer (acquire 1, push, release,
yield) and a consumer (acquire 4 within 10 s, take four if there are four, release,
yield); an acceptor that starts a server fiber for each connection and lets go of its
own reference; servers that read until the peer closes; a fiber that sleeps ten times.
Each program is behind a macro of its own.
*Hard.* All of them share one thread: a program that does not come back to the scheduler
stops the others. Connections are counted references, their numbers are reused, and a
wake-up by one part of the library edits the registrations of all of them.
*Correct when* every batch is consumed, every peer accepted, what it sends read, its
connection closed and its server ended, and each connection has just one server.

### How they interact

A fiber calls the scheduler, a semaphore or a socket on its own stack; blocking
means registering and swapping contexts. Everything returns through
`WakeUpFiber`: from the timer loop, from epoll, from another fiber's `Release`,
from a timed-out `Acquire` (`RestoreSem`), from `UnregisterFd`. The clock is
shared by all and moves by itself. The hazards are listed with their lines in
`PROJECT.json`.

## Modules

| module | what it is |
|---|---|
| `XFiber` | the scheduler and the life of a fiber: deques, rounds, timers, clock, `CreateFiber`, `Yield`, `SleepMs`, the end of a fiber |
| `XSem` | EXTENDS `XFiber`: semaphores, `Acquire` with and without a timeout, `Release`, on the same queues and timers |
| `XSocket` | EXTENDS `XFiber`: `Accept`, `ConnectTCP`, `Read`, `Write`, shared connections and their destruction, the map from fds to fibers, the epoll part of `Dispatch`; kernel and peers as environment |
| `CountingSem` | the abstract specification `XSem` implements: units are taken and given atomically |
| `RunQueue` | the abstract specification `XFiber` implements: one queue, one CPU, sleepers |
| `XFiberSystem` | EXTENDS `XFiber`, INSTANCEs `XSem` and `XSocket` on its variables: the calls of both on one scheduler |
| `XMixed` | EXTENDS `XFiberSystem`: arbitrary fibers that wait for semaphores and connections in turn |
| `XDemo` | EXTENDS `XFiberSystem`: the programs of `main.cpp` |
| `MCXFiber`, `MCXSem`, `MCXSocket`, `MCXMixed`, `MCXDemo` | instances for TLC |
| `SchedulerLemmas` | lemmas about queues, timers and the steps of the scheduler that all proofs share |
| `XFiberProofs` | theorems about `XFiber`, among them that it implements `RunQueue` |
| `XSemProofs`, `XSemUntimedProofs`, `CountingSemProofs` | theorems about `XSem`, with any timeouts and with none; it implements `CountingSem` |
| `XSocketProofs`, `XSocketClientProofs` | theorems about `XSocket`, for all clients and for some |
| `XDemoProofs` | theorems about `XDemo`, on an instance of the proofs about `XSocket` |

### Correspondence with the code

A step is what the code does between two points where another actor could
matter. Fibers are not preempted, so most calls are one step: a blocking call is
one step up to its context swap and one from its resumption. The dispatcher's
loops are split into iterations (`StartRound`, `RunNext`, `EnterTimers`,
`TimerWake`, `TimerErase`, `TimersDone`, `EpollIdle`), because `now_ms` is read
once and the clock goes on (`Tick`) between any two steps.

| code | model |
|---|---|
| `ready_fibers_`, `running_fibers_` | `ready`; `running`, the part of the round still to be visited (the deque itself is cleared after the round and never read in between) |
| `cur_dispatch_fiber_` | `cur`; `NoFiber` is `nullptr`, that is, the scheduler has the CPU |
| program counter of `Dispatch` | `phase` |
| the point at which a fiber is suspended | `loc[f]`: `user` (application code), `sleep`, `acquire`; `none` before and `freed` after its life |
| `waiting_events_.expire_at_` | `expireAt[f]`; as in the code a registration without a deadline leaves the old one standing |
| `expire_events_` | `expireEvents`, a function from deadlines to sets; an emptied entry stays until the timer loop erases it |
| `std::set<Fiber *>` iteration | `WakeOrder[S]`, the pointer order. `CreateFiber` picks any unused identifier, so every relation between creation and address order occurs although one order is fixed |
| `sem_infos_` | `semInfos`, a function from the registered semaphores to records with `value`, `ucbaValue`, `ucba`, `fibers` |
| `Sem::Sem`, `RegisterSem`; `UnregisterSem` | `RegisterSem`, by `main` or by a fiber; `UnregisterSem`, by a fiber, for the semaphores in `Doomed`. `sem_seq` never repeats, so a semaphore can only come back when nobody remembers it |
| locals of `Sem::Acquire` | `call[f]` (semaphore, amount, `done`, deadline) |
| `io_waiting_fibers_` | `ioFibers`, a function from the fds that have an entry to `[r, w]` |
| `waiting_events_.waiting_fds_r_` | `readFds[f]`; the list only grows and is only searched, so it is a set. `waiting_fds_w_` is never written (`SetWriteEvent` copies the other list) and is left out |
| locals of `Accept`, `Read`, `Write` | `io[f]` (fd, units still to write, deadline) |
| `shared_ptr<Connection>` | `owners[fd]`, the fibers that hold one; the last one to let go runs `~Connection` |
| a socket in the kernel | `net[fd]`: open, units received, end of input, room in the send buffer, and `noSpace`, the kernel's note that a writer found the buffer full and is owed an event, `reset`, and `error`, an error not yet reported |
| the ready list of epoll, `evs` of `Dispatch` | `edges`; `events` (phase `events`) |
| program counters of the fibers in `main.cpp`, `buffer.size()` | `at`, `buffer` |

`held[f][s]`, the units the client holds, is the only variable that is not in the
library. It states the discipline of the clients: a fiber releases no more than
it holds and asks for at least one unit and no more than there ever are. Requests
beyond that are legal C++ but wait for ever by design.

The demo has a `held` too, and there the discipline is a fact about its programs: their
`Release` steps are enabled whenever they get there, or the run would deadlock.

Undefined behaviour in the code is modelled by what the build does, or given no
behaviour:

- `WakeUpFiber` looks up a stored deadline that may no longer be a key and then
  uses `end()->second` as a set. In `std::map` this lies on the header and the
  members behind it, which read as an empty set here, so nothing is found and
  nothing is erased (`WakeUpFibers`).
- Resuming a deleted fiber has no meaning. `RunNext` has no step for it, so a
  behaviour that gets there stops. This happens only with timed acquires (see
  Findings) and with writers (`sock_write`). Those runs do not check for deadlock, and
  neither does `mixed`, whose fibers may all wait for good; there `InOneRole` says that a
  freed fiber is in no role, so not in the queue. The other passing runs check for deadlock, which
  shows that no freed fiber is ever at the head of the queue.
- `UnregisterFd` wakes the reader of an entry, which erases the entry, and then
  erases it again through the old iterator. The same happens with a writer that has at
  some time waited to read that fd. `UnregisterFd` of the model has no step
  for an entry with such a fiber. Without writers it never needs one: a reader in an entry holds
  the connection (`ReadersCurrent`), so it is not being destroyed. A writer that has also read
  occurs in no run that passes (`sock_write` only writes).
- A fiber that is resumed in `Acquire` after its semaphore has been unregistered uses
  `end()` of the map. `InAcquire` has no step for it.

*Sockets.* An iteration of the loop of `Accept`, `Read` or `Write` is one step:
one system call, and return, park or go round. `epoll_wait` is a step of its own
(`EpollWait`), and so is each event (`EpollEvent`); peers act between any two steps.
`epoll_wait` reports at most `MaxEvents` events, any of those due, and leaves the other edges for
the next call; when it fails the loop of `Dispatch` starts over with all edges kept (`EpollIdle`).
Edge triggering is modelled as the kernel does it: data, a connection or an end of
input that arrives makes an edge, freed room makes one if a writer was refused
before (`noSpace`), and an edge reports the state of the socket, both directions,
when it is collected. A connection gets the lowest free fd, so numbers are reused.
`UnregisterFd` and `close` are part of the step that drops the last `shared_ptr`,
whether a fiber does it (`Close`) or `delete fiber` does (`FinishHolding`).

*Errors.* A peer may reset a connection: both ends of it become ready, the next read or
write reports the error once, reads then return 0. (A further write would raise SIGPIPE;
the clients do not write again after the error has been reported.) `Read` and `Write`
look at their deadline before the error, which only changes the value returned. A connect that is
refused leaves a socket open that nobody closes (`ConnectRefused`). `EINTR` leads back
to the top of each loop and is a stutter. So is `accept` without a free number: it
changes nothing, the fiber keeps the CPU and tries again.

*Composition.* The actions of `XSem` do not know of fds and those of `XSocket` do not know of
semaphores. What they share is the scheduler, and `WakeUpFiber`: whoever wakes a fiber takes it
out of its deadline and of the fds it has read. `XFiberSystem` adds that second part to the
wake-ups of semaphores (`ForgetFdsOf`). `XMixed` is what exercises it: its fibers acquire and
release units, connect and read in any order, so that a fiber that is parked on a semaphore has read
a connection before. Its three rules (no deadline for `Acquire`, a connection for oneself and for life,
no writes) keep out what the findings are about, and nothing else. A wake-up never takes a fiber out of a semaphore's set;
`Release` and `RestoreSem` clear the set they walk. In `XDemo` each statement of
a program that calls the library is an action, with a label in `at`; all programs are switched
on together, and the sleeper ends at any round instead of the tenth.

Logging, stacks and contexts, fiber names and sequence numbers are left out. So is
`SleepMs` of a negative time, which returns at once.

### Names

Mutants are operators `X_What` placed before the operator `X` they vary. They are
not used by the specification; each stands for a plausible bug, and replacing
`X` by it makes TLC find a violation of the property `PROJECT.json` pairs it with.

## Runs

| run | instance | shows |
|---|---|---|
| `scheduler` | 3 fibers, sleeps 0-2 ms, clock to 3 | all properties of `XFiber`: `TypeOK`, `ScheduledOnce`, `TimersInOrder`, `SleepNotShort`, `NoOvertaking`, `ReadyRuns`, `SleeperWakes`, and the refinement `ImplementsRunQueue` |
| `sem` | 3 fibers, one semaphore of 2 units, requests of 1 and 2, no timeouts | `InOnePlace`, `SingleCreditor`, `NoLostWakeup`, `NoIdleUnits`, `CreditorPaid`, and the refinement `ImplementsCountingSem` |
| `sem_timed` | 2 fibers, timeouts 0, 1 and for ever, sleeps, clock to 2, a semaphore that is constructed and unregistered at any time | with timeouts: `SemTypeOK`, `Conservation`, `CreditorIsCalling`, `TimedWaitHasTimer`, `NobodyLeftBehind`, and the refinement |
| `sock_read` | 2 fibers that accept, read with a timeout of 1 ms, share and close one connection number; peers that connect, send and close; clock to 3 | `SockTypeOK`, `InputOnItsWay`, `ReadersCurrent`, `WokenOnce`, `NoFreedScheduled`, `OpenWhileHeld`, `ReaderRegistered`, `TimedReadEnds` |
| `sock_write` | 2 fibers that connect, write 1 or 2 units into a buffer of 1, with timeout 1 ms or none, and close; peers that read, refuse and reset; clock to 2 | `WriterNotStranded` when nothing is ever received |
| `mixed` | 2 fibers, one semaphore of 2 units, requests of 1 and 2 without timeouts, reads with a timeout of 1 ms, 2 connection numbers; peers that send; clock to 2 | the composition: `InOneRole`, `ReadersReached` |
| `demo` | the sleeper, the producer, the consumer, the acceptor and two server fibers; one connection number; peers that connect, send and close; clock to 3 | `DemoTypeOK`, `BufferBounded`, `NeverWaitsForSem`, `OneServerEach`, `IsSocketClient`, `BatchesConsumed`, `Accepted`, `Served`, `Disconnected` |
| `double_wake`, `two_creditors` | timed acquires, 2 and 3 fibers | violations, see Findings |
| `write_then_read`, `writer_edge` | 1 fiber that connects, writes, and reads or closes | violations, see Findings |
| `stale_reader` | 2 fibers that connect, read, close and sleep, each on its own connection | violation, see Findings |

What the less obvious properties say:

- `ScheduledOnce`, `InOnePlace`: every live fiber is in exactly one of the run
  queue (once), the CPU, a timer, a semaphore's parked set. This is both "nothing is
  lost" and "nothing is resumed twice", and it is what makes deletion safe.
- `NoOvertaking`: the concatenation of both deques only loses its head or gains at
  its tail, through yields, wake-ups and the swap at the start of a round.
- `NoLostWakeup`: whoever is parked either can be woken by a release, because units are out
  beyond the share it has collected, or queues behind the creditor. It is not said who has these
  units: a client that holds all of them and asks for one more waits for itself, as in any semaphore.
- `CreditorPaid`: if every fiber comes round to holding nothing again and again, a
  creditor does not stay one.
- `ImplementsCountingSem`: partial grants, retries and refunds are invisible. The
  mapping counts the units a fiber has collected in an unfinished `Acquire` as free.

- `ImplementsRunQueue`: seen from outside there is one queue, first come first served, and
  sleepers that come back through it, never early and by deadline. The mapping joins the two
  deques and gives each fiber in the timer map its stored deadline.
- `NobodyLeftBehind`: the fibers parked on a semaphore that is unregistered are woken, all.
- `InputOnItsWay`: for a registered reader no edge is ever lost, whatever the order of
  arrivals, reads, rounds and timers.
- `ReaderRegistered`: a reader that parks is registered until it is woken, but for two cases that
  it leaves open: another live fiber has at some time waited to read this fd, or a writer is in the
  entry. In these it may be left without a registration, or not. The first is the price of "one connection is handled by one fiber" (xfiber.h:342), the second is
  a finding.
- `ReadersCurrent`: an entry with a reader belongs to a wait that is still going on, on a
  connection that is still open, and not to an earlier one on a number since reused.
- `WriterNotStranded`: a parked writer is registered and room for it reaches it. A
  writer's entry survives its wake-up, and the next writer does not register because of
  it. That this does no harm in `sock_write` rests on two facts: the entry goes when
  the number is closed, and a connection has one owner there, so that the next writer
  is the one the entry names.
- `OpenWhileHeld`: a connection is closed exactly when the last fiber lets go of it.
- `InOneRole`: with semaphores, fds and timers together, a live fiber is still in exactly one
  of the run queue, the CPU, a semaphore's set, and the waits of the scheduler. It is checked where
  fibers really go from one to the other (`mixed`); for the demo it is proved.
- `ReadersReached`: `ReaderNotStranded`, the property of the findings about readers, holds for
  fibers that also wait on semaphores, as long as they keep to the rules of `XMixed`.
- `IsSocketClient`: the demo is a client of the sockets as `XSocket` has them, so what is checked
  and proved of `XSocket` alone holds of it. `sockLoc` is what the sockets see of `loc`: to them a
  fiber inside `Acquire` is in code of the application. The property would fail if a program broke
  the rules for connections. (No semaphore ever wakes anybody in the demo; that is `mixed`.)
- `BufferBounded`, `NeverWaitsForSem`: producer and consumer alternate. Nobody is off the CPU
  between `Acquire` and `Release`, so in the demo the semaphore never makes anybody wait and
  the 10 seconds never pass.
- `TimedReadEnds`: even a `Read` that was not registered comes back at its deadline.

### Bounds

`MaxTime` stops the clock and the deadlines; with a clock up to 3 there are
deadlines in the past, present and future of a round, equal deadlines, and an
expired deadline that is followed by a new one. Three fibers are enough for a
holder, a creditor and a waiter behind it, and for two sleepers that share a
deadline while a third one runs. Two units with requests of 1 and 2 give partial
grants, exact grants and refusals. `MaxQueue` bounds the run queue where a fiber
can be pushed more than once: in `sem` it is the number of fibers
and is never the reason a step is missing (`InOnePlace`). In `sem_timed` it leaves
room for every fiber and one duplicate. The state space of a timed instance with
three fibers is too large to exhaust; the violations that need three are searched
for there and found.

In the socket runs a fiber holds one connection at a time and one number is given out
again and again, which is what makes stale entries meet new connections; with `FdsSuffice`,
which every run sets, there are never more connections waiting than free numbers (see Findings for
what `Accept` does otherwise). One unit received and one of send buffer are enough for full and empty, and writes of 2 units are always partial. `MaxQueue` is the number of
fibers in `sock_read`, where `WokenOnce` shows it is no restriction; in `sock_write` and
the violations one more, for the stale writer that `UnregisterFd` wakes (see
Findings); those runs may stop there or at a freed fiber and do not check for deadlock.

`MaxEvents` is 512 in the code and 1 in the runs of `XSocket` and in `mixed`, so that edges are left
over for later calls; it is 2, as many as there are fds, in `sock_read`, which is the largest of
them, and 512 in the demo. `mixed` has a number for each fiber and a clock to 2, enough for a timed
read that ends, one that is still on, and a wait on the semaphore in between; it does not check for
deadlock, because fibers that keep their units may stop.

The demo uses the source's programs and amounts; only the times are scaled down. Two server
fibers on one number give a second connection on the number of the first, which is where
leftovers of the first would show; a peer connects only while a server fiber is left for it.
With a clock to 3 the sleeper sleeps and comes back while the others run. Two numbers were
tried without the liveness properties and hold as well.

No symmetry is used: fibers are told apart by `WakeOrder`.

### Fairness

The dispatcher is a loop on the only thread, `main` reaches it, and the clock moves:
weak fairness. A fiber does not keep the CPU for ever: nothing can work in a
cooperative scheduler without that, and nothing is assumed about how it gives the
CPU up (it may finish, sleep or yield). In `XFiber` that too is weak fairness. In
`XSem` a fiber could acquire and release in turn without entering the scheduler, so
that giving up is disabled again and again while it is inside `Acquire`; that it
still does so at some time is strong fairness. Whether units are ever released is
up to the clients and stands as a hypothesis in `CreditorPaid`, not in the fairness.
`XSocket` is as `XSem`: an iteration of a call is taken (weak), and a fiber that keeps
making calls that do not block gives the CPU up at some time (strong). Peers are under
no obligation.

`XDemo` assumes less: the process runs (one weak fairness condition over `main`, the
scheduler and the fiber that has the CPU). That fibers give the CPU up follows from the
programs, with one exception that no scheduler of this kind can mend: a `Read` that finds input
returns at once, so that a peer that sends without a pause keeps its server, and with it
everything else, busy for ever. `PeersPause` is the hypothesis of the liveness properties
that excludes it. The clock need not move. One strong condition is about the kernel: an
`epoll_wait` that is called again and again does not fail every time.

What is *not* claimed: that every waiter is served. Waiters are woken together and
those at lower addresses ask first, and a fiber that has just released may ask
again before them; a waiter can be passed over for ever. The code promises
progress for the creditor only (xfiber.h:323-330), and that is what is checked.

## Findings

Each is a run in which TLC violates what a comment of the code says.

- **`double_wake`** (xfiber.h:105, "WakeUpFiber has solved the problem of waking
  twice"). A fiber resumed by its timer is still in `fibers_` of the semaphore, and
  the branch that queues it behind a creditor inserts it once more. A `RestoreSem`,
  its own or another fiber's, wakes it again although it is running or queued. The
  extra entry resumes it inside its next wait, or after it was deleted.
- **`two_creditors`** (xfiber.cpp:1081, "a Sem has at most one creditor").
  `RestoreSem` clears `UCBA_fiber_` whoever calls it. A waiter that times out makes
  the semaphore forget the creditor, which keeps its share; the next one becomes a
  second partial holder and both may wait for each other.
- **`write_then_read`** (xsocket.cpp:491, "whenever epoll has an event we go on
  reading"). The entry of a `Write` that had to wait is not erased when the writer is
  woken, because `SetWriteEvent` (xfiber.h:433) copies the list of the readers. The next
  `Read` on the connection finds an entry and registers nothing: input wakes nobody.
- **`writer_edge`** (xsocket.cpp:547, "this guarantees that a fiber that has not finished
  writing goes on"). `Dispatch` looks at `EPOLLOUT` only in events without `EPOLLIN`
  (xfiber.cpp:434, 444). When input has arrived too, the writer is not woken, and with
  edge triggering the room is not reported again.
- **`stale_reader`** (xfiber.h:342, "one connection is handled by one fiber"; xsocket.cpp:491).
  `waiting_fds_r_` of a fiber holds every number it has ever waited to read, and
  `WakeUpFiber` erases the entries of all of them (xfiber.cpp:122-131). A fiber that read a
  connection, closed it and now sleeps erases, when it wakes, the registration of another
  fiber that reads a new connection on the same number: its input wakes nobody.

Two more disagreements are decided by reading one line, and no run is spent on them:

- The comment above the timer loop (xfiber.cpp:306-313) says "once some are due, the whole timer
  queue is processed; for the fibers that are not due this is an early wake-up", by which they
  lose their deadline. The code has no such loop: the condition of `while` is evaluated again for each
  deadline (xfiber.cpp:331), so it stops at the first that is not due. xfiber.h:359 says the opposite
  of that comment, that who is not due is not put on the CPU. This is what the code does,
  and `SleepNotShort` checks it (and is proved): a sleeper that comes back, comes back at its
  deadline or later, whichever others were due before it.
- "If accept fails the fiber is swapped out of the CPU" (xsocket.cpp:259) is so only for
  `EAGAIN`. Without a free descriptor `Accept` prints the error and calls `accept`
  again at once (xsocket.cpp:421), for ever: the fiber that could close a connection never runs. In the
  model this is a step that changes nothing.

Consequences of the first and the third that no run is spent on:

- After a double wake-up a fiber can be registered under one deadline while `expire_at_`
  says another. `WakeUpFiber` then erases nothing from the set the inner timer loop (xfiber.cpp:337)
  waits to become empty, and the scheduler never leaves it (cf. xfiber.h:360).
- `~Connection` wakes the writer in the entry of the fd. After a `Write` that had to wait
  this can be the fiber that is just closing the connection; it is queued while it runs,
  deleted when it returns, and still queued. `NoFreedScheduled`, put into the cfg of
  `sock_write`, is violated this way.

The two findings about semaphores need a timed `Acquire`; without timeouts the
invariants they violate hold (run `sem`). `write_then_read` and `writer_edge` need a `Write` that
has to wait, `stale_reader` a fiber that reads again after it has closed: in `sock_read`, where a
connection is shared and closed too, `ReaderRegistered` says of a reader outside these cases that it is safe.
In the demo none of them happens: a server writes nothing and ends with its connection.

A record that is wrong without effect: `UCBA_value_` is meant to be what the creditor
has got (xfiber.cpp:1098), but a second partial grant adds what was asked for
(xfiber.cpp:1110). Nothing reads it.

## Proofs

The theorems hold for every set of fibers, semaphores and descriptors, every pointer
order, size, timeout and bound. Some have a hypothesis on what the clients and the
peers do; it stands in the theorem, as `ASSUME`, and below.

| module | theorem | statement | hypothesis |
|---|---|---|---|
| `XFiberProofs` | `TypeCorrect` | `Spec => []TypeOK` | |
| | `AlwaysScheduledOnce` | `Spec => []ScheduledOnce` | |
| | `AlwaysInOrder` | `Spec => []TimersInOrder` | |
| | `NeverShort` | `Spec => SleepNotShort` | |
| | `NeverOvertaken` | `Spec => NoOvertaking` | |
| | `ImplementsQueue` | `Spec => ImplementsRunQueue` | |
| `XSemProofs` | `SemTypesKept` | `SemSpec => []SemTypeOK` | |
| | `UnitsConserved` | `SemSpec => []Conservation` | |
| | `CreditorNeverStale` | `SemSpec => []CreditorIsCalling` | |
| | `TimeoutsRegistered` | `SemSpec => []TimedWaitHasTimer` | |
| | `UnregisterTellsEverybody` | `SemSpec => []NobodyLeftBehind` | |
| `CountingSemProofs` | `ImplementsSem` | `SemSpec => ImplementsCountingSem` | |
| `XSemUntimedProofs` | `OnePlaceOnly` | `SemSpec => []InOnePlace` | no timeouts |
| | `OneCreditor` | `SemSpec => []SingleCreditor` | no timeouts |
| | `UnitsNeverIdle` | `SemSpec => []NoIdleUnits` | no timeouts |
| | `WakeupNeverLost` | `SemSpec => []NoLostWakeup` | no timeouts |
| `XSocketProofs` | `SockTypesKept` | `SockSpec => []SockTypeOK` | |
| | `InputNeverLost` | `SockSpec => []InputOnItsWay` | |
| `XSocketClientProofs` | `ConnectionsLiveAsHeld` | `SockSpec => []OpenWhileHeld` | nobody connects, or no peer refuses |
| | `EntriesNeverStale` | `SockSpec => []ReadersCurrent` | nobody writes |
| | `NeverWokenTwice` | `SockSpec => []WokenOnce` | nobody writes |
| | `FreedNeverScheduled` | `SockSpec => []NoFreedScheduled` | nobody writes |
| | `ReadersStayRegistered` | `SockSpec => ReaderRegistered` | nobody writes |
| | `ReadersNeverStranded` | `SockSpec => []ReaderNotStranded` | a fiber connects and reads, and keeps its connection to itself until it ends |
| | `WritersNeverStranded` | `SockSpec => []WriterNotStranded` | nobody reads or shares a connection, peers send nothing |
| `XDemoProofs` | `DemoIsSocketClient` | `DemoSpec => IsSocketClient` | |
| | `DemoTypesKept` | `DemoSpec => []DemoTypeOK` | |
| | `BufferNeverOverfull` | `DemoSpec => []BufferBounded` | |
| | `SemNeverWaitedFor` | `DemoSpec => []NeverWaitsForSem` | |
| | `OneServerForEach` | `DemoSpec => []OneServerEach` | |
| | `OneRoleOnly` | `DemoSpec => []InOneRole` | |

*Assumptions.* `WakeOrderAssumption`: `WakeOrder[S]` lists each element of `S`
once (what iterating a `std::set` does; sets of fibers are therefore finite).
`ConstantsAssumption`, `SemConstantsAssumption`, `SocketConstantsAssumption`, and for the two on one
scheduler `SystemAssumption`, give the constants their types; `DemoAssumption` says that the four
fibers of `main` are four and that the semaphore begins with the units of a batch. TLC evaluates all of them on every instance.

*Why the hypotheses.* They are not conveniences of the proofs. The four untimed
properties fail with timeouts (findings `double_wake`, `two_creditors`). Dropping any of the
others makes TLC find a violation on two fibers and one number:

- a refused connect leaves a socket open that nobody holds (`OpenWhileHeld`);
- after a `Write` that had to wait the entry with the writer is left behind. The next event or
  the destructor wakes that fiber again, wherever it is, so that it may be queued twice, while it
  runs, or after its end, and a reader may return with its entry in place (`ReadersCurrent`,
  `WokenOnce`, `NoFreedScheduled`, `ReaderRegistered`);
- a fiber that has read a connection erases the entry of its number whenever it is woken, also
  when a writer on a new connection is in it (`WriterNotStranded` with reads);
- of two fibers that write one connection only one is registered (with sharing);
- input takes the event of a writer away (finding `writer_edge`);
- a fiber that has closed a connection and goes on takes the registration of whoever reads that
  number next (finding `stale_reader`), and so does one that shares a connection
  (`ReaderNotStranded`).

### The scheduler

The inductive invariant is
`IInv == TypeOK /\ PhaseInv /\ ScheduledOnce /\ ClockInv`. `ScheduledOnce` is not
inductive alone. Starting a round overwrites `running`, which is harmless only
because outside a round it is empty (`PhaseInv`); and that a resumed sleeper is due
follows from its having been queued when its deadline was at most `nowMs`, with
`nowMs` no later than the clock (`ClockInv`). `ScheduledOnce` itself says that the deadline
stored in a fiber is the one it is registered under, so `WakeUpFiber` removes
exactly the entry the loop iterates over. This is the fact the finding
`double_wake` shows broken once timed acquires come in.
`NeverShort` and `NeverOvertaken` are step properties proved from `IInv`.

`AlwaysInOrder` strengthens `TimersInOrder` by `IInv` and `OnCpu` (the fiber on the CPU is in code
of the application). A step of the timer loop wakes a fiber with the first key of the map; a sleeper with an
earlier deadline is not in the map, hence, by `ScheduledOnce`, it is queued.

`ImplementsQueue` has one lemma per action. Starting a round, the bookkeeping of the timers and the
phases of `Dispatch` are stutters; the step that wakes a sleeper is where the first key and the
stored deadline have to agree, which is again `ScheduledOnce`.

What the semaphores and the sockets need of the scheduler's steps is proved once, in
`SchedulerLemmas`, for any set of places beside those of `XFiber`: a step of the scheduler keeps the
types, leaves fibers in other places there, keeps a fiber that is queued or runs in one of the
two, puts a fiber into the queue only by creating it or by its timer, and duplicates nobody
(`AtMostOnce`, the half of `ScheduledOnce` that survives beside parked fibers).

### The semaphores

`SemIInv` is the types, `PhaseInv`, and four parts. `CallInv`: a fiber is inside `Acquire`
exactly when it has arguments for it and units are missing. `CountInv`: `value_` and the units that
are out, held or collected, are what the semaphore began with, and they are finitely many; units
are counted as a set of pairs (fiber, number), so that a transfer replaces the part of one fiber
(`UnitsChange`) and no sum over the fibers is needed, which would be an induction.
`CreditorIsCalling`. `WaitersInv`: whoever waits in `Acquire` off the CPU is in the semaphore's
set, and in the timer map if it has a deadline. With timeouts the reverse is false, which is what
`double_wake` is about, and the invariant does not claim it: a fiber in a set may be anywhere,
and the proofs hold for a fiber that is woken twice. What each call does to the record
and to the units is stated once as an effect (`ReleaseEffect` and its like) and
proved from `TryAcquireSem`, `ReleaseSem`, `RestoreSem`; invariants are then proved from the effect.

Without timeouts `UntimedInv` adds: a fiber in a set is in no other place and is in the
`Acquire` of that semaphore (`ParkedInv`), a live fiber that is in no other place is in such a
set (`NobodyLost`), and when there is no creditor a parked fiber waits for units that are out
(`UnitsAreOut`). `NoLostWakeup` is not inductive: it speaks of the creditor's share, and only
`SingleCreditor` says that nobody else has one.

`ImplementsSem` maps the free units of the abstract semaphore to `value_` plus the shares of
unfinished calls. A partial grant moves units between these two and is a stutter, and so is the
refund of a call that times out; the grant that completes a call is the abstract `Acquire`. It needs
`Conservation` of `SemIInv` to know that the shares are finitely many.

### The sockets

Every step is of one of a few kinds, stated by what they do (`SchedulerStep`, `NetKeeps`,
`CallMoves`, `Parks`, `Connects`, `Drops`, and the three steps of epoll; `StepKinds` proves that these
are all), and each kind keeps each invariant.

`SockIInv`, which holds for every client, says besides the types: a call is on the connection
its fiber holds, or on the listener (`CallsInv`); connections are open as long as live fibers hold
them, one at most each (`OwnersInv`); the reader in an entry has noted the fd, so that its
wake-up erases the entry, and its connection is open (`EntriesInv`); events exist only while they
are handled (`KernelInv`). `InputOnItsWay` is inductive with these: when an edge is turned into
events a readable fd gives one with IN, such an event goes to the reader, and waking the reader
erases the entry because it has noted the fd. That is the half of the bookkeeping of `WakeUpFiber`
that works; the other half, the writers', is where the findings are.

`ReadInv`, for clients that do not write, adds that an entry has a reader and no writer, that
the reader is parked in a read of that fd (`ReadersCurrent`), and `AtMostOnce`. The last two
need each other: an event schedules the reader of an entry, which is once only because it is
parked, and it is parked because every way to be scheduled erases its entries.
`HeldInv`, for clients whose connects succeed, is that an open connection has an owner.
`PlacesInv`, a lemma for the demo, is that a live fiber that is not queued, on the CPU or under
a timer is inside `Accept` or `Read`. This does not yet say that it will be woken there. That it is
registered is `PrivateInv`, for fibers that keep the connections they have opened: only the one owner
of a connection has ever read its number, so that nobody else's wake-up erases the entry (the step is
that of `ReadersStayRegistered`, whose exception is excluded). With `InputOnItsWay` this gives
`ReadersNeverStranded`.

`WriteInv`, for connections used in one direction by one fiber each, says that the writer in an
entry is the only owner of the connection, and for a parked writer that the peer has closed,
or the buffer is full and the kernel has noted that it owes an event, or that event is
on its way. A writer's entry may outlive its wait; what makes that harmless is that whoever waits for
room on that fd next is the same fiber, and that closing the number erases the entry.

### The demo

The theorems hold for any number of server fibers, descriptors and peers. They are all consequences
of `DemoIInv`, which was checked by TLC on the instance of `demo` before it was proved.

*The sockets.* `XDemoProofs` has an instance of `XSocketClientProofs` with `sockLoc` for `loc` and the
calls the programs use. `StepSeen` shows that every step of the demo is one of `XSocket` there or leaves
all its variables alone: the semaphores move fibers between `user` and `acquire`, which look the same,
and as nobody is ever parked on the semaphore `Release` wakes nobody. So `SocketsInv`, the
invariants of the sockets for clients that accept, read, share and close, holds without a second
proof. This is also `DemoIsSocketClient`.

*The programs.* `StepKinds` reduces the steps to fourteen kinds (`Rests`, `Resumes`, ..., `Leaves`), and
each part of the invariant is kept by each kind.

- `WhereInv`: which statements and locations go together. The producer and the consumer keep the CPU
  from `Acquire` to their yield, and the acceptor from the return of `Accept` to the end of its
  loop. This is cooperative scheduling, and everything below rests on it.
- `UnitsInv`: the units are with the one that is in its critical section, or in the semaphore. Two
  cannot be there at once, by `WhereInv`, so every `Acquire` finds its units (`AlwaysGranted`),
  `SemNeverWaitedFor` follows, and the semaphore's set stays empty.
- `TurnInv`: when the producer is before the consumer in the queue the buffer holds at most 3
  items, and at most 4 otherwise. `BufferBounded` alone is not inductive. A fiber that yields goes
  to the end of the queue, behind the other one, which is queued whenever this one runs
  (`QueuedOrRunning`, from `AtMostOnce`, `PlacesInv` and `TimersInv`: neither has a timer).
  `CreationInv` is the start: the consumer is created behind the producer, with the buffer empty.
- `HandOverInv`: a connection is with the acceptor, with one server, or with both between the
  creation of the server and the end of the acceptor's loop. With `OwnersInv` and `HeldInv` of the
  sockets this gives `OneServerForEach`.
- `ReadersInv`: no two live fibers have ever read the same fd, and a parked reader is registered. The
  numbers a fiber has read are never forgotten, so this says why the finding `stale_reader` cannot
  happen here: a server reads one connection and ends with it. The step is `ReadersStayRegistered`
  of the sockets, whose exception is excluded by `HandOverInv`.
- `OneRoleOnly` puts `AtMostOnce`, `ReadersCurrent`, `PlacesInv` and `ReadersInv` together: never
  two places, and never none.

### Only model-checked

Liveness (`ReadyRuns`, `SleeperWakes`, `CreditorPaid`, `TimedReadEnds`, and of the demo `BatchesConsumed`,
`Accepted`, `Served`, `Disconnected`), which is out of the prover's reach, and the two properties of
`mixed`: `InOneRole` is a theorem about the demo and `ReaderNotStranded` one about the sockets alone,
but neither about `XMixed`. Every other invariant and action property of the passing runs is a theorem
about the specification that is run.

## Not modelled

- `setsockopt` and `fcntl` that fail. In `ConnectTCP` the socket is closed and `Connection(-1)`
  returned; in `Accept` it ends the process in `TakeOver(-1)`. `ConnectTCP` blocks the
  whole process in `connect`, so it is one step.
- `SIGPIPE`, which ends the process (see Errors), and signals in general.
- More than one listener, `ListenTCP` called while fibers run, and several connections held by
  one fiber.
- A clock that is set back (`NowMs` is the time of day).
- The demo's variant that answers as a redis server. `cilent/main.cpp` does not use the
  library. Logging has no state.
- Clients of both semaphores and sockets other than the demo and those of `XMixed`, which do not
  write, share, or give `Acquire` a deadline.
- Overflow of `int32_t value_`: releases beyond what is held are excluded, so a
  value never exceeds its initial one (`Conservation`).

## Plan

1. `XMixed`: its two properties as theorems, from the invariants of `XSemUntimedProofs` and
   `PrivateInv`.
2. `XSocket`: an abstract byte channel for the readers to implement; a second listener.
3. `XDemo`: the redis variant, whose servers read and write one connection, which is where
   `write_then_read` and `writer_edge` would meet a real program.
