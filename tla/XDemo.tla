-------------------------------- MODULE XDemo --------------------------------
(***************************************************************************)
(* The programs of src/main.cpp on the library as a whole: a producer and  *)
(* a consumer on Sem sem(4), a fiber that accepts connections and starts a *)
(* server fiber for each, and a fiber that only sleeps.  (In the source    *)
(* each is behind a macro; here all of them are switched on.)              *)
(***************************************************************************)
EXTENDS XFiberSystem

CONSTANTS
    Producer, Consumer, Acceptor, Sleeper, \* the fibers main creates
    sem,           \* the semaphore
    BatchTimeout,  \* the time the consumer waits, 10000 in the source
    Nap            \* the time the sleeper sleeps, 1000 in the source

\* The other fibers run the servers.
Servers == Fibers \ {Producer, Consumer, Acceptor, Sleeper}

\* How many items the consumer takes, and the units of the semaphore.
Batch == 4

ASSUME DemoAssumption ==
    /\ {Producer, Consumer, Acceptor, Sleeper} \subseteq Fibers
    /\ Cardinality({Producer, Consumer, Acceptor, Sleeper}) = 4
    /\ sem \in Sems /\ InitValue[sem] = Batch
    /\ BatchTimeout \in Nat /\ Nap \in Nat \ {0}

VARIABLES
    at,     \* at[f]: the statement f executes next when it is in its own code
    buffer  \* buffer.size()

demoVars == <<systemVars, at, buffer>>

DemoInit ==
    /\ SystemInit
    /\ at = [f \in Fibers |->
                CASE f \in {Producer, Consumer} -> "acquire"
                  [] f = Acceptor -> "accept"
                  [] f = Sleeper -> "sleep"
                  [] f \in Servers -> "read"]
    /\ buffer = 0

Goto(f, l) == at' = [at EXCEPT ![f] = l]

\* f is in its own code, at statement l.
At(f, l) == InUser(f) /\ at[f] = l

-----------------------------------------------------------------------------
\* main: the semaphore and the four fibers, in the order of the source.
MainCreates ==
    /\ phase = "main"
    /\ \/ sem \notin DOMAIN semInfos /\ NewSem(sem)
       \/ /\ sem \in DOMAIN semInfos
          /\ \E f \in Fibers :
                /\ f = CASE loc[Sleeper] = "none" -> Sleeper
                         [] loc[Sleeper] # "none" /\ loc[Producer] = "none" -> Producer
                         [] loc[Producer] # "none" /\ loc[Consumer] = "none" -> Consumer
                         [] OTHER -> Acceptor
                /\ Create(f)
    /\ UNCHANGED <<at, buffer>>

MainDispatches ==
    /\ loc[Acceptor] # "none"
    /\ Main
    /\ UNCHANGED <<at, buffer>>

\* The producer and the consumer enter Acquire.
EnterAcquire(f, n, timeout) ==
    /\ At(f, "acquire")
    /\ Acquire(f, sem, n, timeout)
    /\ UNCHANGED <<at, buffer>>

\* Acquire goes on: true, false, or not yet.
AcquireGoesOn(f) ==
    /\ \/ Granted(f) /\ Goto(f, "critical")
       \/ GivesUp(f) /\ Goto(f, "yield")
       \/ Blocks(f) /\ UNCHANGED at
    /\ UNCHANGED buffer

Produce ==
    /\ At(Producer, "critical")
    /\ Release(Producer, sem, 1)
    /\ buffer' = buffer + 1
    /\ Goto(Producer, "yield")

\* Mutant of Consume: takes a batch whatever is there.
Consume_Blindly ==
    /\ At(Consumer, "critical")
    /\ Release(Consumer, sem, Batch)
    /\ buffer' = buffer - Batch
    /\ Goto(Consumer, "yield")

\* Mutant of Consume: releases one unit of the batch.
Consume_ReleasesOne ==
    /\ At(Consumer, "critical")
    /\ Release(Consumer, sem, 1)
    /\ buffer' = IF buffer >= Batch THEN buffer - Batch ELSE buffer
    /\ Goto(Consumer, "yield")

\* Four items if they are there, and the units back.
Consume ==
    /\ At(Consumer, "critical")
    /\ Release(Consumer, sem, Batch)
    /\ buffer' = IF buffer >= Batch THEN buffer - Batch ELSE buffer
    /\ Goto(Consumer, "yield")

\* The end of the loop body of the producer and the consumer.
YieldAndRepeat(f) ==
    /\ At(f, "yield")
    /\ Yields(f)
    /\ Goto(f, "acquire")
    /\ UNCHANGED buffer

-----------------------------------------------------------------------------
EnterAccept ==
    /\ At(Acceptor, "accept")
    /\ Sock!Accept(Acceptor)
    /\ UNCHANGED <<semVars, at, buffer>>

AcceptGoesOn ==
    /\ \/ Sock!AcceptBlocks(Acceptor) /\ UNCHANGED at
       \/ \E fd \in Fds : Sock!AcceptReturns(Acceptor, fd) /\ Goto(Acceptor, "serve")
    /\ UNCHANGED <<semVars, buffer>>

\* A fiber that captures the connection is created.
StartServer(fd, g) ==
    /\ At(Acceptor, "serve")
    /\ g \in Servers
    /\ Sock!Spawn(Acceptor, fd, g)
    /\ Goto(Acceptor, "drop")
    /\ UNCHANGED <<semVars, buffer>>

\* Mutant of DropLocal: the acceptor keeps its shared_ptr.
DropLocal_Kept(fd) ==
    /\ At(Acceptor, "drop")
    /\ Acceptor \in owners[fd]
    /\ Goto(Acceptor, "accept")
    /\ UNCHANGED <<systemVars, buffer>>

\* conn1 goes out of scope.
DropLocal(fd) ==
    /\ At(Acceptor, "drop")
    /\ Sock!Close(Acceptor, fd)
    /\ Goto(Acceptor, "accept")
    /\ UNCHANGED <<semVars, buffer>>

EnterRead(g, fd) ==
    /\ g \in Servers
    /\ At(g, "read")
    /\ Sock!Read(g, fd, -1)
    /\ UNCHANGED <<semVars, at, buffer>>

\* Mutant of ReadGoesOn: the server goes on when Read returns 0.
ReadGoesOn_IgnoresEnd(g) ==
    /\ g \in Servers
    /\ \/ Sock!ReadBlocks(g) \/ Sock!ReadReturns(g)
    /\ UNCHANGED <<semVars, at, buffer>>

\* Read goes on; when it returns 0 or less the server leaves its loop.
ReadGoesOn(g) ==
    /\ g \in Servers
    /\ \/ Sock!ReadBlocks(g) /\ UNCHANGED at
       \/ /\ Sock!ReadReturns(g)
          /\ Goto(g, IF net[io[g].fd].inbox > 0 THEN "read" ELSE "end")
    /\ UNCHANGED <<semVars, buffer>>

\* Mutant of ServerEnds: the fiber is deleted, the function and what it captured is not.
ServerEnds_Leaks(g, fd) ==
    /\ g \in Servers
    /\ At(g, "end")
    /\ g \in owners[fd]
    /\ Ends(g)
    /\ UNCHANGED <<at, buffer>>

\* The server's function returns; with the fiber its connection is destroyed.
ServerEnds(g, fd) ==
    /\ g \in Servers
    /\ At(g, "end")
    /\ Sock!FinishHolding(g, fd)
    /\ UNCHANGED <<semVars, at, buffer>>

\* One more round of the sleeper, or its end.  (Ten rounds in the source, here any
\* number the clock leaves room for.)
SleepOrEnd ==
    /\ At(Sleeper, "sleep")
    /\ Sleeps(Sleeper, Nap) \/ Ends(Sleeper)
    /\ UNCHANGED <<at, buffer>>

-----------------------------------------------------------------------------
\* The step of the fiber that has the CPU.
ProgramStep ==
    \/ EnterAcquire(Producer, 1, -1)
    \/ EnterAcquire(Consumer, Batch, BatchTimeout)
    \/ \E f \in {Producer, Consumer} : AcquireGoesOn(f) \/ YieldAndRepeat(f)
    \/ Produce
    \/ Consume
    \/ EnterAccept
    \/ AcceptGoesOn
    \/ \E g \in Servers : ReadGoesOn(g)
    \/ \E fd \in Fds :
        \/ DropLocal(fd)
        \/ \E g \in Servers : StartServer(fd, g) \/ EnterRead(g, fd) \/ ServerEnds(g, fd)
    \/ SleepOrEnd

SchedulerStep == Scheduler /\ UNCHANGED <<at, buffer>>

\* (Bounds: a server fiber is left for each peer that connects, and the clock leaves
\* room for the deadline of the consumer.)
Environment ==
    /\ \/ /\ Outside
          /\ net'[Listener].inbox + Cardinality({fd \in Fds : Acceptor \in owners[fd]})
                <= Cardinality({g \in Servers : loc[g] = "none"})
       \/ Time /\ clock + 1 + BatchTimeout <= MaxTime
    /\ UNCHANGED <<at, buffer>>

DemoNext ==
    \/ MainCreates
    \/ MainDispatches
    \/ ProgramStep
    \/ SchedulerStep
    \/ Environment

(***************************************************************************)
(* The process runs: main reaches Dispatch, the scheduler goes on and so   *)
(* does the fiber that has the CPU.  That fibers give it up is now a fact  *)
(* about the programs.  epoll_wait may fail, when a signal interrupts it,  *)
(* but not every time.  Nothing is assumed about peers or the clock.       *)
(***************************************************************************)
DemoSpec ==
    /\ DemoInit
    /\ [][DemoNext]_demoVars
    /\ WF_demoVars(MainCreates \/ MainDispatches \/ ProgramStep \/ SchedulerStep)
    /\ SF_demoVars(Sock!EpollWait /\ UNCHANGED <<semVars, at, buffer>>)

-----------------------------------------------------------------------------
(* Properties.                                                             *)

\* The types of the variables of the programs.
DemoTypeOK ==
    /\ at \in [Fibers -> {"acquire", "critical", "yield", "accept", "serve", "drop",
                          "read", "end", "sleep"}]
    /\ buffer \in Nat

\* The queue is first come, first served, so the consumer looks at the buffer once
\* for each item: it never holds more than a batch, and none when it was taken.
BufferBounded == buffer <= Batch

\* A semaphore that is held only between two switches never makes anybody wait: no
\* fiber is ever seen off the CPU inside Acquire, and the time-out never happens.
NeverWaitsForSem == \A f \in Fibers : loc[f] = "acquire" => cur = f

\* Once the acceptor is back at Accept each open connection has one live server, and
\* each live server has a connection: whatever numbers have been given out again.
OneServerEach ==
    at[Acceptor] = "accept" =>
        /\ \A fd \in Fds : net[fd].open => \E g \in Servers : Live(g) /\ owners[fd] = {g}
        /\ \A g \in Servers : Live(g) => \E fd \in Fds : net[fd].open /\ g \in owners[fd]

\* The programs are clients of the sockets as XSocket has them: whatever semaphores
\* and sleepers do to the queues in between, the sockets see a call begin, go on, wait,
\* wake up or end as it does when there is nothing else.
Client == INSTANCE XSocket WITH
    loc <- sockLoc,
    SleepTimes <- {Nap},
    Calls <- {"accept", "read", "share", "close"}, WriteSizes <- {}, Timeouts <- {-1}

IsSocketClient == Client!SockInit /\ [][Client!SockNext]_(Client!allVars)

\* No peer sends so fast that its server never has to wait before the peer closes: a
\* Read that finds input returns without giving up the CPU.
PeersPause ==
    \A g \in Servers : []<>(cur # g \/ \E fd \in Fds : g \in owners[fd] /\ net[fd].fin)

\* Batch after batch is produced and consumed, although the consumer needs all the
\* units at once, and the sockets and the sleeper come in between.
BatchesConsumed == PeersPause => []<>(buffer = 0) /\ []<>(buffer = Batch)

\* A peer that connects is accepted.
Accepted == PeersPause => (net[Listener].inbox > 0 ~> net[Listener].inbox = 0)

\* What a peer sends is read by the server of the connection.
Served == PeersPause => \A fd \in Fds : net[fd].inbox > 0 ~> net[fd].inbox = 0

\* The connection of a peer that has closed is closed when what it has sent is read,
\* and its server ends.
Disconnected == PeersPause => \A fd \in Fds : net[fd].fin ~> ~net[fd].open
=============================================================================
