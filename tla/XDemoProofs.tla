---------------------------- MODULE XDemoProofs ----------------------------
(***************************************************************************)
(* Proofs about the programs of main.cpp on the library as a whole, for    *)
(* every number of server fibers, descriptors and peers.                   *)
(*                                                                         *)
(* The sockets do not see the semaphores: with sockLoc for loc every step  *)
(* of the demo is one of XSocket, so the invariants of XSocketClientProofs *)
(* hold here without a proof of their own (StepSeen, ClientLemmas).  The   *)
(* rest of the invariant says where the programs are.  StepKinds reduces   *)
(* the steps to a few kinds, and each part is shown to be kept by each     *)
(* kind.                                                                   *)
(***************************************************************************)
EXTENDS XDemo, SchedulerLemmas, FiniteSetTheorems

\* The proofs about the sockets, for the clients that the programs are.
SP == INSTANCE XSocketClientProofs WITH
    loc <- sockLoc,
    SleepTimes <- {Nap},
    Calls <- {"accept", "read", "share", "close"}, WriteSizes <- {}, Timeouts <- {-1}

-----------------------------------------------------------------------------
(* The inductive invariant.                                                *)

SocketsInv == SP!SockIInv /\ SP!ReadInv /\ SP!HeldInv /\ SP!PlacesInv

\* How many units f asks for.
Need(f) == IF f = Producer THEN 1 ELSE Batch

TypesInv ==
    /\ DemoTypeOK
    /\ loc \in [Fibers -> Locations \cup {"accept", "read", "write", "acquire"}]
    /\ held \in [Fibers -> [Sems -> Nat]]
    /\ call \in [Fibers -> Sem!Call]

\* Where each fiber may be, and that it keeps the CPU from Acquire to its yield, and
\* from Accept to the end of its loop.
WhereInv ==
    /\ \A f \in {Producer, Consumer} :
        /\ at[f] \in {"acquire", "critical", "yield"}
        /\ loc[f] \in {"none", "user", "acquire"}
        /\ at[f] # "acquire" => InUser(f)
        /\ loc[f] = "acquire" =>
            /\ cur = f /\ at[f] = "acquire"
            /\ call[f].sem = sem /\ call[f].apply = Need(f) /\ call[f].done = 0
    /\ at[Acceptor] \in {"accept", "serve", "drop"}
    /\ loc[Acceptor] \in {"none", "user", "accept"}
    /\ at[Acceptor] # "accept" => InUser(Acceptor)
    /\ at[Sleeper] = "sleep" /\ loc[Sleeper] \in {"none", "user", "sleep", "freed"}
    /\ \A g \in Servers :
        at[g] \in {"read", "end"} /\ loc[g] \in {"none", "user", "read", "freed"}

\* The units are with whoever is in its critical section, or in the semaphore, and
\* nobody is parked on it.
UnitsOf(f) == IF at[f] = "critical" THEN Need(f) ELSE 0

UnitsInv ==
    /\ DOMAIN semInfos \subseteq {sem}
    /\ \A f \in {Producer, Consumer} : held[f][sem] = UnitsOf(f)
    /\ sem \in DOMAIN semInfos =>
        semInfos[sem] = [value |-> Batch - UnitsOf(Producer) - UnitsOf(Consumer),
                         ucbaValue |-> 0, ucba |-> NoFiber, fibers |-> {}]

\* A connection is with the acceptor, with its server, or with both between the two
\* statements that hand it over.
HandOverInv ==
    /\ \A fd \in Fds :
        /\ owners[fd] \subseteq Servers \cup {Acceptor}
        /\ \A g, h \in owners[fd] \ {Acceptor} : g = h
        /\ Acceptor \in owners[fd] =>
            \/ at[Acceptor] = "serve" /\ owners[fd] = {Acceptor}
            \/ at[Acceptor] = "drop" /\ owners[fd] # {Acceptor}
    /\ \A g \in Servers : Live(g) => Sock!Holds(g)

\* No two live fibers have ever read the same fd, so nobody's entry is in the way.
ReadersInv ==
    /\ \A f \in Fibers : loc[f] = "none" => readFds[f] = {}
    /\ readFds[Producer] = {} /\ readFds[Consumer] = {} /\ readFds[Sleeper] = {}
    /\ readFds[Acceptor] \subseteq {Listener}
    /\ \A g \in Servers : Live(g) => \A fd \in readFds[g] : fd \in Fds /\ g \in owners[fd]
    /\ \A f \in Fibers, fd \in Sock!AllFds :
        SP!ParkedIn(f, {"read", "accept"}, fd) => Sock!Waiting(fd).r = f

\* Only the sleeper has a timer.
TimersInv ==
    /\ \A f \in Fibers : HasTimer(f) => f = Sleeper
    /\ \A f \in Fibers : io[f].expireAt = -1

\* f stands before g in the queue.
Before(f, g) == \E i, j \in 1 .. Len(Queue) : i < j /\ Queue[i] = f /\ Queue[j] = g

\* main creates the consumer after the producer and before the acceptor.
CreationInv ==
    /\ loc[Producer] = "none" => loc[Consumer] = "none"
    /\ loc[Consumer] = "none" => phase = "main" /\ loc[Acceptor] = "none" /\ buffer = 0

\* The two take turns: as long as the producer is first, one more item fits.
TurnInv ==
    loc[Consumer] # "none" =>
        /\ cur = Producer => buffer <= IF at[Producer] = "yield" THEN Batch ELSE Batch - 1
        /\ cur = Consumer => buffer <= IF at[Consumer] = "yield" THEN Batch - 1 ELSE Batch
        /\ Before(Producer, Consumer) => buffer <= Batch - 1
        /\ Before(Consumer, Producer) => buffer <= Batch

DemoIInv ==
    /\ SocketsInv
    /\ TypesInv /\ WhereInv /\ UnitsInv
    /\ HandOverInv /\ ReadersInv /\ TimersInv
    /\ CreationInv /\ TurnInv

-----------------------------------------------------------------------------
(* The view of the sockets.                                                *)

\* What f does on the sockets is the same in loc and in the view of the sockets.
LEMMA Views ==
    ASSUME TypesInv, NEW f \in Fibers
    PROVE  /\ Live(f) <=> SP!Live(f)
           /\ loc[f] # "acquire" => sockLoc[f] = loc[f]
           /\ loc[f] = "acquire" => sockLoc[f] = "user"
           /\ InUser(f) => SP!InUser(f)
           /\ sockLoc \in [Fibers -> Locations \cup {"accept", "read", "write"}]
BY DEF TypesInv, Live, SP!Live, sockLoc, InUser, SP!InUser, Locations

\* A fiber that goes somewhere else than into Acquire goes there in the view, too.
LEMMA ViewMoves ==
    ASSUME TypesInv, NEW f \in Fibers, NEW l, l # "acquire", loc' = [loc EXCEPT ![f] = l]
    PROVE  sockLoc' = [sockLoc EXCEPT ![f] = l]
BY DEF TypesInv, sockLoc

\* Acquire is not seen.
LEMMA ViewStays ==
    ASSUME TypesInv, NEW f \in Fibers, NEW l,
           {loc[f], l} \subseteq {"user", "acquire"},
           loc' = [loc EXCEPT ![f] = l]
    PROVE  sockLoc' = sockLoc
BY DEF TypesInv, sockLoc

\* Waking nobody changes nothing.
LEMMA WakeNobody ==
    ASSUME ready \in Seq(Fibers),
           expireEvents \in [DOMAIN expireEvents -> SUBSET Fibers],
           ioFibers \in [DOMAIN ioFibers -> SP!WaitingFibers],
           WakeUpFibers(WakeOrder[{}]), ForgetFdsOf({})
    PROVE  UNCHANGED <<ready, expireEvents, sockVars>>
<1>1. WakeOrder[{}] \in Seq(Fibers) /\ Range(WakeOrder[{}]) = {}
  BY WakeOrderAssumption
<1>2. WakeOrder[{}] = << >>
  BY <1>1, TailQueue
<1> QED
  BY <1>2 DEF WakeUpFibers, ForgetFdsOf, Range, Restrict, sockVars

-----------------------------------------------------------------------------
(* The fibers of main.                                                     *)

\* Three things are not four.
LEMMA AtMostThree ==
    ASSUME NEW a, NEW b, NEW c
    PROVE  Cardinality({a, b, c}) # 4
<1>1. IsFiniteSet({a}) /\ Cardinality({a}) = 1
  BY FS_Singleton
<1>2. {a, b} = {a} \cup {b} /\ {a, b, c} = {a, b} \cup {c}
  OBVIOUS
<1>3. IsFiniteSet({a, b}) /\ Cardinality({a, b}) \in {1, 2}
  BY <1>1, <1>2, FS_AddElement
<1>4. Cardinality({a, b, c}) \in {1, 2, 3}
  BY <1>2, <1>3, FS_AddElement
<1> QED
  BY <1>4

\* They are four, and none of them is a server.
LEMMA FourFibers ==
    /\ Producer \in Fibers /\ Consumer \in Fibers
    /\ Acceptor \in Fibers /\ Sleeper \in Fibers
    /\ Producer # Consumer /\ Producer # Acceptor /\ Producer # Sleeper
    /\ Consumer # Acceptor /\ Consumer # Sleeper /\ Acceptor # Sleeper
    /\ {Producer, Consumer, Acceptor, Sleeper} \cap Servers = {}
    /\ Servers \subseteq Fibers
<1>1. \A a, b, c : {Producer, Consumer, Acceptor, Sleeper} # {a, b, c}
  BY AtMostThree, DemoAssumption
<1>2. /\ Producer = Consumer =>
            {Producer, Consumer, Acceptor, Sleeper} = {Consumer, Acceptor, Sleeper}
      /\ Producer = Acceptor =>
            {Producer, Consumer, Acceptor, Sleeper} = {Consumer, Acceptor, Sleeper}
      /\ Producer = Sleeper =>
            {Producer, Consumer, Acceptor, Sleeper} = {Consumer, Acceptor, Sleeper}
      /\ Consumer = Acceptor =>
            {Producer, Consumer, Acceptor, Sleeper} = {Producer, Acceptor, Sleeper}
      /\ Consumer = Sleeper =>
            {Producer, Consumer, Acceptor, Sleeper} = {Producer, Acceptor, Sleeper}
      /\ Acceptor = Sleeper =>
            {Producer, Consumer, Acceptor, Sleeper} = {Producer, Consumer, Sleeper}
  OBVIOUS
<1> QED
  BY <1>1, <1>2, DemoAssumption DEF Servers

-----------------------------------------------------------------------------
(* The semaphore.                                                          *)

\* Whoever enters Acquire finds all the units there.
LEMMA AcquireAtOnce ==
    ASSUME TypesInv, WhereInv, UnitsInv, NEW f \in {Producer, Consumer}, Sem!InAcquire(f)
    PROVE  /\ call[f].sem = sem /\ call[f].apply = Need(f)
           /\ Sem!DoneAfter(f) = call[f].apply
           /\ Sem!Attempt(f).info =
                [value |-> Batch - Need(f), ucbaValue |-> 0, ucba |-> NoFiber, fibers |-> {}]
<1>1. /\ cur = f /\ at[f] = "acquire"
      /\ call[f].sem = sem /\ call[f].apply = Need(f) /\ call[f].done = 0
      /\ sem \in DOMAIN semInfos
  BY DEF WhereInv, Sem!InAcquire
<1>2. UnitsOf(Producer) = 0 /\ UnitsOf(Consumer) = 0
  BY <1>1, FourFibers DEF WhereInv, UnitsOf, InUser
<1>3. semInfos[sem] = [value |-> Batch, ucbaValue |-> 0, ucba |-> NoFiber, fibers |-> {}]
  BY <1>1, <1>2 DEF UnitsInv, Batch
<1>4. Need(f) \in 1 .. Batch
  BY DEF Need, Batch
<1>5. Sem!Attempt(f) =
        [got  |-> Need(f),
         info |-> [value |-> Batch - Need(f), ucbaValue |-> 0, ucba |-> NoFiber,
                   fibers |-> {}]]
  <2>1. Sem!Attempt(f) = Sem!TryAcquireSem(semInfos[sem], f, Need(f))
    BY <1>1, <1>4 DEF Sem!Attempt, Batch
  <2> QED
    BY <1>3, <1>4, <2>1 DEF Sem!TryAcquireSem, Batch
<1> QED
  BY <1>1, <1>4, <1>5 DEF Sem!DoneAfter, Batch

\* So it is granted: nobody parks, and nobody's time runs out.
LEMMA AlwaysGranted ==
    ASSUME TypesInv, WhereInv, UnitsInv, NEW f \in {Producer, Consumer}, AcquireGoesOn(f)
    PROVE  /\ Granted(f)
           /\ at' = [at EXCEPT ![f] = "critical"] /\ UNCHANGED buffer
           /\ cur = f /\ loc[f] = "acquire"
BY AcquireAtOnce DEF AcquireGoesOn, Granted, GivesUp, Blocks, Goto, Sem!AcquireGranted,
    Sem!AcquireTimedOut, Sem!AcquireBlocks, Sem!InAcquire

-----------------------------------------------------------------------------
(* Each step is one of the sockets, or none.                               *)

\* The calls of the clients on the sockets, in the view of the sockets.
LEMMA CallsSeen ==
    ASSUME TypesInv, NEW f \in Fibers, NEW fd
    PROVE  /\ Sock!Accept(f) => SP!Accept(f)
           /\ Sock!Read(f, fd, -1) => SP!Read(f, fd, -1)
           /\ Sock!AcceptBlocks(f) => SP!AcceptBlocks(f)
           /\ Sock!AcceptReturns(f, fd) => SP!AcceptReturns(f, fd)
           /\ Sock!ReadBlocks(f) => SP!ReadBlocks(f)
           /\ Sock!ReadReturns(f) => SP!ReadReturns(f)
           /\ Sock!Close(f, fd) => SP!Close(f, fd)
           /\ Sock!FinishHolding(f, fd) => SP!FinishHolding(f, fd)
           /\ \A g \in Fibers : Sock!Spawn(f, fd, g) => SP!Spawn(f, fd, g)
<1> USE DEF Sock!queueVars, SP!queueVars, Sock!timerVars, SP!timerVars,
            Sock!fdVars, SP!fdVars, InUser, Sock!InUser, SP!InUser,
            Sock!kernelVars, SP!kernelVars, Sock!NoIo, SP!NoIo, Sock!Fresh, SP!Fresh,
            Sock!Closed, SP!Closed, Sock!Readable, SP!Readable, Sock!Holds, SP!Holds,
            Sock!InCall, SP!InCall, Sock!LowestFree, SP!LowestFree,
            Sock!Waiting, SP!Waiting, Sock!TimedOut, SP!TimedOut
<1>1. /\ InUser(f) => SP!InUser(f)
      /\ loc[f] \in {"accept", "read"} => sockLoc[f] = loc[f]
      /\ \A l \in {"user", "accept", "read", "freed"} :
            loc' = [loc EXCEPT ![f] = l] => sockLoc' = [sockLoc EXCEPT ![f] = l]
      /\ loc' = loc => sockLoc' = sockLoc
  BY Views, ViewMoves DEF sockLoc
<1>2. \A d, n : \A l \in {"accept", "read"} :
        Sock!Enter(f, l, d, n, -1) => SP!Enter(f, l, d, n, -1)
  BY <1>1 DEF Sock!Enter, SP!Enter
<1>3. Sock!Return(f) => SP!Return(f)
  BY <1>1 DEF Sock!Return, SP!Return
<1>4. \A r : Sock!Park(f, r) => SP!Park(f, r)
  BY <1>1 DEF Sock!Park, SP!Park, Sock!RegisterDeadline, SP!RegisterDeadline,
              Sock!RegisterFd, SP!RegisterFd
<1>5. Sock!DropConnection(f, fd) => SP!DropConnection(f, fd)
  BY DEF Sock!DropConnection, SP!DropConnection, Sock!UnregisterFd, SP!UnregisterFd,
         Sock!WakeUpFibers, SP!WakeUpFibers, Sock!Queue, SP!Queue,
         Sock!Restrict, SP!Restrict, Sock!Range, SP!Range
<1>6. Sock!Accept(f) => SP!Accept(f)
  BY <1>2 DEF Sock!Accept, SP!Accept
<1>7. Sock!Read(f, fd, -1) => SP!Read(f, fd, -1)
  BY <1>2 DEF Sock!Read, SP!Read
<1>8. Sock!AcceptBlocks(f) => SP!AcceptBlocks(f)
  BY <1>1, <1>4 DEF Sock!AcceptBlocks, SP!AcceptBlocks
<1>9. Sock!AcceptReturns(f, fd) => SP!AcceptReturns(f, fd)
  BY <1>1, <1>3 DEF Sock!AcceptReturns, SP!AcceptReturns, Sock!TakeOver, SP!TakeOver
<1>10. Sock!ReadBlocks(f) => SP!ReadBlocks(f)
  BY <1>1, <1>4 DEF Sock!ReadBlocks, SP!ReadBlocks
<1>11. Sock!ReadReturns(f) => SP!ReadReturns(f)
  BY <1>1, <1>3 DEF Sock!ReadReturns, SP!ReadReturns
<1>12. Sock!Close(f, fd) => SP!Close(f, fd)
  BY <1>1, <1>5 DEF Sock!Close, SP!Close
<1>13. Sock!FinishHolding(f, fd) => SP!FinishHolding(f, fd)
  BY <1>1, <1>5 DEF Sock!FinishHolding, SP!FinishHolding
<1>14. ASSUME NEW g \in Fibers, Sock!Spawn(f, fd, g) PROVE SP!Spawn(f, fd, g)
  <2>1. loc' = [loc EXCEPT ![g] = "user"] /\ loc[g] = "none" /\ InUser(f)
    BY <1>14 DEF Sock!Spawn, Sock!CreateFiber
  <2>2. sockLoc' = [sockLoc EXCEPT ![g] = "user"] /\ sockLoc[g] = "none"
    BY <2>1, Views, ViewMoves
  <2>3. SP!CreateFiber(g)
    BY <1>1, <1>14, <2>1, <2>2, FourFibers, ConstantsAssumption
    DEF Sock!Spawn, Sock!CreateFiber, SP!CreateFiber
  <2> QED
    BY <1>1, <1>14, <2>1, <2>3 DEF Sock!Spawn, SP!Spawn
<1> QED
  BY <1>6, <1>7, <1>8, <1>9, <1>10, <1>11, <1>12, <1>13, <1>14

\* The steps outside of the process.
LEMMA OutsideSeen == Sock!PeerStep /\ UNCHANGED loc => SP!PeerStep
<1> SUFFICES ASSUME Sock!PeerStep, UNCHANGED loc PROVE SP!PeerStep
  OBVIOUS
<1> USE DEF Sock!Peer, SP!Peer, Sock!vars, SP!vars, Sock!fdVars, SP!fdVars
<1>1. UNCHANGED sockLoc
  BY DEF sockLoc
<1>2. Sock!PeerConnects => SP!PeerConnects
  BY <1>1 DEF Sock!PeerConnects, SP!PeerConnects, Sock!Cardinality, SP!Cardinality
<1>3. ASSUME NEW fd \in Fds
      PROVE  /\ Sock!PeerSends(fd) => SP!PeerSends(fd)
             /\ Sock!PeerCloses(fd) => SP!PeerCloses(fd)
             /\ Sock!PeerResets(fd) => SP!PeerResets(fd)
             /\ Sock!PeerReads(fd) => SP!PeerReads(fd)
  BY <1>1 DEF Sock!PeerSends, SP!PeerSends, Sock!PeerCloses, SP!PeerCloses,
              Sock!PeerResets, SP!PeerResets, Sock!PeerReads, SP!PeerReads
<1> QED
  BY <1>2, <1>3 DEF Sock!PeerStep, SP!PeerStep

\* The steps of the scheduler with epoll.
LEMMA SchedulerSeen ==
    ASSUME TypesInv, running \in Seq(Fibers)
    PROVE  Sock!SockDispatch => SP!SockDispatch
<1> USE DEF Sock!queueVars, SP!queueVars, Sock!timerVars, SP!timerVars,
            Sock!fdVars, SP!fdVars, Sock!kernelVars, SP!kernelVars,
            Sock!sockVars, SP!sockVars, Sock!DueFirst, SP!DueFirst,
            Sock!Restrict, SP!Restrict, Sock!Range, SP!Range, Sock!Queue, SP!Queue,
            Sock!Waiting, SP!Waiting, Sock!Readable, SP!Readable,
            Sock!Writable, SP!Writable, Sock!AllFds, SP!AllFds
<1>1. loc' = loc => sockLoc' = sockLoc
  BY DEF sockLoc
<1>2. Sock!StartRound => SP!StartRound
  BY <1>1 DEF Sock!StartRound, SP!StartRound
<1>3. Sock!RunNext => SP!RunNext
  <2> SUFFICES ASSUME Sock!RunNext PROVE SP!RunNext
    OBVIOUS
  <2> DEFINE f == Head(running)
  <2>1. /\ f \in Fibers /\ loc[f] # "freed" /\ running # <<>>
        /\ loc' = [loc EXCEPT ![f] = IF loc[f] = "sleep" THEN "user" ELSE loc[f]]
    BY DEF Sock!RunNext
  <2>2. sockLoc[f] # "freed" /\ (sockLoc[f] = "sleep" <=> loc[f] = "sleep")
    BY <2>1, Views
  <2>3. sockLoc' = [sockLoc EXCEPT ![f] = IF sockLoc[f] = "sleep" THEN "user"
                                                                  ELSE sockLoc[f]]
    BY <2>1, <2>2 DEF TypesInv, sockLoc
  <2> QED
    BY <2>1, <2>2, <2>3 DEF Sock!RunNext, SP!RunNext
<1>4. Sock!EnterTimers => SP!EnterTimers
  BY <1>1 DEF Sock!EnterTimers, SP!EnterTimers
<1>5. Sock!TimerErase => SP!TimerErase
  BY <1>1 DEF Sock!TimerErase, SP!TimerErase
<1>6. Sock!TimersDone => SP!TimersDone
  BY <1>1 DEF Sock!TimersDone, SP!TimersDone
<1>7. ASSUME NEW f \in Fibers, Sock!TimerWake(f) PROVE SP!TimerWake(f)
  BY <1>1, <1>7 DEF Sock!TimerWake, SP!TimerWake, Sock!WakeUpFibers, SP!WakeUpFibers
<1>8. ASSUME NEW f \in Fibers, Sock!ForgetFds(f) PROVE SP!ForgetFds(f)
  BY <1>8 DEF Sock!ForgetFds, SP!ForgetFds
<1>9. Sock!EpollWait => SP!EpollWait
  BY <1>1 DEF Sock!EpollWait, SP!EpollWait, Sock!Cardinality, SP!Cardinality
<1>10. ASSUME NEW e \in events, Sock!EpollEvent(e) PROVE SP!EpollEvent(e)
  BY <1>1, <1>10 DEF Sock!EpollEvent, SP!EpollEvent, Sock!Target, SP!Target,
                     Sock!WakeUp, SP!WakeUp, Sock!ForgetFds, SP!ForgetFds,
                     Sock!WakeUpFibers, SP!WakeUpFibers
<1>11. Sock!EpollDone => SP!EpollDone
  BY <1>1 DEF Sock!EpollDone, SP!EpollDone
<1>12. Sock!EpollIdle => SP!EpollIdle
  BY <1>1 DEF Sock!EpollIdle, SP!EpollIdle
<1> QED
  BY <1>2, <1>3, <1>4, <1>5, <1>6, <1>7, <1>8, <1>9, <1>10, <1>11, <1>12
  DEF Sock!SockDispatch, SP!SockDispatch

\* What the fibers of main ask of the scheduler.
LEMMA CallsOfSchedulerSeen ==
    ASSUME TypesInv, NEW f \in Fibers
    PROVE  /\ CreateFiber(f) /\ phase = "main" => SP!CreateFiber(f)
           /\ EnterDispatch => SP!EnterDispatch
           /\ Yield(f) => SP!Yield(f)
           /\ SleepMs(f, Nap) => SP!SleepMs(f, Nap)
           /\ Finish(f) => SP!Finish(f)
           /\ Tick => SP!Tick
<1> USE DEF queueVars, SP!queueVars, timerVars, SP!timerVars
<1>1. /\ loc' = loc => sockLoc' = sockLoc
      /\ \A l \in {"user", "sleep", "freed"} :
            loc' = [loc EXCEPT ![f] = l] => sockLoc' = [sockLoc EXCEPT ![f] = l]
      /\ InUser(f) => SP!InUser(f)
      /\ loc[f] = "none" => sockLoc[f] = "none"
  BY Views, ViewMoves DEF sockLoc
<1> QED
  BY <1>1 DEF CreateFiber, SP!CreateFiber, EnterDispatch, SP!EnterDispatch, Yield, SP!Yield,
              SleepMs, SP!SleepMs, RegisterDeadline, SP!RegisterDeadline,
              Finish, SP!Finish, Tick, SP!Tick

\* The types of what the scheduler and the sockets keep.
LEMMA SocketTypes ==
    ASSUME SocketsInv
    PROVE  /\ ready \in Seq(Fibers) /\ running \in Seq(Fibers)
           /\ cur \in Fibers \cup {NoFiber}
           /\ expireEvents \in [DOMAIN expireEvents -> SUBSET Fibers]
           /\ ioFibers \in [DOMAIN ioFibers -> SP!WaitingFibers]
           /\ readFds \in [Fibers -> SUBSET SP!AllFds]
           /\ io \in [Fibers -> SP!CallRecord]
           /\ owners \in [Fds -> SUBSET Fibers]
BY DEF SocketsInv, SP!SockIInv, SP!SchedTypes, SP!FdTypes

\* A release wakes nobody: nobody is parked on the semaphore.
LEMMA ReleaseAlone ==
    ASSUME SocketsInv, UnitsInv, NEW f, NEW n, Release(f, sem, n)
    PROVE  /\ InUser(f) /\ sem \in DOMAIN semInfos
           /\ semInfos' = [semInfos EXCEPT ![sem].value = @ + n, ![sem].fibers = {}]
           /\ held' = [held EXCEPT ![f][sem] = @ - n]
           /\ UNCHANGED <<vars, sockVars, call>>
<1>1. semInfos[sem].fibers = {}
  BY DEF UnitsInv, Release, Sem!Release
<1>2. WakeUpFibers(WakeOrder[{}]) /\ ForgetFdsOf({})
  BY <1>1 DEF Release, Sem!Release, Sem!WakeAll, Sem!WakeUpFibers, WakeUpFibers,
              Sem!Range, Range
<1>3. UNCHANGED <<ready, expireEvents, sockVars>>
  BY <1>2, WakeNobody, SocketTypes
<1> QED
  BY <1>3 DEF Release, Sem!Release, Sem!InUser, InUser, vars

\* No step of the demo does anything to the sockets or to the fibers in a call on one
\* that XSocket does not allow: what is done to a semaphore in between is not seen.
LEMMA StepSeen ==
    ASSUME SocketsInv, TypesInv, WhereInv, UnitsInv, HandOverInv, [DemoNext]_demoVars
    PROVE  [SP!SockNext]_(SP!allVars)
<1> USE FourFibers
<1> USE DEF sockVars, SP!sockVars, SP!fdVars, SP!kernelVars
<1>0. /\ running \in Seq(Fibers)
      /\ loc' = loc => sockLoc' = sockLoc
  BY SocketTypes DEF sockLoc
<1>1. ASSUME UNCHANGED <<ready, running, cur, phase, nowMs, clock, sockLoc, timerVars, sockVars>>
      PROVE  UNCHANGED SP!allVars
  BY <1>1 DEF SP!allVars, SP!vars, timerVars
<1>2. ASSUME NEW f \in Fibers, SP!CreateFiber(f) /\ UNCHANGED sockVars
      PROVE  SP!SockNext
  BY <1>2 DEF SP!SockNext
<1>3. ASSUME NEW f \in Fibers,
             \/ SP!Yield(f) /\ UNCHANGED sockVars
             \/ SP!SleepMs(f, Nap) /\ UNCHANGED sockVars
             \/ ~SP!Holds(f) /\ SP!Finish(f) /\ UNCHANGED sockVars
             \/ \E fd \in Fds : SP!FinishHolding(f, fd)
      PROVE  SP!SockNext
  BY <1>3 DEF SP!SockNext, SP!Leave
<1>4. ASSUME NEW f \in Fibers,
             \/ SP!AcceptBlocks(f) \/ SP!ReadBlocks(f) \/ SP!ReadReturns(f)
             \/ \E fd \in Fds : SP!AcceptReturns(f, fd)
      PROVE  SP!SockNext
  BY <1>4 DEF SP!SockNext, SP!CallStep
<1>5. ASSUME NEW f \in Fibers,
             \/ SP!Accept(f)
             \/ \E fd \in Fds :
                 \/ SP!Read(f, fd, -1) \/ SP!Close(f, fd)
                 \/ \E g \in Fibers : SP!Spawn(f, fd, g)
      PROVE  SP!SockNext
  BY <1>5 DEF SP!SockNext
<1>6. CASE MainCreates
  <2>1. CASE NewSem(sem)
    BY <1>0, <1>1, <2>1 DEF NewSem, Sem!RegisterSem, Sem!vars, timerVars
  <2>2. ASSUME NEW f \in Fibers, Create(f) PROVE SP!SockNext
    BY <1>2, <1>6, <2>2, CallsOfSchedulerSeen DEF MainCreates, Create
  <2> QED
    BY <1>6, <2>1, <2>2 DEF MainCreates
<1>7. CASE MainDispatches
  BY <1>7, CallsOfSchedulerSeen DEF MainDispatches, Main, SP!SockNext
<1>8. ASSUME NEW f \in {Producer, Consumer}, NEW n, NEW ms, EnterAcquire(f, n, ms)
      PROVE  UNCHANGED SP!allVars
  <2>1. loc[f] = "user" /\ loc' = [loc EXCEPT ![f] = "acquire"]
    BY <1>8 DEF EnterAcquire, Acquire, Sem!Acquire, Sem!InUser
  <2>2. sockLoc' = sockLoc
    BY <2>1, ViewStays
  <2> QED
    BY <1>1, <1>8, <2>2 DEF EnterAcquire, Acquire, Sem!Acquire, Sem!queueVars,
                            Sem!timerVars, timerVars
<1>9. ASSUME NEW f \in {Producer, Consumer}, AcquireGoesOn(f)
      PROVE  UNCHANGED SP!allVars
  <2>1. Granted(f) /\ loc[f] = "acquire"
    BY <1>9, AlwaysGranted
  <2>2. sockLoc' = sockLoc
    BY <2>1, ViewStays DEF Granted, Sem!AcquireGranted
  <2> QED
    BY <1>1, <2>1, <2>2 DEF Granted, Sem!AcquireGranted, Sem!queueVars, Sem!timerVars,
                            timerVars
<1>10. CASE Produce \/ Consume
  BY <1>0, <1>1, <1>10, ReleaseAlone DEF Produce, Consume, vars, timerVars
<1>11. ASSUME NEW f \in {Producer, Consumer}, YieldAndRepeat(f)
       PROVE  SP!SockNext
  BY <1>3, <1>11, CallsOfSchedulerSeen DEF YieldAndRepeat, Yields
<1>12. CASE EnterAccept \/ AcceptGoesOn
  <2>1. \/ SP!Accept(Acceptor) \/ SP!AcceptBlocks(Acceptor)
        \/ \E fd \in Fds : SP!AcceptReturns(Acceptor, fd)
    BY <1>12, CallsSeen DEF EnterAccept, AcceptGoesOn
  <2> QED
    BY <1>4, <1>5, <2>1
<1>13. ASSUME NEW fd \in Fds, NEW g \in Servers,
              StartServer(fd, g) \/ EnterRead(g, fd) \/ ServerEnds(g, fd)
       PROVE  SP!SockNext
  <2>1. \/ SP!Spawn(Acceptor, fd, g) \/ SP!Read(g, fd, -1) \/ SP!FinishHolding(g, fd)
    BY <1>13, CallsSeen DEF StartServer, EnterRead, ServerEnds
  <2> QED
    BY <1>3, <1>5, <2>1
<1>14. ASSUME NEW fd \in Fds, DropLocal(fd) PROVE SP!SockNext
  BY <1>5, <1>14, CallsSeen DEF DropLocal
<1>15. ASSUME NEW g \in Servers, ReadGoesOn(g) PROVE SP!SockNext
  <2>1. SP!ReadBlocks(g) \/ SP!ReadReturns(g)
    BY <1>15, CallsSeen DEF ReadGoesOn
  <2> QED
    BY <1>4, <2>1
<1>16. CASE SleepOrEnd
  <2>1. ~SP!Holds(Sleeper)
    BY DEF HandOverInv, SP!Holds
  <2> QED
    BY <1>3, <1>16, <2>1, CallsOfSchedulerSeen DEF SleepOrEnd, Sleeps, Ends
<1>17. CASE SchedulerStep
  BY <1>0, <1>17, SchedulerSeen DEF SchedulerStep, Scheduler, SP!SockNext
<1>18. CASE Environment
  <2>1. CASE Outside
    <3>1. UNCHANGED loc
      BY <2>1, Zenon
      DEF Outside, Sock!PeerStep, Sock!PeerConnects, Sock!PeerSends, Sock!PeerCloses,
          Sock!PeerResets, Sock!PeerReads, Sock!Peer, Sock!vars
    <3> QED
      BY <2>1, <3>1, OutsideSeen DEF Outside, SP!SockNext
  <2>2. CASE Time
    BY <2>2, CallsOfSchedulerSeen DEF Time, SP!SockNext
  <2> QED
    BY <1>18, <2>1, <2>2 DEF Environment
<1>19. CASE UNCHANGED demoVars
  BY <1>0, <1>1, <1>19 DEF demoVars, systemVars, vars, timerVars
<1> QED
  BY <1>6, <1>7, <1>8, <1>9, <1>10, <1>11, <1>12, <1>13, <1>14, <1>15, <1>16, <1>17, <1>18,
     <1>19 DEF DemoNext, ProgramStep

\* SP and Client are the same instance of XSocket, with and without the lemmas.
LEMMA SameClient ==
    /\ SP!SockInit => Client!SockInit
    /\ SP!SockNext => Client!SockNext
    /\ UNCHANGED SP!allVars => UNCHANGED Client!allVars
<1>1. ASSUME SP!SockInit PROVE Client!SockInit
  BY <1>1 DEF SP!SockInit, Client!SockInit, SP!Init, Client!Init, SP!NoIo, Client!NoIo,
              SP!AllFds, Client!AllFds, SP!Fresh, Client!Fresh, SP!Closed, Client!Closed
<1>2. ASSUME SP!SockNext PROVE Client!SockNext
  BY <1>2, Zenon DEF SP!WakeUpFibers, Client!WakeUpFibers,
         SP!RegisterDeadline, Client!RegisterDeadline, SP!EnterDispatch, Client!EnterDispatch,
         SP!StartRound, Client!StartRound, SP!RunNext, Client!RunNext, SP!EnterTimers,
         Client!EnterTimers, SP!TimerErase, Client!TimerErase, SP!TimersDone,
         Client!TimersDone, SP!EpollIdle, Client!EpollIdle, SP!Tick, Client!Tick,
         SP!CreateFiber, Client!CreateFiber,
         SP!Yield, Client!Yield, SP!Finish, Client!Finish, SP!TimerWake,
         Client!TimerWake, SP!SleepMs, Client!SleepMs, SP!RegisterFd,
         Client!RegisterFd, SP!ForgetFds, Client!ForgetFds, SP!WakeUp, Client!WakeUp,
         SP!UnregisterFd, Client!UnregisterFd, SP!DropConnection,
         Client!DropConnection, SP!Enter, Client!Enter, SP!Return, Client!Return,
         SP!Park, Client!Park, SP!Accept, Client!Accept, SP!Read, Client!Read,
         SP!Write, Client!Write, SP!TakeOver, Client!TakeOver, SP!AcceptReturns,
         Client!AcceptReturns, SP!AcceptBlocks, Client!AcceptBlocks,
         SP!ConnectRefused, Client!ConnectRefused, SP!ConnectTCP, Client!ConnectTCP,
         SP!ReadReturns, Client!ReadReturns, SP!ReadTimesOut, Client!ReadTimesOut,
         SP!WriteTakes, Client!WriteTakes, SP!WriteFails, Client!WriteFails,
         SP!WriteTimesOut, Client!WriteTimesOut, SP!ReadBlocks, Client!ReadBlocks,
         SP!WriteBlocks, Client!WriteBlocks, SP!Spawn, Client!Spawn, SP!Close,
         Client!Close, SP!FinishHolding, Client!FinishHolding, SP!EpollWait,
         Client!EpollWait, SP!Target, Client!Target, SP!EpollEvent, Client!EpollEvent,
         SP!EpollDone, Client!EpollDone, SP!SockDispatch, Client!SockDispatch,
         SP!PeerConnects, Client!PeerConnects, SP!PeerSends, Client!PeerSends,
         SP!PeerCloses, Client!PeerCloses, SP!PeerResets, Client!PeerResets,
         SP!PeerReads, Client!PeerReads, SP!PeerStep, Client!PeerStep, SP!CallStep,
         Client!CallStep, SP!Leave, Client!Leave, SP!SockNext, Client!SockNext,
         SP!Range, Client!Range, SP!Restrict, Client!Restrict, SP!queueVars,
         Client!queueVars, SP!timerVars, Client!timerVars, SP!vars, Client!vars,
         SP!Queue, Client!Queue, SP!InUser, Client!InUser, SP!DueFirst,
         Client!DueFirst, SP!fdVars, Client!fdVars, SP!kernelVars, Client!kernelVars,
         SP!sockVars, Client!sockVars, SP!AllFds, Client!AllFds, SP!NoIo, Client!NoIo,
         SP!Closed, Client!Closed, SP!Fresh, Client!Fresh, SP!Unconnected,
         Client!Unconnected, SP!Readable, Client!Readable, SP!Writable,
         Client!Writable, SP!Waiting, Client!Waiting, SP!InCall, Client!InCall,
         SP!Holds, Client!Holds, SP!LowestFree, Client!LowestFree, SP!TimedOut,
         Client!TimedOut, SP!Peer, Client!Peer, SP!Cardinality, Client!Cardinality
<1>3. ASSUME UNCHANGED SP!allVars PROVE UNCHANGED Client!allVars
  BY <1>3 DEF SP!allVars, Client!allVars, SP!vars, Client!vars, SP!sockVars, Client!sockVars,
              SP!fdVars, Client!fdVars, SP!kernelVars, Client!kernelVars
<1> QED
  BY <1>1, <1>2, <1>3

-----------------------------------------------------------------------------
(* What the sockets promise their clients holds of the demo.               *)

\* The lemmas of XSocketClientProofs for these clients; their assumptions about the
\* constants are those of the demo.
LEMMA ClientLemmas ==
    /\ SP!SockInit => SocketsInv
    /\ SocketsInv /\ [SP!SockNext]_(SP!allVars) => SocketsInv' /\ SP!AllReadersKept
<1> USE SystemAssumption, WakeOrderAssumption, ConstantsAssumption, DemoAssumption
    DEF Sock!SocketConstantsAssumption, Sock!AllFds, SP!AllFds, SP!Range, SP!IsInjective,
        Range, IsInjective
<1>1. SP!SockInit => SP!SockIInv
  BY SP!SockInitInv DEF SP!SockInitInv
<1>2. SP!SockInit => SP!ReadInv
  BY SP!ReadInitInv DEF SP!ReadInitInv
<1>3. SP!SockInit => SP!HeldInv /\ SP!PlacesInv
  BY DEF SP!SockInit, SP!Init, SP!HeldInv, SP!PlacesInv, SP!Live, SP!Closed
<1>4. SP!SockIInv /\ [SP!SockNext]_(SP!allVars) => SP!SockIInv'
  BY SP!SockNextKeeps DEF SP!SockNextKeeps
<1>5. SP!SockIInv /\ SP!HeldInv /\ [SP!SockNext]_(SP!allVars) => SP!HeldInv'
  BY SP!HeldNextKeeps DEF SP!HeldNextKeeps
<1>6. SP!SockIInv /\ SP!ReadInv /\ [SP!SockNext]_(SP!allVars)
      => SP!ReadInv' /\ SP!AllReadersKept
  BY SP!ReadNextKeeps DEF SP!ReadNextKeeps
<1>7. SP!SockIInv /\ SP!ReadInv /\ SP!PlacesInv /\ [SP!SockNext]_(SP!allVars)
      => SP!PlacesInv'
  BY SP!PlacesNextKeeps DEF SP!PlacesNextKeeps
<1> QED
  BY <1>1, <1>2, <1>3, <1>4, <1>5, <1>6, <1>7 DEF SocketsInv

-----------------------------------------------------------------------------
(* What the steps of the demo do to the programs.                          *)

\* Who holds which connection, and which fds each fiber has read, stay as they are.
HandsStay == UNCHANGED <<owners, readFds>>

\* No timer is set but for the sleeper, and no call on a socket has a deadline.
NoNewTimer ==
    /\ \A f \in Fibers : HasTimer(f)' => HasTimer(f) \/ f = Sleeper
    /\ \A f \in Fibers : io'[f].expireAt = -1

\* The scheduler, the peers and the clock: no program moves, and only a fiber other
\* than the producer and the consumer is made ready.
Rests ==
    /\ \/ Queue' = Queue
       \/ \E f \in Fibers \ {Producer, Consumer} : Queue' = Append(Queue, f)
    /\ phase # "main" \/ loc[Acceptor] # "none" \/ phase' = phase
    /\ NoNewTimer
    /\ HandsStay
    /\ UNCHANGED <<cur, loc, semVars, at, buffer>>

\* The first fiber of the queue gets the CPU.
Resumes ==
    /\ cur = NoFiber /\ Queue # <<>>
    /\ cur' = Head(Queue) /\ Queue' = Tail(Queue)
    /\ cur' \in Fibers
    /\ loc' = [loc EXCEPT ![cur'] = IF @ = "sleep" THEN "user" ELSE @]
    /\ HandsStay
    /\ UNCHANGED <<phase, expireEvents, io, semVars, at, buffer>>

\* main declares the semaphore, and creates a fiber.
Declares ==
    /\ \A f \in Fibers : held[f][sem] = 0
    /\ semInfos' = [s \in DOMAIN semInfos \cup {sem} |->
                       IF s # sem THEN semInfos[s]
                       ELSE [value |-> Batch, ucbaValue |-> 0,
                             ucba |-> NoFiber, fibers |-> {}]]
    /\ HandsStay
    /\ UNCHANGED <<vars, io, call, held, at, buffer>>

Creates(f) ==
    /\ phase = "main" /\ loc[f] = "none"
    /\ f = Consumer => loc[Producer] # "none"
    /\ f = Acceptor => loc[Consumer] # "none"
    /\ loc' = [loc EXCEPT ![f] = "user"]
    /\ Queue' = Append(Queue, f)
    /\ HandsStay
    /\ UNCHANGED <<cur, phase, expireEvents, io, semVars, at, buffer>>

\* The producer or the consumer f enters Acquire, is granted what it asks for, works
\* and releases it, and gives the CPU up.
Asks(f) ==
    /\ cur = f /\ loc[f] = "user" /\ at[f] = "acquire"
    /\ \E t \in Nat \cup {-1} :
        call' = [call EXCEPT ![f] = [sem |-> sem, apply |-> Need(f), done |-> 0,
                                     expireAt |-> t]]
    /\ loc' = [loc EXCEPT ![f] = "acquire"]
    /\ HandsStay
    /\ UNCHANGED <<queueVars, cur, phase, expireEvents, io, semInfos, held, at, buffer>>

Gets(f) ==
    /\ cur = f /\ loc[f] = "acquire" /\ at[f] = "acquire" /\ sem \in DOMAIN semInfos
    /\ semInfos' = [semInfos EXCEPT ![sem] =
                       [value |-> Batch - Need(f), ucbaValue |-> 0,
                        ucba |-> NoFiber, fibers |-> {}]]
    /\ held' = [held EXCEPT ![f][sem] = @ + Need(f)]
    /\ call' = [call EXCEPT ![f] = Sem!NoCall]
    /\ loc' = [loc EXCEPT ![f] = "user"]
    /\ at' = [at EXCEPT ![f] = "critical"]
    /\ HandsStay
    /\ UNCHANGED <<queueVars, cur, phase, expireEvents, io, buffer>>

Gives(f) ==
    /\ cur = f /\ loc[f] = "user" /\ at[f] = "critical" /\ sem \in DOMAIN semInfos
    /\ semInfos' = [semInfos EXCEPT ![sem].value = @ + Need(f), ![sem].fibers = {}]
    /\ held' = [held EXCEPT ![f][sem] = @ - Need(f)]
    /\ at' = [at EXCEPT ![f] = "yield"]
    /\ buffer' = IF f = Producer THEN buffer + 1
                 ELSE IF buffer >= Batch THEN buffer - Batch ELSE buffer
    /\ HandsStay
    /\ UNCHANGED <<vars, io, call>>

Passes(f) ==
    /\ cur = f /\ loc[f] = "user" /\ at[f] = "yield"
    /\ at' = [at EXCEPT ![f] = "acquire"]
    /\ cur' = NoFiber
    /\ Queue' = Append(Queue, f)
    /\ HandsStay
    /\ UNCHANGED <<phase, loc, expireEvents, io, semVars, buffer>>

\* Another fiber f goes to l in the library and to statement a of its program.
Goes(f, l, a) ==
    /\ cur = f /\ cur' \in {f, NoFiber}
    /\ loc[f] \in {"user", "accept", "read"}
    /\ \/ /\ f = Acceptor /\ l \in {"user", "accept"} /\ a \in {"accept", "serve", "drop"}
          /\ a # "accept" => l = "user" /\ cur' = f
       \/ f = Sleeper /\ l \in {"sleep", "freed"} /\ a = "sleep"
       \/ f \in Servers /\ l \in {"user", "read", "freed"} /\ a \in {"read", "end"}
    /\ loc' = [loc EXCEPT ![f] = l]
    /\ at' = [at EXCEPT ![f] = a]
    /\ Queue' = Queue
    /\ NoNewTimer
    /\ UNCHANGED <<phase, semVars, buffer>>

\* It holds and waits for what it did before.
GoesOn(f) ==
    /\ \E l, a : Goes(f, l, a) /\ (f = Acceptor => a = at[f]) /\ (f \in Servers => l # "freed")
    /\ HandsStay

\* It parks as a reader of the fd it is in a call on.
Waits(f) ==
    /\ loc[f] \in {"accept", "read"}
    /\ Goes(f, loc[f], at[f])
    /\ \A g \in Fibers \ {f} : readFds'[g] = readFds[g]
    /\ readFds'[f] \subseteq readFds[f] \cup {io[f].fd}
    /\ UNCHANGED owners

\* The acceptor gets a connection, shares it with a new server and drops it, and the
\* server ends with it.
Accepts(fd) ==
    /\ loc[Acceptor] = "accept"
    /\ Goes(Acceptor, "user", "serve")
    /\ owners[fd] = {} /\ owners' = [owners EXCEPT ![fd] = {Acceptor}]
    /\ UNCHANGED readFds

Shares(fd, g) ==
    /\ cur = Acceptor /\ loc[Acceptor] = "user" /\ at[Acceptor] = "serve"
    /\ loc[g] = "none" /\ loc' = [loc EXCEPT ![g] = "user"]
    /\ at' = [at EXCEPT ![Acceptor] = "drop"]
    /\ Acceptor \in owners[fd]
    /\ owners' = [owners EXCEPT ![fd] = @ \cup {g}]
    /\ Queue' = Append(Queue, g)
    /\ UNCHANGED <<cur, phase, expireEvents, io, readFds, semVars, buffer>>

Drops(fd) ==
    /\ at[Acceptor] = "drop"
    /\ Goes(Acceptor, "user", "accept")
    /\ Acceptor \in owners[fd]
    /\ owners' = [owners EXCEPT ![fd] = @ \ {Acceptor}]
    /\ UNCHANGED readFds

Leaves(fd, g) ==
    /\ Goes(g, "freed", at[g])
    /\ g \in owners[fd]
    /\ owners' = [owners EXCEPT ![fd] = @ \ {g}]
    /\ UNCHANGED readFds

DemoStep ==
    \/ Rests \/ Resumes \/ Declares
    \/ \E f \in {Producer, Consumer, Acceptor, Sleeper} : Creates(f)
    \/ \E f \in {Producer, Consumer} : Asks(f) \/ Gets(f) \/ Gives(f) \/ Passes(f)
    \/ \E f \in Servers \cup {Acceptor, Sleeper} : GoesOn(f) \/ Waits(f)
    \/ \E fd \in Fds :
        \/ Accepts(fd) \/ Drops(fd)
        \/ \E g \in Servers : Shares(fd, g) \/ Leaves(fd, g)

\* Timers that only lose fibers.
LEMMA FewerTimers ==
    ASSUME TimersInv, UNCHANGED io,
           \/ UNCHANGED expireEvents
           \/ \E f : WakeUpFibers(<<f>>)
           \/ \E t : expireEvents' = Restrict(expireEvents, DOMAIN expireEvents \ {t})
    PROVE  NoNewTimer
BY DEF TimersInv, NoNewTimer, HasTimer, WakeUpFibers, Restrict

\* What main and the fibers on the semaphore do.
LEMMA SemStepKinds ==
    ASSUME DemoIInv,
           \/ MainCreates
           \/ EnterAcquire(Producer, 1, -1) \/ EnterAcquire(Consumer, Batch, BatchTimeout)
           \/ \E f \in {Producer, Consumer} : AcquireGoesOn(f) \/ YieldAndRepeat(f)
           \/ Produce \/ Consume
    PROVE  DemoStep
<1> USE FourFibers DEF HandsStay, semVars
<1>0. /\ SocketsInv /\ TypesInv /\ WhereInv /\ UnitsInv
      /\ ready \in Seq(Fibers) /\ running \in Seq(Fibers)
      /\ clock \in Nat
  BY SocketTypes DEF DemoIInv, SocketsInv, SP!SockIInv, SP!SchedTypes
<1>1. CASE MainCreates
  <2>1. CASE NewSem(sem)
    BY <1>1, <2>1, DemoAssumption
    DEF NewSem, Sem!RegisterSem, Sem!Unused, Sem!vars, vars, MainCreates, DemoStep, Declares,
        sockVars
  <2>2. ASSUME NEW f \in Fibers, Create(f),
               f = CASE loc[Sleeper] = "none" -> Sleeper
                     [] loc[Sleeper] # "none" /\ loc[Producer] = "none" -> Producer
                     [] loc[Producer] # "none" /\ loc[Consumer] = "none" -> Consumer
                     [] OTHER -> Acceptor
        PROVE  DemoStep
    <3>1. f \in {Producer, Consumer, Acceptor, Sleeper}
      BY <2>2
    <3>2. f = Consumer => loc[Producer] # "none"
      BY <2>2
    <3>3. f = Acceptor => loc[Consumer] # "none"
      BY <2>2 DEF DemoIInv, CreationInv
    <3>4. Queue' = Append(Queue, f)
      BY <1>0, <2>2, QueueSteps DEF Create, CreateFiber
    <3>5. Creates(f)
      BY <1>1, <2>2, <3>2, <3>3, <3>4 DEF Creates, Create, CreateFiber, MainCreates,
                                          timerVars, sockVars
    <3> QED
      BY <3>1, <3>5 DEF DemoStep
  <2> QED
    BY <1>1, <2>1, <2>2 DEF MainCreates
<1>2. ASSUME NEW f \in {Producer, Consumer}, NEW ms \in Nat \cup {-1},
             EnterAcquire(f, Need(f), ms)
      PROVE  DemoStep
  <2> DEFINE t == IF ms < 0 THEN -1 ELSE clock + ms
  <2>1. t \in Nat \cup {-1}
    BY <1>0
  <2>2. Asks(f)
    BY <1>2, <2>1 DEF EnterAcquire, Acquire, Sem!Acquire, Sem!InUser, Sem!queueVars, At, InUser,
                      Sem!timerVars, Asks, queueVars, sockVars
  <2> QED
    BY <2>2 DEF DemoStep
<1>3. ASSUME NEW f \in {Producer, Consumer}, AcquireGoesOn(f) PROVE DemoStep
  <2>1. /\ Granted(f) /\ cur = f /\ loc[f] = "acquire"
        /\ at' = [at EXCEPT ![f] = "critical"] /\ UNCHANGED buffer
    BY <1>0, <1>3, AlwaysGranted
  <2>2. Sem!InAcquire(f)
    BY <2>1 DEF Granted, Sem!AcquireGranted
  <2>3. Gets(f)
    BY <1>0, <2>1, <2>2, AcquireAtOnce DEF WhereInv, Granted, Sem!AcquireGranted, Gets,
        Sem!InAcquire, Sem!queueVars, Sem!timerVars, queueVars, sockVars
  <2> QED
    BY <2>3 DEF DemoStep
<1>4. ASSUME NEW f \in {Producer, Consumer}, YieldAndRepeat(f) PROVE DemoStep
  <2>1. Queue' = Append(Queue, f)
    BY <1>0, <1>4, QueueSteps DEF YieldAndRepeat, Yields, Yield
  <2>2. Passes(f)
    BY <1>4, <2>1 DEF YieldAndRepeat, Yields, Yield, At, InUser, Goto, Passes, timerVars,
                      sockVars
  <2> QED
    BY <2>2 DEF DemoStep
<1>5. CASE Produce
  <2>1. Gives(Producer)
    BY <1>0, <1>5, ReleaseAlone DEF Produce, At, InUser, Goto, Gives, Need, sockVars
  <2> QED
    BY <2>1 DEF DemoStep
<1>6. CASE Consume
  <2>1. Gives(Consumer)
    BY <1>0, <1>6, ReleaseAlone DEF Consume, At, InUser, Goto, Gives, Need, sockVars
  <2> QED
    BY <2>1 DEF DemoStep
<1> QED
  BY <1>1, <1>2, <1>3, <1>4, <1>5, <1>6, DemoAssumption DEF Need

\* What the scheduler, the peers and the clock do: only a sleeper or a reader is woken.
LEMMA OtherStepKinds ==
    ASSUME DemoIInv,
           MainDispatches \/ SchedulerStep \/ Environment \/ UNCHANGED demoVars
    PROVE  DemoStep
<1> USE FourFibers DEF HandsStay, semVars
<1>0. /\ SocketsInv /\ TypesInv /\ WhereInv /\ TimersInv
      /\ ready \in Seq(Fibers) /\ running \in Seq(Fibers)
      /\ expireEvents \in [DOMAIN expireEvents -> SUBSET Fibers]
      /\ phase \in SP!SockPhases
      /\ SP!PhaseInv
  BY SocketTypes DEF DemoIInv, SocketsInv, SP!SockIInv, SP!SchedTypes
<1>1. ASSUME Rests PROVE DemoStep
  BY <1>1 DEF DemoStep
<1>2. ASSUME UNCHANGED <<cur, loc, expireEvents, io, owners, readFds, semVars, at, buffer>>,
             Queue' = Queue,
             phase # "main" \/ loc[Acceptor] # "none" \/ phase' = phase
      PROVE  DemoStep
  <2>1. NoNewTimer
    BY <1>0, <1>2, FewerTimers
  <2> QED
    BY <1>1, <1>2, <2>1 DEF Rests
<1>3. ASSUME NEW f \in Fibers \ {Producer, Consumer}, WakeUpFibers(<<f>>), phase # "main",
             UNCHANGED <<running, cur, loc, io, owners, readFds, semVars, at, buffer>>
      PROVE  DemoStep
  <2>1. Queue' = Append(Queue, f)
    BY <1>0, <1>3, WakeOne, QueueSteps
  <2>2. NoNewTimer
    BY <1>0, <1>3, FewerTimers
  <2> QED
    BY <1>1, <1>3, <2>1, <2>2 DEF Rests
<1>4. CASE MainDispatches
  BY <1>2, <1>4 DEF MainDispatches, Main, EnterDispatch, queueVars, timerVars, sockVars, Queue
<1>5. CASE UNCHANGED demoVars
  BY <1>2, <1>5 DEF demoVars, systemVars, vars, sockVars, Queue
<1>6. CASE Environment
  <2>1. CASE Outside
    BY <1>2, <1>6, <2>1, Zenon DEF Environment, Outside, Sock!PeerStep, Sock!PeerConnects,
       Sock!PeerSends, Sock!PeerCloses, Sock!PeerResets, Sock!PeerReads, Sock!Peer, Sock!vars,
       Sock!fdVars, Queue
  <2>2. CASE Time
    BY <1>2, <1>6, <2>2 DEF Environment, Time, Tick, queueVars, timerVars, sockVars, Queue
  <2> QED
    BY <1>6, <2>1, <2>2 DEF Environment
<1>7. CASE SchedulerStep
  <2>0. Sock!SockDispatch /\ UNCHANGED <<semVars, at, buffer>>
    BY <1>7 DEF SchedulerStep, Scheduler
  <2> USE DEF Sock!queueVars, Sock!timerVars, Sock!fdVars, Sock!sockVars
  <2>1. CASE Sock!StartRound /\ UNCHANGED Sock!sockVars
    <3>1. phase # "running" /\ phase # "main"
      BY <2>1 DEF Sock!StartRound
    <3>2. Queue' = Queue
      BY <1>0, <2>1, <3>1, QueueSteps DEF Sock!StartRound, SP!PhaseInv
    <3> QED
      BY <1>2, <2>0, <2>1, <3>1, <3>2 DEF Sock!StartRound
  <2>2. CASE Sock!RunNext /\ UNCHANGED Sock!sockVars
    <3>1. /\ running # <<>> /\ running' = Tail(running) /\ ready' = ready
          /\ cur' = Head(running)
      BY <2>2 DEF Sock!RunNext
    <3>2. /\ Queue # <<>> /\ Queue' = Tail(Queue) /\ Head(running) \in Fibers
          /\ Head(Queue) = Head(running)
      BY <1>0, <3>1, QueueSteps, TwoDeques DEF Queue
    <3>3. Resumes
      BY <2>0, <2>2, <3>1, <3>2 DEF Sock!RunNext, Resumes
    <3> QED
      BY <3>3 DEF DemoStep
  <2>3. CASE /\ Sock!EnterTimers \/ Sock!TimersDone \/ Sock!EpollIdle
             /\ UNCHANGED Sock!sockVars
    BY <1>2, <2>0, <2>3 DEF Sock!EnterTimers, Sock!TimersDone, Sock!EpollIdle, Queue
  <2>4. CASE Sock!TimerErase /\ UNCHANGED Sock!sockVars
    <3>1. \E t : expireEvents' = Restrict(expireEvents, DOMAIN expireEvents \ {t})
      BY <2>4 DEF Sock!TimerErase, Sock!Restrict, Restrict
    <3>2. NoNewTimer
      BY <1>0, <2>4, <3>1, FewerTimers
    <3> QED
      BY <1>1, <2>0, <2>4, <3>2 DEF Rests, Sock!TimerErase, Queue
  <2>5. ASSUME NEW f \in Fibers, Sock!TimerWake(f),
               UNCHANGED <<readFds, io, owners>>
        PROVE  DemoStep
    <3>1. TimerWake(f)
      BY <2>5 DEF Sock!TimerWake, TimerWake, Sock!DueFirst, DueFirst, Sock!WakeUpFibers,
                  WakeUpFibers, Sock!Range, Range
    <3>2. HasTimer(f)
      BY <1>0, <3>1, WokenFirst DEF HasTimer
    <3>3. f = Sleeper
      BY <1>0, <3>2 DEF TimersInv
    <3> QED
      BY <1>3, <2>0, <2>5, <3>1, <3>3 DEF TimerWake
  <2>6. CASE Sock!EpollWait
    BY <1>2, <2>0, <2>6 DEF Sock!EpollWait, Queue
  <2>7. ASSUME NEW e \in events, Sock!EpollEvent(e) PROVE DemoStep
    <3>0. /\ phase # "main"
          /\ UNCHANGED <<running, cur, phase, loc, readFds, io, owners>>
      BY <2>7 DEF Sock!EpollEvent
    <3>1. CASE Sock!Target(e) = NoFiber
      BY <1>2, <2>0, <2>7, <3>0, <3>1 DEF Sock!EpollEvent, Queue
    <3>2. CASE Sock!Target(e) # NoFiber
      <4> DEFINE f == Sock!Target(e)
      <4>1. WakeUpFibers(<<f>>)
        BY <2>7, <3>2 DEF Sock!EpollEvent, Sock!WakeUp, Sock!WakeUpFibers, WakeUpFibers,
                          Sock!Range, Range
      <4>2. \E fd \in DOMAIN ioFibers : ioFibers[fd].r = f /\ f \in Fibers
        BY <1>0, <3>2 DEF Sock!Target, Sock!Waiting, SocketsInv, SP!ReadInv
      <4>3. sockLoc[f] \in {"read", "accept"}
        BY <1>0, <4>2 DEF SocketsInv, SP!ReadInv, SP!ReadersCurrent, SP!ParkedIn
      <4>4. f \notin {Producer, Consumer}
        BY <1>0, <4>2, <4>3 DEF WhereInv, sockLoc
      <4> QED
        BY <1>3, <2>0, <3>0, <4>1, <4>2, <4>4
    <3> QED
      BY <3>1, <3>2
  <2>8. CASE Sock!EpollDone
    BY <1>2, <2>0, <2>8 DEF Sock!EpollDone, Queue
  <2> QED
    BY <2>0, <2>1, <2>2, <2>3, <2>4, <2>5, <2>6, <2>7, <2>8
    DEF Sock!SockDispatch, Sock!kernelVars
<1> QED
  BY <1>4, <1>5, <1>6, <1>7

\* A reader without a deadline parks and touches no timer.
LEMMA ParkedQuietly ==
    ASSUME DemoIInv, NEW f \in Fibers, Sock!Park(f, TRUE)
    PROVE  /\ NoNewTimer /\ Queue' = Queue /\ cur' = NoFiber
           /\ \A g \in Fibers \ {f} : readFds'[g] = readFds[g]
           /\ readFds'[f] \subseteq readFds[f] \cup {io[f].fd}
           /\ UNCHANGED <<phase, loc, owners>>
<1>1. TimersInv /\ readFds \in [Fibers -> SUBSET SP!AllFds]
  BY SocketTypes DEF DemoIInv
<1>2. io[f].expireAt = -1
  BY <1>1 DEF TimersInv
<1>3. UNCHANGED expireEvents
  BY <1>2 DEF Sock!Park, Sock!RegisterDeadline, Sock!timerVars
<1> QED
  BY <1>1, <1>3, FewerTimers DEF Sock!Park, Sock!RegisterFd, Sock!fdVars, Sock!queueVars, Queue

\* Closing a connection on which nobody writes wakes nobody and touches no timer.
LEMMA DroppedQuietly ==
    ASSUME DemoIInv, NEW f \in Fibers, NEW fd \in Fds, Sock!DropConnection(f, fd),
           UNCHANGED <<running, io>>
    PROVE  /\ NoNewTimer /\ Queue' = Queue
           /\ owners' = [owners EXCEPT ![fd] = @ \ {f}]
<1>1. TimersInv /\ SP!ReadInv
  BY DEF DemoIInv, SocketsInv
<1>2. Sock!Waiting(fd).w = NoFiber
  BY <1>1 DEF Sock!Waiting, SP!ReadInv
<1>3. UNCHANGED <<ready, expireEvents>>
  BY <1>2 DEF Sock!DropConnection, Sock!UnregisterFd
<1> QED
  BY <1>1, <1>3, FewerTimers DEF Sock!DropConnection, Queue

\* What the acceptor, the servers and the sleeper do.
LEMMA SockStepKinds ==
    ASSUME DemoIInv,
           \/ EnterAccept \/ AcceptGoesOn \/ SleepOrEnd
           \/ \E g \in Servers : ReadGoesOn(g)
           \/ \E fd \in Fds :
                \/ DropLocal(fd)
                \/ \E g \in Servers : StartServer(fd, g) \/ EnterRead(g, fd) \/ ServerEnds(g, fd)
    PROVE  DemoStep
<1> USE FourFibers DEF HandsStay
<1>0. /\ SocketsInv /\ TypesInv /\ WhereInv /\ TimersInv
      /\ ready \in Seq(Fibers) /\ running \in Seq(Fibers)
      /\ io \in [Fibers -> SP!CallRecord]
      /\ at \in [Fibers -> {"acquire", "critical", "yield", "accept", "serve", "drop",
                            "read", "end", "sleep"}]
      /\ loc \in [Fibers -> Locations \cup {"accept", "read", "write", "acquire"}]
  BY SocketTypes DEF DemoIInv, SocketsInv, SP!SockIInv, SP!SchedTypes, TypesInv, DemoTypeOK
<1>1. \A f \in Fibers : /\ at = [at EXCEPT ![f] = at[f]]
                        /\ loc = [loc EXCEPT ![f] = loc[f]]
  BY <1>0
<1>2. ASSUME NEW f \in Servers \cup {Acceptor, Sleeper}, GoesOn(f) \/ Waits(f)
      PROVE  DemoStep
  BY <1>2 DEF DemoStep
<1>3. ASSUME NEW f \in Fibers, NEW l, NEW fd, NEW n, Sock!Enter(f, l, fd, n, -1)
      PROVE  /\ NoNewTimer /\ HandsStay /\ Queue' = Queue
             /\ InUser(f) /\ loc' = [loc EXCEPT ![f] = l]
             /\ UNCHANGED <<cur, phase>>
  <2>1. \A g \in Fibers : io'[g].expireAt = -1
    BY <1>0, <1>3 DEF Sock!Enter, TimersInv
  <2> QED
    BY <1>0, <1>3, <2>1 DEF Sock!Enter, Sock!InUser, InUser, Sock!queueVars, Sock!timerVars,
                            Sock!fdVars, NoNewTimer, HasTimer, Queue
<1>4. ASSUME NEW f \in Fibers, Sock!Return(f)
      PROVE  /\ NoNewTimer /\ Queue' = Queue
             /\ loc' = [loc EXCEPT ![f] = "user"]
             /\ UNCHANGED <<cur, phase, readFds>>
  <2>1. \A g \in Fibers : io'[g].expireAt = -1
    BY <1>0, <1>4 DEF Sock!Return, TimersInv, Sock!NoIo
  <2> QED
    BY <1>0, <1>4, <2>1 DEF Sock!Return, Sock!queueVars, Sock!timerVars, Sock!fdVars,
                            NoNewTimer, HasTimer, Queue
<1>5. CASE EnterAccept
  <2>1. /\ cur = Acceptor /\ loc[Acceptor] = "user" /\ at[Acceptor] = "accept"
        /\ Sock!Enter(Acceptor, "accept", Listener, 0, -1)
        /\ UNCHANGED <<semVars, at, buffer>>
    BY <1>5 DEF EnterAccept, At, InUser, Sock!Accept
  <2>2. Goes(Acceptor, "accept", "accept") /\ HandsStay
    BY <1>1, <1>3, <2>1 DEF Goes
  <2> QED
    BY <1>2, <2>1, <2>2 DEF GoesOn
<1>6. CASE AcceptGoesOn
  <2>1. cur = Acceptor /\ loc[Acceptor] = "accept" /\ at[Acceptor] = "accept"
    BY <1>0, <1>6 DEF AcceptGoesOn, Sock!AcceptBlocks, Sock!AcceptReturns, Sock!InCall,
                      WhereInv, InUser
  <2>2. CASE Sock!AcceptBlocks(Acceptor) /\ UNCHANGED <<semVars, at, buffer>>
    <3>1. Sock!Park(Acceptor, TRUE)
      BY <2>2 DEF Sock!AcceptBlocks
    <3>2. Waits(Acceptor)
      BY <1>1, <2>1, <2>2, <3>1, ParkedQuietly DEF Waits, Goes
    <3> QED
      BY <1>2, <3>2
  <2>3. ASSUME NEW fd \in Fds, Sock!AcceptReturns(Acceptor, fd), Goto(Acceptor, "serve"),
               UNCHANGED <<semVars, buffer>>
        PROVE  DemoStep
    <3>1. Sock!Return(Acceptor) /\ owners' = [owners EXCEPT ![fd] = {Acceptor}]
      BY <2>3 DEF Sock!AcceptReturns, Sock!TakeOver
    <3>0. owners[fd] = {}
      BY <1>0, <2>3 DEF Sock!AcceptReturns, Sock!TakeOver, Sock!LowestFree, SocketsInv,
                        SP!SockIInv, SP!OwnersInv
    <3>2. Accepts(fd)
      BY <1>4, <2>1, <2>3, <3>0, <3>1 DEF Accepts, Goes, Goto
    <3> QED
      BY <3>2 DEF DemoStep
  <2> QED
    BY <1>6, <2>2, <2>3 DEF AcceptGoesOn
<1>7. CASE SleepOrEnd
  <2>1. /\ cur = Sleeper /\ loc[Sleeper] = "user" /\ at[Sleeper] = "sleep"
        /\ UNCHANGED <<at, buffer, semVars, io, phase, owners, readFds>> /\ Queue' = Queue
        /\ cur' = NoFiber
    BY <1>7 DEF SleepOrEnd, At, InUser, Sleeps, SleepMs, Ends, Finish, sockVars, queueVars,
                timerVars, Queue
  <2>2. NoNewTimer
    <3>1. expireEvents' = expireEvents
          \/ expireEvents' = [t \in DOMAIN expireEvents \cup {clock + Nap} |->
                    (IF t \in DOMAIN expireEvents THEN expireEvents[t] ELSE {})
                    \cup (IF t = clock + Nap THEN {Sleeper} ELSE {})]
      BY <1>7 DEF SleepOrEnd, Sleeps, SleepMs, Ends, Finish, RegisterDeadline, timerVars
    <3>2. \A f \in Fibers : HasTimer(f)' => HasTimer(f) \/ f = Sleeper
      BY <3>1 DEF HasTimer
    <3> QED
      BY <1>0, <2>1, <3>2 DEF NoNewTimer, TimersInv
  <2>3. \E l \in {"sleep", "freed"} : loc' = [loc EXCEPT ![Sleeper] = l]
    BY <1>7 DEF SleepOrEnd, Sleeps, SleepMs, Ends, Finish
  <2>4. GoesOn(Sleeper)
    BY <1>1, <2>1, <2>2, <2>3 DEF GoesOn, Goes
  <2> QED
    BY <1>2, <2>4
<1>8. ASSUME NEW g \in Servers, ReadGoesOn(g) PROVE DemoStep
  <2>1. cur = g /\ loc[g] = "read" /\ UNCHANGED <<semVars, buffer>>
    BY <1>8 DEF ReadGoesOn, Sock!ReadBlocks, Sock!ReadReturns, Sock!InCall
  <2>2. at[g] \in {"read", "end"}
    BY <1>0 DEF WhereInv
  <2>3. CASE Sock!ReadBlocks(g) /\ UNCHANGED at
    <3>1. Sock!Park(g, TRUE)
      BY <2>3 DEF Sock!ReadBlocks
    <3>2. Waits(g)
      BY <1>1, <2>1, <2>2, <2>3, <3>1, ParkedQuietly DEF Waits, Goes
    <3> QED
      BY <1>2, <3>2
  <2>4. ASSUME NEW a \in {"read", "end"}, Sock!ReadReturns(g), Goto(g, a) PROVE DemoStep
    <3>1. Sock!Return(g) /\ UNCHANGED owners
      BY <2>4 DEF Sock!ReadReturns
    <3>2. Goes(g, "user", a)
      BY <1>4, <2>1, <2>4, <3>1 DEF Goes, Goto
    <3>3. GoesOn(g)
      BY <1>4, <3>1, <3>2 DEF GoesOn
    <3> QED
      BY <1>2, <3>3
  <2>5. (IF net[io[g].fd].inbox > 0 THEN "read" ELSE "end") \in {"read", "end"}
    OBVIOUS
  <2> QED
    BY <1>8, <2>3, <2>4, <2>5 DEF ReadGoesOn
<1>9. ASSUME NEW fd \in Fds, DropLocal(fd) PROVE DemoStep
  <2>1. /\ cur = Acceptor /\ loc[Acceptor] = "user" /\ at[Acceptor] = "drop"
        /\ Acceptor \in owners[fd] /\ Sock!DropConnection(Acceptor, fd)
        /\ at' = [at EXCEPT ![Acceptor] = "accept"]
        /\ UNCHANGED <<running, cur, phase, loc, readFds, io, semVars, buffer>>
    BY <1>9 DEF DropLocal, At, InUser, Goto, Sock!Close
  <2>2. Drops(fd)
    BY <1>1, <2>1, DroppedQuietly DEF Drops, Goes
  <2> QED
    BY <2>2 DEF DemoStep
<1>10. ASSUME NEW fd \in Fds, NEW g \in Servers, StartServer(fd, g) PROVE DemoStep
  <2>1. /\ cur = Acceptor /\ loc[Acceptor] = "user" /\ at[Acceptor] = "serve"
        /\ Acceptor \in owners[fd] /\ loc[g] = "none"
        /\ ready' = Append(ready, g) /\ loc' = [loc EXCEPT ![g] = "user"]
        /\ owners' = [owners EXCEPT ![fd] = @ \cup {g}]
        /\ at' = [at EXCEPT ![Acceptor] = "drop"]
        /\ UNCHANGED <<running, cur, phase, expireEvents, io, readFds, semVars, buffer>>
    BY <1>10 DEF StartServer, At, InUser, Goto, Sock!Spawn, Sock!CreateFiber, Sock!timerVars,
                 Sock!fdVars
  <2>2. Queue' = Append(Queue, g)
    BY <1>0, <2>1, QueueSteps
  <2>3. Shares(fd, g)
    BY <2>1, <2>2 DEF Shares
  <2> QED
    BY <2>3 DEF DemoStep
<1>11. ASSUME NEW fd \in Fds, NEW g \in Servers, EnterRead(g, fd) PROVE DemoStep
  <2>1. /\ at[g] = "read" /\ Sock!Enter(g, "read", fd, 0, -1)
        /\ UNCHANGED <<semVars, at, buffer>>
    BY <1>11 DEF EnterRead, At, Sock!Read
  <2>2. Goes(g, "read", "read") /\ HandsStay
    BY <1>1, <1>3, <2>1 DEF Goes, InUser
  <2> QED
    BY <1>2, <2>2 DEF GoesOn
<1>12. ASSUME NEW fd \in Fds, NEW g \in Servers, ServerEnds(g, fd) PROVE DemoStep
  <2>1. /\ cur = g /\ loc[g] = "user" /\ at[g] = "end"
        /\ g \in owners[fd] /\ Sock!DropConnection(g, fd)
        /\ loc' = [loc EXCEPT ![g] = "freed"] /\ cur' = NoFiber
        /\ UNCHANGED <<running, phase, readFds, io, semVars, at, buffer>>
    BY <1>12 DEF ServerEnds, At, InUser, Sock!FinishHolding
  <2>2. Leaves(fd, g)
    BY <1>1, <2>1, DroppedQuietly DEF Leaves, Goes
  <2> QED
    BY <2>2 DEF DemoStep
<1> QED
  BY <1>5, <1>6, <1>7, <1>8, <1>9, <1>10, <1>11, <1>12

\* Every step of the demo is of one of these kinds.
LEMMA StepKinds ==
    ASSUME DemoIInv, [DemoNext]_demoVars
    PROVE  DemoStep
BY SemStepKinds, OtherStepKinds, SockStepKinds DEF DemoNext, ProgramStep

-----------------------------------------------------------------------------
(* Each kind of step keeps the invariant.                                  *)

\* The types.
LEMMA TypesKeeps ==
    ASSUME TypesInv, WhereInv, UnitsInv, DemoStep
    PROVE  TypesInv'
<1> USE FourFibers DEF TypesInv, DemoTypeOK, Locations, semVars
<1>1. CASE Rests \/ Resumes \/ Declares
  BY <1>1 DEF Rests, Resumes, Declares, vars
<1>2. ASSUME NEW f \in Fibers, Creates(f) PROVE TypesInv'
  BY <1>2 DEF Creates
<1>3. ASSUME NEW f \in {Producer, Consumer}, Asks(f) PROVE TypesInv'
  BY <1>3, DemoAssumption DEF Asks, Sem!Call, Need, Batch
<1>4. ASSUME NEW f \in {Producer, Consumer}, Gets(f) PROVE TypesInv'
  <2>1. held' \in [Fibers -> [Sems -> Nat]]
    BY <1>4, DemoAssumption DEF Gets, Need, Batch
  <2>2. Sem!NoCall \in Sem!Call
    BY DEF Sem!NoCall, Sem!Call
  <2> QED
    BY <1>4, <2>1, <2>2 DEF Gets
<1>5. ASSUME NEW f \in {Producer, Consumer}, Gives(f) PROVE TypesInv'
  <2>1. held[f][sem] = Need(f) /\ held[f][sem] \in Nat
    BY <1>5, DemoAssumption DEF Gives, UnitsInv, UnitsOf
  <2>2. held' \in [Fibers -> [Sems -> Nat]]
    BY <1>5, <2>1, DemoAssumption DEF Gives, Need, Batch
  <2>3. buffer' \in Nat
    BY <1>5 DEF Gives, Batch
  <2> QED
    BY <1>5, <2>2, <2>3 DEF Gives, vars
<1>6. ASSUME NEW f \in {Producer, Consumer}, Passes(f) PROVE TypesInv'
  BY <1>6 DEF Passes
<1>7. ASSUME NEW f \in Servers \cup {Acceptor, Sleeper}, NEW l, NEW a, Goes(f, l, a)
      PROVE  TypesInv'
  BY <1>7 DEF Goes
<1>8. ASSUME NEW fd, NEW g \in Servers, Shares(fd, g) PROVE TypesInv'
  BY <1>8 DEF Shares
<1> QED
  BY <1>1, <1>2, <1>3, <1>4, <1>5, <1>6, <1>7, <1>8
  DEF DemoStep, GoesOn, Waits, Accepts, Drops, Leaves

\* The places of the programs: in Acquire, in its critical section and before its yield a
\* fiber has the CPU, and so has the acceptor with a connection in its hands.
LEMMA WhereKeeps ==
    ASSUME TypesInv, WhereInv, cur \in Fibers \cup {NoFiber}, DemoStep
    PROVE  WhereInv'
<1> USE FourFibers, ConstantsAssumption DEF InUser, semVars
<1>0. /\ at \in [Fibers -> {"acquire", "critical", "yield", "accept", "serve", "drop",
                            "read", "end", "sleep"}]
      /\ loc \in [Fibers -> Locations \cup {"accept", "read", "write", "acquire"}]
      /\ call \in [Fibers -> Sem!Call]
  BY DEF TypesInv, DemoTypeOK
<1>1. CASE Rests \/ Declares
  BY <1>1 DEF Rests, Declares, vars, WhereInv
<1>2. CASE Resumes
  BY <1>0, <1>2 DEF Resumes, WhereInv
<1>3. ASSUME NEW f \in {Producer, Consumer, Acceptor, Sleeper}, Creates(f) PROVE WhereInv'
  BY <1>0, <1>3 DEF Creates, WhereInv
<1>4. ASSUME NEW f \in {Producer, Consumer}, Asks(f) PROVE WhereInv'
  BY <1>0, <1>4 DEF Asks, WhereInv
<1>5. ASSUME NEW f \in {Producer, Consumer}, Gets(f) PROVE WhereInv'
  BY <1>0, <1>5 DEF Gets, WhereInv
<1>6. ASSUME NEW f \in {Producer, Consumer}, Gives(f) PROVE WhereInv'
  BY <1>0, <1>6 DEF Gives, WhereInv, vars
<1>7. ASSUME NEW f \in {Producer, Consumer}, Passes(f) PROVE WhereInv'
  BY <1>0, <1>7 DEF Passes, WhereInv
<1>8. ASSUME NEW f \in Servers \cup {Acceptor, Sleeper}, NEW l, NEW a, Goes(f, l, a)
      PROVE  WhereInv'
  BY <1>0, <1>8 DEF Goes, WhereInv
<1>9. ASSUME NEW fd, NEW g \in Servers, Shares(fd, g) PROVE WhereInv'
  BY <1>0, <1>9 DEF Shares, WhereInv
<1> QED
  BY <1>1, <1>2, <1>3, <1>4, <1>5, <1>6, <1>7, <1>8, <1>9
  DEF DemoStep, GoesOn, Waits, Accepts, Drops, Leaves

\* The units: whoever takes some finds all of them there, and gives them all back.
LEMMA UnitsKeeps ==
    ASSUME TypesInv, WhereInv, UnitsInv, DemoStep
    PROVE  UnitsInv'
<1> USE FourFibers DEF semVars
<1>0. /\ at \in [Fibers -> {"acquire", "critical", "yield", "accept", "serve", "drop",
                            "read", "end", "sleep"}]
      /\ held \in [Fibers -> [Sems -> Nat]] /\ sem \in Sems
  BY DemoAssumption DEF TypesInv, DemoTypeOK
<1>1. ASSUME UNCHANGED <<semInfos, held>>,
             \A f \in {Producer, Consumer} : at'[f] = "critical" <=> at[f] = "critical"
      PROVE  UnitsInv'
  BY <1>1 DEF UnitsInv, UnitsOf
<1>2. CASE Rests \/ Resumes
  BY <1>1, <1>2 DEF Rests, Resumes
<1>3. CASE Declares
  <2>1. UnitsOf(Producer) = 0 /\ UnitsOf(Consumer) = 0
    BY <1>3 DEF Declares, UnitsInv
  <2>2. /\ UNCHANGED held
        /\ UnitsOf(Producer)' = 0 /\ UnitsOf(Consumer)' = 0
    BY <1>3, <2>1 DEF Declares, UnitsOf
  <2>3. Batch - UnitsOf(Producer)' - UnitsOf(Consumer)' = Batch
    BY <2>2 DEF Batch
  <2>4. DOMAIN semInfos' = DOMAIN semInfos \cup {sem} /\ semInfos'[sem] =
            [value |-> Batch, ucbaValue |-> 0, ucba |-> NoFiber, fibers |-> {}]
    BY <1>3 DEF Declares
  <2> QED
    BY <1>3, <2>1, <2>2, <2>3, <2>4 DEF Declares, UnitsInv
<1>4. ASSUME NEW f \in {Producer, Consumer, Acceptor, Sleeper}, Creates(f) PROVE UnitsInv'
  BY <1>1, <1>4 DEF Creates
<1>5. ASSUME NEW f \in {Producer, Consumer}, Asks(f) \/ Passes(f) PROVE UnitsInv'
  BY <1>0, <1>1, <1>5 DEF Asks, Passes
<1>6. ASSUME NEW f \in {Producer, Consumer}, NEW g \in {Producer, Consumer}, g # f, Gets(f)
      PROVE  UnitsInv'
  <2>1. at[g] # "critical" /\ at[f] # "critical"
    BY <1>6 DEF Gets, WhereInv, InUser
  <2>2. UnitsOf(f)' = Need(f) /\ UnitsOf(g)' = 0 /\ held[f][sem] = 0 /\ held[g][sem] = 0
    BY <1>0, <1>6, <2>1 DEF Gets, UnitsInv, UnitsOf, Need
  <2>3. held'[f][sem] = Need(f) /\ held'[g][sem] = 0
    BY <1>0, <1>6, <2>2 DEF Gets, Need, Batch
  <2>4. Batch - UnitsOf(Producer)' - UnitsOf(Consumer)' = Batch - Need(f)
    BY <1>6, <2>2 DEF Batch, Need
  <2>5. DOMAIN semInfos' = DOMAIN semInfos /\ semInfos'[sem] =
            [value |-> Batch - Need(f), ucbaValue |-> 0, ucba |-> NoFiber, fibers |-> {}]
    BY <1>6 DEF Gets
  <2> QED
    BY <1>6, <2>2, <2>3, <2>4, <2>5 DEF UnitsInv
<1>7. ASSUME NEW f \in {Producer, Consumer}, NEW g \in {Producer, Consumer}, g # f, Gives(f)
      PROVE  UnitsInv'
  <2>1. at[g] # "critical" /\ at[f] = "critical"
    BY <1>7 DEF Gives, WhereInv, InUser
  <2>2. /\ UnitsOf(f) = Need(f) /\ UnitsOf(g) = 0
        /\ UnitsOf(f)' = 0 /\ UnitsOf(g)' = 0
        /\ held[f][sem] = Need(f) /\ held[g][sem] = 0
    BY <1>0, <1>7, <2>1 DEF Gives, UnitsInv, UnitsOf, Need
  <2>3. held'[f][sem] = 0 /\ held'[g][sem] = 0
    BY <1>0, <1>7, <2>2 DEF Gives, Need, Batch
  <2>4. /\ Batch - UnitsOf(Producer) - UnitsOf(Consumer) = Batch - Need(f)
        /\ Batch - UnitsOf(Producer)' - UnitsOf(Consumer)' = Batch
    BY <1>7, <2>2 DEF Batch, Need
  <2>5. semInfos[sem] =
            [value |-> Batch - Need(f), ucbaValue |-> 0, ucba |-> NoFiber, fibers |-> {}]
    BY <1>7, <2>4 DEF Gives, UnitsInv
  <2>6. DOMAIN semInfos' = DOMAIN semInfos /\ semInfos'[sem] =
            [value |-> Batch, ucbaValue |-> 0, ucba |-> NoFiber, fibers |-> {}]
    <3>1. DOMAIN semInfos' = DOMAIN semInfos /\ semInfos'[sem] =
            [semInfos[sem] EXCEPT !.value = @ + Need(f), !.fibers = {}]
      BY <1>7 DEF Gives
    <3>2. semInfos[sem].value + Need(f) = Batch
      BY <2>5 DEF Batch, Need
    <3>3. [semInfos[sem] EXCEPT !.value = Batch] =
            [value |-> Batch, ucbaValue |-> 0, ucba |-> NoFiber, fibers |-> {}]
      BY <2>5
    <3>4. [[semInfos[sem] EXCEPT !.value = Batch] EXCEPT !.fibers = {}] =
            [value |-> Batch, ucbaValue |-> 0, ucba |-> NoFiber, fibers |-> {}]
      BY <3>3
    <3> QED
      BY <3>1, <3>2, <3>4
  <2> QED
    BY <1>7, <2>2, <2>3, <2>4, <2>6 DEF UnitsInv
<1>8. ASSUME NEW f \in Servers \cup {Acceptor, Sleeper}, NEW l, NEW a, Goes(f, l, a)
      PROVE  UnitsInv'
  BY <1>0, <1>1, <1>8 DEF Goes
<1>9. ASSUME NEW fd, NEW g \in Servers, Shares(fd, g) PROVE UnitsInv'
  BY <1>0, <1>1, <1>9 DEF Shares
<1> QED
  BY <1>2, <1>3, <1>4, <1>5, <1>6, <1>7, <1>8, <1>9
  DEF DemoStep, GoesOn, Waits, Accepts, Drops, Leaves

\* The timers: only the sleeper ever registers a deadline.
LEMMA TimersKeeps ==
    ASSUME TimersInv, DemoStep
    PROVE  TimersInv'
BY DEF TimersInv, DemoStep, Rests, Resumes, Declares, Creates, Asks, Gets, Gives, Passes, Goes,
       GoesOn, Waits, Accepts, Shares, Drops, Leaves, NoNewTimer, HasTimer, vars

\* The order of creation: when the acceptor is there, and so before any fiber runs, the
\* consumer is in the queue, behind the producer.
LEMMA CreationKeeps ==
    ASSUME TypesInv, CreationInv, SP!PhaseInv, DemoStep
    PROVE  CreationInv'
<1> USE FourFibers, ConstantsAssumption
<1>0. loc \in [Fibers -> Locations \cup {"accept", "read", "write", "acquire"}]
  BY DEF TypesInv
<1>1. phase = "main" => cur = NoFiber
  BY DEF SP!PhaseInv
<1> USE DEF CreationInv
<1>2. CASE Rests \/ Resumes \/ Declares
  BY <1>0, <1>2 DEF Rests, Resumes, Declares, vars
<1>3. ASSUME NEW f \in {Producer, Consumer, Acceptor, Sleeper}, Creates(f)
      PROVE  CreationInv'
  BY <1>0, <1>3 DEF Creates
<1>4. ASSUME NEW f \in {Producer, Consumer}, Asks(f) \/ Gets(f) \/ Gives(f) \/ Passes(f)
      PROVE  CreationInv'
  BY <1>0, <1>1, <1>4 DEF Asks, Gets, Gives, Passes, vars
<1>5. ASSUME NEW f \in Servers \cup {Acceptor, Sleeper}, NEW l, NEW a, Goes(f, l, a)
      PROVE  CreationInv'
  BY <1>0, <1>5 DEF Goes
<1>6. ASSUME NEW fd, NEW g \in Servers, Shares(fd, g) PROVE CreationInv'
  BY <1>0, <1>6 DEF Shares
<1> QED
  BY <1>2, <1>3, <1>4, <1>5, <1>6 DEF DemoStep, GoesOn, Waits, Accepts, Drops, Leaves

\* The order of the queue: nobody gets before somebody who is already there.
LEMMA BeforeSteps ==
    ASSUME Queue \in Seq(Fibers), NEW f, NEW g
    PROVE  /\ Before(f, g) => f \in Range(Queue) /\ g \in Range(Queue)
           /\ Queue' = Queue /\ Before(f, g)' => Before(f, g)
           /\ \A e \in Fibers :
                Queue' = Append(Queue, e) /\ Before(f, g)' =>
                    Before(f, g) \/ (e = g /\ f \in Range(Queue))
           /\ Queue # <<>> /\ Queue' = Tail(Queue) /\ Before(f, g)' => Before(f, g)
           /\ Queue # <<>> /\ f = Head(Queue) /\ g \in Range(Queue) /\ f # g
              => Before(f, g)
<1> DEFINE q == Queue
<1>1. q \in Seq(Fibers) /\ Range(q) = {q[i] : i \in 1 .. Len(q)}
  BY DEF Range
<1> HIDE DEF q
<1>2. /\ Before(f, g) <=> \E i, j \in 1 .. Len(q) : i < j /\ q[i] = f /\ q[j] = g
      /\ Before(f, g)' <=> \E i, j \in 1 .. Len(q') : i < j /\ q'[i] = f /\ q'[j] = g
  BY DEF Before, q
<1>3. Before(f, g) => f \in Range(q) /\ g \in Range(q)
  BY <1>1, <1>2
<1>4. q' = q /\ Before(f, g)' => Before(f, g)
  BY <1>2
<1>5. ASSUME NEW e \in Fibers, q' = Append(q, e), Before(f, g)'
      PROVE  Before(f, g) \/ (e = g /\ f \in Range(q))
  <2>1. /\ Len(q') = Len(q) + 1 /\ Len(q) \in Nat
        /\ q'[Len(q) + 1] = e
        /\ \A i \in 1 .. Len(q) : q'[i] = q[i]
    BY <1>1, <1>5
  <2>2. PICK i, j \in 1 .. Len(q') : i < j /\ q'[i] = f /\ q'[j] = g
    BY <1>2, <1>5
  <2>3. i \in 1 .. Len(q) /\ (j \in 1 .. Len(q) \/ j = Len(q) + 1)
    BY <2>1, <2>2
  <2> QED
    BY <1>1, <1>2, <2>1, <2>2, <2>3
<1>6. ASSUME q # <<>>, q' = Tail(q), Before(f, g)' PROVE Before(f, g)
  <2>1. /\ Len(q) \in Nat \ {0} /\ Len(q') = Len(q) - 1
        /\ \A i \in 1 .. Len(q') : q'[i] = q[i + 1]
    BY <1>1, <1>6
  <2>2. PICK i, j \in 1 .. Len(q') : i < j /\ q'[i] = f /\ q'[j] = g
    BY <1>2, <1>6
  <2>3. /\ i + 1 \in 1 .. Len(q) /\ j + 1 \in 1 .. Len(q) /\ i + 1 < j + 1
        /\ q[i + 1] = f /\ q[j + 1] = g
    BY <2>1, <2>2
  <2> QED
    BY <1>2, <2>3
<1>7. ASSUME q # <<>>, f = Head(q), g \in Range(q), f # g PROVE Before(f, g)
  <2>1. PICK j \in 1 .. Len(q) : q[j] = g
    BY <1>1, <1>7
  <2>2. q[1] = f /\ 1 \in 1 .. Len(q) /\ 1 < j
    BY <1>1, <1>7, <2>1
  <2> QED
    BY <1>2, <2>1, <2>2
<1> QED
  BY <1>3, <1>4, <1>5, <1>6, <1>7 DEF q

\* The producer and the consumer are always either in the queue or on the CPU.
LEMMA QueuedOrRunning ==
    ASSUME DemoIInv, NEW f \in {Producer, Consumer}
    PROVE  /\ loc[f] # "none" <=> f \in Range(Queue) \/ cur = f
           /\ ~(f \in Range(Queue) /\ cur = f)
<1> USE FourFibers
<1>1. TypesInv /\ SP!AtMostOnce /\ SP!PlacesInv /\ WhereInv /\ TimersInv
  BY DEF DemoIInv, SocketsInv, SP!ReadInv
<1>2. /\ SP!Queued(f) <=> f \in Range(Queue)
      /\ SP!HasTimer(f) <=> HasTimer(f)
      /\ ~HasTimer(f)
  BY <1>1 DEF SP!Queued, SP!Queue, Queue, SP!Range, Range, SP!HasTimer, HasTimer, TimersInv
<1>3. /\ SP!Live(f) <=> loc[f] # "none"
      /\ sockLoc[f] \notin {"accept", "read"}
  BY <1>1 DEF WhereInv, SP!Live, sockLoc
<1> QED
  BY <1>1, <1>2, <1>3 DEF SP!AtMostOnce, SP!PlacesInv, SP!Placed

\* The turns: the producer adds an item and goes behind the consumer, which looks at the
\* buffer before the producer is back.
LEMMA TurnKeeps ==
    ASSUME DemoIInv, DemoStep
    PROVE  TurnInv'
<1> USE FourFibers, ConstantsAssumption DEF Batch
<1>0. /\ TypesInv /\ WhereInv /\ CreationInv /\ TurnInv
      /\ Queue \in Seq(Fibers) /\ buffer \in Nat
      /\ at \in [Fibers -> {"acquire", "critical", "yield", "accept", "serve", "drop",
                            "read", "end", "sleep"}]
      /\ loc \in [Fibers -> Locations \cup {"accept", "read", "write", "acquire"}]
  BY SocketTypes, QueueSteps DEF DemoIInv, TypesInv, DemoTypeOK
<1> DEFINE PC == Before(Producer, Consumer)
           CP == Before(Consumer, Producer)
           InQueue(f) == f \in Range(Queue)
<1>1. /\ PC => InQueue(Producer) /\ InQueue(Consumer)
      /\ CP => InQueue(Producer) /\ InQueue(Consumer)
      /\ Queue' = Queue => (PC' => PC) /\ (CP' => CP)
      /\ \A e \in Fibers : Queue' = Append(Queue, e) =>
            /\ PC' => PC \/ e = Consumer
            /\ CP' => CP \/ e = Producer
      /\ Queue # <<>> /\ Queue' = Tail(Queue) =>
            /\ PC' => PC
            /\ CP' => CP
            /\ Head(Queue) = Producer /\ InQueue(Consumer) => PC
            /\ Head(Queue) = Consumer /\ InQueue(Producer) => CP
  BY <1>0, BeforeSteps
<1>2. \A f \in {Producer, Consumer} :
        /\ loc[f] # "none" <=> InQueue(f) \/ cur = f
        /\ ~(InQueue(f) /\ cur = f)
  BY QueuedOrRunning
<1> HIDE DEF PC, CP, InQueue
<1>3. TurnInv <=> (loc[Consumer] # "none" =>
        /\ cur = Producer => buffer <= IF at[Producer] = "yield" THEN 4 ELSE 3
        /\ cur = Consumer => buffer <= IF at[Consumer] = "yield" THEN 3 ELSE 4
        /\ PC => buffer <= 3
        /\ CP => buffer <= 4)
  BY DEF TurnInv, PC, CP
<1>4. TurnInv' <=> (loc'[Consumer] # "none" =>
        /\ cur' = Producer => buffer' <= IF at'[Producer] = "yield" THEN 4 ELSE 3
        /\ cur' = Consumer => buffer' <= IF at'[Consumer] = "yield" THEN 3 ELSE 4
        /\ PC' => buffer' <= 3
        /\ CP' => buffer' <= 4)
  BY DEF TurnInv, PC, CP
<1>5. CASE Rests
  BY <1>0, <1>1, <1>3, <1>4, <1>5 DEF Rests
<1>6. CASE Declares
  <2>1. Queue' = Queue
    BY <1>6 DEF Declares, vars, Queue
  <2> QED
    BY <1>0, <1>1, <1>3, <1>4, <1>6, <2>1 DEF Declares, vars
<1>7. CASE Resumes
  <2>1. /\ at[Producer] = "acquire" /\ at[Consumer] = "acquire"
        /\ loc'[Consumer] # "none" => loc[Consumer] # "none" /\ loc[Producer] # "none"
    BY <1>0, <1>7 DEF Resumes, WhereInv, CreationInv, InUser
  <2> QED
    BY <1>0, <1>1, <1>2, <1>3, <1>4, <1>7, <2>1 DEF Resumes
<1>8. ASSUME NEW f \in {Producer, Consumer, Acceptor, Sleeper}, Creates(f)
      PROVE  TurnInv'
  <2>1. CASE f = Consumer
    <3>1. buffer' = 0 /\ cur' # Producer /\ cur' # Consumer
      BY <1>0, <1>8, <2>1 DEF Creates, CreationInv, DemoIInv, SocketsInv, SP!SockIInv,
                              SP!PhaseInv
    <3> QED
      BY <1>4, <3>1
  <2>2. CASE f # Consumer
    <3>1. loc'[Consumer] # "none" => loc[Consumer] # "none" /\ loc[Producer] # "none"
      BY <1>0, <1>8, <2>2 DEF Creates, CreationInv
    <3>2. f = Producer => loc'[Consumer] = "none"
      BY <1>0, <1>8, <2>2 DEF Creates, CreationInv
    <3> QED
      BY <1>0, <1>1, <1>3, <1>4, <1>8, <2>2, <3>1, <3>2 DEF Creates
  <2> QED
    BY <2>1, <2>2
<1>9. ASSUME NEW f \in {Producer, Consumer}, Asks(f) \/ Gets(f) PROVE TurnInv'
  <2>1. Queue' = Queue /\ cur = f /\ cur' = f /\ buffer' = buffer /\ at[f] = "acquire"
    BY <1>9 DEF Asks, Gets, queueVars, Queue
  <2>2. /\ loc[f] # "none" /\ loc'[Consumer] # "none" => loc[Consumer] # "none"
        /\ at'[f] # "yield"
    BY <1>0, <1>9 DEF Asks, Gets
  <2> QED
    BY <1>0, <1>1, <1>2, <1>3, <1>4, <2>1, <2>2
<1>10. ASSUME NEW f \in {Producer, Consumer}, Gives(f) PROVE TurnInv'
  <2>1. /\ Queue' = Queue /\ cur = f /\ cur' = f /\ loc' = loc
        /\ at[f] = "critical" /\ at'[f] = "yield"
        /\ buffer' = IF f = Producer THEN buffer + 1
                     ELSE IF buffer >= 4 THEN buffer - 4 ELSE buffer
    BY <1>0, <1>10 DEF Gives, vars, Queue
  <2>2. ~PC' /\ ~CP'
    BY <1>1, <1>2, <2>1
  <2> QED
    BY <1>0, <1>3, <1>4, <2>1, <2>2
<1>11. ASSUME NEW f \in {Producer, Consumer}, Passes(f) PROVE TurnInv'
  <2>1. /\ Queue' = Append(Queue, f) /\ cur = f /\ cur' = NoFiber /\ loc' = loc
        /\ at[f] = "yield" /\ buffer' = buffer
    BY <1>11 DEF Passes
  <2> QED
    BY <1>0, <1>1, <1>2, <1>3, <1>4, <2>1
<1>12. ASSUME NEW f \in Servers \cup {Acceptor, Sleeper}, NEW l, NEW a, Goes(f, l, a)
       PROVE  TurnInv'
  <2>1. /\ Queue' = Queue /\ cur' \notin {Producer, Consumer} /\ buffer' = buffer
        /\ loc'[Consumer] = loc[Consumer]
    BY <1>0, <1>12 DEF Goes
  <2> QED
    BY <1>0, <1>1, <1>3, <1>4, <2>1
<1>13. ASSUME NEW fd, NEW g \in Servers, Shares(fd, g) PROVE TurnInv'
  <2>1. /\ Queue' = Append(Queue, g) /\ cur' \notin {Producer, Consumer} /\ buffer' = buffer
        /\ loc'[Consumer] = loc[Consumer] /\ g \notin {Producer, Consumer} /\ g \in Fibers
    BY <1>0, <1>13 DEF Shares
  <2> QED
    BY <1>0, <1>1, <1>3, <1>4, <2>1
<1> QED
  BY <1>5, <1>6, <1>7, <1>8, <1>9, <1>10, <1>11, <1>12, <1>13
  DEF DemoStep, GoesOn, Waits, Accepts, Drops, Leaves

\* Who holds which connection: the acceptor keeps the CPU from Accept until it has let go
\* of it, and by then the server has it.
LEMMA HandOverKeeps ==
    ASSUME DemoIInv, DemoStep
    PROVE  HandOverInv'
<1> USE FourFibers DEF Live, Sock!Holds
<1>0. /\ TypesInv /\ WhereInv /\ HandOverInv
      /\ owners \in [Fds -> SUBSET Fibers]
      /\ at \in [Fibers -> {"acquire", "critical", "yield", "accept", "serve", "drop",
                            "read", "end", "sleep"}]
      /\ loc \in [Fibers -> Locations \cup {"accept", "read", "write", "acquire"}]
      /\ \A f \in Fibers : \A fd, d \in Fds : f \in owners[fd] /\ f \in owners[d] => d = fd
  BY SocketTypes DEF DemoIInv, TypesInv, DemoTypeOK, SocketsInv, SP!SockIInv, SP!OwnersInv
<1>1. ASSUME UNCHANGED owners, at'[Acceptor] = at[Acceptor],
             \A g \in Servers : Live(g)' => Live(g)
      PROVE  HandOverInv'
  BY <1>0, <1>1 DEF HandOverInv
<1>2. ASSUME at[Acceptor] = "accept", NEW fd \in Fds PROVE Acceptor \notin owners[fd]
  BY <1>0, <1>2 DEF HandOverInv
<1>3. CASE Rests \/ Resumes \/ Declares
  <2>1. \A f \in Fibers : Live(f)' => Live(f)
    BY <1>0, <1>3 DEF Rests, Resumes, Declares, vars
  <2> QED
    BY <1>1, <1>3, <2>1 DEF Rests, Resumes, Declares, HandsStay
<1>4. ASSUME NEW f \in {Producer, Consumer, Acceptor, Sleeper}, Creates(f)
      PROVE  HandOverInv'
  <2>1. \A g \in Servers : loc'[g] = loc[g]
    BY <1>0, <1>4 DEF Creates
  <2> QED
    BY <1>1, <1>4, <2>1 DEF Creates, HandsStay
<1>5. ASSUME NEW f \in {Producer, Consumer}, Asks(f) \/ Gets(f) \/ Gives(f) \/ Passes(f)
      PROVE  HandOverInv'
  <2>1. at'[Acceptor] = at[Acceptor] /\ \A g \in Servers : loc'[g] = loc[g]
    BY <1>0, <1>5 DEF Asks, Gets, Gives, Passes, vars
  <2> QED
    BY <1>1, <1>5, <2>1 DEF Asks, Gets, Gives, Passes, HandsStay
<1>6. ASSUME NEW f \in Servers \cup {Acceptor, Sleeper}, GoesOn(f) \/ Waits(f)
      PROVE  HandOverInv'
  <2>1. /\ UNCHANGED owners /\ at'[Acceptor] = at[Acceptor]
        /\ \A g \in Servers : Live(g)' => Live(g)
    BY <1>0, <1>6 DEF GoesOn, Waits, Goes, HandsStay
  <2> QED
    BY <1>1, <2>1
<1>7. ASSUME NEW fd \in Fds, Accepts(fd) PROVE HandOverInv'
  <2>1. at[Acceptor] = "accept"
    BY <1>0, <1>7 DEF WhereInv, Accepts, InUser
  <2>2. /\ at'[Acceptor] = "serve" /\ \A g \in Servers : loc'[g] = loc[g]
        /\ owners[fd] = {} /\ owners'[fd] = {Acceptor}
        /\ \A d \in Fds \ {fd} : owners'[d] = owners[d]
    BY <1>0, <1>7 DEF Accepts, Goes
  <2> QED
    BY <1>0, <1>2, <2>1, <2>2 DEF HandOverInv
<1>8. ASSUME NEW fd \in Fds, NEW g \in Servers, Shares(fd, g) PROVE HandOverInv'
  <2>1. owners[fd] = {Acceptor} /\ \A d \in Fds \ {fd} : Acceptor \notin owners[d]
    BY <1>0, <1>8 DEF Shares, HandOverInv
  <2>2. /\ at'[Acceptor] = "drop" /\ \A h \in Servers \ {g} : loc'[h] = loc[h]
        /\ owners'[fd] = {Acceptor, g}
        /\ \A d \in Fds \ {fd} : owners'[d] = owners[d]
    BY <1>0, <1>8, <2>1 DEF Shares
  <2> QED
    BY <1>0, <2>1, <2>2 DEF HandOverInv
<1>9. ASSUME NEW fd \in Fds, Drops(fd) PROVE HandOverInv'
  <2>1. \A d \in Fds \ {fd} : Acceptor \notin owners[d]
    BY <1>0, <1>9 DEF Drops
  <2>2. /\ at'[Acceptor] = "accept" /\ \A g \in Servers : loc'[g] = loc[g]
        /\ owners'[fd] = owners[fd] \ {Acceptor}
        /\ \A d \in Fds \ {fd} : owners'[d] = owners[d]
    BY <1>0, <1>9 DEF Drops, Goes
  <2> QED
    BY <1>0, <2>1, <2>2 DEF HandOverInv
<1>10. ASSUME NEW fd \in Fds, NEW g \in Servers, Leaves(fd, g) PROVE HandOverInv'
  <2>1. at[Acceptor] = "accept"
    BY <1>0, <1>10 DEF WhereInv, Leaves, Goes, InUser
  <2>2. /\ at'[Acceptor] = "accept" /\ \A h \in Servers \ {g} : loc'[h] = loc[h]
        /\ loc'[g] = "freed"
        /\ owners'[fd] = owners[fd] \ {g} /\ g \in owners[fd]
        /\ \A d \in Fds \ {fd} : owners'[d] = owners[d]
    BY <1>0, <1>10, <2>1 DEF Leaves, Goes
  <2>3. ASSUME NEW h \in Servers, h # g, Live(h) PROVE \E d \in Fds : h \in owners'[d]
    <3>1. PICK d \in Fds : h \in owners[d]
      BY <1>0, <2>3 DEF HandOverInv
    <3>2. d # fd
      BY <1>0, <2>2, <2>3, <3>1 DEF HandOverInv
    <3> QED
      BY <2>2, <3>1, <3>2
  <2> QED
    BY <1>0, <1>2, <2>1, <2>2, <2>3 DEF HandOverInv
<1> QED
  BY <1>3, <1>4, <1>5, <1>6, <1>7, <1>8, <1>9, <1>10 DEF DemoStep

\* What a step changes of who reads and holds what.
LEMMA ReadersMoves ==
    ASSUME DemoIInv, DemoStep
    PROVE  /\ \A f \in Fibers : loc'[f] = "none" => loc[f] = "none"
           /\ \A f \in Fibers, fd \in Fds :
                f \in owners'[fd] /\ loc'[f] = "read" => f \in owners[fd]
           /\ \A g \in Servers : Live(g)' =>
                (\A fd \in Fds : g \in owners[fd] => g \in owners'[fd])
           /\ \A g \in Servers : Live(g)' => Live(g) \/ readFds'[g] = {}
           /\ \A f \in Fibers :
                \/ readFds'[f] = readFds[f]
                \/ /\ f \in Servers \cup {Acceptor, Sleeper}
                   /\ loc[f] \in {"accept", "read"}
                   /\ readFds'[f] \subseteq readFds[f] \cup {io[f].fd}
<1> USE FourFibers DEF Live, HandsStay
<1>0. /\ TypesInv /\ WhereInv /\ ReadersInv
      /\ owners \in [Fds -> SUBSET Fibers]
      /\ loc \in [Fibers -> Locations \cup {"accept", "read", "write", "acquire"}]
  BY SocketTypes DEF DemoIInv, TypesInv
<1>1. CASE Rests \/ Resumes \/ Declares
  <2>1. /\ UNCHANGED <<owners, readFds>>
        /\ \A f \in Fibers : (loc'[f] = "none" <=> loc[f] = "none") /\ (Live(f)' => Live(f))
    BY <1>0, <1>1 DEF Rests, Resumes, Declares, vars
  <2> QED
    BY <2>1
<1>2. ASSUME NEW f \in {Producer, Consumer, Acceptor, Sleeper}, Creates(f)
      PROVE  /\ UNCHANGED <<owners, readFds>> /\ \A g \in Fibers \ {f} : loc'[g] = loc[g]
             /\ loc'[f] = "user"
  BY <1>0, <1>2 DEF Creates
<1>3. ASSUME NEW f \in {Producer, Consumer}, Asks(f) \/ Gets(f) \/ Gives(f) \/ Passes(f)
      PROVE  /\ UNCHANGED <<owners, readFds>> /\ \A g \in Fibers \ {f} : loc'[g] = loc[g]
             /\ loc'[f] \in {"user", "acquire"}
  BY <1>0, <1>3 DEF Asks, Gets, Gives, Passes, vars
<1>4. ASSUME NEW f \in Servers \cup {Acceptor, Sleeper}, GoesOn(f) \/ Waits(f)
      PROVE  /\ UNCHANGED owners /\ \A g \in Fibers \ {f} : loc'[g] = loc[g]
             /\ loc'[f] # "none" /\ loc[f] \notin {"none", "freed"}
             /\ \A g \in Fibers :
                \/ readFds'[g] = readFds[g]
                \/ /\ g = f
                   /\ loc[f] \in {"accept", "read"}
                   /\ readFds'[f] \subseteq readFds[f] \cup {io[f].fd}
  BY <1>0, <1>4 DEF GoesOn, Waits, Goes
<1>5. ASSUME NEW fd \in Fds, Accepts(fd) \/ Drops(fd)
      PROVE  /\ UNCHANGED readFds /\ \A g \in Fibers \ {Acceptor} : loc'[g] = loc[g]
             /\ loc'[Acceptor] = "user"
             /\ \A d \in Fds : owners'[d] \ {Acceptor} = owners[d] \ {Acceptor}
  BY <1>0, <1>5 DEF Accepts, Drops, Goes
<1>6. ASSUME NEW fd \in Fds, NEW g \in Servers, Shares(fd, g)
      PROVE  /\ UNCHANGED readFds /\ \A h \in Fibers \ {g} : loc'[h] = loc[h]
             /\ loc'[g] = "user" /\ readFds[g] = {}
             /\ \A d \in Fds : owners'[d] \ {g} = owners[d] \ {g}
             /\ \A d \in Fds : owners[d] \subseteq owners'[d]
  BY <1>0, <1>6 DEF Shares, ReadersInv
<1>7. ASSUME NEW fd \in Fds, NEW g \in Servers, Leaves(fd, g)
      PROVE  /\ UNCHANGED readFds /\ \A h \in Fibers \ {g} : loc'[h] = loc[h]
             /\ loc'[g] = "freed"
             /\ \A d \in Fds : owners'[d] \ {g} = owners[d] \ {g}
  BY <1>0, <1>7 DEF Leaves, Goes
<1> QED
  <2>1. ASSUME NEW f \in Fibers,
               /\ loc'[f] # "none"
               /\ \A g \in Fibers \ {f} : loc'[g] = loc[g]
               /\ f \in Servers => \/ loc'[f] = "freed"
                                   \/ loc[f] \notin {"none", "freed"}
                                   \/ readFds'[f] = {}
        PROVE  /\ \A g \in Fibers : loc'[g] = "none" => loc[g] = "none"
               /\ \A g \in Servers : Live(g)' => Live(g) \/ readFds'[g] = {}
    BY <2>1
  <2>3. CASE \E f \in {Producer, Consumer, Acceptor, Sleeper} : Creates(f)
    BY <1>2, <2>1, <2>3
  <2>4. CASE \E f \in {Producer, Consumer} : Asks(f) \/ Gets(f) \/ Gives(f) \/ Passes(f)
    BY <1>3, <2>1, <2>4
  <2>5. CASE \E f \in Servers \cup {Acceptor, Sleeper} : GoesOn(f) \/ Waits(f)
    BY <1>4, <2>1, <2>5
  <2>6. CASE \E fd \in Fds : Accepts(fd) \/ Drops(fd)
    BY <1>5, <2>1, <2>6
  <2>7. CASE \E fd \in Fds, g \in Servers : Shares(fd, g)
    BY <1>6, <2>1, <2>7
  <2>8. CASE \E fd \in Fds, g \in Servers : Leaves(fd, g)
    BY <1>7, <2>1, <2>8
  <2> QED
    BY <1>1, <2>3, <2>4, <2>5, <2>6, <2>7, <2>8 DEF DemoStep

\* Who is registered: a connection has one server and the listening socket the acceptor,
\* so nobody takes anybody else's entry away.
LEMMA ReadersKeeps ==
    ASSUME DemoIInv, DemoStep, SP!AllReadersKept, SocketsInv', WhereInv'
    PROVE  ReadersInv'
<1> USE FourFibers DEF Sock!AllFds, SP!AllFds
<1>0. /\ TypesInv /\ WhereInv /\ HandOverInv /\ ReadersInv
      /\ SP!CallsInv /\ SP!CallsInv'
  BY DEF DemoIInv, SocketsInv, SP!SockIInv
<1>1. /\ \A f \in Fibers : loc[f] \in {"accept", "read"} => sockLoc[f] = loc[f]
      /\ \A f \in Fibers : sockLoc'[f] \in {"accept", "read"} => loc'[f] = sockLoc'[f]
      /\ \A f \in Fibers : SP!Live(f) <=> Live(f)
  BY <1>0, Views DEF sockLoc
<1>2. /\ \A f \in Fibers : loc[f] = "accept" => f = Acceptor /\ io[f].fd = Listener
      /\ \A f \in Fibers : loc[f] = "read" =>
            f \in Servers /\ io[f].fd \in Fds /\ f \in owners[io[f].fd]
      /\ \A f \in Fibers : loc'[f] = "accept" => f = Acceptor /\ io'[f].fd = Listener
      /\ \A f \in Fibers : loc'[f] = "read" =>
            f \in Servers /\ io'[f].fd \in Fds /\ f \in owners'[io'[f].fd]
  <2>1. \A f \in Fibers : f \in Servers \cup {Producer, Consumer, Acceptor, Sleeper}
    BY DEF Servers
  <2>2. \A f \in Fibers : /\ loc[f] = "accept" => f = Acceptor
                          /\ loc[f] = "read" => f \in Servers
                          /\ loc'[f] = "accept" => f = Acceptor
                          /\ loc'[f] = "read" => f \in Servers
    BY <1>0, <2>1 DEF WhereInv
  <2>3. \A f \in Fibers : /\ loc'[f] = "accept" => sockLoc'[f] = "accept"
                          /\ loc'[f] = "read" => sockLoc'[f] = "read"
    BY DEF sockLoc
  <2> QED
    BY <1>0, <1>1, <2>2, <2>3 DEF SP!CallsInv
<1>3. /\ \A f \in Fibers : loc'[f] = "none" => loc[f] = "none"
      /\ \A f \in Fibers, fd \in Fds :
            f \in owners'[fd] /\ loc'[f] = "read" => f \in owners[fd]
      /\ \A g \in Servers : Live(g)' =>
            (\A fd \in Fds : g \in owners[fd] => g \in owners'[fd])
      /\ \A g \in Servers : Live(g)' => Live(g) \/ readFds'[g] = {}
      /\ \A f \in Fibers :
            \/ readFds'[f] = readFds[f]
            \/ /\ f \in Servers \cup {Acceptor, Sleeper}
               /\ loc[f] \in {"accept", "read"}
               /\ readFds'[f] \subseteq readFds[f] \cup {io[f].fd}
  BY ReadersMoves
<1>4. \A f \in Fibers : loc'[f] = "none" => readFds'[f] = {}
  BY <1>0, <1>3 DEF ReadersInv
<1>5. readFds'[Producer] = {} /\ readFds'[Consumer] = {} /\ readFds'[Sleeper] = {}
  BY <1>0, <1>2, <1>3 DEF ReadersInv
<1>6. readFds'[Acceptor] \subseteq {Listener}
  BY <1>0, <1>2, <1>3 DEF ReadersInv
<1>7. ASSUME NEW g \in Servers, Live(g)', NEW fd \in readFds'[g]
      PROVE  fd \in Fds /\ g \in owners'[fd]
  <2>1. Live(g)
    BY <1>3, <1>7
  <2>2. \/ fd \in readFds[g]
        \/ loc[g] \in {"accept", "read"} /\ fd = io[g].fd
    BY <1>3, <1>7
  <2>3. fd \in Fds /\ g \in owners[fd]
    BY <1>0, <1>2, <2>1, <2>2 DEF ReadersInv
  <2> QED
    BY <1>3, <1>7, <2>3
<1>8. ASSUME NEW f \in Fibers, NEW fd \in Sock!AllFds, SP!ParkedIn(f, {"read", "accept"}, fd)'
      PROVE  Sock!Waiting(fd)'.r = f
  <2>0. /\ Sock!Waiting(fd) = SP!Waiting(fd) /\ Sock!Waiting(fd)' = SP!Waiting(fd)'
        /\ fd \in SP!AllFds
    BY DEF Sock!Waiting, SP!Waiting
  <2>1. loc'[f] \in {"read", "accept"} /\ io'[f].fd = fd
    BY <1>1, <1>8 DEF SP!ParkedIn
  <2>2. \/ SP!Waiting(fd)'.r = f
        \/ \E g \in Fibers \ {f} : SP!Live(g) /\ fd \in readFds[g]
        \/ SP!ParkedIn(f, {"read", "accept"}, fd) /\ SP!Waiting(fd).r # f
    BY <1>8, <2>0 DEF SP!AllReadersKept, SP!ReaderKept
  <2>3. ASSUME NEW g \in Fibers \ {f}, SP!Live(g), fd \in readFds[g] PROVE FALSE
    <3>0. /\ g \in Servers \cup {Producer, Consumer, Acceptor, Sleeper}
          /\ Live(g)
      BY <1>1, <2>3 DEF Servers
    <3>1. \/ g = Acceptor /\ fd = Listener
          \/ g \in Servers /\ fd \in Fds /\ g \in owners[fd]
      BY <1>0, <2>3, <3>0 DEF ReadersInv
    <3>2. Listener \notin Fds
      BY SystemAssumption DEF Sock!SocketConstantsAssumption
    <3>3. CASE loc'[f] = "accept"
      BY <1>2, <2>1, <2>3, <3>1, <3>2, <3>3
    <3>4. CASE loc'[f] = "read"
      <4>1. f \in Servers /\ fd \in Fds /\ f \in owners[fd]
        BY <1>2, <1>3, <2>1, <3>4
      <4> QED
        BY <1>0, <2>3, <3>1, <3>2, <4>1 DEF HandOverInv
    <3> QED
      BY <2>1, <3>3, <3>4
  <2>4. ~(SP!ParkedIn(f, {"read", "accept"}, fd) /\ SP!Waiting(fd).r # f)
    BY <1>0, <2>0 DEF ReadersInv
  <2> QED
    BY <2>0, <2>2, <2>3, <2>4
<1> QED
  BY <1>4, <1>5, <1>6, <1>7, <1>8 DEF ReadersInv

-----------------------------------------------------------------------------
(* The invariant.                                                          *)

\* Before main does anything.
LEMMA DemoInitInv == DemoInit => DemoIInv /\ SP!SockInit
<1> SUFFICES ASSUME DemoInit PROVE DemoIInv /\ SP!SockInit
  OBVIOUS
<1> USE FourFibers, ConstantsAssumption, DemoAssumption
<1>0. /\ Sock!SockInit /\ Sem!SemInit
      /\ loc = [f \in Fibers |-> "none"] /\ readFds = [f \in Fibers |-> {}]
      /\ io = [f \in Fibers |-> Sock!NoIo] /\ owners = [fd \in Fds |-> {}]
      /\ expireEvents = [t \in {} |-> {}] /\ cur = NoFiber /\ phase = "main"
      /\ ready = <<>> /\ running = <<>> /\ buffer = 0
      /\ DOMAIN semInfos = {} /\ held = [f \in Fibers |-> [s \in Sems |-> 0]]
      /\ call = [f \in Fibers |-> Sem!NoCall]
  BY DEF DemoInit, SystemInit, Sock!SockInit, Sock!Init, Sem!SemInit
<1>1. SP!SockInit
  BY <1>0 DEF Sock!SockInit, SP!SockInit, Sock!Init, SP!Init, Sock!NoIo, SP!NoIo,
              Sock!AllFds, SP!AllFds, Sock!Fresh, SP!Fresh, Sock!Closed, SP!Closed, sockLoc
<1>2. SocketsInv
  BY <1>1, ClientLemmas
<1>3. /\ at \in [Fibers -> {"acquire", "critical", "yield", "accept", "serve", "drop",
                            "read", "end", "sleep"}]
      /\ at[Producer] = "acquire" /\ at[Consumer] = "acquire"
      /\ at[Acceptor] = "accept" /\ at[Sleeper] = "sleep"
      /\ \A g \in Servers : at[g] = "read"
  BY DEF DemoInit, Servers
<1>4. TypesInv
  BY <1>0, <1>3 DEF TypesInv, DemoTypeOK, Locations, Sem!NoCall, Sem!Call
<1>5. WhereInv /\ CreationInv
  BY <1>0, <1>3 DEF WhereInv, CreationInv
<1>6. UnitsInv /\ HandOverInv /\ TimersInv /\ TurnInv
  BY <1>0, <1>3 DEF UnitsInv, UnitsOf, HandOverInv, TimersInv, TurnInv, HasTimer, Live,
                    Sock!NoIo
<1>7. ReadersInv
  BY <1>0 DEF ReadersInv, Live, SP!ParkedIn, sockLoc
<1> QED
  BY <1>1, <1>2, <1>4, <1>5, <1>6, <1>7 DEF DemoIInv

\* Every step keeps it.
LEMMA DemoNextKeeps ==
    ASSUME DemoIInv, [DemoNext]_demoVars
    PROVE  DemoIInv' /\ [SP!SockNext]_(SP!allVars)
<1>1. [SP!SockNext]_(SP!allVars)
  BY StepSeen DEF DemoIInv
<1>2. SocketsInv' /\ SP!AllReadersKept
  BY <1>1, ClientLemmas DEF DemoIInv
<1>3. DemoStep
  BY StepKinds
<1>4. TypesInv' /\ UnitsInv' /\ TimersInv'
  BY <1>3, TypesKeeps, UnitsKeeps, TimersKeeps DEF DemoIInv
<1>5. WhereInv'
  BY <1>3, WhereKeeps, SocketTypes DEF DemoIInv
<1>6. CreationInv'
  BY <1>3, CreationKeeps DEF DemoIInv, SocketsInv, SP!SockIInv
<1>7. HandOverInv' /\ TurnInv'
  BY <1>3, HandOverKeeps, TurnKeeps
<1>8. ReadersInv'
  BY <1>2, <1>3, <1>5, ReadersKeeps
<1> QED
  BY <1>1, <1>2, <1>4, <1>5, <1>6, <1>7, <1>8 DEF DemoIInv

\* So the invariant always holds.
LEMMA DemoInvariant == DemoSpec => []DemoIInv
<1>1. DemoInit => DemoIInv
  BY DemoInitInv
<1>2. DemoIInv /\ [DemoNext]_demoVars => DemoIInv'
  BY DemoNextKeeps
<1> QED
  BY <1>1, <1>2, PTL DEF DemoSpec

-----------------------------------------------------------------------------
(* What it means for the programs.                                         *)

\* The programs are clients of the sockets: every step of the whole, seen without the
\* semaphores, is one that XSocket allows, so what is proved of XSocket holds here.
THEOREM DemoIsSocketClient == DemoSpec => IsSocketClient
<1>1. DemoInit => Client!SockInit
  BY DemoInitInv, SameClient
<1>2. DemoIInv /\ [DemoNext]_demoVars => [Client!SockNext]_(Client!allVars)
  BY DemoNextKeeps, SameClient
<1> QED
  BY <1>1, <1>2, DemoInvariant, PTL DEF DemoSpec, IsSocketClient

\* The variables of the programs keep their types.
THEOREM DemoTypesKept == DemoSpec => []DemoTypeOK
<1>1. DemoIInv => DemoTypeOK
  BY DEF DemoIInv, TypesInv
<1> QED
  BY <1>1, DemoInvariant, PTL

\* The buffer, of which nothing in the code bounds the size, never holds more than the
\* four items of a batch.
THEOREM BufferNeverOverfull == DemoSpec => []BufferBounded
<1>1. ASSUME DemoIInv PROVE BufferBounded
  <2> USE <1>1, FourFibers DEF Batch
  <2>0. CreationInv /\ TurnInv /\ buffer \in Nat
    BY DEF DemoIInv, TypesInv, DemoTypeOK
  <2>1. CASE loc[Consumer] = "none" \/ cur \in {Producer, Consumer}
    BY <2>0, <2>1 DEF CreationInv, TurnInv, BufferBounded
  <2>2. CASE loc[Consumer] # "none" /\ cur \notin {Producer, Consumer}
    <3>1. Producer \in Range(Queue) /\ Consumer \in Range(Queue)
      BY <2>0, <2>2, QueuedOrRunning DEF CreationInv
    <3>0. Queue \in Seq(Fibers)
      BY SocketTypes, QueueSteps DEF DemoIInv
    <3>2. PICK i, j \in 1 .. Len(Queue) : Queue[i] = Producer /\ Queue[j] = Consumer
      <4>1. DOMAIN Queue = 1 .. Len(Queue)
        BY <3>0
      <4> QED
        BY <3>1, <4>1 DEF Range
    <3>3. i < j \/ j < i
      BY <3>2
    <3>4. Before(Producer, Consumer) \/ Before(Consumer, Producer)
      BY <3>2, <3>3 DEF Before
    <3> QED
      BY <2>0, <2>2, <3>4 DEF TurnInv, BufferBounded
  <2> QED
    BY <2>1, <2>2
<1> QED
  BY <1>1, DemoInvariant, PTL

\* Nobody is ever switched out inside Acquire: every Acquire of the programs finds its
\* units, and the time-out of the consumer is never used.
THEOREM SemNeverWaitedFor == DemoSpec => []NeverWaitsForSem
<1>1. ASSUME DemoIInv PROVE NeverWaitsForSem
  <2>1. \A f \in Fibers : f \in Servers \cup {Producer, Consumer, Acceptor, Sleeper}
    BY DEF Servers
  <2> QED
    BY <1>1, <2>1 DEF DemoIInv, WhereInv, NeverWaitsForSem
<1> QED
  BY <1>1, DemoInvariant, PTL

\* When the acceptor is back at Accept, open connections and live servers are in pairs.
THEOREM OneServerForEach == DemoSpec => []OneServerEach
<1>1. ASSUME DemoIInv, at[Acceptor] = "accept"
      PROVE  /\ \A fd \in Fds : net[fd].open =>
                    \E g \in Servers : Live(g) /\ owners[fd] = {g}
             /\ \A g \in Servers : Live(g) => \E fd \in Fds : net[fd].open /\ g \in owners[fd]
  <2>0. /\ HandOverInv /\ TypesInv /\ SP!HeldInv /\ SP!OwnersInv
        /\ owners \in [Fds -> SUBSET Fibers] /\ Servers \subseteq Fibers
    BY <1>1, SocketTypes, FourFibers DEF DemoIInv, SocketsInv, SP!SockIInv
  <2>1. ASSUME NEW fd \in Fds, net[fd].open
        PROVE  \E g \in Servers : Live(g) /\ owners[fd] = {g}
    <3>1. PICK g \in owners[fd] : TRUE
      BY <2>0, <2>1 DEF SP!HeldInv
    <3>2. Acceptor \notin owners[fd] /\ owners[fd] \subseteq Servers
      BY <1>1, <2>0 DEF HandOverInv
    <3>3. owners[fd] = {g}
      BY <2>0, <3>2 DEF HandOverInv
    <3>4. Live(g)
      BY <2>0, <3>1, Views DEF SP!OwnersInv
    <3> QED
      BY <3>1, <3>2, <3>3, <3>4
  <2>2. ASSUME NEW g \in Servers, Live(g)
        PROVE  \E fd \in Fds : net[fd].open /\ g \in owners[fd]
    BY <2>0, <2>2 DEF HandOverInv, Sock!Holds, SP!OwnersInv
  <2> QED
    BY <2>1, <2>2
<1>2. DemoIInv => OneServerEach
  BY <1>1 DEF OneServerEach
<1> QED
  BY <1>2, DemoInvariant, PTL

\* WakeUpFiber keeps the parts of the library apart: a live fiber is scheduled, on the
\* CPU, or waiting in one of them, and never in two; and none is lost.
THEOREM OneRoleOnly == DemoSpec => []InOneRole
<1>1. ASSUME DemoIInv PROVE InOneRole
  <2>0. /\ TypesInv /\ UnitsInv /\ ReadersInv
        /\ SP!AtMostOnce /\ SP!ReadersCurrent /\ SP!PlacesInv /\ SP!CallsInv
        /\ DOMAIN ioFibers \subseteq SP!AllFds
    BY <1>1 DEF DemoIInv, SocketsInv, SP!ReadInv, SP!SockIInv, SP!FdTypes
  <2>1. IsInjective(Queue)
    BY <2>0 DEF SP!AtMostOnce, SP!IsInjective, IsInjective, SP!Queue, Queue
  <2>2. ASSUME NEW f \in Fibers
        PROVE  /\ SP!Queued(f) <=> Queued(f)
               /\ SP!HasTimer(f) <=> HasTimer(f)
               /\ SP!Live(f) <=> Live(f)
               /\ ~ParkedOnSem(f)
    <3>1. ~ParkedOnSem(f)
      BY <2>0 DEF UnitsInv, ParkedOnSem
    <3> QED
      BY <2>0, <3>1, Views DEF SP!Queued, Queued, SP!Queue, Queue, SP!Range, Range,
                               SP!HasTimer, HasTimer
  <2>3. ASSUME NEW f \in Fibers, Reading(f)
        PROVE  Live(f) /\ ~Queued(f) /\ cur # f
    <3>1. sockLoc[f] \in {"read", "accept"} /\ cur # f /\ ~SP!Queued(f)
      BY <2>0, <2>3 DEF Reading, SP!ReadersCurrent, SP!ParkedIn
    <3> QED
      BY <2>2, <3>1 DEF SP!Live
  <2>4. ASSUME NEW f \in Fibers, Live(f), ~Queued(f), cur # f, ~HasTimer(f)
        PROVE  Reading(f)
    <3>1. sockLoc[f] \in {"accept", "read"}
      BY <2>0, <2>2, <2>4 DEF SP!PlacesInv, SP!Placed
    <3>2. io[f].fd \in Sock!AllFds
      BY <2>0, <3>1 DEF SP!CallsInv, Sock!AllFds
    <3>3. Sock!Waiting(io[f].fd).r = f
      BY <2>0, <2>2, <2>4, <3>1, <3>2 DEF ReadersInv, SP!ParkedIn
    <3> QED
      BY <3>3, ConstantsAssumption DEF Sock!Waiting, Reading
  <2>5. ASSUME NEW f \in Fibers
        PROVE  LET roles == {r \in {"queued", "running", "sem", "waiting"} :
                                \/ r = "queued" /\ Queued(f)
                                \/ r = "running" /\ cur = f
                                \/ r = "sem" /\ ParkedOnSem(f)
                                \/ r = "waiting" /\ (HasTimer(f) \/ Reading(f))}
               IN  IF Live(f) THEN \E r \in roles : roles = {r} ELSE roles = {}
    <3>1. /\ ~(Queued(f) /\ cur = f)
          /\ HasTimer(f) => ~Queued(f) /\ cur # f
          /\ Queued(f) \/ cur = f \/ HasTimer(f) => Live(f)
      BY <2>0, <2>2 DEF SP!AtMostOnce, SP!Placed
    <3> QED
      BY <2>2, <2>3, <2>4, <3>1
  <2> QED
    BY <2>1, <2>5 DEF InOneRole
<1> QED
  BY <1>1, DemoInvariant, PTL
=============================================================================
