------------------------- MODULE XSocketClientProofs -------------------------
(***************************************************************************)
(* What is true of XSocket for some clients and peers, and not for all.    *)
(* As long as no connect is refused, a connection is open as long as it is *)
(* held.  As long as nobody calls Write, an entry of io_waiting_fibers_ is *)
(* for a reader that is parked, and as long as besides every fiber keeps   *)
(* the connection it has opened for itself, no reader is left behind.  As  *)
(* long as connections are only written to, by one fiber each, no writer   *)
(* is.  Each theorem names its hypotheses: a refused connect leaves a      *)
(* socket open for nobody, the entry of a Write that had to wait stays     *)
(* behind, a wake-up erases the entry of any fd the fiber has ever read,   *)
(* of two writers of a connection one is not registered, and input takes   *)
(* the event of a writer.                                                  *)
(***************************************************************************)
EXTENDS XSocketProofs

\* Two pushes that leave the same queue have pushed the same fiber.
LEMMA AppendSame ==
    ASSUME NEW S, NEW q \in Seq(S), NEW d \in S, NEW e \in S, Append(q, d) = Append(q, e)
    PROVE  d = e
<1>1. Append(q, d)[Len(q) + 1] = d /\ Append(q, e)[Len(q) + 1] = e
  OBVIOUS
<1> QED
  BY <1>1

-----------------------------------------------------------------------------
(* As long as every connect succeeds: a connection has an owner.           *)

HeldInv == \A fd \in Fds : net[fd].open => owners[fd] # {}

\* A connection is opened for an owner and closed with the last one.
LEMMA HeldNextKeeps ==
    ASSUME "refuse" \notin PeerMoves \/ "connect" \notin Calls
    PROVE  SockIInv /\ HeldInv /\ [SockNext]_allVars => HeldInv'
<1> SUFFICES ASSUME SockIInv, HeldInv, [SockNext]_allVars PROVE HeldInv'
  OBVIOUS
<1> USE DEF HeldInv
<1>0. FdTypes /\ Fds \subseteq AllFds
  BY DEF SockIInv, AllFds
<1>1. SockStep
  BY StepKinds
<1>2. CASE SchedulerStep
  BY <1>2 DEF SchedulerStep, kernelVars
<1>3. CASE EpollWait \/ EpollDone \/ \E e \in events : EpollEvent(e)
  <2>1. owners' = owners /\ \A fd \in AllFds : net'[fd].open = net[fd].open
    BY <1>0, <1>3, EpollWaitLooks DEF Looks, EpollDone, EpollEvent, sockVars, kernelVars
  <2> QED
    BY <1>0, <2>1
<1>4. CASE NetKeeps /\ UNCHANGED <<vars, fdVars, io, owners, events>>
  BY <1>0, <1>4 DEF NetKeeps
<1>5. ASSUME NEW f \in Fibers, NEW l, NEW c, CallMoves(f, l, c), NetKeeps
      PROVE  HeldInv'
  BY <1>0, <1>5 DEF CallMoves, NetKeeps
<1>6. ASSUME NEW f \in Fibers, NEW fd, NEW asReader, Parks(f, fd, asReader), NetKeeps
      PROVE  HeldInv'
  BY <1>0, <1>6 DEF Parks, Park, NetKeeps
<1>7. ASSUME NEW f \in Fibers, NEW fd \in Fds, Connects(f, fd)
      PROVE  HeldInv'
  BY <1>0, <1>7 DEF Connects, FdTypes
<1>8. ASSUME NEW f \in Fibers, NEW fd \in Fds, NEW g \in Fibers, Spawn(f, fd, g)
      PROVE  HeldInv'
  BY <1>0, <1>8 DEF Spawn, FdTypes, kernelVars
<1>9. ASSUME NEW f \in Fibers, NEW fd \in Fds, Drops(f, fd)
      PROVE  HeldInv'
  BY <1>0, <1>9 DEF Drops, DropConnection, FdTypes, Closed, kernelVars
<1> QED
  BY <1>1, <1>2, <1>3, <1>4, <1>5, <1>6, <1>7, <1>8, <1>9 DEF SockStep

\* Without refused connects a connection is open exactly as long as a live fiber
\* holds it: nobody uses a closed one and none stays open for nobody, whoever
\* accepted, shared or dropped it (Connection, shared_ptr of src/xsocket.cpp).
THEOREM ConnectionsLiveAsHeld ==
    ASSUME "refuse" \notin PeerMoves \/ "connect" \notin Calls
    PROVE  SockSpec => []OpenWhileHeld
<1>1. SockInit => HeldInv
  BY SocketConstantsAssumption DEF SockInit, HeldInv, AllFds, Closed
<1>2. SockIInv /\ HeldInv /\ [SockNext]_allVars => HeldInv'
  BY HeldNextKeeps
<1>3. SockIInv /\ HeldInv => OpenWhileHeld
  <2> SUFFICES ASSUME SockIInv, HeldInv, NEW fd \in Fds
               PROVE  net[fd].open <=> \E f \in owners[fd] : Live(f)
    BY DEF OpenWhileHeld
  <2>1. \A f \in owners[fd] : net[fd].open /\ Live(f)
    BY DEF SockIInv, OwnersInv
  <2> QED
    BY <2>1 DEF HeldInv
<1> QED
  BY <1>1, <1>2, <1>3, SockInvariant, PTL DEF SockSpec

-----------------------------------------------------------------------------
(* As long as nobody writes: an entry is for the reader that is parked.    *)

ReadInv ==
    /\ AtMostOnce
    /\ ReadersCurrent
    /\ \A f \in Fibers : loc[f] # "write"
    /\ \A fd \in DOMAIN ioFibers : ioFibers[fd].w = NoFiber /\ ioFibers[fd].r \in Fibers

\* What a step of any kind means for a reader f of fd: it is parked afterwards
\* only if it was before or parks now, and its entry stays unless a live fiber
\* that has also read fd is woken.
ReaderKept(f, fd) ==
    ParkedIn(f, {"read", "accept"}, fd)' =>
        \/ Waiting(fd)'.r = f
        \/ \E g \in Fibers \ {f} : Live(g) /\ fd \in readFds[g]
        \/ ParkedIn(f, {"read", "accept"}, fd) /\ Waiting(fd).r # f

AllReadersKept == \A f \in Fibers, fd \in AllFds : ReaderKept(f, fd)

\* Steps that touch neither the queue nor the registrations.
LEMMA ReadStutters ==
    ASSUME ReadInv, UNCHANGED <<queueVars, cur, loc, timerVars, fdVars, io, owners>>
    PROVE  ReadInv' /\ AllReadersKept
<1> USE DEF queueVars, timerVars, fdVars
<1>1. \A f \in Fibers : /\ Queued(f)' <=> Queued(f)
                        /\ HasTimer(f)' <=> HasTimer(f)
                        /\ Live(f)' <=> Live(f)
  BY DEF Queued, Queue, HasTimer, Live
<1>2. AtMostOnce'
  BY <1>1 DEF ReadInv, AtMostOnce, Placed, Queue
<1>3. ReadersCurrent' /\ AllReadersKept
  BY <1>1 DEF ReadInv, ReadersCurrent, ParkedIn, AllReadersKept, ReaderKept, Waiting
<1> QED
  BY <1>2, <1>3 DEF ReadInv

\* Steps of the scheduler: a reader that a timer schedules is in no entry any more.
LEMMA ReadSchedulerKeeps ==
    ASSUME SockIInv, ReadInv, SchedulerStep
    PROVE  ReadInv' /\ AllReadersKept
<1> USE DEF SockIInv, SchedulerStep
<1>0. /\ Locations \subseteq SockLocations /\ Phases \subseteq SockPhases
      /\ "accept" \notin Locations /\ "read" \notin Locations /\ "write" \notin Locations
      /\ "none" \in Locations
  BY DEF SockLocations, SockPhases, Locations, Phases
<1>1. AtMostOnce'
  BY <1>0, StepKeepsPlaces DEF ReadInv
<1>2. \A f \in Fibers :
        /\ loc[f] \notin Locations \/ loc'[f] \notin Locations => loc'[f] = loc[f]
        /\ loc[f] \notin Locations /\ (Queued(f) \/ cur = f)
           => Queued(f)' \/ cur' = f
  BY <1>0, StepKeepsForeign
<1>3. \A f \in Fibers :
        Queued(f)' \/ cur' = f
           => Queued(f) \/ cur = f \/ loc[f] = "none" \/ TimerWake(f)
  BY StepKeepsLives
<1>4. \/ ioFibers' = ioFibers /\ \A f \in Fibers : ~TimerWake(f)
      \/ \E g \in Fibers :
            /\ TimerWake(g)
            /\ ready' = Append(ready, g) /\ Queued(g)' /\ Live(g)
            /\ DOMAIN ioFibers' = DOMAIN ioFibers \ readFds[g]
            /\ \A fd \in DOMAIN ioFibers' : ioFibers'[fd] = ioFibers[fd]
  <2>1. ASSUME NEW g \in Fibers, TimerWake(g), ForgetFds(g)
        PROVE  /\ ready' = Append(ready, g) /\ Queued(g)' /\ Live(g)
               /\ DOMAIN ioFibers' = DOMAIN ioFibers \ readFds[g]
               /\ \A fd \in DOMAIN ioFibers' : ioFibers'[fd] = ioFibers[fd]
    <3>1. ready' = Append(ready, g) /\ running' = running
      BY <2>1, WakeOne DEF TimerWake, SchedTypes
    <3>2. Queued(g)'
      BY <3>1, QueueSteps DEF SchedTypes, Queued
    <3>3. Live(g)
      BY <2>1, WokenFirst DEF SchedTypes, ReadInv, AtMostOnce, Placed, HasTimer
    <3> QED
      BY <2>1, <3>1, <3>2, <3>3, Trimmed DEF ForgetFds
  <2> QED
    BY <2>1
<1>5. \A f, g \in Fibers : TimerWake(f) /\ ready' = Append(ready, g) => f = g
  <2> SUFFICES ASSUME NEW f \in Fibers, NEW g \in Fibers, TimerWake(f),
                      ready' = Append(ready, g)
               PROVE  f = g
    OBVIOUS
  <2>1. ready' = Append(ready, f) /\ ready \in Seq(Fibers)
    BY WakeOne DEF TimerWake, SchedTypes
  <2> QED
    BY <2>1, AppendSame
<1>6. ReadersCurrent'
  <2> SUFFICES ASSUME NEW fd \in DOMAIN ioFibers', NEW f \in Fibers,
                      ioFibers'[fd].r = f
               PROVE  /\ ParkedIn(f, {"read", "accept"}, fd)'
                      /\ fd # Listener => f \in owners'[fd]
    BY DEF ReadersCurrent
  <2>1. fd \in DOMAIN ioFibers /\ ioFibers[fd].r = f
    BY <1>4
  <2>2. ParkedIn(f, {"read", "accept"}, fd) /\ (fd # Listener => f \in owners[fd])
    BY <2>1 DEF ReadInv, ReadersCurrent
  <2>3. fd \in readFds[f]
    BY <2>1, ConstantsAssumption DEF EntriesInv
  <2>4. ~TimerWake(f)
    BY <1>4, <1>5, <2>3
  <2>5. ~Queued(f)' /\ cur' # f /\ loc'[f] = loc[f]
    BY <1>0, <1>2, <1>3, <2>2, <2>4 DEF ParkedIn
  <2> QED
    BY <2>2, <2>5 DEF ParkedIn
<1>7. AllReadersKept
  <2> SUFFICES ASSUME NEW f \in Fibers, NEW fd \in AllFds,
                      ParkedIn(f, {"read", "accept"}, fd)',
                      Waiting(fd).r = f \/ ~ParkedIn(f, {"read", "accept"}, fd)
               PROVE  \/ Waiting(fd)'.r = f
                      \/ \E g \in Fibers \ {f} : Live(g) /\ fd \in readFds[g]
    BY DEF AllReadersKept, ReaderKept
  <2>1. ParkedIn(f, {"read", "accept"}, fd)
    BY <1>0, <1>2 DEF ParkedIn
  <2>2. fd \in DOMAIN ioFibers /\ ioFibers[fd].r = f
    BY <2>1, ConstantsAssumption DEF Waiting
  <2>3. ~Queued(f)'
    BY DEF ParkedIn
  <2> QED
    BY <1>4, <2>2, <2>3 DEF Waiting
<1> QED
  BY <1>0, <1>1, <1>2, <1>4, <1>6, <1>7 DEF ReadInv

\* An event goes to the parked reader it is for, who is scheduled once and in no
\* entry afterwards.
LEMMA ReadEpollEventKeeps ==
    ASSUME SockIInv, ReadInv, NEW e \in events, EpollEvent(e)
    PROVE  ReadInv' /\ AllReadersKept
<1> USE DEF SockIInv, EpollEvent
<1>0. e \in EventRecord /\ e.fd \in AllFds
  BY DEF FdTypes, EventRecord
<1>1. CASE Target(e) = NoFiber
  BY <1>1, ReadStutters DEF queueVars, timerVars, fdVars
<1>2. CASE Target(e) # NoFiber
  <2>1. e.fd \in DOMAIN ioFibers /\ Target(e) = ioFibers[e.fd].r /\ Target(e) \in Fibers
    BY <1>2 DEF Target, Waiting, ReadInv
  <2>2. PICK g \in Fibers : g = Target(e)
    BY <2>1
  <2>3. ParkedIn(g, {"read", "accept"}, e.fd)
    BY <2>1, <2>2 DEF ReadInv, ReadersCurrent
  <2>4. ~Queued(g) /\ cur # g /\ Live(g)
    BY <2>3 DEF ParkedIn, Live
  <2>5. /\ WakeUpFibers(<<g>>)
        /\ ioFibers' = Restrict(ioFibers, DOMAIN ioFibers \ readFds[g])
    BY <1>2, <2>2 DEF WakeUp, WakeUpFibers, ForgetFds
  <2>6. AtMostOnce' /\ \A f \in Fibers : Queued(f)' <=> Queued(f) \/ f = g
    BY <2>4, <2>5, WakeOneKeepsPlaces DEF ReadInv
  <2>7. /\ DOMAIN ioFibers' = DOMAIN ioFibers \ readFds[g]
        /\ \A fd \in DOMAIN ioFibers' : ioFibers'[fd] = ioFibers[fd]
    BY <2>5, Trimmed
  <2>8. ReadersCurrent'
    <3> SUFFICES ASSUME NEW fd \in DOMAIN ioFibers', NEW f \in Fibers,
                        ioFibers'[fd].r = f
                 PROVE  /\ ParkedIn(f, {"read", "accept"}, fd)'
                        /\ fd # Listener => f \in owners'[fd]
      BY DEF ReadersCurrent
    <3>1. fd \in DOMAIN ioFibers /\ ioFibers[fd].r = f /\ fd \notin readFds[g]
      BY <2>7
    <3>2. f # g
      BY <3>1, ConstantsAssumption DEF EntriesInv
    <3> QED
      BY <2>6, <3>1, <3>2 DEF ReadInv, ReadersCurrent, ParkedIn
  <2>9. AllReadersKept
    <3> SUFFICES ASSUME NEW f \in Fibers, NEW fd \in AllFds,
                        ParkedIn(f, {"read", "accept"}, fd)',
                        Waiting(fd).r = f \/ ~ParkedIn(f, {"read", "accept"}, fd)
                 PROVE  \/ Waiting(fd)'.r = f
                        \/ \E h \in Fibers \ {f} : Live(h) /\ fd \in readFds[h]
      BY DEF AllReadersKept, ReaderKept
    <3>1. f # g /\ ParkedIn(f, {"read", "accept"}, fd)
      BY <2>6 DEF ParkedIn
    <3>2. fd \in DOMAIN ioFibers /\ ioFibers[fd].r = f
      BY <3>1, ConstantsAssumption DEF Waiting
    <3> QED
      BY <2>4, <2>7, <3>1, <3>2 DEF Waiting
  <2> QED
    BY <2>6, <2>7, <2>8, <2>9 DEF ReadInv
<1> QED
  BY <1>1, <1>2

\* The fiber on the CPU is in no entry, so a call it begins, goes on with or ends
\* concerns no registered reader.
LEMMA ReadCallMovesKeeps ==
    ASSUME SockIInv, ReadInv, "write" \notin Calls,
           NEW f \in Fibers, NEW l, NEW c, CallMoves(f, l, c)
    PROVE  ReadInv' /\ AllReadersKept
<1> USE DEF SockIInv, CallMoves, queueVars, timerVars, fdVars
<1>1. \A g \in Fibers : /\ Queued(g)' <=> Queued(g)
                        /\ HasTimer(g)' <=> HasTimer(g)
                        /\ Live(g)' <=> Live(g)
  BY DEF Queued, Queue, HasTimer, Live, SchedTypes
<1>2. AtMostOnce'
  BY <1>1 DEF ReadInv, AtMostOnce, Placed, Queue
<1>3. \A g \in Fibers \ {f} : loc'[g] = loc[g] /\ io'[g] = io[g]
  BY DEF SchedTypes, FdTypes
<1>4. ReadersCurrent'
  BY <1>1, <1>3 DEF ReadInv, ReadersCurrent, ParkedIn
<1>5. AllReadersKept
  BY <1>1, <1>3 DEF ParkedIn, AllReadersKept, ReaderKept, Waiting
<1>6. \A g \in Fibers : loc'[g] # "write"
  BY <1>3 DEF ReadInv, SchedTypes
<1> QED
  BY <1>2, <1>4, <1>5, <1>6 DEF ReadInv

\* A reader that parks is registered, unless another reader is.
LEMMA ReadParksKeeps ==
    ASSUME SockIInv, ReadInv,
           NEW f \in Fibers, NEW fd \in AllFds, NEW asReader \in BOOLEAN,
           Parks(f, fd, asReader)
    PROVE  ReadInv' /\ AllReadersKept
<1> USE DEF SockIInv, Parks, Park
<1>0. asReader = TRUE /\ loc[f] \in {"read", "accept"}
  BY DEF ReadInv
<1>1. RegisterFd(f, fd, asReader)
  BY DEF RegisterFd
<1>2. /\ DOMAIN ioFibers' = DOMAIN ioFibers \cup {fd}
      /\ \A d \in DOMAIN ioFibers : ioFibers'[d] = ioFibers[d]
      /\ fd \notin DOMAIN ioFibers
         => ioFibers'[fd] = IF asReader THEN [r |-> f, w |-> NoFiber]
                                        ELSE [r |-> NoFiber, w |-> f]
  <2>1. FdTypes
    OBVIOUS
  <2>2. EntryAdded(f, fd, asReader)
    BY ONLY <1>1, <2>1, Registered, f \in Fibers, fd \in AllFds, asReader \in BOOLEAN
  <2> QED
    BY ONLY <2>2 DEF EntryAdded
<1>3. fd \notin DOMAIN ioFibers => ioFibers'[fd] = [r |-> f, w |-> NoFiber]
  BY <1>0, <1>2
<1>4. AtMostOnce' /\ \A g \in Fibers : Queued(g)' <=> Queued(g)
  <2>1. PICK d \in Nat \cup {-1} : d = io[f].expireAt
    BY DEF FdTypes, CallRecord
  <2>2. RegisterDeadline(f, d)
    BY <2>1 DEF RegisterDeadline
  <2>3. UNCHANGED <<ready, running, loc>>
    BY DEF queueVars
  <2> QED
    BY <2>2, <2>3, ParkKeepsPlaces DEF ReadInv
<1>5. ~Queued(f) /\ cur' = NoFiber /\ NoFiber \notin Fibers
  BY ConstantsAssumption DEF ReadInv, AtMostOnce
<1>6. f \in owners[fd] \/ fd = Listener
  BY <1>0 DEF CallsInv
<1>7. ReadersCurrent'
  <2> SUFFICES ASSUME NEW d \in DOMAIN ioFibers', NEW g \in Fibers,
                      ioFibers'[d].r = g
               PROVE  /\ ParkedIn(g, {"read", "accept"}, d)'
                      /\ d # Listener => g \in owners'[d]
    BY DEF ReadersCurrent
  <2>1. CASE d \in DOMAIN ioFibers
    BY <1>2, <1>4, <1>5, <2>1 DEF ReadInv, ReadersCurrent, ParkedIn
  <2>2. CASE d \notin DOMAIN ioFibers
    BY <1>0, <1>2, <1>3, <1>4, <1>5, <1>6, <2>2 DEF ParkedIn
  <2> QED
    BY <2>1, <2>2
<1>8. AllReadersKept
  <2> SUFFICES ASSUME NEW g \in Fibers, NEW d \in AllFds,
                      ParkedIn(g, {"read", "accept"}, d)',
                      Waiting(d).r = g \/ ~ParkedIn(g, {"read", "accept"}, d)
               PROVE  \/ Waiting(d)'.r = g
                      \/ \E h \in Fibers \ {g} : Live(h) /\ d \in readFds[h]
    BY DEF AllReadersKept, ReaderKept
  <2>1. CASE Waiting(d).r = g
    BY <1>2, <2>1, ConstantsAssumption DEF Waiting
  <2>2. CASE Waiting(d).r # g
    <3>1. g = f /\ d = fd
      BY <1>4, <1>5, <2>2 DEF ParkedIn
    <3>2. CASE fd \notin DOMAIN ioFibers
      BY <1>2, <1>3, <3>1, <3>2 DEF Waiting
    <3>3. CASE fd \in DOMAIN ioFibers
      <4>1. PICK h \in Fibers : h = ioFibers[fd].r
        BY <3>3 DEF ReadInv
      <4>2. ParkedIn(h, {"read", "accept"}, fd) /\ h # NoFiber
        BY <3>3, <4>1, ConstantsAssumption DEF ReadInv, ReadersCurrent
      <4>3. h # f /\ Live(h) /\ fd \in readFds[h]
        BY <3>3, <4>1, <4>2 DEF ParkedIn, Live, EntriesInv
      <4> QED
        BY <3>1, <4>3
    <3> QED
      BY <3>2, <3>3
  <2> QED
    BY <2>1, <2>2
<1>9. \A d \in DOMAIN ioFibers' : ioFibers'[d].w = NoFiber /\ ioFibers'[d].r \in Fibers
  BY <1>2, <1>3 DEF ReadInv
<1> QED
  BY <1>4, <1>7, <1>8, <1>9 DEF ReadInv

\* Nobody is registered for a number that is free, so none for a new connection.
LEMMA ReadConnectsKeeps ==
    ASSUME SockIInv, ReadInv, NEW f \in Fibers, NEW fd \in Fds, Connects(f, fd)
    PROVE  ReadInv' /\ AllReadersKept
<1> USE DEF SockIInv, Connects, queueVars, timerVars, fdVars
<1>1. \A g \in Fibers : /\ Queued(g)' <=> Queued(g)
                        /\ HasTimer(g)' <=> HasTimer(g)
                        /\ Live(g)' <=> Live(g)
  BY DEF Queued, Queue, HasTimer, Live, SchedTypes
<1>2. AtMostOnce'
  BY <1>1 DEF ReadInv, AtMostOnce, Placed, Queue
<1>3. \A g \in Fibers \ {f} : loc'[g] = loc[g] /\ io'[g] = io[g]
  BY DEF SchedTypes
<1>4. \A d \in Fds : owners[d] \subseteq owners'[d]
  BY DEF OwnersInv, FdTypes
<1>5. ReadersCurrent'
  BY <1>1, <1>3, <1>4 DEF ReadInv, ReadersCurrent, ParkedIn, FdTypes, AllFds
<1>6. AllReadersKept
  BY <1>1, <1>3 DEF ParkedIn, AllReadersKept, ReaderKept, Waiting
<1>7. \A g \in Fibers : loc'[g] # "write"
  BY <1>3 DEF ReadInv, SchedTypes
<1> QED
  BY <1>2, <1>5, <1>6, <1>7 DEF ReadInv

\* A fiber that is created is no reader yet.
LEMMA ReadSpawnKeeps ==
    ASSUME SockIInv, ReadInv, NEW f \in Fibers, NEW fd \in Fds, NEW g \in Fibers,
           Spawn(f, fd, g)
    PROVE  ReadInv' /\ AllReadersKept
<1> USE DEF SockIInv, Spawn, fdVars
<1>0. Locations \subseteq SockLocations /\ Phases \subseteq SockPhases
  BY DEF SockLocations, SockPhases
<1>1. AtMostOnce'
  <2>1. [Next]_vars
    BY DEF Next
  <2> QED
    BY <1>0, <2>1, StepKeepsPlaces DEF ReadInv
<1>2. /\ ready' = Append(ready, g) /\ UNCHANGED <<running, cur>>
      /\ loc[g] = "none" /\ loc'[g] = "user"
      /\ \A h \in Fibers \ {g} : loc'[h] = loc[h]
  BY DEF CreateFiber, SchedTypes
<1>3. \A h \in Fibers : Queued(h)' <=> Queued(h) \/ h = g
  BY <1>2, QueueSteps DEF SchedTypes, Queued
<1>4. \A d \in Fds : owners[d] \subseteq owners'[d]
  BY DEF FdTypes
<1>5. ReadersCurrent'
  BY <1>2, <1>3, <1>4 DEF ReadInv, ReadersCurrent, ParkedIn, FdTypes, AllFds
<1>6. AllReadersKept
  BY <1>2, <1>3 DEF ParkedIn, AllReadersKept, ReaderKept, Waiting
<1>7. \A h \in Fibers : loc'[h] # "write"
  BY <1>2 DEF ReadInv
<1> QED
  BY <1>1, <1>5, <1>6, <1>7 DEF ReadInv

\* A connection ends without a reader; its last owner wakes nobody and goes on or
\* ends.
LEMMA ReadDropsKeeps ==
    ASSUME SockIInv, ReadInv, NEW f \in Fibers, NEW fd \in Fds, Drops(f, fd)
    PROVE  ReadInv' /\ AllReadersKept
<1> USE DEF SockIInv, Drops
<1>0. fd \in AllFds /\ fd # Listener /\ NoFiber \notin Fibers
  BY SocketConstantsAssumption, ConstantsAssumption DEF AllFds
<1>1. /\ UNCHANGED <<ready, expireEvents, ioFibers>>
      /\ owners' = [owners EXCEPT ![fd] = @ \ {f}]
  <2>1. CASE owners[fd] = {f}
    <3>1. UnregisterFd(fd)
      BY <2>1 DEF DropConnection
    <3>2. fd \notin DOMAIN ioFibers
      BY <1>0, <3>1 DEF UnregisterFd, Waiting, ReadInv
    <3>3. UNCHANGED <<ready, expireEvents>>
          /\ ioFibers' = Restrict(ioFibers, DOMAIN ioFibers \ {fd})
      BY <3>1, <3>2 DEF UnregisterFd, Waiting
    <3>4. ioFibers' = ioFibers
      <4>1. DOMAIN ioFibers \ {fd} = DOMAIN ioFibers
        BY <3>2
      <4> QED
        BY <3>3, <4>1 DEF Restrict, FdTypes
    <3> QED
      BY <3>3, <3>4 DEF DropConnection
  <2>2. CASE owners[fd] # {f}
    BY <2>2 DEF DropConnection
  <2> QED
    BY <2>1, <2>2
<1>2. /\ \A g \in Fibers : Queued(g)' <=> Queued(g)
      /\ \A g \in Fibers \ {f} : loc'[g] = loc[g] /\ (cur' = g <=> cur = g)
      /\ loc'[f] \in {"user", "freed"}
  BY <1>0, <1>1 DEF Queued, Queue, SchedTypes
<1>3. AtMostOnce'
  <2>1. CASE UNCHANGED <<cur, loc>>
    <3>1. \A g \in Fibers : HasTimer(g)' <=> HasTimer(g)
      BY <1>1 DEF HasTimer
    <3> QED
      BY <1>1, <1>2, <2>1, <3>1 DEF ReadInv, AtMostOnce, Placed, Live, Queue
  <2>2. CASE cur' = NoFiber /\ loc' = [loc EXCEPT ![f] = "freed"]
    <3>1. Finish(f)
      BY <1>1, <2>2 DEF Finish, InUser, queueVars, timerVars
    <3>2. [Next]_vars
      BY <3>1 DEF Next, GiveUpCpu
    <3> QED
      BY <3>2, StepKeepsPlaces DEF ReadInv, SockLocations, SockPhases
  <2> QED
    BY <2>1, <2>2
<1>4. ReadersCurrent'
  <2> SUFFICES ASSUME NEW d \in DOMAIN ioFibers, NEW g \in Fibers, ioFibers[d].r = g
               PROVE  /\ ParkedIn(g, {"read", "accept"}, d)'
                      /\ d # Listener => g \in owners'[d]
    BY <1>1 DEF ReadersCurrent
  <2>1. ParkedIn(g, {"read", "accept"}, d) /\ (d # Listener => g \in owners[d])
    BY DEF ReadInv, ReadersCurrent
  <2>2. g # f /\ d \in AllFds
    BY <2>1 DEF ParkedIn, FdTypes
  <2> QED
    BY <1>1, <1>2, <2>1, <2>2 DEF ParkedIn, FdTypes, AllFds
<1>5. AllReadersKept
  BY <1>1, <1>2 DEF ParkedIn, AllReadersKept, ReaderKept, Waiting
<1>6. \A g \in Fibers : loc'[g] # "write"
  BY <1>2 DEF ReadInv
<1> QED
  BY <1>1, <1>3, <1>4, <1>5, <1>6 DEF ReadInv

\* Every kind of step, when nobody writes.
LEMMA ReadNextKeeps ==
    ASSUME "write" \notin Calls
    PROVE  SockIInv /\ ReadInv /\ [SockNext]_allVars => ReadInv' /\ AllReadersKept
<1> SUFFICES ASSUME SockIInv, ReadInv, [SockNext]_allVars
             PROVE  ReadInv' /\ AllReadersKept
  OBVIOUS
<1>1. SockStep
  BY StepKinds
<1>2. CASE SchedulerStep
  BY <1>2, ReadSchedulerKeeps
<1>3. CASE \E e \in events : EpollEvent(e)
  BY <1>3, ReadEpollEventKeeps
<1>4. CASE \/ EpollWait \/ EpollDone
           \/ UNCHANGED <<vars, fdVars, io, owners, events>>
           \/ \E f \in Fibers, fd \in Fds : ConnectRefused(f, fd)
  <2>1. UNCHANGED <<queueVars, cur, loc, timerVars, fdVars, io, owners>>
    BY <1>4 DEF EpollWait, EpollDone, ConnectRefused, vars, sockVars, queueVars, timerVars
  <2> QED
    BY <2>1, ReadStutters
<1>5. ASSUME NEW f \in Fibers, NEW l \in SockLocations, NEW c \in CallRecord,
             CallMoves(f, l, c)
      PROVE  ReadInv' /\ AllReadersKept
  BY <1>5, ReadCallMovesKeeps
<1>6. ASSUME NEW f \in Fibers, NEW fd \in AllFds, NEW asReader \in BOOLEAN,
             Parks(f, fd, asReader)
      PROVE  ReadInv' /\ AllReadersKept
  BY <1>6, ReadParksKeeps
<1>7. ASSUME NEW f \in Fibers, NEW fd \in Fds,
             \/ Connects(f, fd)
             \/ \E g \in Fibers : Spawn(f, fd, g)
             \/ Drops(f, fd)
      PROVE  ReadInv' /\ AllReadersKept
  BY <1>7, ReadConnectsKeeps, ReadSpawnKeeps, ReadDropsKeeps
<1> QED
  BY <1>1, <1>2, <1>3, <1>4, <1>5, <1>6, <1>7 DEF SockStep

\* At the start nobody is anywhere.
LEMMA ReadInitInv == SockInit => ReadInv
<1> SUFFICES ASSUME SockInit PROVE ReadInv
  OBVIOUS
<1> USE DEF SockInit, Init
<1>1. \A f \in Fibers : ~Queued(f) /\ ~HasTimer(f) /\ cur # f
  BY ConstantsAssumption DEF Queued, Queue, HasTimer, Range
<1>2. IsInjective(Queue)
  BY DEF Queue, IsInjective
<1> QED
  BY <1>1, <1>2 DEF ReadInv, AtMostOnce, Placed, ReadersCurrent

\* Both invariants hold in every state when nobody writes.
LEMMA ReadInvariant ==
    ASSUME "write" \notin Calls
    PROVE  SockSpec => [](SockIInv /\ ReadInv)
<1>1. SockIInv /\ ReadInv /\ [SockNext]_allVars => ReadInv'
  BY ReadNextKeeps
<1> QED
  BY <1>1, ReadInitInv, SockInvariant, PTL DEF SockSpec

\* Without writers no event or timer is for a wait that is over, and no connection
\* is destroyed under its reader: an entry of io_waiting_fibers_ is always for a
\* fiber parked in a read of that fd (RegisterWaitingEvents, WakeUpFiber).
THEOREM EntriesNeverStale ==
    ASSUME "write" \notin Calls
    PROVE  SockSpec => []ReadersCurrent
<1>1. ReadInv => ReadersCurrent
  BY DEF ReadInv
<1> QED
  BY <1>1, ReadInvariant, PTL

\* Without writers WakeUpFiber prevents the double wake-up: epoll, the timers and
\* the destructor never schedule a fiber twice, or one that has the CPU.
THEOREM NeverWokenTwice ==
    ASSUME "write" \notin Calls
    PROVE  SockSpec => []WokenOnce
<1>1. ReadInv => WokenOnce
  BY DEF ReadInv, AtMostOnce, WokenOnce
<1> QED
  BY <1>1, ReadInvariant, PTL

\* Without writers nothing that was deleted is scheduled or registered (Dispatch
\* deletes a finished fiber, the maps hold plain pointers).
THEOREM FreedNeverScheduled ==
    ASSUME "write" \notin Calls
    PROVE  SockSpec => []NoFreedScheduled
<1>1. ReadInv => NoFreedScheduled
  <2> SUFFICES ASSUME ReadInv, NEW f \in Fibers, loc[f] = "freed"
               PROVE  /\ ~Queued(f) /\ ~HasTimer(f)
                      /\ \A fd \in DOMAIN ioFibers :
                            f \notin {ioFibers[fd].r, ioFibers[fd].w}
    BY DEF NoFreedScheduled
  <2>1. ~Queued(f) /\ ~HasTimer(f)
    BY DEF ReadInv, AtMostOnce, Placed, Live
  <2>2. \A fd \in DOMAIN ioFibers : ioFibers[fd].r # f /\ ioFibers[fd].w # f
    BY ConstantsAssumption DEF ReadInv, ReadersCurrent, ParkedIn
  <2> QED
    BY <2>1, <2>2
<1> QED
  BY <1>1, ReadInvariant, PTL

\* Without writers a reader that parks is registered and stays so until it is
\* woken, unless another live fiber has ever read this fd (RegisterWaitingEvents
\* and WakeUpFiber).
THEOREM ReadersStayRegistered ==
    ASSUME "write" \notin Calls
    PROVE  SockSpec => ReaderRegistered
<1>1. SockIInv /\ ReadInv /\ [SockNext]_allVars =>
        [\A f \in Fibers, fd \in AllFds :
            (/\ ParkedIn(f, {"read", "accept"}, fd)'
             /\ ParkedIn(f, {"read", "accept"}, fd) => Waiting(fd).r = f
             /\ Waiting(fd).w = NoFiber
             /\ \A g \in Fibers \ {f} : Live(g) => fd \notin readFds[g])
            => Waiting(fd)'.r = f]_allVars
  BY ReadNextKeeps DEF AllReadersKept, ReaderKept
<1> QED
  BY <1>1, ReadInvariant, PTL DEF SockSpec, ReaderRegistered

-----------------------------------------------------------------------------
(* Lemmas about the places of the fibers: who is neither scheduled nor on  *)
(* the CPU nor under a timer is inside a call.  That a fiber inside a call *)
(* is also registered is what the sections above and below are about.      *)

\* A live fiber that is not scheduled, on the CPU or under a timer is in a call.
PlacesInv == \A f \in Fibers : Live(f) => Placed(f) \/ loc[f] \in {"accept", "read"}

\* When nobody is taken from the queue, a timer or the CPU, and nobody leaves a
\* call, nobody is lost.
LEMMA PlacesMonotone ==
    ASSUME PlacesInv,
           \A f \in Fibers : Placed(f) => Placed(f)',
           \A f \in Fibers : loc'[f] = loc[f] \/ Placed(f)'
    PROVE  PlacesInv'
BY DEF PlacesInv, Live

\* No step of the sockets or the scheduler loses a fiber.
LEMMA PlacesNextKeeps ==
    ASSUME "write" \notin Calls
    PROVE  SockIInv /\ ReadInv /\ PlacesInv /\ [SockNext]_allVars => PlacesInv'
<1> SUFFICES ASSUME SockIInv, ReadInv, PlacesInv, [SockNext]_allVars
             PROVE  PlacesInv'
  OBVIOUS
<1> USE DEF queueVars, timerVars, Placed
<1>0. SchedTypes(SockLocations, SockPhases) /\ PhaseInv /\ AtMostOnce /\ FdTypes
  BY DEF SockIInv, ReadInv
<1>1. SockStep
  BY StepKinds
<1>2. ASSUME [Next]_vars PROVE PlacesInv'
  <2>1. Locations \subseteq SockLocations /\ Phases \subseteq SockPhases
    BY DEF SockLocations, SockPhases
  <2>2. \A f \in Fibers :
            /\ Live(f)' /\ ~Placed(f)' => Live(f) /\ ~Placed(f)
            /\ loc[f] \notin Locations => loc'[f] = loc[f]
    BY <1>0, <1>2, <2>1, StepKeepsPlaces, StepKeepsForeign
  <2> QED
    BY <2>2 DEF PlacesInv, Locations
<1>3. CASE UNCHANGED <<queueVars, cur, loc, timerVars>>
  BY <1>3 DEF PlacesInv, Queued, Queue, HasTimer, Live
<1>4. ASSUME NEW f \in Fibers, WakeUpFibers(<<f>>), ~Queued(f), cur # f, Live(f),
             UNCHANGED <<running, cur, loc, expireAt>>
      PROVE  PlacesInv'
  <2>1. \A g \in Fibers : Queued(g)' <=> Queued(g) \/ g = f
    BY <1>0, <1>4, WakeOneKeepsPlaces
  <2>2. \A g \in Fibers : HasTimer(g) => HasTimer(g)' \/ g = f
    BY <1>0, <1>4, WakeOne DEF HasTimer, SchedTypes
  <2> QED
    BY <1>4, <2>1, <2>2, PlacesMonotone
<1>5. ASSUME NEW e \in events, EpollEvent(e) PROVE PlacesInv'
  <2>1. UNCHANGED <<running, cur, loc, expireAt>>
    BY <1>5 DEF EpollEvent
  <2>2. CASE Target(e) = NoFiber
    BY <1>3, <1>5, <2>1, <2>2 DEF EpollEvent
  <2>3. CASE Target(e) # NoFiber
    <3>1. PICK fd \in DOMAIN ioFibers : ioFibers[fd].r = Target(e)
      BY <2>3 DEF Target, Waiting, ReadInv
    <3>2. Target(e) \in Fibers /\ ParkedIn(Target(e), {"read", "accept"}, fd)
      BY <3>1 DEF ReadInv, ReadersCurrent
    <3>3. WakeUpFibers(<<Target(e)>>)
      BY <1>5, <2>3 DEF EpollEvent, WakeUp
    <3> QED
      BY <1>4, <2>1, <3>2, <3>3 DEF ParkedIn, Live
  <2> QED
    BY <2>2, <2>3
<1>6. ASSUME NEW f \in Fibers, NEW l, NEW c, CallMoves(f, l, c) PROVE PlacesInv'
  BY <1>0, <1>6 DEF CallMoves, PlacesInv, Queued, Queue, HasTimer, SchedTypes, Live
<1>7. ASSUME NEW f \in Fibers, NEW fd \in AllFds, NEW asReader \in BOOLEAN,
             Parks(f, fd, asReader)
      PROVE  PlacesInv'
  <2>1. /\ cur = f /\ loc[f] \in {"accept", "read"}
        /\ RegisterDeadline(f, io[f].expireAt)
        /\ UNCHANGED <<ready, running, loc>>
    BY <1>7 DEF Parks, Park, ReadInv
  <2>2. \A g \in Fibers : Queued(g) => Queued(g)'
    BY <2>1 DEF Queued, Queue
  <2>3. \A g \in Fibers : HasTimer(g) => HasTimer(g)'
    BY <2>1 DEF HasTimer, RegisterDeadline
  <2> QED
    BY <2>1, <2>2, <2>3 DEF PlacesInv, Live
<1>8. ASSUME NEW f \in Fibers, NEW fd \in Fds, Connects(f, fd) PROVE PlacesInv'
  BY <1>0, <1>8 DEF Connects, PlacesInv, Queued, Queue, HasTimer, SchedTypes, Live
<1>9. ASSUME NEW f \in Fibers, NEW fd \in Fds, NEW g \in Fibers, Spawn(f, fd, g)
      PROVE  PlacesInv'
  BY <1>2, <1>9 DEF Spawn, Next
<1>10. ASSUME NEW f \in Fibers, NEW fd \in Fds, Drops(f, fd) PROVE PlacesInv'
  <2>1. UNCHANGED <<ready, running, expireEvents>>
    BY <1>10 DEF Drops, DropConnection, UnregisterFd, Waiting, ReadInv
  <2> QED
    BY <1>0, <1>10, <2>1 DEF Drops, PlacesInv, Queued, Queue, HasTimer, SchedTypes, Live
<1> QED
  <2>1. CASE SchedulerStep
    BY <1>2, <2>1 DEF SchedulerStep
  <2>2. CASE \/ EpollWait \/ EpollDone
             \/ UNCHANGED <<vars, fdVars, io, owners, events>>
             \/ \E f \in Fibers, fd \in Fds : ConnectRefused(f, fd)
    BY <1>3, <2>2 DEF EpollWait, EpollDone, ConnectRefused, vars
  <2> QED
    BY <1>1, <1>5, <1>6, <1>7, <1>8, <1>9, <1>10, <2>1, <2>2 DEF SockStep

-----------------------------------------------------------------------------
(* As long as every fiber keeps the connection it has opened for itself:   *)
(* whoever waits for input is reached.                                     *)

\* Only its owner, one fiber, has read from a connection, and an owner is never
\* parked in a read without being registered for it.
PrivateInv ==
    /\ \A f \in Fibers : loc[f] # "accept"
    /\ \A f \in Fibers : loc[f] = "none" => readFds[f] = {}
    /\ \A f \in Fibers : Live(f) => \A fd \in readFds[f] : fd \in Fds /\ f \in owners[fd]
    /\ \A fd \in Fds : \A f, g \in owners[fd] : f = g
    /\ \A f \in Fibers, fd \in AllFds :
        ParkedIn(f, {"read", "accept"}, fd) => Waiting(fd).r = f

\* A step of the scheduler creates no fiber that has run before, and revives none.
LEMMA LivesOnce ==
    ASSUME SchedTypes(SockLocations, SockPhases), PhaseInv, [Next]_vars
    PROVE  \A f \in Fibers : /\ loc'[f] = "none" => loc[f] = "none"
                             /\ Live(f)' => Live(f) \/ loc[f] = "none"
<1> USE DEF Live, SchedTypes
<1>1. ASSUME NEW g \in Fibers,
             \/ CreateFiber(g) \/ Yield(g) \/ Finish(g) \/ TimerWake(g)
             \/ \E ms \in SleepTimes : SleepMs(g, ms)
      PROVE  \A f \in Fibers : /\ loc'[f] = "none" => loc[f] = "none"
                               /\ Live(f)' => Live(f) \/ loc[f] = "none"
  BY <1>1 DEF CreateFiber, Yield, Finish, TimerWake, SleepMs, InUser
<1>2. CASE RunNext
  BY <1>2 DEF RunNext
<1>3. CASE \/ EnterDispatch \/ StartRound \/ EnterTimers \/ TimersDone \/ TimerErase
           \/ EpollIdle \/ Tick \/ UNCHANGED vars
  BY <1>3, SchedulerMoves DEF TimerErase
<1> QED
  BY <1>1, <1>2, <1>3 DEF Next, Dispatch, GiveUpCpu

\* What keeps the connections private: nobody enters an Accept, the fds a live fiber
\* has read are its own, and who is new among the owners of one is on the CPU.
KeptPrivate ==
    /\ \A f \in Fibers : loc'[f] # "accept"
    /\ \A f \in Fibers : loc'[f] = "none" => readFds'[f] = {}
    /\ \A f \in Fibers : Live(f)' => \A fd \in readFds'[f] : fd \in Fds /\ f \in owners'[fd]
    /\ \A fd \in Fds : \A f, g \in owners'[fd] : f = g
    /\ \A fd \in Fds : \A f \in owners'[fd] : f \in owners[fd] \/ cur' = f

\* Every kind of step, when nobody accepts, shares, closes or writes.
LEMMA PrivateKept ==
    ASSUME Calls \subseteq {"connect", "read"}, SockIInv, ReadInv, PrivateInv,
           [SockNext]_allVars
    PROVE  KeptPrivate
<1> USE DEF PrivateInv, KeptPrivate
<1>0. SchedTypes(SockLocations, SockPhases) /\ PhaseInv /\ FdTypes /\ CallsInv /\ OwnersInv
  BY DEF SockIInv
<1>1. SockStep
  BY StepKinds
<1>2. CASE SchedulerStep
  <2>1. UNCHANGED <<readFds, owners>>
    BY <1>2 DEF SchedulerStep
  <2>2. \A f \in Fibers : /\ loc'[f] = "none" => loc[f] = "none"
                          /\ Live(f)' => Live(f) \/ loc[f] = "none"
    BY <1>0, <1>2, LivesOnce DEF SchedulerStep
  <2>3. \A f \in Fibers : loc'[f] # "accept"
    <3>1. Locations \subseteq SockLocations /\ Phases \subseteq SockPhases
          /\ "accept" \notin Locations
      BY DEF SockLocations, SockPhases, Locations
    <3> QED
      BY <1>0, <1>2, <3>1, StepKeepsForeign DEF SchedulerStep
  <2> QED
    BY <2>1, <2>2, <2>3
<1>3. CASE UNCHANGED <<loc, readFds, owners>>
  BY <1>3 DEF Live
<1>4. CASE \/ EpollWait \/ EpollDone \/ \E e \in events : EpollEvent(e)
           \/ UNCHANGED <<vars, fdVars, io, owners, events>>
           \/ \E f \in Fibers, fd \in Fds : ConnectRefused(f, fd)
  BY <1>3, <1>4 DEF EpollWait, EpollDone, EpollEvent, ConnectRefused, vars, fdVars, sockVars
<1>5. ASSUME NEW f \in Fibers, NEW l, NEW c, CallMoves(f, l, c) PROVE KeptPrivate
  <2>1. /\ Live(f) /\ l # "none" /\ l # "accept"
        /\ loc' = [loc EXCEPT ![f] = l] /\ UNCHANGED <<readFds, owners>>
    BY <1>5 DEF CallMoves, fdVars
  <2> QED
    BY <1>0, <2>1 DEF SchedTypes, Live
<1>6. ASSUME NEW f \in Fibers, NEW fd \in AllFds, NEW asReader \in BOOLEAN,
             Parks(f, fd, asReader)
      PROVE  KeptPrivate
  <2>1. /\ loc[f] = "read" /\ fd \in Fds /\ f \in owners[fd]
        /\ RegisterFd(f, fd, asReader) /\ UNCHANGED <<loc, owners>>
    BY <1>0, <1>6 DEF Parks, Park, CallsInv, ReadInv
  <2>2. readFds' = readFds \/ readFds' = [readFds EXCEPT ![f] = @ \cup {fd}]
    BY <2>1 DEF RegisterFd, fdVars
  <2> QED
    BY <1>0, <2>1, <2>2 DEF FdTypes, Live
<1>7. ASSUME NEW f \in Fibers, NEW fd \in Fds, Connects(f, fd) PROVE KeptPrivate
  <2>1. /\ cur' = f /\ Live(f) /\ readFds' = readFds
        /\ loc' = [loc EXCEPT ![f] = "user"]
        /\ owners' = [owners EXCEPT ![fd] = {f}]
        /\ owners[fd] = {}
    BY <1>0, <1>7 DEF Connects, fdVars, OwnersInv
  <2> QED
    BY <1>0, <2>1 DEF FdTypes, SchedTypes, Live
<1>8. ASSUME NEW f \in Fibers, NEW fd \in Fds, Drops(f, fd) PROVE KeptPrivate
  <2>1. /\ loc' = [loc EXCEPT ![f] = "freed"] /\ readFds' = readFds
        /\ owners' = [owners EXCEPT ![fd] = @ \ {f}]
    BY <1>8 DEF Drops, DropConnection
  <2> QED
    BY <1>0, <2>1 DEF FdTypes, SchedTypes, Live
<1> QED
  BY <1>1, <1>2, <1>4, <1>5, <1>6, <1>7, <1>8 DEF SockStep

\* Another fiber that has read the fd would be an owner of it like the reader, so
\* nobody's wake-up erases the reader's entry.
LEMMA PrivateNextKeeps ==
    ASSUME Calls \subseteq {"connect", "read"}
    PROVE  SockIInv /\ ReadInv /\ PrivateInv /\ [SockNext]_allVars => PrivateInv'
<1> SUFFICES ASSUME SockIInv, ReadInv, PrivateInv, [SockNext]_allVars
             PROVE  PrivateInv'
  OBVIOUS
<1>1. KeptPrivate /\ AllReadersKept /\ SockIInv'
  BY PrivateKept, ReadNextKeeps, SockNextKeeps
<1>2. ASSUME NEW f \in Fibers, NEW fd \in AllFds, ParkedIn(f, {"read", "accept"}, fd)'
      PROVE  Waiting(fd)'.r = f
  <2>1. cur' # f /\ fd \in Fds /\ f \in owners'[fd]
    BY <1>1, <1>2 DEF ParkedIn, KeptPrivate, SockIInv, CallsInv
  <2>2. f \in owners[fd]
    BY <1>1, <2>1 DEF KeptPrivate
  <2>3. ASSUME NEW g \in Fibers \ {f}, Live(g), fd \in readFds[g] PROVE FALSE
    BY <2>1, <2>2, <2>3 DEF PrivateInv
  <2> QED
    BY <1>1, <1>2, <2>3 DEF AllReadersKept, ReaderKept, PrivateInv
<1> QED
  BY <1>1, <1>2 DEF KeptPrivate, PrivateInv

\* When every fiber reads only from connections it has opened itself, shares none and
\* keeps it until it ends, no reader is dropped: as long as one is parked it is in
\* io_waiting_fibers_, and whatever its peer sends is on its way to it as an edge or
\* an event, over timeouts, wake-ups of other fibers and reused descriptors
\* (RegisterWaitingEvents and WakeUpFiber of src/xfiber.cpp, Read of src/xsocket.cpp).
THEOREM ReadersNeverStranded ==
    ASSUME Calls \subseteq {"connect", "read"}
    PROVE  SockSpec => []ReaderNotStranded
<1>1. SockInit => PrivateInv
  BY DEF SockInit, Init, PrivateInv, Live, ParkedIn
<1>2. SockIInv /\ ReadInv /\ PrivateInv /\ [SockNext]_allVars => PrivateInv'
  BY PrivateNextKeeps
<1>3. SockIInv /\ PrivateInv => ReaderNotStranded
  <2> SUFFICES ASSUME SockIInv, PrivateInv, NEW f \in Fibers, NEW fd \in AllFds,
                      ParkedIn(f, {"read", "accept"}, fd), Readable(fd)
               PROVE  /\ Waiting(fd).r = f
                      /\ fd \in edges \/ \E e \in events : e.fd = fd /\ e.in
    BY DEF ReaderNotStranded
  <2>1. Waiting(fd).r = f
    BY DEF PrivateInv
  <2>2. fd \in DOMAIN ioFibers /\ ioFibers[fd].r = f
    BY <2>1, ConstantsAssumption DEF Waiting
  <2> QED
    BY <2>1, <2>2 DEF SockIInv, InputOnItsWay
<1>4. SockSpec => [](SockIInv /\ ReadInv)
  BY ReadInvariant
<1> QED
  BY <1>1, <1>2, <1>3, <1>4, PTL DEF SockSpec

-----------------------------------------------------------------------------
(* As long as connections are only written to, by one fiber each: whoever  *)
(* waits for room is reached.                                              *)

\* A writer parked on fd is registered; and the peer has closed, or the buffer is
\* full and the kernel owes an event for it, or this event is on its way.
WriterReached(fd) ==
    /\ fd \in DOMAIN ioFibers
    /\ \/ net[fd].fin
       \/ net[fd].room = 0 /\ net[fd].noSpace
       \/ fd \in edges
       \/ \E e \in events : e.fd = fd /\ e.out

\* Only Accept reads; an entry of a connection is its only owner's, as a writer;
\* nothing but the end of the input is ever there to read, so an event with IN
\* that goes past the writer says that the peer has closed.
WriteInv ==
    /\ \A f \in Fibers : loc[f] # "read" /\ readFds[f] \subseteq {Listener}
    /\ \A fd \in Fds : \A f, g \in owners[fd] : f = g
    /\ \A fd \in DOMAIN ioFibers \ {Listener} :
        ioFibers[fd].r = NoFiber /\ owners[fd] = {ioFibers[fd].w}
    /\ \A fd \in Fds : net[fd].inbox = 0 /\ (net[fd].reset => net[fd].fin)
    /\ \A e \in events : e.fd # Listener /\ e.in => net[e.fd].fin
    /\ \A f \in Fibers, fd \in Fds : ParkedIn(f, {"write"}, fd) => WriterReached(fd)

\* What the proofs below use of the general invariant: the entry of a connection
\* a parked writer waits for is its own, and there are no events while a fiber runs.
LEMMA WriterEntries ==
    ASSUME SockIInv, WriteInv
    PROVE  /\ Fds \subseteq AllFds \ {Listener}
           /\ \A f \in Fibers, fd \in Fds :
                ParkedIn(f, {"write"}, fd) =>
                    fd \in DOMAIN ioFibers /\ Waiting(fd) = [r |-> NoFiber, w |-> f]
           /\ \A fd \in Fds : ~net[fd].open => fd \notin DOMAIN ioFibers
           /\ cur \in Fibers => events = {}
<1> USE DEF SockIInv
<1>1. Fds \subseteq AllFds \ {Listener}
  BY SocketConstantsAssumption DEF AllFds
<1>2. ASSUME NEW f \in Fibers, NEW fd \in Fds, ParkedIn(f, {"write"}, fd)
      PROVE  fd \in DOMAIN ioFibers /\ Waiting(fd) = [r |-> NoFiber, w |-> f]
  <2>1. fd \in DOMAIN ioFibers /\ f \in owners[fd]
    BY <1>2 DEF WriteInv, WriterReached, ParkedIn, CallsInv
  <2>2. ioFibers[fd] \in WaitingFibers
    BY <2>1 DEF FdTypes
  <2>3. ioFibers[fd].r = NoFiber /\ ioFibers[fd].w = f
    BY <1>1, <2>1 DEF WriteInv
  <2> QED
    BY <2>1, <2>2, <2>3 DEF Waiting, WaitingFibers
<1>3. \A fd \in Fds : ~net[fd].open => fd \notin DOMAIN ioFibers
  BY <1>1 DEF OwnersInv, WriteInv
<1>4. cur \in Fibers => events = {}
  BY ConstantsAssumption DEF PhaseInv, KernelInv
<1> QED
  BY <1>1, <1>2, <1>3, <1>4

\* Steps of the scheduler: timers take readers out of the entry of the listener.
LEMMA WriteSchedulerKeeps ==
    ASSUME SockIInv, WriteInv, SchedulerStep
    PROVE  WriteInv'
<1> USE DEF SockIInv, SchedulerStep, kernelVars
<1>0. /\ Locations \subseteq SockLocations /\ Phases \subseteq SockPhases
      /\ "read" \notin Locations /\ "write" \notin Locations
  BY DEF SockLocations, SockPhases, Locations, Phases
<1>1. \A f \in Fibers :
        /\ loc[f] \notin Locations \/ loc'[f] \notin Locations => loc'[f] = loc[f]
        /\ loc[f] \notin Locations /\ (Queued(f) \/ cur = f)
           => Queued(f)' \/ cur' = f
  BY <1>0, StepKeepsForeign
<1>2. /\ DOMAIN ioFibers \ {Listener} \subseteq DOMAIN ioFibers'
      /\ DOMAIN ioFibers' \subseteq DOMAIN ioFibers
      /\ \A fd \in DOMAIN ioFibers' : ioFibers'[fd] = ioFibers[fd]
  <2>1. CASE ioFibers' = ioFibers
    BY <2>1
  <2>2. ASSUME NEW g \in Fibers, ForgetFds(g)
        PROVE  /\ DOMAIN ioFibers' = DOMAIN ioFibers \ readFds[g]
               /\ \A fd \in DOMAIN ioFibers' : ioFibers'[fd] = ioFibers[fd]
    BY <2>2, Trimmed DEF ForgetFds
  <2> QED
    BY <2>1, <2>2 DEF WriteInv
<1>3. ASSUME NEW f \in Fibers, NEW fd \in Fds, ParkedIn(f, {"write"}, fd)'
      PROVE  WriterReached(fd)'
  <2>1. ParkedIn(f, {"write"}, fd)
    BY <1>0, <1>1, <1>3 DEF ParkedIn
  <2>2. WriterReached(fd) /\ fd # Listener
    BY <2>1, WriterEntries DEF WriteInv
  <2> QED
    BY <1>2, <2>2 DEF WriterReached
<1>4. \A f \in Fibers : loc'[f] # "read"
  BY <1>0, <1>1 DEF WriteInv
<1> QED
  BY <1>2, <1>3, <1>4 DEF WriteInv

\* An edge with room becomes an event; one without leaves the event owed.
LEMMA WriteEpollWaitKeeps ==
    ASSUME SockIInv, WriteInv, EpollWait
    PROVE  WriteInv'
<1> USE DEF SockIInv
<1>1. PICK looked \in SUBSET edges : Looks(looked)
  BY EpollWaitLooks
<1> USE <1>1 DEF Looks, queueVars, timerVars, fdVars
<1>2. \A fd \in Fds : net'[fd].inbox = 0 /\ (net'[fd].reset => net'[fd].fin)
  BY DEF WriteInv, AllFds
<1>3. \A e \in events' : e.fd # Listener /\ e.in => net'[e.fd].fin
  <2> SUFFICES ASSUME NEW e \in events', e.fd # Listener, e.in
               PROVE  net'[e.fd].fin
    OBVIOUS
  <2>1. PICK fd \in looked :
            e = [fd |-> fd, in |-> Readable(fd), out |-> Writable(fd)]
    OBVIOUS
  <2>2. e.fd = fd /\ Readable(fd)
    BY <2>1
  <2>3. fd \in Fds
    BY <2>2 DEF FdTypes, AllFds
  <2> QED
    BY <1>1, <2>2, <2>3 DEF WriteInv, Readable, AllFds
<1>4. ASSUME NEW f \in Fibers, NEW fd \in Fds, ParkedIn(f, {"write"}, fd)'
      PROVE  WriterReached(fd)'
  <2>1. WriterReached(fd) /\ fd \in AllFds
    BY <1>4 DEF WriteInv, ParkedIn, Queued, Queue, AllFds
  <2>2. CASE net[fd].fin \/ (net[fd].room = 0 /\ net[fd].noSpace)
    BY <1>1, <2>1, <2>2 DEF WriterReached
  <2>3. CASE fd \in looked /\ Writable(fd)
    <3> DEFINE e == [fd |-> fd, in |-> Readable(fd), out |-> Writable(fd)]
    <3>1. e \in events' /\ e.fd = fd /\ e.out
      BY <2>3
    <3> QED
      BY <2>1, <3>1 DEF WriterReached
  <2>4. CASE fd \in looked /\ ~Writable(fd)
    <3>1. net[fd].room = 0
      BY <2>1, <2>4 DEF Writable, FdTypes, Socket
    <3> QED
      BY <1>1, <2>1, <2>4, <3>1 DEF WriterReached
  <2>5. CASE fd \in edges'
    BY <2>1, <2>5 DEF WriterReached
  <2> QED
    BY <2>1, <2>2, <2>3, <2>4, <2>5 DEF WriterReached, KernelInv
<1> QED
  BY <1>2, <1>3, <1>4 DEF WriteInv

\* An event with OUT alone wakes the writer of the entry; others leave it there.
LEMMA WriteEpollEventKeeps ==
    ASSUME SockIInv, WriteInv, NEW e \in events, EpollEvent(e)
    PROVE  WriteInv'
<1> USE DEF SockIInv, EpollEvent, kernelVars
<1>0. e \in EventRecord /\ e.fd \in AllFds /\ Target(e) \in Fibers \cup {NoFiber}
  <2>1. e \in EventRecord /\ e.fd \in AllFds
    BY DEF FdTypes, EventRecord
  <2> QED
    BY <2>1 DEF Target, Waiting, FdTypes, WaitingFibers
<1>1. /\ DOMAIN ioFibers \ {Listener} \subseteq DOMAIN ioFibers'
      /\ DOMAIN ioFibers' \subseteq DOMAIN ioFibers
      /\ \A fd \in DOMAIN ioFibers' : ioFibers'[fd] = ioFibers[fd]
      /\ \A f \in Fibers : Queued(f) \/ f = Target(e) => Queued(f)'
  <2>1. CASE Target(e) = NoFiber
    BY <2>1, ConstantsAssumption DEF Queued, Queue
  <2>2. CASE Target(e) # NoFiber
    <3>1. PICK g \in Fibers : g = Target(e)
      BY <1>0, <2>2
    <3>2. /\ WakeUpFibers(<<g>>)
          /\ ioFibers' = Restrict(ioFibers, DOMAIN ioFibers \ readFds[g])
      BY <2>2, <3>1 DEF WakeUp, WakeUpFibers, ForgetFds
    <3>3. ready' = Append(ready, g)
      BY <3>2, WakeOne DEF SchedTypes
    <3>4. \A f \in Fibers : Queued(f) \/ f = g => Queued(f)'
      BY <3>3, QueueSteps DEF SchedTypes, Queued
    <3>5. /\ DOMAIN ioFibers' = DOMAIN ioFibers \ readFds[g]
          /\ \A fd \in DOMAIN ioFibers' : ioFibers'[fd] = ioFibers[fd]
      BY <3>2, Trimmed
    <3> QED
      BY <3>1, <3>4, <3>5 DEF WriteInv
  <2> QED
    BY <2>1, <2>2
<1>2. ASSUME NEW f \in Fibers, NEW fd \in Fds, ParkedIn(f, {"write"}, fd)'
      PROVE  WriterReached(fd)'
  <2>1. ParkedIn(f, {"write"}, fd) /\ f # Target(e)
    BY <1>1, <1>2 DEF ParkedIn
  <2>2. /\ WriterReached(fd) /\ fd # Listener
        /\ Waiting(fd) = [r |-> NoFiber, w |-> f]
    BY <2>1, WriterEntries DEF WriteInv
  <2>3. e.fd = fd => e.in /\ net[fd].fin
    BY <2>1, <2>2 DEF Target, WriteInv
  <2> QED
    BY <1>1, <2>2, <2>3 DEF WriterReached
<1> QED
  BY <1>1, <1>2 DEF WriteInv

\* Moves of the peers, whose sockets flow as NetKeeps says.
LEMMA WriteNetKeeps ==
    ASSUME SockIInv, WriteInv, NetKeeps, "send" \notin PeerMoves
    PROVE  /\ \A fd \in Fds : net'[fd].inbox = 0 /\ (net'[fd].reset => net'[fd].fin)
           /\ \A e \in events : e.fd # Listener /\ e.in => net'[e.fd].fin
           /\ \A fd \in Fds : WriterReached(fd) /\ fd \in DOMAIN ioFibers' /\ events' = events
                => WriterReached(fd)'
<1> USE DEF SockIInv
<1>1. ASSUME NEW fd \in Fds
      PROVE  net'[fd].inbox = 0 /\ (net'[fd].reset => net'[fd].fin)
  <2>1. net[fd].inbox = 0 /\ (net[fd].reset => net[fd].fin) /\ Flows(fd, net'[fd])
    BY DEF WriteInv, NetKeeps
  <2>2. net'[fd].inbox \in Nat
    BY DEF NetKeeps, Socket, AllFds
  <2> QED
    BY <2>1, <2>2 DEF Flows
<1>2. ASSUME NEW e \in events, e.fd # Listener, e.in
      PROVE  net'[e.fd].fin
  <2>1. e.fd \in Fds
    BY <1>2 DEF FdTypes, EventRecord, AllFds
  <2>2. net[e.fd].fin /\ Flows(e.fd, net'[e.fd])
    BY <1>2, <2>1 DEF WriteInv, NetKeeps
  <2> QED
    BY <2>2 DEF Flows
<1>3. ASSUME NEW fd \in Fds, WriterReached(fd), fd \in DOMAIN ioFibers', events' = events
      PROVE  WriterReached(fd)'
  BY <1>3 DEF WriterReached, NetKeeps, Flows
<1> QED
  BY <1>1, <1>2, <1>3

\* The fiber on the CPU is not parked; what it does in a call leaves the others'
\* entries alone.
LEMMA WriteCallMovesKeeps ==
    ASSUME SockIInv, WriteInv, "read" \notin Calls, "send" \notin PeerMoves, NetKeeps,
           NEW f \in Fibers, NEW l, NEW c, CallMoves(f, l, c)
    PROVE  WriteInv'
<1> USE DEF SockIInv, CallMoves, queueVars, fdVars
<1>1. \A g \in Fibers \ {f} : loc'[g] = loc[g] /\ io'[g] = io[g]
  BY DEF SchedTypes, FdTypes
<1>2. \A g \in Fibers : loc'[g] # "read"
  BY <1>1 DEF WriteInv, SchedTypes
<1>3. ASSUME NEW g \in Fibers, NEW fd \in Fds, ParkedIn(g, {"write"}, fd)'
      PROVE  WriterReached(fd)'
  <2>1. ParkedIn(g, {"write"}, fd)
    BY <1>1, <1>3 DEF ParkedIn, Queued, Queue
  <2>2. WriterReached(fd) /\ fd \in DOMAIN ioFibers'
    BY <2>1 DEF WriteInv, WriterReached
  <2> QED
    BY <2>2, WriteNetKeeps
<1> QED
  BY <1>2, <1>3, WriteNetKeeps DEF WriteInv

\* A writer that parks is registered, finds the buffer full, and has told the
\* kernel so.
LEMMA WriteParksKeeps ==
    ASSUME SockIInv, WriteInv, "send" \notin PeerMoves, NetKeeps,
           NEW f \in Fibers, NEW fd \in AllFds, NEW asReader \in BOOLEAN,
           Parks(f, fd, asReader)
    PROVE  WriteInv'
<1> USE DEF SockIInv, Parks, Park, queueVars
<1>0. /\ asReader => fd = Listener
      /\ ~asReader => fd \in Fds /\ owners[fd] = {f}
  BY DEF WriteInv, CallsInv, FdTypes
<1>1. RegisterFd(f, fd, asReader)
  BY DEF RegisterFd
<1>2. /\ DOMAIN ioFibers' = DOMAIN ioFibers \cup {fd}
      /\ \A d \in DOMAIN ioFibers : ioFibers'[d] = ioFibers[d]
      /\ fd \notin DOMAIN ioFibers
         => ioFibers'[fd] = IF asReader THEN [r |-> f, w |-> NoFiber]
                                        ELSE [r |-> NoFiber, w |-> f]
      /\ \A g \in Fibers : readFds'[g] \subseteq readFds[g] \cup {fd}
      /\ ~asReader => readFds' = readFds
  <2>1. FdTypes
    OBVIOUS
  <2>2. EntryAdded(f, fd, asReader)
    BY ONLY <1>1, <2>1, Registered, f \in Fibers, fd \in AllFds, asReader \in BOOLEAN
  <2> QED
    BY ONLY <2>2 DEF EntryAdded
<1>3. \A g \in Fibers : loc'[g] # "read" /\ readFds'[g] \subseteq {Listener}
  BY <1>0, <1>2 DEF WriteInv
<1>4. \A d \in DOMAIN ioFibers' \ {Listener} :
        ioFibers'[d].r = NoFiber /\ owners[d] = {ioFibers'[d].w}
  <2> SUFFICES ASSUME NEW d \in DOMAIN ioFibers' \ {Listener}
               PROVE  ioFibers'[d].r = NoFiber /\ owners[d] = {ioFibers'[d].w}
    OBVIOUS
  <2>1. CASE d \in DOMAIN ioFibers
    BY <1>2, <2>1 DEF WriteInv
  <2>2. CASE d \notin DOMAIN ioFibers
    <3>1. d = fd /\ ~asReader
      BY <1>0, <1>2, <2>2
    <3>2. ioFibers'[d] = [r |-> NoFiber, w |-> f]
      BY <1>2, <2>2, <3>1
    <3> QED
      BY <1>0, <3>1, <3>2
  <2> QED
    BY <2>1, <2>2
<1>5. ASSUME NEW g \in Fibers, NEW d \in Fds, ParkedIn(g, {"write"}, d)'
      PROVE  WriterReached(d)'
  <2>1. CASE g = f
    <3>1. d = fd /\ fd # Listener
      BY <1>5, <2>1, WriterEntries DEF ParkedIn
    <3> QED
      BY <1>0, <1>2, <3>1 DEF WriterReached
  <2>2. CASE g # f
    <3>1. ParkedIn(g, {"write"}, d)
      BY <1>5, <2>2 DEF ParkedIn, Queued, Queue
    <3>2. WriterReached(d) /\ d \in DOMAIN ioFibers'
      BY <1>2, <3>1 DEF WriteInv, WriterReached
    <3> QED
      BY <3>2, WriteNetKeeps
  <2> QED
    BY <2>1, <2>2
<1> QED
  BY <1>3, <1>4, <1>5, WriteNetKeeps DEF WriteInv

\* A new connection has a number nobody is registered for, and nothing to read.
LEMMA WriteOpensKeeps ==
    ASSUME SockIInv, WriteInv, NEW f \in Fibers, NEW fd \in Fds,
           Connects(f, fd) \/ ConnectRefused(f, fd)
    PROVE  WriteInv'
<1> USE DEF SockIInv, queueVars, fdVars
<1>1. /\ cur = f /\ ~net[fd].open /\ fd \in AllFds
      /\ net'[fd].inbox = 0 /\ ~net'[fd].reset
      /\ \A d \in Fds \ {fd} : net'[d] = net[d] /\ owners'[d] = owners[d]
      /\ edges \subseteq edges'
      /\ UNCHANGED <<queueVars, cur, fdVars, events>>
      /\ owners'[fd] \subseteq {f} \cup owners[fd]
  <2>1. CASE Connects(f, fd)
    BY <2>1 DEF Connects, FdTypes, Fresh, Closed, AllFds
  <2>2. CASE ConnectRefused(f, fd)
    BY <2>2 DEF ConnectRefused, InUser, LowestFree, FdTypes, Unconnected, Fresh, Closed,
                AllFds, vars
  <2> QED
    BY <2>1, <2>2
<1>2. \A g \in Fibers \ {f} : loc'[g] = loc[g] /\ io'[g] = io[g]
  BY DEF Connects, ConnectRefused, SchedTypes, vars
<1>3. loc'[f] = "user"
  BY DEF Connects, ConnectRefused, InUser, SchedTypes, vars
<1>4. fd \notin DOMAIN ioFibers /\ events = {} /\ owners[fd] = {}
  BY <1>1, WriterEntries DEF OwnersInv
<1>5. \A d \in DOMAIN ioFibers \ {Listener} :
        ioFibers[d].r = NoFiber /\ owners'[d] = {ioFibers[d].w}
  BY <1>1, <1>4 DEF WriteInv, FdTypes, AllFds
<1>6. ASSUME NEW g \in Fibers, NEW d \in Fds, ParkedIn(g, {"write"}, d)'
      PROVE  WriterReached(d)'
  <2>1. g # f
    BY <1>3, <1>6 DEF ParkedIn
  <2>2. ParkedIn(g, {"write"}, d)
    BY <1>1, <1>2, <1>6, <2>1 DEF ParkedIn, Queued, Queue
  <2>3. WriterReached(d) /\ d # fd
    BY <1>4, <2>2 DEF WriteInv, WriterReached
  <2> QED
    BY <1>1, <2>3 DEF WriterReached
<1> QED
  BY <1>1, <1>2, <1>3, <1>4, <1>5, <1>6 DEF WriteInv

\* The only owner of a connection lets go of it: it is not parked in a write, and
\* nobody else is registered for this number.
LEMMA WriteDropsKeeps ==
    ASSUME SockIInv, WriteInv, NEW f \in Fibers, NEW fd \in Fds, Drops(f, fd)
    PROVE  WriteInv'
<1> USE DEF SockIInv, Drops
<1>0. /\ fd \in AllFds /\ cur = f /\ loc[f] = "user"
      /\ owners[fd] = {f} /\ events = {} /\ Fds \subseteq AllFds \ {Listener}
  BY WriterEntries DEF WriteInv, FdTypes, AllFds
<1>1. /\ UnregisterFd(fd)
      /\ owners' = [owners EXCEPT ![fd] = {}]
      /\ net' = [net EXCEPT ![fd] = Closed]
      /\ edges' = edges \ {fd}
  BY <1>0 DEF DropConnection, FdTypes
<1>2. /\ DOMAIN ioFibers' \subseteq DOMAIN ioFibers \ {fd}
      /\ \A d \in DOMAIN ioFibers' : ioFibers'[d] = ioFibers[d]
      /\ DOMAIN ioFibers \ {fd, Listener} \subseteq DOMAIN ioFibers'
      /\ ready' = ready \/ \E g \in Fibers : ready' = Append(ready, g)
  BY <1>1, Unregistered DEF WriteInv
<1>3. \A g \in Fibers : Queued(g) => Queued(g)'
  <2>1. running' = running
    OBVIOUS
  <2>2. CASE ready' = ready
    BY <2>1, <2>2 DEF Queued, Queue
  <2>3. ASSUME NEW h \in Fibers, ready' = Append(ready, h)
        PROVE  \A g \in Fibers : Queued(g) => Queued(g)'
    BY <2>1, <2>3, QueueSteps DEF SchedTypes, Queued
  <2> QED
    BY <1>2, <2>2, <2>3
<1>4. /\ \A g \in Fibers \ {f} : loc'[g] = loc[g]
      /\ loc'[f] \in {"user", "freed"}
  BY <1>0 DEF SchedTypes
<1>5. /\ \A d \in Fds \ {fd} : net'[d] = net[d] /\ owners'[d] = owners[d]
      /\ owners'[fd] = {} /\ net'[fd].inbox = 0 /\ ~net'[fd].reset
  BY <1>0, <1>1 DEF FdTypes, Closed
<1>6. \A d \in DOMAIN ioFibers' \ {Listener} :
        ioFibers'[d].r = NoFiber /\ owners'[d] = {ioFibers'[d].w}
  BY <1>2, <1>5 DEF WriteInv, FdTypes, AllFds
<1>7. ASSUME NEW g \in Fibers, NEW d \in Fds, ParkedIn(g, {"write"}, d)'
      PROVE  WriterReached(d)'
  <2>1. g # f
    BY <1>4, <1>7 DEF ParkedIn
  <2>2. ParkedIn(g, {"write"}, d)
    BY <1>0, <1>3, <1>4, <1>7, <2>1 DEF ParkedIn
  <2>3. WriterReached(d) /\ g \in owners[d]
    BY <2>2 DEF WriteInv, ParkedIn, CallsInv
  <2>4. d # fd /\ d # Listener
    BY <1>0, <2>1, <2>3
  <2> QED
    BY <1>1, <1>2, <1>5, <2>3, <2>4 DEF WriterReached
<1>8. \A g \in Fibers : loc'[g] # "read"
  BY <1>4 DEF WriteInv
<1> QED
  BY <1>0, <1>5, <1>6, <1>7, <1>8 DEF WriteInv

\* Every kind of step, when connections are only written to and not shared.
LEMMA WriteNextKeeps ==
    ASSUME "read" \notin Calls, "share" \notin Calls, "send" \notin PeerMoves
    PROVE  SockIInv /\ WriteInv /\ [SockNext]_allVars => WriteInv'
<1> SUFFICES ASSUME SockIInv, WriteInv, [SockNext]_allVars
             PROVE  WriteInv'
  OBVIOUS
<1>1. SockStep
  BY StepKinds
<1>2. CASE SchedulerStep
  BY <1>2, WriteSchedulerKeeps
<1>3. CASE EpollWait \/ \E e \in events : EpollEvent(e)
  BY <1>3, WriteEpollWaitKeeps, WriteEpollEventKeeps
<1>4. CASE EpollDone
  BY <1>4 DEF EpollDone, WriteInv, WriterReached, ParkedIn, Queued, Queue,
              queueVars, sockVars, fdVars, kernelVars
<1>5. CASE NetKeeps /\ UNCHANGED <<vars, fdVars, io, owners, events>>
  <2>1. \A f \in Fibers, fd \in Fds :
            ParkedIn(f, {"write"}, fd)' <=> ParkedIn(f, {"write"}, fd)
    BY <1>5 DEF vars, ParkedIn, Queued, Queue
  <2>2. \A fd \in Fds : WriterReached(fd) => WriterReached(fd)'
    BY <1>5, WriteNetKeeps DEF fdVars, WriterReached
  <2> QED
    BY <1>5, <2>1, <2>2, WriteNetKeeps DEF WriteInv, vars, fdVars
<1>6. ASSUME NEW f \in Fibers, NEW l \in SockLocations, NEW c \in CallRecord,
             CallMoves(f, l, c), NetKeeps
      PROVE  WriteInv'
  BY <1>6, WriteCallMovesKeeps
<1>7. ASSUME NEW f \in Fibers, NEW fd \in AllFds, NEW asReader \in BOOLEAN,
             Parks(f, fd, asReader), NetKeeps
      PROVE  WriteInv'
  BY <1>7, WriteParksKeeps
<1>8. ASSUME NEW f \in Fibers, NEW fd \in Fds,
             Connects(f, fd) \/ ConnectRefused(f, fd) \/ Drops(f, fd)
      PROVE  WriteInv'
  BY <1>8, WriteOpensKeeps, WriteDropsKeeps
<1> QED
  BY <1>1, <1>2, <1>3, <1>4, <1>5, <1>6, <1>7, <1>8 DEF SockStep

\* At the start nobody is parked and no connection is open.
LEMMA WriteInitInv == SockInit => WriteInv
BY SocketConstantsAssumption
   DEF SockInit, Init, WriteInv, ParkedIn, Closed, AllFds

\* A writer that waits for room is never left behind, for any number of writers
\* and connections, whatever the peers read and whatever they close, reset or
\* refuse: as long as the peer has not closed, room that appears is on its way to
\* the registered fiber.  The hypotheses say that connections are used in one
\* direction by one fiber each (Write, WakeUpFiber and Dispatch; with readers or
\* input the event can go past the writer).
THEOREM WritersNeverStranded ==
    ASSUME "read" \notin Calls, "share" \notin Calls, "send" \notin PeerMoves
    PROVE  SockSpec => []WriterNotStranded
<1>1. SockIInv /\ WriteInv => WriterNotStranded
  <2> SUFFICES ASSUME SockIInv, WriteInv, NEW f \in Fibers, NEW fd \in Fds,
                      ParkedIn(f, {"write"}, fd), Writable(fd), ~net[fd].fin
               PROVE  /\ Waiting(fd).w = f
                      /\ fd \in edges \/ \E e \in events : e.fd = fd /\ e.out
    BY DEF WriterNotStranded
  <2>1. Waiting(fd).w = f
    BY WriterEntries
  <2>2. net[fd].room \in Nat /\ (net[fd].reset => net[fd].fin)
    BY DEF SockIInv, FdTypes, Socket, AllFds, WriteInv
  <2>3. net[fd].room # 0
    BY <2>2 DEF Writable
  <2> QED
    BY <2>1, <2>3 DEF WriteInv, WriterReached
<1>2. SockIInv /\ WriteInv /\ [SockNext]_allVars => WriteInv'
  BY WriteNextKeeps
<1> QED
  BY <1>1, <1>2, WriteInitInv, SockInvariant, PTL DEF SockSpec
=============================================================================
