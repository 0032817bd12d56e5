---------------------------- MODULE XSocketProofs ----------------------------
(***************************************************************************)
(* Proofs about the sockets, for every set of fibers and descriptors and   *)
(* whatever calls the clients make and the peers do.                       *)
(***************************************************************************)
EXTENDS XSocket, SchedulerLemmas

SockPhases == Phases \cup {"events"}

CallRecord == [fd : AllFds \cup {NoFd}, left : Nat, expireAt : Nat \cup {-1}]

EventRecord == [fd : AllFds, in : BOOLEAN, out : BOOLEAN]

\* The types of the variables that XSocket adds.
FdTypes ==
    /\ DOMAIN ioFibers \subseteq AllFds
    /\ ioFibers \in [DOMAIN ioFibers -> WaitingFibers]
    /\ readFds \in [Fibers -> SUBSET AllFds]
    /\ io \in [Fibers -> CallRecord]
    /\ owners \in [Fds -> SUBSET Fibers]
    /\ net \in [AllFds -> Socket]
    /\ edges \subseteq AllFds
    /\ events \subseteq EventRecord

\* A call is on the listener, by a fiber that holds nothing, or on the connection
\* its fiber holds.
CallsInv ==
    \A f \in Fibers :
        /\ loc[f] = "accept" => io[f].fd = Listener /\ ~Holds(f)
        /\ loc[f] \in {"read", "write"} => io[f].fd \in Fds /\ f \in owners[io[f].fd]

\* Only live fibers hold connections, one at most, and these are open.
OwnersInv ==
    \A fd \in Fds : \A f \in owners[fd] :
        /\ net[fd].open
        /\ Live(f)
        /\ \A d \in Fds : f \in owners[d] => d = fd

\* The reader in an entry has noted the fd, so its wake-up erases the entry; and
\* a connection stays open as long as a reader is registered for it.
EntriesInv ==
    \A fd \in DOMAIN ioFibers : ioFibers[fd].r # NoFiber =>
        /\ fd \in readFds[ioFibers[fd].r]
        /\ fd # Listener => net[fd].open

\* Events exist only while they are handled; nobody closes the listening socket.
KernelInv ==
    /\ phase # "events" => events = {}
    /\ ~net[Listener].fin

SockIInv ==
    /\ SchedTypes(SockLocations, SockPhases)
    /\ PhaseInv
    /\ FdTypes
    /\ CallsInv
    /\ OwnersInv
    /\ EntriesInv
    /\ KernelInv
    /\ InputOnItsWay

-----------------------------------------------------------------------------
(* What the kinds of steps do, in the terms of the invariant.              *)

\* When the socket fd becomes s: an end of the input stays, a reset is one, only a
\* peer that sends adds input, and a full buffer for which the kernel owes an event
\* stays so or has an edge.
Flows(fd, s) ==
    /\ net[fd].fin => s.fin
    /\ s.reset => net[fd].reset \/ s.fin
    /\ s.inbox > net[fd].inbox => "send" \in PeerMoves
    /\ net[fd].room = 0 /\ net[fd].noSpace
       => (s.room = 0 /\ s.noSpace) \/ fd \in edges'

\* No socket is opened or closed, no edge is lost, and what becomes readable
\* has an edge.
NetKeeps ==
    /\ net' \in [AllFds -> Socket]
    /\ edges \subseteq edges' /\ edges' \subseteq AllFds
    /\ net'[Listener].fin = net[Listener].fin
    /\ \A fd \in AllFds :
        /\ net'[fd].open = net[fd].open
        /\ Readable(fd)' => Readable(fd) \/ fd \in edges'
    /\ \A fd \in Fds : Flows(fd, net'[fd])

\* The fiber on the CPU enters a call, goes on in it or returns from it.
CallMoves(f, l, c) ==
    /\ cur = f /\ Live(f)
    /\ l \in SockLocations \ {"none", "freed"}
    /\ c \in CallRecord
    /\ l = "accept" => c.fd = Listener /\ ~Holds(f)
    /\ l \in {"read", "write"} => c.fd \in Fds /\ f \in owners[c.fd]
    /\ l \in {"accept", "read", "write"} => l = loc[f] \/ l \in Calls
    /\ loc' = [loc EXCEPT ![f] = l]
    /\ io' = [io EXCEPT ![f] = c]
    /\ UNCHANGED <<queueVars, cur, phase, nowMs, clock, timerVars, fdVars, owners, events>>

\* It parks in a call on fd: as a reader that has found nothing to read, or as a
\* writer that has found no room.
Parks(f, fd, asReader) ==
    /\ cur = f /\ fd = io[f].fd
    /\ loc[f] \in IF asReader THEN {"accept", "read"} ELSE {"write"}
    /\ Park(f, asReader)
    /\ IF asReader THEN ~Readable(fd)' ELSE net'[fd].room = 0 /\ net'[fd].noSpace

\* AcceptReturns and ConnectTCP: the free number fd is a connection of f with
\* nothing to read; f, which held none, is back in the application.
Connects(f, fd) ==
    /\ cur = f /\ Live(f) /\ ~Holds(f)
    /\ ~net[fd].open
    /\ owners' = [owners EXCEPT ![fd] = {f}]
    /\ net' \in [AllFds -> Socket]
    /\ net'[fd] = Fresh
    /\ \A d \in Fds \ {fd} : net'[d] = net[d]
    /\ \A d \in AllFds \ {fd} : /\ net'[d].open = net[d].open
                                /\ net'[d].fin = net[d].fin
                                /\ Readable(d)' => Readable(d)
    /\ edges' = edges \cup {fd}
    /\ loc' = [loc EXCEPT ![f] = "user"]
    /\ io' \in [Fibers -> CallRecord]
    /\ \A g \in Fibers \ {f} : io'[g] = io[g]
    /\ UNCHANGED <<queueVars, cur, phase, nowMs, clock, timerVars, fdVars, events>>

\* Close and FinishHolding: f lets go of fd and goes on or ends.
Drops(f, fd) ==
    /\ cur = f /\ loc[f] = "user" /\ f \in owners[fd]
    /\ DropConnection(f, fd)
    /\ \/ "close" \in Calls /\ UNCHANGED <<cur, loc>>
       \/ cur' = NoFiber /\ loc' = [loc EXCEPT ![f] = "freed"]
    /\ UNCHANGED <<running, phase, nowMs, clock, expireAt, readFds, io, events>>

\* A step of Dispatch, of main, of the clock or of a fiber that leaves the CPU
\* without a connection: one of the scheduler, and a timer takes its fiber out of
\* the entries of the fds it has read.
SchedulerStep ==
    /\ [Next]_vars
    /\ \A f \in Fibers : Finish(f) => ~Holds(f)
    /\ \/ ioFibers' = ioFibers /\ \A f \in Fibers : ~TimerWake(f)
       \/ \E f \in Fibers : TimerWake(f) /\ ForgetFds(f)
    /\ UNCHANGED <<readFds, io, owners, kernelVars, events>>

\* One of these is what every step is.
SockStep ==
    \/ SchedulerStep
    \/ EpollWait \/ EpollDone \/ \E e \in events : EpollEvent(e)
    \/ NetKeeps /\ UNCHANGED <<vars, fdVars, io, owners, events>>
    \/ \E f \in Fibers :
        \/ \E l \in SockLocations, c \in CallRecord : CallMoves(f, l, c) /\ NetKeeps
        \/ \E fd \in AllFds, asReader \in BOOLEAN : Parks(f, fd, asReader) /\ NetKeeps
        \/ \E fd \in Fds :
            \/ Connects(f, fd)
            \/ /\ "connect" \in Calls /\ "refuse" \in PeerMoves
               /\ ConnectRefused(f, fd)
            \/ "share" \in Calls /\ \E g \in Fibers : Spawn(f, fd, g)
            \/ Drops(f, fd)

-----------------------------------------------------------------------------
(* Lemmas about the operators.                                             *)

\* Entries that are taken out leave the others as they are.
LEMMA Trimmed ==
    ASSUME FdTypes, NEW D, ioFibers' = Restrict(ioFibers, DOMAIN ioFibers \ D)
    PROVE  /\ DOMAIN ioFibers' = DOMAIN ioFibers \ D
           /\ ioFibers' \in [DOMAIN ioFibers' -> WaitingFibers]
           /\ \A fd \in DOMAIN ioFibers' : ioFibers'[fd] = ioFibers[fd]
BY DEF Restrict, FdTypes

\* A change of one socket that leaves it open or closed keeps the rest of the net.
LEMMA OneSocket ==
    ASSUME FdTypes, NEW fd \in AllFds, NEW s \in Socket, net' = [net EXCEPT ![fd] = s],
           s.open = net[fd].open, fd = Listener => s.fin = net[fd].fin,
           edges \subseteq edges', edges' \subseteq AllFds,
           s.inbox > 0 \/ s.fin => Readable(fd) \/ fd \in edges',
           fd \in Fds => Flows(fd, s)
    PROVE  NetKeeps
<1>1. net' \in [AllFds -> Socket] /\ net'[fd] = s
      /\ \A d \in AllFds \ {fd} : net'[d] = net[d]
  BY DEF FdTypes
<1>2. ASSUME NEW d \in Fds PROVE Flows(d, net'[d])
  <2>1. CASE d = fd
    BY <1>1, <2>1
  <2>2. CASE d # fd
    BY <1>1, <2>2 DEF Flows, FdTypes, Socket, AllFds
  <2> QED
    BY <2>1, <2>2
<1> QED
  BY <1>1, <1>2 DEF NetKeeps, Readable, AllFds

\* So does a step that lets the kernel alone.
LEMMA NoSocket ==
    ASSUME FdTypes, UNCHANGED kernelVars
    PROVE  NetKeeps
<1>1. \A fd \in Fds : Flows(fd, net'[fd])
  BY DEF FdTypes, Flows, kernelVars, AllFds, Socket
<1> QED
  BY <1>1 DEF FdTypes, NetKeeps, Readable, kernelVars

-----------------------------------------------------------------------------
(* Each kind of step keeps the invariant.                                  *)

\* Steps of the scheduler, whose timers leave no entry behind.
LEMMA SchedulerStepKeeps ==
    ASSUME SockIInv, SchedulerStep
    PROVE  SockIInv'
<1> USE DEF SockIInv, SchedulerStep
<1>0. /\ Locations \subseteq SockLocations /\ Phases \subseteq SockPhases
      /\ "accept" \notin Locations /\ "read" \notin Locations /\ "write" \notin Locations
      /\ "events" \notin Phases
  BY DEF SockLocations, SockPhases, Locations, Phases
<1>1. SchedTypes(SockLocations, SockPhases)' /\ PhaseInv'
  BY <1>0, StepKeepsTypes
<1>2. /\ DOMAIN ioFibers' \subseteq DOMAIN ioFibers
      /\ ioFibers' \in [DOMAIN ioFibers' -> WaitingFibers]
      /\ \A fd \in DOMAIN ioFibers' : ioFibers'[fd] = ioFibers[fd]
  BY Trimmed DEF ForgetFds, FdTypes
<1>3. FdTypes'
  BY <1>2 DEF FdTypes, kernelVars
<1>4. CallsInv'
  <2>1. \A f \in Fibers : loc'[f] \notin Locations => loc'[f] = loc[f]
    BY <1>0, StepKeepsForeign
  <2> QED
    BY <1>0, <2>1 DEF CallsInv, Holds
<1>5. \A f \in Fibers : Live(f) => Live(f)' \/ Finish(f)
  BY StepKeepsLives
<1>6. OwnersInv'
  BY <1>5 DEF OwnersInv, FdTypes, Holds, kernelVars
<1>7. EntriesInv'
  BY <1>2 DEF EntriesInv, kernelVars
<1>8. KernelInv'
  <2>1. phase = "events" => phase' = "events"
    BY <1>0, StepKeepsLives
  <2> QED
    BY <2>1 DEF KernelInv, kernelVars
<1>9. InputOnItsWay'
  BY <1>2 DEF InputOnItsWay, Readable, kernelVars
<1> QED
  BY <1>1, <1>3, <1>4, <1>6, <1>7, <1>8, <1>9

\* Moves of the peers.
LEMMA NetKeepsSock ==
    ASSUME SockIInv, NetKeeps, UNCHANGED <<vars, fdVars, io, owners, events>>
    PROVE  SockIInv'
<1> USE DEF SockIInv, vars, fdVars, NetKeeps
<1>1. SchedTypes(SockLocations, SockPhases)' /\ PhaseInv'
  BY DEF SchedTypes, PhaseInv
<1>2. FdTypes'
  BY DEF FdTypes
<1>3. CallsInv'
  BY DEF CallsInv, Holds
<1>4. OwnersInv'
  BY DEF OwnersInv, Live, AllFds
<1>5. EntriesInv'
  BY DEF EntriesInv, FdTypes
<1>6. KernelInv'
  BY DEF KernelInv
<1>7. InputOnItsWay'
  BY DEF InputOnItsWay, FdTypes
<1> QED
  BY <1>1, <1>2, <1>3, <1>4, <1>5, <1>6, <1>7

\* Calls that begin, go on and return.
LEMMA CallMovesKeeps ==
    ASSUME SockIInv, NEW f \in Fibers, NEW l, NEW c, CallMoves(f, l, c), NetKeeps
    PROVE  SockIInv'
<1> USE DEF SockIInv, CallMoves, fdVars, queueVars, timerVars
<1>0. /\ loc' \in [Fibers -> SockLocations]
      /\ \A g \in Fibers : Live(g)' <=> Live(g)
  BY DEF SchedTypes, Live
<1>1. SchedTypes(SockLocations, SockPhases)' /\ PhaseInv'
  BY <1>0 DEF SchedTypes, PhaseInv
<1>2. FdTypes'
  BY DEF FdTypes, NetKeeps
<1>3. CallsInv'
  BY DEF CallsInv, Holds, SchedTypes, FdTypes
<1>4. OwnersInv'
  BY <1>0 DEF OwnersInv, AllFds, NetKeeps, FdTypes
<1>5. EntriesInv'
  BY DEF EntriesInv, FdTypes, NetKeeps
<1>6. KernelInv'
  BY DEF KernelInv, NetKeeps
<1>7. InputOnItsWay'
  BY DEF InputOnItsWay, FdTypes, NetKeeps
<1> QED
  BY <1>1, <1>2, <1>3, <1>4, <1>5, <1>6, <1>7

\* The entry of fd is the old one, or a new one for f; only f may note fd.
EntryAdded(f, fd, asReader) ==
    /\ DOMAIN ioFibers' = DOMAIN ioFibers \cup {fd}
    /\ ioFibers' \in [DOMAIN ioFibers' -> WaitingFibers]
    /\ \A d \in DOMAIN ioFibers : ioFibers'[d] = ioFibers[d]
    /\ fd \notin DOMAIN ioFibers
       => /\ ioFibers'[fd] = IF asReader THEN [r |-> f, w |-> NoFiber]
                                         ELSE [r |-> NoFiber, w |-> f]
          /\ asReader => fd \in readFds'[f]
    /\ readFds' \in [Fibers -> SUBSET AllFds]
    /\ \A g \in Fibers : readFds[g] \subseteq readFds'[g]
    /\ \A g \in Fibers : readFds'[g] \subseteq readFds[g] \cup {fd}
    /\ ~asReader => readFds' = readFds

\* A registration changes the entry of fd only, when there is none, and what its
\* reader has noted.
LEMMA Registered ==
    ASSUME FdTypes, NEW f \in Fibers, NEW fd \in AllFds, NEW asReader \in BOOLEAN,
           RegisterFd(f, fd, asReader)
    PROVE  EntryAdded(f, fd, asReader)
<1> USE DEF EntryAdded
<1>1. CASE fd \in DOMAIN ioFibers
  BY <1>1 DEF RegisterFd, FdTypes, fdVars
<1>2. CASE fd \notin DOMAIN ioFibers
  <2> DEFINE new == IF asReader THEN [r |-> f, w |-> NoFiber]
                                ELSE [r |-> NoFiber, w |-> f]
  <2>1. new \in WaitingFibers
    BY DEF WaitingFibers
  <2>2. ioFibers' = [d \in DOMAIN ioFibers \cup {fd} |->
                        IF d # fd THEN ioFibers[d] ELSE new]
    BY <1>2 DEF RegisterFd
  <2>3. readFds' = IF asReader THEN [readFds EXCEPT ![f] = @ \cup {fd}] ELSE readFds
    BY <1>2 DEF RegisterFd
  <2> HIDE DEF new
  <2>4. /\ DOMAIN ioFibers' = DOMAIN ioFibers \cup {fd}
        /\ ioFibers' \in [DOMAIN ioFibers' -> WaitingFibers]
        /\ \A d \in DOMAIN ioFibers : ioFibers'[d] = ioFibers[d]
        /\ ioFibers'[fd] = new
    BY <1>2, <2>1, <2>2 DEF FdTypes
  <2>5. /\ asReader => fd \in readFds'[f]
        /\ readFds' \in [Fibers -> SUBSET AllFds]
        /\ \A g \in Fibers : readFds[g] \subseteq readFds'[g]
        /\ \A g \in Fibers : readFds'[g] \subseteq readFds[g] \cup {fd}
        /\ ~asReader => readFds' = readFds
    BY <2>3 DEF FdTypes
  <2> QED
    BY <2>4, <2>5 DEF new
<1> QED
  BY <1>1, <1>2

\* Parking: what is registered is a reader that has found nothing to read, or a
\* writer.
LEMMA ParksKeeps ==
    ASSUME SockIInv, NEW f \in Fibers, NEW fd \in AllFds, NEW asReader \in BOOLEAN,
           Parks(f, fd, asReader), NetKeeps
    PROVE  SockIInv'
<1> USE DEF SockIInv, Parks, queueVars
<1>0. fd # Listener => net[fd].open
  BY DEF CallsInv, OwnersInv, AllFds
<1>1. SchedTypes(SockLocations, SockPhases)' /\ PhaseInv'
  <2>1. io[f].expireAt \in Nat \cup {-1}
    BY DEF FdTypes, CallRecord
  <2>2. CASE io[f].expireAt \in Nat \ {0}
    <3>1. /\ expireAt' \in [Fibers -> Nat \cup {-1}]
          /\ DOMAIN expireEvents' \subseteq Nat \ {0}
          /\ expireEvents' \in [DOMAIN expireEvents' -> SUBSET Fibers]
      BY <2>2, DeadlineSet DEF Park, SchedTypes
    <3> QED
      BY <3>1 DEF Park, SchedTypes, PhaseInv
  <2>3. CASE io[f].expireAt \notin Nat \ {0}
    BY <2>1, <2>3 DEF Park, RegisterDeadline, timerVars, SchedTypes, PhaseInv
  <2> QED
    BY <2>2, <2>3
<1>2. RegisterFd(f, fd, asReader)
  BY DEF Park, RegisterFd
<1>3. /\ DOMAIN ioFibers' = DOMAIN ioFibers \cup {fd}
      /\ ioFibers' \in [DOMAIN ioFibers' -> WaitingFibers]
      /\ \A d \in DOMAIN ioFibers : ioFibers'[d] = ioFibers[d]
      /\ fd \notin DOMAIN ioFibers
         => /\ ioFibers'[fd] = IF asReader THEN [r |-> f, w |-> NoFiber]
                                           ELSE [r |-> NoFiber, w |-> f]
            /\ asReader => fd \in readFds'[f]
      /\ readFds' \in [Fibers -> SUBSET AllFds]
      /\ \A g \in Fibers : readFds[g] \subseteq readFds'[g]
      /\ \A g \in Fibers : readFds'[g] \subseteq readFds[g] \cup {fd}
      /\ ~asReader => readFds' = readFds
  <2>1. FdTypes
    OBVIOUS
  <2>2. EntryAdded(f, fd, asReader)
    BY ONLY <1>2, <2>1, Registered, f \in Fibers, fd \in AllFds, asReader \in BOOLEAN
  <2> QED
    BY ONLY <2>2 DEF EntryAdded
<1>4. FdTypes'
  BY <1>3 DEF FdTypes, NetKeeps, Park
<1>5. CallsInv'
  BY DEF CallsInv, Holds, Park
<1>6. OwnersInv'
  BY DEF OwnersInv, Park, NetKeeps, AllFds, Live
<1>7. EntriesInv'
  <2> SUFFICES ASSUME NEW d \in DOMAIN ioFibers', ioFibers'[d].r # NoFiber
               PROVE  d \in readFds'[ioFibers'[d].r] /\ (d # Listener => net'[d].open)
    BY DEF EntriesInv
  <2>1. CASE d \in DOMAIN ioFibers
    <3>1. ioFibers[d].r \in Fibers /\ d \in AllFds
      BY <1>3, <2>1 DEF FdTypes, WaitingFibers
    <3> QED
      BY <1>3, <2>1, <3>1 DEF EntriesInv, NetKeeps
  <2>2. CASE d \notin DOMAIN ioFibers
    BY <1>0, <1>3, <2>2 DEF NetKeeps
  <2> QED
    BY <2>1, <2>2
<1>8. KernelInv'
  BY DEF KernelInv, NetKeeps, Park
<1>9. InputOnItsWay'
  <2> SUFFICES ASSUME NEW d \in DOMAIN ioFibers', NEW g \in Fibers,
                      ioFibers'[d].r = g, Readable(d)'
               PROVE  d \in edges' \/ \E e \in events' : e.fd = d /\ e.in
    BY DEF InputOnItsWay
  <2>1. CASE d \in DOMAIN ioFibers
    BY <1>3, <2>1 DEF InputOnItsWay, NetKeeps, Park, FdTypes
  <2>2. CASE d \notin DOMAIN ioFibers
    BY <1>3, <2>2, ConstantsAssumption
  <2> QED
    BY <2>1, <2>2
<1> QED
  BY <1>1, <1>4, <1>5, <1>6, <1>7, <1>8, <1>9

-----------------------------------------------------------------------------
(* Connections begin, are shared and end.                                  *)

\* A new connection is nobody else's: its number was free, so nobody held it.
LEMMA ConnectsKeeps ==
    ASSUME SockIInv, NEW f \in Fibers, NEW fd \in Fds, Connects(f, fd)
    PROVE  SockIInv'
<1> USE DEF SockIInv, Connects, fdVars, queueVars, timerVars
<1>0. /\ loc' \in [Fibers -> SockLocations]
      /\ \A g \in Fibers : Live(g)' <=> Live(g)
  BY DEF SchedTypes, Live, SockLocations, Locations
<1>1. SchedTypes(SockLocations, SockPhases)' /\ PhaseInv'
  BY <1>0 DEF SchedTypes, PhaseInv
<1>2. FdTypes'
  BY DEF FdTypes, AllFds
<1>3. /\ net'[fd].open /\ ~Readable(fd)'
       /\ fd \in AllFds /\ fd # Listener
  BY SocketConstantsAssumption DEF Fresh, Closed, Readable, AllFds
<1>4. owners[fd] = {} /\ \A d \in Fds \ {fd} : owners'[d] = owners[d]
  BY DEF OwnersInv, FdTypes
<1>5. owners'[fd] = {f}
  BY DEF FdTypes
<1>6. CallsInv'
  <2> SUFFICES ASSUME NEW g \in Fibers
               PROVE  /\ loc'[g] = "accept" => io'[g].fd = Listener /\ ~Holds(g)'
                      /\ loc'[g] \in {"read", "write"}
                         => io'[g].fd \in Fds /\ g \in owners'[io'[g].fd]
    BY DEF CallsInv
  <2>1. CASE g = f
    BY <2>1 DEF SchedTypes
  <2>2. CASE g # f
    BY <1>4, <1>5, <2>2 DEF CallsInv, Holds, SchedTypes
  <2> QED
    BY <2>1, <2>2
<1>7. OwnersInv'
  <2> SUFFICES ASSUME NEW d \in Fds, NEW g \in owners'[d], NEW e \in Fds
               PROVE  net'[d].open /\ Live(g)' /\ (g \in owners'[e] => e = d)
    BY DEF OwnersInv
  <2>1. g \in Fibers
    BY <1>2 DEF FdTypes
  <2> QED
    BY <1>0, <1>4, <1>5, <1>3, <2>1 DEF OwnersInv, Holds, AllFds
<1>8. EntriesInv'
  BY <1>3 DEF EntriesInv, FdTypes
<1>9. KernelInv'
  BY <1>3 DEF KernelInv, AllFds
<1>10. InputOnItsWay'
  BY <1>3 DEF InputOnItsWay, FdTypes
<1> QED
  BY <1>1, <1>2, <1>6, <1>7, <1>8, <1>9, <1>10

\* A socket whose connect was refused has a number nobody is registered for.
LEMMA ConnectRefusedKeeps ==
    ASSUME SockIInv, NEW f \in Fibers, NEW fd \in Fds, ConnectRefused(f, fd)
    PROVE  SockIInv'
<1> USE DEF SockIInv, ConnectRefused, vars, fdVars
<1>0. /\ ~net[fd].open
      /\ net' = [net EXCEPT ![fd] = Unconnected]
      /\ fd \in AllFds /\ fd # Listener
      /\ Unconnected \in Socket /\ Unconnected.open
  BY SocketConstantsAssumption
     DEF LowestFree, AllFds, Unconnected, Fresh, Closed, Socket
<1>1. SchedTypes(SockLocations, SockPhases)' /\ PhaseInv'
  BY DEF SchedTypes, PhaseInv
<1>2. FdTypes'
  BY <1>0 DEF FdTypes
<1>3. \A d \in AllFds \ {fd} : net'[d] = net[d]
  BY <1>0 DEF FdTypes
<1>4. CallsInv'
  BY DEF CallsInv, Holds
<1>5. OwnersInv'
  BY <1>0, <1>3 DEF OwnersInv, Live, FdTypes, AllFds
<1>6. EntriesInv'
  BY <1>0, <1>3 DEF EntriesInv, FdTypes
<1>7. KernelInv'
  BY <1>0, <1>3 DEF KernelInv, AllFds
<1>8. InputOnItsWay'
  <2> SUFFICES ASSUME NEW d \in DOMAIN ioFibers, NEW g \in Fibers,
                      ioFibers[d].r = g, Readable(d)'
               PROVE  d \in edges \/ \E e \in events : e.fd = d /\ e.in
    BY DEF InputOnItsWay
  <2>1. d \in AllFds /\ d # fd
    BY <1>0, ConstantsAssumption DEF EntriesInv, FdTypes
  <2> QED
    BY <1>3, <2>1 DEF InputOnItsWay, Readable
<1> QED
  BY <1>1, <1>2, <1>4, <1>5, <1>6, <1>7, <1>8

\* A fiber that is created with a connection is a new one, and holds no other.
LEMMA SpawnKeeps ==
    ASSUME SockIInv, NEW f \in Fibers, NEW fd \in Fds, NEW g \in Fibers, Spawn(f, fd, g)
    PROVE  SockIInv'
<1> USE DEF SockIInv, Spawn, fdVars, kernelVars
<1>0. Locations \subseteq SockLocations /\ Phases \subseteq SockPhases
  BY DEF SockLocations, SockPhases
<1>1. SchedTypes(SockLocations, SockPhases)' /\ PhaseInv'
  BY <1>0, StepKeepsTypes DEF Next
<1>2. /\ loc[g] = "none" /\ loc' = [loc EXCEPT ![g] = "user"] /\ phase' = phase
      /\ owners' = [owners EXCEPT ![fd] = @ \cup {g}]
  BY DEF CreateFiber
<1>3. /\ \A h \in Fibers : Live(h)' <=> Live(h) \/ h = g
      /\ \A d \in Fds : g \notin owners[d]
  BY <1>2 DEF SchedTypes, Live, OwnersInv
<1>4. FdTypes'
  BY <1>2 DEF FdTypes
<1>5. CallsInv'
  BY <1>2 DEF CallsInv, Holds, SchedTypes, FdTypes
<1>6. OwnersInv'
  BY <1>2, <1>3 DEF OwnersInv, FdTypes
<1>7. EntriesInv' /\ KernelInv' /\ InputOnItsWay'
  BY <1>2 DEF EntriesInv, KernelInv, InputOnItsWay, Readable
<1> QED
  BY <1>1, <1>4, <1>5, <1>6, <1>7

\* Erasing the entry of fd schedules at most the writer in it; no reader was
\* registered for fd, and the entries that stay are as they were.
LEMMA Unregistered ==
    ASSUME SchedTypes(SockLocations, SockPhases), FdTypes, NEW fd \in Fds,
           UnregisterFd(fd)
    PROVE  /\ ready' \in Seq(Fibers)
           /\ DOMAIN expireEvents' \subseteq Nat \ {0}
           /\ expireEvents' \in [DOMAIN expireEvents' -> SUBSET Fibers]
           /\ fd \in DOMAIN ioFibers => ioFibers[fd].r = NoFiber
           /\ DOMAIN ioFibers' \subseteq DOMAIN ioFibers \ {fd}
           /\ ioFibers' \in [DOMAIN ioFibers' -> WaitingFibers]
           /\ \A d \in DOMAIN ioFibers' : ioFibers'[d] = ioFibers[d]
           /\ \A d \in DOMAIN ioFibers \ {fd} :
                d \in DOMAIN ioFibers' \/ \E g \in Fibers : d \in readFds[g]
           /\ ready' = ready \/ \E g \in Fibers : ready' = Append(ready, g)
<1>1. fd \in DOMAIN ioFibers => ioFibers[fd].r = NoFiber
  BY DEF UnregisterFd, Waiting
<1>2. CASE Waiting(fd).w = NoFiber
  <2>1. UNCHANGED <<ready, expireEvents>>
        /\ ioFibers' = Restrict(ioFibers, DOMAIN ioFibers \ {fd})
    BY <1>2 DEF UnregisterFd
  <2> QED
    BY <1>1, <2>1, Trimmed DEF SchedTypes
<1>3. CASE Waiting(fd).w # NoFiber
  <2>1. PICK g \in Fibers : g = Waiting(fd).w
    BY <1>3 DEF Waiting, FdTypes, WaitingFibers
  <2>2. /\ WakeUpFibers(<<g>>)
        /\ ioFibers' = Restrict(ioFibers, DOMAIN ioFibers \ (readFds[g] \cup {fd}))
    BY <1>3, <2>1 DEF UnregisterFd, WakeUpFibers
  <2>3. /\ ready' = Append(ready, g)
        /\ DOMAIN expireEvents' = DOMAIN expireEvents
        /\ expireEvents' \in [DOMAIN expireEvents -> SUBSET Fibers]
    BY <2>2, WakeOne DEF SchedTypes
  <2>4. /\ DOMAIN ioFibers' = DOMAIN ioFibers \ (readFds[g] \cup {fd})
        /\ ioFibers' \in [DOMAIN ioFibers' -> WaitingFibers]
        /\ \A d \in DOMAIN ioFibers' : ioFibers'[d] = ioFibers[d]
    BY <2>2, Trimmed
  <2> QED
    BY <1>1, <2>3, <2>4 DEF SchedTypes
<1> QED
  BY <1>2, <1>3

\* A connection ends with its last owner, when no reader is registered for it.
LEMMA DropsKeeps ==
    ASSUME SockIInv, NEW f \in Fibers, NEW fd \in Fds, Drops(f, fd)
    PROVE  SockIInv'
<1> USE DEF SockIInv, Drops
<1>0. /\ Closed \in Socket /\ ~Closed.open /\ Closed.inbox = 0 /\ ~Closed.fin
      /\ fd \in AllFds /\ fd # Listener
  BY SocketConstantsAssumption DEF Closed, Socket, AllFds
<1>1. /\ ready' \in Seq(Fibers)
      /\ DOMAIN expireEvents' \subseteq Nat \ {0}
      /\ expireEvents' \in [DOMAIN expireEvents' -> SUBSET Fibers]
      /\ DOMAIN ioFibers' \subseteq DOMAIN ioFibers
      /\ ioFibers' \in [DOMAIN ioFibers' -> WaitingFibers]
      /\ \A d \in DOMAIN ioFibers' : ioFibers'[d] = ioFibers[d]
      /\ owners' = [owners EXCEPT ![fd] = @ \ {f}]
      /\ \/ UNCHANGED <<net, edges>>
         \/ /\ owners[fd] = {f}
            /\ fd \notin DOMAIN ioFibers'
            /\ net' = [net EXCEPT ![fd] = Closed]
            /\ edges' = edges \ {fd}
  <2>1. CASE owners[fd] = {f}
    <3>1. UnregisterFd(fd)
      BY <2>1 DEF DropConnection
    <3> QED
      BY <2>1, <3>1, Unregistered DEF DropConnection
  <2>2. CASE owners[fd] # {f}
    BY <2>2 DEF DropConnection, kernelVars, SchedTypes, FdTypes
  <2> QED
    BY <2>1, <2>2
<1>2. SchedTypes(SockLocations, SockPhases)' /\ PhaseInv'
  BY <1>1 DEF SchedTypes, PhaseInv, SockLocations, Locations
<1>3. FdTypes'
  BY <1>0, <1>1 DEF FdTypes
<1>4. \A d \in AllFds \ {fd} : net'[d] = net[d] /\ (d \in edges' <=> d \in edges)
  BY <1>1 DEF FdTypes
<1>5. \A g \in Fibers \ {f} : /\ loc'[g] = loc[g]
                              /\ Live(g)' <=> Live(g)
                              /\ \A d \in Fds : g \in owners'[d] <=> g \in owners[d]
  BY <1>1 DEF SchedTypes, FdTypes, Live
<1>6. /\ \A d \in Fds : f \notin owners'[d]
      /\ loc'[f] \in {"user", "freed"}
  BY <1>1 DEF OwnersInv, SchedTypes, FdTypes
<1>7. CallsInv'
  BY <1>5, <1>6 DEF CallsInv, Holds
<1>8. OwnersInv'
  <2> SUFFICES ASSUME NEW d \in Fds, NEW g \in owners'[d], NEW e \in Fds
               PROVE  net'[d].open /\ Live(g)' /\ (g \in owners'[e] => e = d)
    BY DEF OwnersInv
  <2>1. g \in Fibers \ {f} /\ g \in owners[d]
    BY <1>3, <1>5, <1>6 DEF FdTypes
  <2>2. net'[d] = net[d]
    BY <1>1, <1>4, <2>1 DEF AllFds
  <2> QED
    BY <1>5, <2>1, <2>2 DEF OwnersInv
<1>9. EntriesInv'
  BY <1>1, <1>4 DEF EntriesInv, FdTypes
<1>10. KernelInv'
  BY <1>0, <1>4 DEF KernelInv, AllFds
<1>11. InputOnItsWay'
  <2> SUFFICES ASSUME NEW d \in DOMAIN ioFibers', NEW g \in Fibers,
                      ioFibers'[d].r = g, Readable(d)'
               PROVE  d \in edges' \/ \E e \in events : e.fd = d /\ e.in
    BY DEF InputOnItsWay
  <2>1. net'[d] = net[d] /\ (d \in edges' <=> d \in edges)
    BY <1>1, <1>4 DEF FdTypes
  <2> QED
    BY <1>1, <2>1 DEF InputOnItsWay, Readable
<1> QED
  BY <1>2, <1>3, <1>7, <1>8, <1>9, <1>10, <1>11

-----------------------------------------------------------------------------
(* The epoll part of Dispatch.                                             *)

\* The edges in looked are reported: what a step of epoll_wait changes.  A full
\* socket that is looked at is owed an event afterwards.
Looks(looked) ==
    /\ phase = "epoll" /\ phase' = "events"
    /\ events' = {[fd |-> fd, in |-> Readable(fd), out |-> Writable(fd)] :
                    fd \in {d \in looked : Readable(d) \/ Writable(d)}}
    /\ edges' = edges \ looked
    /\ net' \in [AllFds -> Socket]
    /\ \A fd \in AllFds :
        /\ net'[fd].open = net[fd].open /\ net'[fd].fin = net[fd].fin
        /\ net'[fd].inbox = net[fd].inbox
        /\ net'[fd].reset = net[fd].reset /\ net'[fd].room = net[fd].room
        /\ net[fd].noSpace => net'[fd].noSpace
        /\ fd \in looked /\ ~Writable(fd) => net'[fd].noSpace
    /\ UNCHANGED <<queueVars, cur, nowMs, clock, loc, timerVars, fdVars, io, owners>>

\* epoll_wait reports some of the edges, all of them or as many as it has place for.
LEMMA EpollWaitLooks ==
    ASSUME FdTypes, EpollWait
    PROVE  \E looked \in SUBSET edges : Looks(looked)
<1>1. PICK looked \in SUBSET edges :
        /\ events' = {[fd |-> fd, in |-> Readable(fd), out |-> Writable(fd)] :
                        fd \in {d \in looked : Readable(d) \/ Writable(d)}}
        /\ edges' = edges \ looked
        /\ net' = [fd \in AllFds |->
                     IF fd \in looked /\ ~Writable(fd)
                     THEN [net[fd] EXCEPT !.noSpace = TRUE] ELSE net[fd]]
  BY DEF EpollWait
<1>2. \A fd \in AllFds :
        /\ net'[fd] \in Socket
        /\ net'[fd].open = net[fd].open /\ net'[fd].fin = net[fd].fin
        /\ net'[fd].inbox = net[fd].inbox
        /\ net'[fd].reset = net[fd].reset /\ net'[fd].room = net[fd].room
        /\ net[fd].noSpace => net'[fd].noSpace
        /\ fd \in looked /\ ~Writable(fd) => net'[fd].noSpace
  BY <1>1 DEF FdTypes, Socket
<1>3. net' \in [AllFds -> Socket]
  BY <1>1, <1>2
<1>4. /\ phase = "epoll" /\ phase' = "events"
      /\ UNCHANGED <<queueVars, cur, nowMs, clock, loc, timerVars, fdVars, io, owners>>
  BY DEF EpollWait
<1>5. Looks(looked)
  BY <1>1, <1>2, <1>3, <1>4 DEF Looks
<1> QED
  BY <1>5

\* Every edge with something to read that is looked at becomes an event with IN.
LEMMA EpollWaitKeeps ==
    ASSUME SockIInv, EpollWait
    PROVE  SockIInv'
<1> USE DEF SockIInv
<1>0. PICK looked \in SUBSET edges : Looks(looked)
  BY EpollWaitLooks
<1> USE <1>0 DEF Looks, queueVars, timerVars, fdVars
<1>1. SchedTypes(SockLocations, SockPhases)' /\ PhaseInv'
  BY DEF SchedTypes, PhaseInv, SockPhases
<1>4. events' \subseteq EventRecord
  <2> SUFFICES ASSUME NEW fd \in edges
               PROVE  [fd |-> fd, in |-> Readable(fd), out |-> Writable(fd)]
                        \in EventRecord
    OBVIOUS
  <2>1. Readable(fd) \in BOOLEAN /\ Writable(fd) \in BOOLEAN /\ fd \in AllFds
    BY DEF FdTypes, Readable, Writable, Socket
  <2> QED
    BY <2>1 DEF EventRecord
<1>5. FdTypes'
  BY <1>4 DEF FdTypes
<1>6. CallsInv' /\ EntriesInv'
  BY DEF CallsInv, Holds, EntriesInv, FdTypes
<1>7. OwnersInv'
  BY DEF OwnersInv, Live, AllFds
<1>8. KernelInv'
  BY DEF KernelInv, AllFds
<1>9. InputOnItsWay'
  <2> SUFFICES ASSUME NEW d \in DOMAIN ioFibers, NEW g \in Fibers,
                      ioFibers[d].r = g, Readable(d)'
               PROVE  d \in edges' \/ \E e \in events' : e.fd = d /\ e.in
    BY DEF InputOnItsWay
  <2>1. Readable(d)
    BY DEF Readable, FdTypes
  <2>2. d \in edges
    BY <2>1 DEF InputOnItsWay, KernelInv
  <2> DEFINE e == [fd |-> d, in |-> Readable(d), out |-> Writable(d)]
  <2>3. d \in looked => e \in events' /\ e.fd = d /\ e.in
    BY <2>1
  <2> QED
    BY <2>2, <2>3
<1> QED
  BY <1>1, <1>5, <1>6, <1>7, <1>8, <1>9

\* An event with IN is taken to the reader, whose entry goes with it.
LEMMA EpollEventKeeps ==
    ASSUME SockIInv, NEW e \in events, EpollEvent(e)
    PROVE  SockIInv'
<1> USE DEF SockIInv, EpollEvent, kernelVars
<1>0. e \in EventRecord /\ e.fd \in AllFds /\ Target(e) \in Fibers \cup {NoFiber}
  <2>1. e \in EventRecord /\ e.fd \in AllFds
    BY DEF FdTypes, EventRecord
  <2> QED
    BY <2>1 DEF Target, Waiting, FdTypes, WaitingFibers
<1>1. /\ ready' \in Seq(Fibers)
      /\ DOMAIN expireEvents' \subseteq Nat \ {0}
      /\ expireEvents' \in [DOMAIN expireEvents' -> SUBSET Fibers]
      /\ DOMAIN ioFibers' \subseteq DOMAIN ioFibers
      /\ ioFibers' \in [DOMAIN ioFibers' -> WaitingFibers]
      /\ \A d \in DOMAIN ioFibers' : ioFibers'[d] = ioFibers[d]
      /\ Target(e) # NoFiber => DOMAIN ioFibers' = DOMAIN ioFibers \ readFds[Target(e)]
  <2>1. CASE Target(e) = NoFiber
    BY <2>1 DEF SchedTypes, FdTypes
  <2>2. CASE Target(e) # NoFiber
    <3>1. PICK g \in Fibers : g = Target(e)
      BY <1>0, <2>2
    <3>2. /\ WakeUpFibers(<<g>>)
          /\ ioFibers' = Restrict(ioFibers, DOMAIN ioFibers \ readFds[g])
      BY <2>2, <3>1 DEF WakeUp, WakeUpFibers, ForgetFds
    <3>3. /\ ready' = Append(ready, g)
          /\ DOMAIN expireEvents' = DOMAIN expireEvents
          /\ expireEvents' \in [DOMAIN expireEvents -> SUBSET Fibers]
      BY <3>2, WakeOne DEF SchedTypes
    <3>4. /\ DOMAIN ioFibers' = DOMAIN ioFibers \ readFds[g]
          /\ ioFibers' \in [DOMAIN ioFibers' -> WaitingFibers]
          /\ \A d \in DOMAIN ioFibers' : ioFibers'[d] = ioFibers[d]
      BY <3>2, Trimmed
    <3> QED
      BY <3>1, <3>3, <3>4 DEF SchedTypes
  <2> QED
    BY <2>1, <2>2
<1>2. SchedTypes(SockLocations, SockPhases)' /\ PhaseInv'
  BY <1>1 DEF SchedTypes, PhaseInv
<1>3. FdTypes'
  BY <1>1 DEF FdTypes
<1>4. CallsInv' /\ OwnersInv' /\ KernelInv'
  BY DEF CallsInv, Holds, OwnersInv, Live, KernelInv
<1>5. EntriesInv'
  BY <1>1 DEF EntriesInv
<1>6. InputOnItsWay'
  <2> SUFFICES ASSUME NEW d \in DOMAIN ioFibers', NEW g \in Fibers,
                      ioFibers'[d].r = g, Readable(d)'
               PROVE  d \in edges \/ \E x \in events' : x.fd = d /\ x.in
    BY DEF InputOnItsWay
  <2>1. ioFibers[d].r = g /\ Readable(d) /\ d \in DOMAIN ioFibers /\ g # NoFiber
    BY <1>1, ConstantsAssumption DEF Readable
  <2>2. CASE d \in edges
    BY <2>2
  <2>3. CASE d \notin edges
    <3>1. PICK x \in events : x.fd = d /\ x.in
      BY <2>1, <2>3 DEF InputOnItsWay
    <3>2. x # e
      <4> SUFFICES ASSUME x = e PROVE FALSE
        OBVIOUS
      <4>1. Target(e) = g
        BY <2>1, <3>1 DEF Target, Waiting
      <4>2. d \in readFds[g]
        BY <2>1 DEF EntriesInv
      <4> QED
        BY <1>1, <2>1, <4>1, <4>2
    <3> QED
      BY <3>1, <3>2
  <2> QED
    BY <2>2, <2>3
<1> QED
  BY <1>2, <1>3, <1>4, <1>5, <1>6

\* When the events are handled the loop starts over.
LEMMA EpollDoneKeeps ==
    ASSUME SockIInv, EpollDone
    PROVE  SockIInv'
<1> USE DEF SockIInv, EpollDone, queueVars, timerVars, sockVars, fdVars, kernelVars
<1>1. SchedTypes(SockLocations, SockPhases)' /\ PhaseInv'
  BY DEF SchedTypes, PhaseInv, SockPhases, Phases
<1>2. FdTypes' /\ CallsInv' /\ OwnersInv' /\ EntriesInv'
  BY DEF FdTypes, CallsInv, Holds, OwnersInv, Live, EntriesInv
<1>3. KernelInv' /\ InputOnItsWay'
  BY DEF KernelInv, InputOnItsWay, Readable
<1> QED
  BY <1>1, <1>2, <1>3

-----------------------------------------------------------------------------
(* Every step is of one of these kinds.                                    *)

\* The moves of the peers: whatever becomes readable has an edge.
LEMMA PeersKeepNet ==
    ASSUME SockIInv, PeerStep
    PROVE  NetKeeps /\ UNCHANGED <<vars, fdVars, io, owners, events>>
<1> USE DEF SockIInv, Peer, Readable
<1>0. Listener \in AllFds /\ Fds \subseteq AllFds \ {Listener}
  BY SocketConstantsAssumption DEF AllFds
<1>1. CASE PeerConnects
  <2> PICK n \in Nat : n = net[Listener].inbox + 1
    BY <1>0 DEF FdTypes, Socket
  <2> PICK s \in Socket : s = [net[Listener] EXCEPT !.inbox = n]
    BY <1>0 DEF FdTypes, Socket
  <2>1. /\ net' = [net EXCEPT ![Listener] = s]
        /\ s.open = net[Listener].open /\ s.fin = net[Listener].fin
        /\ edges' = edges \cup {Listener}
    BY <1>0, <1>1 DEF PeerConnects, FdTypes, Socket
  <2> QED
    BY <1>0, <1>1, <2>1, OneSocket DEF PeerConnects, FdTypes
<1>2. ASSUME NEW fd \in Fds, PeerSends(fd)
      PROVE  NetKeeps /\ UNCHANGED <<vars, fdVars, io, owners, events>>
  <2> PICK n \in Nat : n = net[fd].inbox + 1
    BY <1>0 DEF FdTypes, Socket
  <2> PICK s \in Socket : s = [net[fd] EXCEPT !.inbox = n]
    BY <1>0 DEF FdTypes, Socket
  <2>1. /\ net' = [net EXCEPT ![fd] = s]
        /\ s.open = net[fd].open /\ Flows(fd, s)
        /\ edges' = edges \cup {fd}
    BY <1>0, <1>2 DEF PeerSends, FdTypes, Socket, Flows
  <2> QED
    BY <1>0, <1>2, <2>1, OneSocket DEF PeerSends, FdTypes
<1>3. ASSUME NEW fd \in Fds, PeerCloses(fd)
      PROVE  NetKeeps /\ UNCHANGED <<vars, fdVars, io, owners, events>>
  <2> PICK s \in Socket : s = [net[fd] EXCEPT !.fin = TRUE]
    BY <1>0 DEF FdTypes, Socket
  <2>1. /\ net' = [net EXCEPT ![fd] = s]
        /\ s.open = net[fd].open /\ s.inbox = net[fd].inbox
        /\ s.fin /\ s.room = net[fd].room /\ s.noSpace = net[fd].noSpace
        /\ edges' = edges \cup {fd}
    BY <1>0, <1>3 DEF PeerCloses, FdTypes, Socket
  <2>2. Flows(fd, s)
    BY <1>0, <2>1 DEF FdTypes, Socket, Flows
  <2>3. NetKeeps
    BY <1>0, <2>1, <2>2, OneSocket DEF FdTypes
  <2> QED
    BY <1>3, <2>3 DEF PeerCloses
<1>4. ASSUME NEW fd \in Fds, PeerResets(fd)
      PROVE  NetKeeps /\ UNCHANGED <<vars, fdVars, io, owners, events>>
  <2> PICK s \in Socket :
            s = [net[fd] EXCEPT !.fin = TRUE, !.reset = TRUE, !.error = TRUE]
    BY <1>0 DEF FdTypes, Socket
  <2>1. /\ net' = [net EXCEPT ![fd] = s]
        /\ s.open = net[fd].open /\ Flows(fd, s)
        /\ edges' = edges \cup {fd}
        /\ UNCHANGED <<vars, fdVars, io, owners, events>>
    BY <1>0, <1>4 DEF PeerResets, FdTypes, Socket, Flows
  <2>2. NetKeeps
    BY <1>0, <2>1, OneSocket DEF FdTypes
  <2> QED
    BY <2>1, <2>2
<1>5. ASSUME NEW fd \in Fds, PeerReads(fd)
      PROVE  NetKeeps /\ UNCHANGED <<vars, fdVars, io, owners, events>>
  <2> PICK n \in Nat : n = net[fd].room + 1
    BY <1>0 DEF FdTypes, Socket
  <2> PICK s \in Socket : s = [net[fd] EXCEPT !.room = n, !.noSpace = FALSE]
    BY <1>0 DEF FdTypes, Socket
  <2>1. /\ net' = [net EXCEPT ![fd] = s]
        /\ s.open = net[fd].open /\ s.inbox = net[fd].inbox /\ s.fin = net[fd].fin
        /\ s.reset = net[fd].reset
        /\ edges' = IF net[fd].noSpace THEN edges \cup {fd} ELSE edges
        /\ UNCHANGED <<vars, fdVars, io, owners, events>>
    BY <1>0, <1>5 DEF PeerReads, FdTypes, Socket
  <2>2. Flows(fd, s)
    BY <1>0, <2>1 DEF FdTypes, Socket, Flows
  <2>3. NetKeeps
    BY <1>0, <2>1, <2>2, OneSocket DEF FdTypes
  <2> QED
    BY <2>1, <2>3
<1> QED
  BY <1>1, <1>2, <1>3, <1>4, <1>5 DEF PeerStep

\* The entry of a call.
LEMMA EnterMoves ==
    ASSUME SockIInv, NEW f \in Fibers, NEW l \in {"accept", "read", "write"},
           NEW fd \in AllFds, NEW size \in Nat, NEW timeout \in Nat \cup {-1},
           Enter(f, l, fd, size, timeout),
           l = "accept" => fd = Listener /\ ~Holds(f),
           l # "accept" => fd \in Fds /\ f \in owners[fd],
           l \in Calls
    PROVE  NetKeeps /\ \E ll \in SockLocations, c \in CallRecord : CallMoves(f, ll, c)
<1> USE DEF SockIInv, Enter
<1>1. NetKeeps
  BY NoSocket
<1>2. PICK c \in CallRecord :
        c = [fd |-> fd, left |-> size,
             expireAt |-> IF timeout > 0 THEN clock + timeout ELSE -1]
  <2>1. (IF timeout > 0 THEN clock + timeout ELSE -1) \in Nat \cup {-1}
    BY DEF SchedTypes
  <2> QED
    BY <2>1 DEF CallRecord
<1>3. CallMoves(f, l, c)
  BY <1>2 DEF CallMoves, InUser, Live, SockLocations
<1> QED
  BY <1>1, <1>3 DEF SockLocations

\* A return from a call that leaves the net as it should.
LEMMA ReturnMoves ==
    ASSUME SockIInv, NEW f \in Fibers, cur = f, Live(f), Return(f), UNCHANGED owners
    PROVE  \E l \in SockLocations, c \in CallRecord : CallMoves(f, l, c)
<1>1. PICK c \in CallRecord : c = NoIo
  BY DEF CallRecord, NoIo
<1>2. "user" \in SockLocations \ {"none", "freed"}
  BY DEF SockLocations, Locations
<1>3. CallMoves(f, "user", c)
  BY <1>1, <1>2 DEF CallMoves, Return
<1> QED
  BY <1>2, <1>3

\* Read, until it parks.
LEMMA ReadMoves ==
    ASSUME SockIInv, NEW f \in Fibers, ReadReturns(f) \/ ReadTimesOut(f)
    PROVE  NetKeeps /\ \E l \in SockLocations, c \in CallRecord : CallMoves(f, l, c)
<1> USE DEF SockIInv
<1>0. cur = f /\ Live(f) /\ loc[f] = "read" /\ Return(f) /\ UNCHANGED owners
  BY DEF ReadReturns, ReadTimesOut, InCall, Live
<1>1. PICK fd \in Fds : fd = io[f].fd
  BY <1>0 DEF CallsInv
<1>2. fd \in AllFds /\ fd # Listener
  BY SocketConstantsAssumption DEF AllFds
<1>3. CASE ReadTimesOut(f)
  BY <1>0, <1>3, NoSocket, ReturnMoves DEF ReadTimesOut
<1>4. CASE ReadReturns(f)
  <2>1. Readable(fd) /\ edges' = edges
    BY <1>1, <1>4 DEF ReadReturns, Readable
  <2>2. CASE net[fd].inbox > 0
    <3>1. PICK n \in 1 .. net[fd].inbox : net' = [net EXCEPT ![fd].inbox = @ - n]
      BY <1>1, <1>4, <2>2 DEF ReadReturns
    <3> PICK m \in Nat : m = net[fd].inbox - n
      BY <1>2 DEF FdTypes, Socket
    <3>2. PICK s \in Socket : s = [net[fd] EXCEPT !.inbox = m]
      BY <1>2 DEF FdTypes, Socket
    <3>3. net' = [net EXCEPT ![fd] = s] /\ s.open = net[fd].open /\ Flows(fd, s)
      BY <1>2, <2>1, <3>1, <3>2 DEF FdTypes, Socket, Flows
    <3> QED
      BY <1>0, <1>2, <2>1, <3>3, OneSocket, ReturnMoves DEF FdTypes
  <2>3. CASE ~(net[fd].inbox > 0)
    <3>1. PICK s \in Socket : s = [net[fd] EXCEPT !.error = FALSE]
      BY <1>2 DEF FdTypes, Socket
    <3>2. net' = [net EXCEPT ![fd] = s] /\ s.open = net[fd].open /\ Flows(fd, s)
      BY <1>1, <1>2, <1>4, <2>1, <2>3, <3>1 DEF FdTypes, Socket, ReadReturns, Flows
    <3> QED
      BY <1>0, <1>2, <2>1, <3>2, OneSocket, ReturnMoves DEF FdTypes
  <2> QED
    BY <2>2, <2>3
<1> QED
  BY <1>3, <1>4

\* Write, until it parks.
LEMMA WriteMoves ==
    ASSUME SockIInv, NEW f \in Fibers,
           WriteTakes(f) \/ WriteFails(f) \/ WriteTimesOut(f)
    PROVE  NetKeeps /\ \E l \in SockLocations, c \in CallRecord : CallMoves(f, l, c)
<1> USE DEF SockIInv
<1>0. cur = f /\ Live(f) /\ loc[f] = "write" /\ UNCHANGED owners /\ edges' = edges
  BY DEF WriteTakes, WriteFails, WriteTimesOut, InCall, Live
<1>1. PICK fd \in Fds : fd = io[f].fd /\ f \in owners[fd]
  BY <1>0 DEF CallsInv
<1>2. fd \in AllFds /\ fd # Listener /\ edges \subseteq edges' /\ edges' \subseteq AllFds
  BY <1>0, SocketConstantsAssumption DEF AllFds, FdTypes
<1>3. CASE WriteFails(f)
  <2>1. PICK s \in Socket : s = [net[fd] EXCEPT !.error = FALSE]
    BY <1>2 DEF FdTypes, Socket
  <2>2. /\ net' = [net EXCEPT ![fd] = s] /\ s.open = net[fd].open
        /\ s.inbox = net[fd].inbox /\ s.fin = net[fd].fin /\ Flows(fd, s)
    BY <1>0, <1>1, <1>2, <1>3, <2>1 DEF FdTypes, Socket, WriteFails, Flows
  <2> QED
    BY <1>0, <1>2, <1>3, <2>2, OneSocket, ReturnMoves DEF WriteFails, Readable
<1>4. CASE WriteTimesOut(f)
  <2>1. PICK s \in Socket : s = [net[fd] EXCEPT !.noSpace = TRUE]
    BY <1>2 DEF FdTypes, Socket
  <2>2. /\ net' = [net EXCEPT ![fd] = s] /\ s.open = net[fd].open
        /\ s.inbox = net[fd].inbox /\ s.fin = net[fd].fin /\ Flows(fd, s)
    BY <1>0, <1>1, <1>2, <1>4, <2>1 DEF FdTypes, Socket, WriteTimesOut, Flows
  <2> QED
    BY <1>0, <1>2, <1>4, <2>2, OneSocket, ReturnMoves DEF WriteTimesOut, Readable
<1>5. CASE WriteTakes(f)
  <2>1. PICK n \in Nat :
            n = IF io[f].left <= net[fd].room THEN io[f].left ELSE net[fd].room
    BY <1>2 DEF FdTypes, Socket, CallRecord
  <2>2. n <= io[f].left /\ n <= net[fd].room
    BY <1>2, <2>1 DEF FdTypes, Socket, CallRecord
  <2>3. /\ net' = [net EXCEPT ![fd].room = @ - n,
                              ![fd].noSpace = @ \/ n < io[f].left]
        /\ IF n = io[f].left
           THEN Return(f)
           ELSE io' = [io EXCEPT ![f].left = @ - n] /\ UNCHANGED <<vars, fdVars, events>>
    BY <1>1, <1>5, <2>1 DEF WriteTakes
  <2>4. NetKeeps
    <3>1. PICK b \in BOOLEAN : b = (net[fd].noSpace \/ n < io[f].left)
      OBVIOUS
    <3> PICK m \in Nat : m = net[fd].room - n
      BY <1>2, <2>2 DEF FdTypes, Socket
    <3>2. PICK s \in Socket : s = [net[fd] EXCEPT !.room = m, !.noSpace = b]
      BY <1>2, <2>2 DEF FdTypes, Socket
    <3>3. /\ net' = [net EXCEPT ![fd] = s] /\ s.open = net[fd].open
          /\ s.inbox = net[fd].inbox /\ s.fin = net[fd].fin
          /\ s.reset = net[fd].reset
      BY <1>2, <2>3, <3>1, <3>2 DEF FdTypes, Socket
    <3>4. net[fd].room > 0
      BY <1>1, <1>5 DEF WriteTakes, Writable
    <3>5. Flows(fd, s)
      BY <1>2, <3>3, <3>4 DEF FdTypes, Socket, Flows
    <3> QED
      BY <1>2, <3>3, <3>5, OneSocket DEF Readable
  <2>5. CASE n = io[f].left
    BY <1>0, <2>3, <2>4, <2>5, ReturnMoves
  <2>6. CASE n # io[f].left
    <3> PICK m \in Nat : m = io[f].left - n
      BY <2>2 DEF FdTypes, CallRecord
    <3>1. PICK c \in CallRecord : c = [io[f] EXCEPT !.left = m]
      BY <2>2 DEF FdTypes, CallRecord
    <3>2. io' = [io EXCEPT ![f] = c] /\ c.fd = fd
      BY <1>1, <2>3, <2>6, <3>1 DEF FdTypes, CallRecord
    <3>3. loc' = [loc EXCEPT ![f] = "write"]
      BY <1>0, <2>3, <2>6 DEF vars, SchedTypes
    <3>4. CallMoves(f, "write", c)
      BY <1>0, <1>1, <2>3, <2>6, <3>2, <3>3
         DEF CallMoves, vars, SockLocations, queueVars, timerVars
    <3> QED
      BY <2>4, <3>4 DEF SockLocations
  <2> QED
    BY <2>5, <2>6
<1> QED
  BY <1>3, <1>4, <1>5

\* A call that would block parks.
LEMMA BlockParks ==
    ASSUME SockIInv, NEW f \in Fibers,
           AcceptBlocks(f) \/ ReadBlocks(f) \/ WriteBlocks(f)
    PROVE  /\ NetKeeps
           /\ \E fd \in AllFds, asReader \in BOOLEAN : Parks(f, fd, asReader)
<1> USE DEF SockIInv
<1>0. loc[f] \in {"accept", "read", "write"}
  BY DEF AcceptBlocks, ReadBlocks, WriteBlocks, InCall
<1>1. PICK fd \in AllFds : fd = io[f].fd
  BY <1>0 DEF CallsInv, AllFds
<1>2. CASE AcceptBlocks(f) \/ ReadBlocks(f)
  <2>1. UNCHANGED kernelVars /\ ~Readable(fd)
    BY <1>1, <1>2 DEF AcceptBlocks, ReadBlocks, CallsInv, InCall, Readable
  <2>2. ~Readable(fd)'
    BY <2>1 DEF Readable, kernelVars
  <2>3. Parks(f, fd, TRUE)
    BY <1>1, <1>2, <2>2 DEF Parks, AcceptBlocks, ReadBlocks, InCall
  <2> QED
    BY <2>1, <2>3, NoSocket
<1>3. CASE WriteBlocks(f)
  <2>0. fd # Listener
    BY <1>1, <1>3, SocketConstantsAssumption DEF WriteBlocks, InCall, CallsInv
  <2>1. PICK s \in Socket : s = [net[fd] EXCEPT !.noSpace = TRUE]
    BY DEF FdTypes, Socket
  <2>2. /\ net' = [net EXCEPT ![fd] = s] /\ s.open = net[fd].open
        /\ s.inbox = net[fd].inbox /\ s.fin = net[fd].fin /\ edges' = edges
        /\ net[fd].room = 0 /\ net'[fd].room = 0 /\ net'[fd].noSpace /\ Flows(fd, s)
    BY <1>1, <1>3, <2>1 DEF FdTypes, Socket, WriteBlocks, Writable, Flows
  <2>3. NetKeeps
    BY <2>0, <2>2, OneSocket DEF Readable, FdTypes
  <2>4. Parks(f, fd, FALSE)
    BY <1>1, <1>3, <2>2 DEF Parks, WriteBlocks, InCall
  <2> QED
    BY <2>3, <2>4
<1> QED
  BY <1>2, <1>3

\* A new connection has nothing to read, and takes one from the backlog.
LEMMA AcceptConnects ==
    ASSUME SockIInv, NEW f \in Fibers, NEW fd \in Fds,
           AcceptReturns(f, fd) \/ ConnectTCP(f, fd)
    PROVE  Connects(f, fd)
<1> USE DEF SockIInv
<1>0. fd \in AllFds /\ fd # Listener /\ Listener \in AllFds
  BY SocketConstantsAssumption DEF AllFds
<1>1. /\ Fresh \in Socket /\ Fresh.open /\ Fresh.inbox = 0 /\ ~Fresh.fin
      /\ NoIo \in CallRecord
  BY SocketConstantsAssumption DEF Fresh, Closed, Socket, NoIo, CallRecord
<1>2. CASE AcceptReturns(f, fd)
  <2>1. cur = f /\ Live(f) /\ ~Holds(f) /\ ~net[fd].open /\ net[Listener].inbox > 0
    BY <1>2 DEF AcceptReturns, InCall, CallsInv, Live, TakeOver, LowestFree,
                Readable, KernelInv
  <2> PICK n \in Nat : n = net[Listener].inbox - 1
    BY <1>0, <2>1 DEF FdTypes, Socket
  <2>2. PICK s \in Socket : s = [net[Listener] EXCEPT !.inbox = n]
    BY <1>0 DEF FdTypes, Socket
  <2>3. net' = [[net EXCEPT ![fd] = Fresh] EXCEPT ![Listener] = s]
    BY <1>0, <1>2, <2>2 DEF AcceptReturns, FdTypes, Socket
  <2>4. /\ s.open = net[Listener].open /\ s.fin = net[Listener].fin
        /\ s.inbox = n
    BY <1>0, <2>2 DEF FdTypes, Socket
  <2>5. /\ net' \in [AllFds -> Socket]
        /\ net'[fd] = Fresh /\ net'[Listener] = s
        /\ \A d \in AllFds \ {fd, Listener} : net'[d] = net[d]
    BY <1>0, <1>1, <2>3 DEF FdTypes
  <2>6. \A d \in Fds \ {fd} : net'[d] = net[d]
    BY <2>5, SocketConstantsAssumption DEF AllFds
  <2>7. \A d \in AllFds \ {fd} : /\ net'[d].open = net[d].open
                                 /\ net'[d].fin = net[d].fin
                                 /\ Readable(d)' => Readable(d)
    BY <1>1, <2>1, <2>4, <2>5 DEF Readable
  <2>8. io' \in [Fibers -> CallRecord] /\ \A g \in Fibers \ {f} : io'[g] = io[g]
    BY <1>1, <1>2 DEF AcceptReturns, Return, FdTypes
  <2> QED
    BY <1>2, <2>1, <2>5, <2>6, <2>7, <2>8 DEF Connects, AcceptReturns, TakeOver, Return
<1>3. CASE ConnectTCP(f, fd)
  <2>1. net' = [net EXCEPT ![fd] = Fresh]
    BY <1>3 DEF ConnectTCP
  <2>2. /\ net' \in [AllFds -> Socket]
        /\ net'[fd] = Fresh
        /\ \A d \in Fds \ {fd} : net'[d] = net[d]
        /\ \A d \in AllFds \ {fd} : /\ net'[d].open = net[d].open
                                    /\ net'[d].fin = net[d].fin
                                    /\ Readable(d)' => Readable(d)
    BY <1>0, <1>1, <2>1 DEF FdTypes, Readable, AllFds
  <2>3. cur = f /\ Live(f) /\ ~Holds(f) /\ ~net[fd].open
        /\ loc' = [loc EXCEPT ![f] = "user"] /\ io' \in [Fibers -> CallRecord]
    BY <1>3 DEF ConnectTCP, InUser, Live, TakeOver, LowestFree, SchedTypes, vars,
                FdTypes
  <2> QED
    BY <1>3, <2>2, <2>3 DEF Connects, ConnectTCP, TakeOver, vars, queueVars, timerVars
<1> QED
  BY <1>2, <1>3

\* The steps that XSocket takes from XFiber.
LEMMA SchedulerSteps ==
    ASSUME SockIInv,
           \/ /\ \/ StartRound \/ RunNext \/ EnterTimers \/ TimerErase \/ TimersDone
                 \/ EpollIdle \/ EnterDispatch \/ Tick
                 \/ \E f \in Fibers :
                        \/ CreateFiber(f) \/ Yield(f) \/ \E ms \in SleepTimes : SleepMs(f, ms)
                        \/ Finish(f) /\ ~Holds(f)
              /\ UNCHANGED sockVars
           \/ \E f \in Fibers : TimerWake(f) /\ ForgetFds(f)
              /\ UNCHANGED <<readFds, io, owners, kernelVars, events>>
    PROVE  SchedulerStep
<1> USE DEF SockIInv
<1>0. NoFiber \notin Fibers
  BY ConstantsAssumption
<1>1. [Next]_vars
  BY DEF Next, Dispatch, GiveUpCpu
<1>2. ASSUME NEW f \in Fibers, Finish(f) PROVE ~Holds(f)
  <2>1. cur = f /\ loc[f] = "user" /\ cur' = NoFiber /\ loc'[f] = "freed"
        /\ phase' = phase /\ clock' = clock /\ cur # NoFiber
    BY <1>0, <1>2 DEF Finish, InUser, SchedTypes
  <2>2. phase = "running"
    BY <2>1 DEF PhaseInv
  <2>3. CASE StartRound \/ RunNext \/ EnterTimers \/ TimerErase \/ TimersDone
             \/ EpollIdle \/ EnterDispatch \/ \E g \in Fibers : TimerWake(g)
    BY <2>1, <2>2, <2>3 DEF StartRound, RunNext, EnterTimers, TimerErase, TimersDone,
                            EpollIdle, EnterDispatch, TimerWake
  <2>4. CASE Tick
    BY <2>1, <2>4 DEF Tick, queueVars, timerVars
  <2>5. ASSUME NEW g \in Fibers, CreateFiber(g) \/ Yield(g) PROVE FALSE
    BY <2>1, <2>5 DEF CreateFiber, Yield, SchedTypes
  <2>6. ASSUME NEW g \in Fibers, NEW ms \in SleepTimes, SleepMs(g, ms) PROVE FALSE
    BY <2>1, <2>6 DEF SleepMs, InUser, SchedTypes
  <2>7. ASSUME NEW g \in Fibers, Finish(g), ~Holds(g) PROVE ~Holds(f)
    BY <2>1, <2>7 DEF Finish, InUser
  <2> QED
    BY <2>3, <2>4, <2>5, <2>6, <2>7
<1>3. CASE \E f \in Fibers : TimerWake(f) /\ ForgetFds(f)
           /\ UNCHANGED <<readFds, io, owners, kernelVars, events>>
  BY <1>1, <1>2, <1>3 DEF SchedulerStep
<1>4. CASE /\ \/ StartRound \/ RunNext \/ EnterTimers \/ TimerErase \/ TimersDone
              \/ EpollIdle \/ EnterDispatch \/ Tick
              \/ \E f \in Fibers :
                     \/ CreateFiber(f) \/ Yield(f) \/ \E ms \in SleepTimes : SleepMs(f, ms)
                     \/ Finish(f) /\ ~Holds(f)
           /\ UNCHANGED sockVars
  <2>1. ASSUME NEW f \in Fibers, TimerWake(f) PROVE FALSE
    <3>1. PICK t \in DOMAIN expireEvents : DueFirst(t) /\ f \in expireEvents[t]
      BY <2>1, WokenFirst DEF SchedTypes
    <3>2. /\ phase = "timers" /\ phase' = phase /\ cur' = cur /\ clock' = clock
          /\ loc' = loc /\ cur = NoFiber
          /\ DOMAIN expireEvents' = DOMAIN expireEvents
      BY <2>1, WakeOne DEF TimerWake, PhaseInv, SchedTypes
    <3>3. CASE StartRound \/ RunNext \/ EnterTimers \/ TimersDone \/ EpollIdle
             \/ EnterDispatch
      BY <3>1, <3>2, <3>3 DEF StartRound, RunNext, EnterTimers, TimersDone, EpollIdle,
                              EnterDispatch
    <3>4. CASE TimerErase
      <4>1. PICK u \in DOMAIN expireEvents :
                expireEvents' = Restrict(expireEvents, DOMAIN expireEvents \ {u})
        BY <3>4 DEF TimerErase
      <4> QED
        BY <3>2, <4>1 DEF Restrict
    <3>5. CASE Tick
      BY <3>2, <3>5 DEF Tick, SchedTypes
    <3>6. ASSUME NEW g \in Fibers, CreateFiber(g) PROVE FALSE
      BY <1>0, <3>2, <3>6 DEF CreateFiber
    <3>7. ASSUME NEW g \in Fibers,
                 InUser(g) /\ (Yield(g) \/ (\E ms \in SleepTimes : SleepMs(g, ms)) \/ Finish(g))
          PROVE FALSE
      BY <1>0, <3>2, <3>7 DEF InUser
    <3> QED
      BY <1>4, <3>3, <3>4, <3>5, <3>6, <3>7 DEF Yield, SleepMs, Finish
  <2> QED
    BY <1>1, <1>2, <1>4, <2>1 DEF SchedulerStep, sockVars, fdVars
<1> QED
  BY <1>3, <1>4

\* The disjuncts of the next-state relation, one kind after the other.
LEMMA StepKinds ==
    ASSUME SockIInv, [SockNext]_allVars
    PROVE  SockStep
<1>1. CASE SockDispatch
  <2>1. CASE \/ /\ \/ StartRound \/ RunNext \/ EnterTimers \/ TimerErase
                   \/ TimersDone \/ EpollIdle
                /\ UNCHANGED sockVars
             \/ \E f \in Fibers :
                 /\ TimerWake(f)
                 /\ Len(Queue) < MaxQueue
                 /\ ForgetFds(f)
                 /\ UNCHANGED <<readFds, io, owners, kernelVars, events>>
    BY <2>1, SchedulerSteps DEF SockStep
  <2> QED
    BY <1>1, <2>1 DEF SockDispatch, SockStep
<1>2. CASE PeerStep
  BY <1>2, PeersKeepNet DEF SockStep
<1>3. CASE (EnterDispatch \/ Tick) /\ UNCHANGED sockVars
  BY <1>3, SchedulerSteps DEF SockStep
<1>4. ASSUME NEW f \in Fibers, CreateFiber(f) /\ UNCHANGED sockVars
      PROVE  SockStep
  BY <1>4, SchedulerSteps DEF SockStep
<1>5. ASSUME NEW f \in Fibers, CallStep(f)
      PROVE  SockStep
  <2>1. CASE AcceptBlocks(f) \/ ReadBlocks(f) \/ WriteBlocks(f)
    BY <2>1, BlockParks DEF SockStep
  <2>2. CASE ReadReturns(f) \/ ReadTimesOut(f)
    BY <2>2, ReadMoves DEF SockStep
  <2>3. CASE WriteTakes(f) \/ WriteFails(f) \/ WriteTimesOut(f)
    BY <2>3, WriteMoves DEF SockStep
  <2>4. CASE \E fd \in Fds : AcceptReturns(f, fd)
    BY <2>4, AcceptConnects DEF SockStep
  <2> QED
    BY <1>5, <2>1, <2>2, <2>3, <2>4 DEF CallStep
<1>6. ASSUME NEW f \in Fibers, Leave(f)
      PROVE  SockStep
  <2>1. CASE \/ (Yield(f) \/ \E ms \in SleepTimes : SleepMs(f, ms)) /\ UNCHANGED sockVars
             \/ ~Holds(f) /\ Finish(f) /\ UNCHANGED sockVars
    BY <2>1, SchedulerSteps DEF SockStep
  <2>2. CASE \E fd \in Fds : FinishHolding(f, fd)
    BY <2>2 DEF FinishHolding, InUser, Drops, SockStep
  <2> QED
    BY <1>6, <2>1, <2>2 DEF Leave
<1>7. ASSUME NEW f \in Fibers, "accept" \in Calls, Accept(f)
      PROVE  SockStep
  <2>1. Listener \in AllFds /\ ~Holds(f) /\ Enter(f, "accept", Listener, 0, -1)
    BY <1>7 DEF Accept, AllFds
  <2> QED
    BY <1>7, <2>1, EnterMoves DEF SockStep
<1>8. ASSUME NEW f \in Fibers, NEW fd \in Fds,
             \/ "connect" \in Calls /\ ConnectTCP(f, fd)
             \/ "connect" \in Calls /\ "refuse" \in PeerMoves /\ ConnectRefused(f, fd)
             \/ \E ms \in Timeouts :
                 \/ "read" \in Calls /\ Read(f, fd, ms)
                 \/ \E sz \in WriteSizes : "write" \in Calls /\ Write(f, fd, sz, ms)
             \/ \E g \in Fibers : "share" \in Calls /\ Spawn(f, fd, g)
             \/ "close" \in Calls /\ Close(f, fd)
      PROVE  SockStep
  <2>0. fd \in AllFds
    BY DEF AllFds
  <2>1. CASE ConnectTCP(f, fd)
    BY <2>1, AcceptConnects DEF SockStep
  <2>2. CASE /\ "connect" \in Calls /\ "refuse" \in PeerMoves
             /\ ConnectRefused(f, fd)
    BY <2>2 DEF SockStep
  <2>3. ASSUME NEW ms \in Timeouts, "read" \in Calls, Read(f, fd, ms) PROVE SockStep
    <3>1. ms \in Nat \cup {-1}
      BY SocketConstantsAssumption
    <3>2. f \in owners[fd] /\ Enter(f, "read", fd, 0, ms)
      BY <2>3 DEF Read
    <3> QED
      BY <2>0, <2>3, <3>1, <3>2, EnterMoves DEF SockStep
  <2>4. ASSUME NEW ms \in Timeouts, NEW sz \in WriteSizes,
               "write" \in Calls, Write(f, fd, sz, ms)
        PROVE SockStep
    <3>1. ms \in Nat \cup {-1} /\ sz \in Nat
      BY SocketConstantsAssumption
    <3>2. f \in owners[fd] /\ Enter(f, "write", fd, sz, ms)
      BY <2>4 DEF Write
    <3> QED
      BY <2>0, <2>4, <3>1, <3>2, EnterMoves DEF SockStep
  <2>5. CASE \E g \in Fibers : "share" \in Calls /\ Spawn(f, fd, g)
    BY <2>5 DEF SockStep
  <2>6. CASE "close" \in Calls /\ Close(f, fd)
    BY <2>6 DEF Close, InUser, Drops, SockStep
  <2> QED
    BY <1>8, <2>1, <2>2, <2>3, <2>4, <2>5, <2>6
<1>9. CASE UNCHANGED allVars
  <2>1. UNCHANGED kernelVars /\ UNCHANGED <<vars, fdVars, io, owners, events>>
    BY <1>9 DEF allVars, sockVars, vars, fdVars
  <2> QED
    BY <2>1, NoSocket DEF SockStep, SockIInv
<1> QED
  BY <1>1, <1>2, <1>3, <1>4, <1>5, <1>6, <1>7, <1>8, <1>9 DEF SockNext

-----------------------------------------------------------------------------
(* Theorems for every value of the constants.                              *)

\* At the start nothing is registered and nothing is open but the listener.
LEMMA SockInitInv == SockInit => SockIInv
<1> SUFFICES ASSUME SockInit PROVE SockIInv
  OBVIOUS
<1> USE DEF SockInit, Init
<1>1. <<>> \in Seq(Fibers)
  OBVIOUS
<1>2. /\ Closed \in Socket /\ [Fresh EXCEPT !.room = 0] \in Socket
      /\ ~[Fresh EXCEPT !.room = 0].fin /\ [Fresh EXCEPT !.room = 0].inbox = 0
      /\ NoIo \in CallRecord
  BY SocketConstantsAssumption DEF Fresh, Closed, Socket, NoIo, CallRecord
<1>3. SchedTypes(SockLocations, SockPhases) /\ PhaseInv
  BY <1>1 DEF SchedTypes, PhaseInv, SockLocations, Locations, SockPhases, Phases
<1>4. FdTypes
  BY <1>2 DEF FdTypes
<1>5. CallsInv /\ OwnersInv /\ EntriesInv /\ InputOnItsWay
  BY DEF CallsInv, OwnersInv, EntriesInv, InputOnItsWay
<1>6. KernelInv
  BY <1>2 DEF KernelInv, AllFds
<1> QED
  BY <1>3, <1>4, <1>5, <1>6 DEF SockIInv

\* Every kind of step keeps the invariant.
LEMMA SockNextKeeps == SockIInv /\ [SockNext]_allVars => SockIInv'
<1> SUFFICES ASSUME SockIInv, [SockNext]_allVars PROVE SockIInv'
  OBVIOUS
<1>1. SockStep
  BY StepKinds
<1>2. CASE SchedulerStep
  BY <1>2, SchedulerStepKeeps
<1>3. CASE EpollWait \/ EpollDone \/ \E e \in events : EpollEvent(e)
  BY <1>3, EpollWaitKeeps, EpollDoneKeeps, EpollEventKeeps
<1>4. CASE NetKeeps /\ UNCHANGED <<vars, fdVars, io, owners, events>>
  BY <1>4, NetKeepsSock
<1>5. ASSUME NEW f \in Fibers, NEW l \in SockLocations, NEW c \in CallRecord,
             CallMoves(f, l, c), NetKeeps
      PROVE  SockIInv'
  BY <1>5, CallMovesKeeps
<1>6. ASSUME NEW f \in Fibers, NEW fd \in AllFds, NEW asReader \in BOOLEAN,
             Parks(f, fd, asReader), NetKeeps
      PROVE  SockIInv'
  BY <1>6, ParksKeeps
<1>7. ASSUME NEW f \in Fibers, NEW fd \in Fds,
             \/ Connects(f, fd)
             \/ ConnectRefused(f, fd)
             \/ \E g \in Fibers : Spawn(f, fd, g)
             \/ Drops(f, fd)
      PROVE  SockIInv'
  BY <1>7, ConnectsKeeps, ConnectRefusedKeeps, SpawnKeeps, DropsKeeps
<1> QED
  BY <1>1, <1>2, <1>3, <1>4, <1>5, <1>6, <1>7 DEF SockStep

\* The invariant holds in every state.
LEMMA SockInvariant == SockSpec => []SockIInv
BY SockInitInv, SockNextKeeps, PTL DEF SockSpec

\* The variables of the scheduler, of the registrations and of the kernel have
\* their types: counters of units never go below zero, whatever the peers do,
\* and every call is on a descriptor (src/xsocket.cpp, src/xfiber.cpp).
THEOREM SockTypesKept == SockSpec => []SockTypeOK
<1>1. SockIInv => SockTypeOK
  BY DEF SockIInv, SchedTypes, FdTypes, SockTypeOK, SockPhases, CallRecord, EventRecord
<1> QED
  BY <1>1, SockInvariant, PTL

\* Input for a registered reader is always on its way to it as an edge or an
\* event, for any number of fibers, connections, timeouts and any traffic: the
\* edge-triggered loop of Dispatch loses none (src/xfiber.cpp, Dispatch).
THEOREM InputNeverLost == SockSpec => []InputOnItsWay
<1>1. SockIInv => InputOnItsWay
  BY DEF SockIInv
<1> QED
  BY <1>1, SockInvariant, PTL
=============================================================================
