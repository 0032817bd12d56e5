------------------------------- MODULE XSocket -------------------------------
(***************************************************************************)
(* The sockets of the library: Listener and Connection of src/xsocket.cpp, *)
(* and the part of the scheduler that binds fibers to file descriptors:    *)
(* RegisterWaitingEvents, WakeUpFiber, UnregisterFd, TakeOver and the epoll *)
(* part of Dispatch in src/xfiber.cpp, on top of the scheduler of XFiber.  *)
(*                                                                         *)
(* Every call is a loop around a non-blocking system call.  When it would  *)
(* block, the fiber enters io_waiting_fibers_ and parks; epoll is edge     *)
(* triggered, so a change of a socket is reported once.                    *)
(*                                                                         *)
(* The kernel and the peers are the environment.  A message is a unit.     *)
(***************************************************************************)
EXTENDS XFiber

CONSTANTS
    Fds,         \* the numbers the kernel gives to connections
    Listener,    \* the fd of the one listening socket, open from the start
    NoFd,        \* stands for "not inside a call on a socket"
    Calls,       \* the calls the clients use
    WriteSizes,  \* the values of sz in Write, in units
    Timeouts,    \* the values of timeout_ms in Read and Write
    PeerMoves,   \* what the peers do
    FdsSuffice,  \* bound: whether peers connect only while a number is free
    MaxInbox,    \* bound: units received and not read, connections not accepted
    SendBuffer,  \* units the send buffer of a socket holds
    MaxEvents,   \* MAX_EVENT_COUNT: what one epoll_wait reports at most
    MaxQueue     \* bound on the number of entries in the two deques

AllFds == Fds \cup {Listener}

ASSUME SocketConstantsAssumption ==
    /\ AllFds \subseteq Nat /\ Listener \notin Fds
    /\ NoFd \notin AllFds
    /\ Calls \subseteq {"accept", "connect", "read", "write", "share", "close"}
    /\ WriteSizes \subseteq Nat \ {0}
    /\ Timeouts \subseteq Nat \cup {-1}
    /\ PeerMoves \subseteq {"connect", "refuse", "send", "close", "reset", "read"}
    /\ FdsSuffice \in BOOLEAN
    /\ MaxInbox \in Nat /\ SendBuffer \in Nat \ {0} /\ MaxQueue \in Nat
    /\ MaxEvents \in Nat \ {0}

VARIABLES
    ioFibers,  \* io_waiting_fibers_: from an fd to its reader r and writer w
    readFds,   \* readFds[f]: waiting_events_.waiting_fds_r_ of f
    io,        \* io[f]: arguments and locals of the call f is in, or NoIo
    owners,    \* owners[fd]: the fibers that hold a shared_ptr to the Connection
    net,       \* net[fd]: the socket in the kernel
    edges,     \* the fds with a change that epoll has not reported yet
    events     \* the events of the last epoll_wait still to be handled

fdVars == <<ioFibers, readFds>>
kernelVars == <<net, edges>>
sockVars == <<fdVars, io, owners, kernelVars, events>>
allVars == <<vars, sockVars>>

NoIo == [fd |-> NoFd, left |-> 0, expireAt |-> -1]

\* A socket that is not open, one that has just been connected, and one that was
\* opened and not connected.
Closed == [open |-> FALSE, inbox |-> 0, fin |-> FALSE, room |-> 0, noSpace |-> FALSE,
           reset |-> FALSE, error |-> FALSE]
Fresh == [Closed EXCEPT !.open = TRUE, !.room = SendBuffer]
Unconnected == [Fresh EXCEPT !.fin = TRUE]

Readable(fd) == net[fd].inbox > 0 \/ net[fd].fin
Writable(fd) == net[fd].room > 0 \/ net[fd].reset

SockLocations == Locations \cup {"accept", "read", "write"}

-----------------------------------------------------------------------------
(* Binding fibers to file descriptors.                                     *)

\* The entry of fd, or one with nobody in it.
Waiting(fd) ==
    IF fd \in DOMAIN ioFibers THEN ioFibers[fd] ELSE [r |-> NoFiber, w |-> NoFiber]

\* Mutant of RegisterFd: a reader that has waited for fd before is not entered.
RegisterFd_FirstTimeOnly(f, fd, asReader) ==
    IF fd \in DOMAIN ioFibers \cup (IF asReader THEN readFds[f] ELSE {})
    THEN UNCHANGED fdVars
    ELSE /\ ioFibers' = [d \in DOMAIN ioFibers \cup {fd} |->
                            IF d # fd THEN ioFibers[d]
                            ELSE IF asReader THEN [r |-> f, w |-> NoFiber]
                                             ELSE [r |-> NoFiber, w |-> f]]
         /\ readFds' = IF asReader THEN [readFds EXCEPT ![f] = @ \cup {fd}]
                                   ELSE readFds

\* RegisterWaitingEvents of the current fiber f, fd part, as a reader or as a
\* writer.  Nothing is registered when fd has an entry.  Only a reader notes the
\* fd in its own waiting_events_: SetWriteEvent copies the list of the readers.
RegisterFd(f, fd, asReader) ==
    IF fd \in DOMAIN ioFibers
    THEN UNCHANGED fdVars
    ELSE /\ ioFibers' = [d \in DOMAIN ioFibers \cup {fd} |->
                            IF d # fd THEN ioFibers[d]
                            ELSE IF asReader THEN [r |-> f, w |-> NoFiber]
                                             ELSE [r |-> NoFiber, w |-> f]]
         /\ readFds' = IF asReader THEN [readFds EXCEPT ![f] = @ \cup {fd}]
                                   ELSE readFds

\* Mutant of ForgetFds: the entries stay.
ForgetFds_Nothing(f) == ioFibers' = ioFibers

\* WakeUpFiber of f, fd part: the entries of all fds f ever read, whoever is in
\* them.  The loop over waiting_fds_w_ finds that list empty.
ForgetFds(f) == ioFibers' = Restrict(ioFibers, DOMAIN ioFibers \ readFds[f])

\* WakeUpFiber as a whole.
WakeUp(f) ==
    /\ Len(Queue) < MaxQueue
    /\ WakeUpFibers(<<f>>)
    /\ ForgetFds(f)

\* Mutant of UnregisterFd: the entry of the closed fd stays.
UnregisterFd_KeepsEntry(fd) ==
    IF Waiting(fd).w = NoFiber
    THEN UNCHANGED <<ready, expireEvents, ioFibers>>
    ELSE WakeUp(Waiting(fd).w)

\* UnregisterFd: wakes the writer of the entry and erases it.  With a reader, or a
\* writer that has also read fd, WakeUpFiber has already erased the entry and the
\* code goes on with an iterator that is no longer valid: no behaviour.
UnregisterFd(fd) ==
    /\ Waiting(fd).r = NoFiber
    /\ IF Waiting(fd).w = NoFiber
       THEN /\ UNCHANGED <<ready, expireEvents>>
            /\ ioFibers' = Restrict(ioFibers, DOMAIN ioFibers \ {fd})
       ELSE /\ fd \notin readFds[Waiting(fd).w]
            /\ Len(Queue) < MaxQueue
            /\ WakeUpFibers(<<Waiting(fd).w>>)
            /\ ioFibers' = Restrict(ioFibers, DOMAIN ioFibers
                                              \ (readFds[Waiting(fd).w] \cup {fd}))

\* Mutant of DropConnection: the first one to let go destroys the connection.
DropConnection_First(f, fd) ==
    /\ owners' = [owners EXCEPT ![fd] = @ \ {f}]
    /\ UnregisterFd(fd)
    /\ net' = [net EXCEPT ![fd] = Closed]
    /\ edges' = edges \ {fd}

\* f lets go of its shared_ptr to the connection fd.  The last one destroys it.
DropConnection(f, fd) ==
    /\ owners' = [owners EXCEPT ![fd] = @ \ {f}]
    /\ IF owners[fd] = {f}
       THEN /\ UnregisterFd(fd)
            /\ net' = [net EXCEPT ![fd] = Closed]
            /\ edges' = edges \ {fd}
       ELSE UNCHANGED <<ready, expireEvents, ioFibers, kernelVars>>

-----------------------------------------------------------------------------
SockInit ==
    /\ Init
    /\ ioFibers = [fd \in {} |-> [r |-> NoFiber, w |-> NoFiber]]
    /\ readFds = [f \in Fibers |-> {}]
    /\ io = [f \in Fibers |-> NoIo]
    /\ owners = [fd \in Fds |-> {}]
    /\ net = [fd \in AllFds |-> IF fd = Listener THEN [Fresh EXCEPT !.room = 0]
                                                 ELSE Closed]
    /\ edges = {}
    /\ events = {}

\* f enters or leaves a call; everything else stays as it is.
InCall(f, l) == cur = f /\ loc[f] = l
Holds(f) == \E fd \in Fds : f \in owners[fd]

Enter(f, l, fd, size, timeout) ==
    /\ InUser(f)
    /\ clock + timeout <= MaxTime
    /\ io' = [io EXCEPT ![f] =
                [fd |-> fd, left |-> size,
                 expireAt |-> IF timeout > 0 THEN clock + timeout ELSE -1]]
    /\ loc' = [loc EXCEPT ![f] = l]
    /\ UNCHANGED <<queueVars, cur, phase, nowMs, clock, timerVars,
                   fdVars, owners, kernelVars, events>>

Return(f) ==
    /\ io' = [io EXCEPT ![f] = NoIo]
    /\ loc' = [loc EXCEPT ![f] = "user"]
    /\ UNCHANGED <<queueVars, cur, phase, nowMs, clock, timerVars, fdVars, events>>

\* The system call would block: register, and switch to the scheduler.
Park(f, asReader) ==
    /\ RegisterDeadline(f, io[f].expireAt)
    /\ RegisterFd(f, io[f].fd, asReader)
    /\ cur' = NoFiber
    /\ UNCHANGED <<queueVars, phase, nowMs, clock, loc, io, owners, events>>

\* expire_at > 0 && NowMs() >= expire_at
TimedOut(f) == io[f].expireAt > 0 /\ clock >= io[f].expireAt

\* The entries of the three calls.  (A fiber holds one connection at a time.)
Accept(f) == ~Holds(f) /\ Enter(f, "accept", Listener, 0, -1)
Read(f, fd, timeout) == f \in owners[fd] /\ Enter(f, "read", fd, 0, timeout)
\* (The process is killed by SIGPIPE when a client writes again after it has been
\* told of a reset; the clients do not.)
Write(f, fd, sz, timeout) ==
    /\ f \in owners[fd]
    /\ net[fd].reset => net[fd].error
    /\ Enter(f, "write", fd, sz, timeout)

\* The number the kernel gives to a new socket.
LowestFree(fd) == ~net[fd].open /\ \A d \in Fds : net[d].open \/ fd <= d

\* TakeOver of a new connection: epoll watches it, and it is writable from the start.
TakeOver(f, fd) ==
    /\ LowestFree(fd)
    /\ owners' = [owners EXCEPT ![fd] = {f}]
    /\ edges' = edges \cup {fd}

\* accept returns a connection, Accept returns it.  Without a free number accept
\* fails, and Accept calls it again at once: nothing changes, f keeps the CPU.
AcceptReturns(f, fd) ==
    /\ InCall(f, "accept")
    /\ Readable(Listener)
    /\ TakeOver(f, fd)
    /\ net' = [net EXCEPT ![fd] = Fresh, ![Listener].inbox = @ - 1]
    /\ Return(f)

\* accept returns EAGAIN.
AcceptBlocks(f) ==
    /\ InCall(f, "accept")
    /\ ~Readable(Listener)
    /\ Park(f, TRUE)
    /\ UNCHANGED kernelVars

\* ConnectTCP whose connect fails: the new socket is neither closed nor watched.
\* (Calls on the Connection(-1) that is returned fail at once.)
ConnectRefused(f, fd) ==
    /\ InUser(f)
    /\ ~Holds(f)
    /\ LowestFree(fd)
    /\ net' = [net EXCEPT ![fd] = Unconnected]
    /\ UNCHANGED <<vars, fdVars, io, owners, edges, events>>

\* ConnectTCP: the connect is blocking and succeeds.
ConnectTCP(f, fd) ==
    /\ InUser(f)
    /\ ~Holds(f)
    /\ TakeOver(f, fd)
    /\ net' = [net EXCEPT ![fd] = Fresh]
    /\ UNCHANGED <<vars, fdVars, io, events>>

\* read returns data, then 0 when the peer has closed, or -1 after a reset.
ReadReturns(f) ==
    LET fd == io[f].fd
    IN  /\ InCall(f, "read")
        /\ Readable(fd)
        /\ IF net[fd].inbox > 0
           THEN \E n \in 1 .. net[fd].inbox :
                    net' = [net EXCEPT ![fd].inbox = @ - n]
           ELSE net' = [net EXCEPT ![fd].error = FALSE]
        /\ Return(f)
        /\ UNCHANGED <<owners, edges>>

ReadTimesOut(f) ==
    /\ InCall(f, "read")
    /\ ~Readable(io[f].fd)
    /\ TimedOut(f)
    /\ Return(f)
    /\ UNCHANGED <<owners, kernelVars>>

ReadBlocks(f) ==
    /\ InCall(f, "read")
    /\ ~Readable(io[f].fd)
    /\ ~TimedOut(f)
    /\ Park(f, TRUE)
    /\ UNCHANGED kernelVars

\* write takes what fits; when this is not all, the kernel notes that it owes an
\* event.  Write goes on until everything is sent.
WriteTakes(f) ==
    LET fd == io[f].fd
        n  == IF io[f].left <= net[fd].room THEN io[f].left ELSE net[fd].room
    IN  /\ InCall(f, "write")
        /\ Writable(fd) /\ ~net[fd].reset
        /\ net' = [net EXCEPT ![fd].room = @ - n,
                              ![fd].noSpace = @ \/ n < io[f].left]
        /\ IF n = io[f].left
           THEN Return(f)
           ELSE /\ io' = [io EXCEPT ![f].left = @ - n]
                /\ UNCHANGED <<vars, fdVars, events>>
        /\ UNCHANGED <<owners, edges>>

\* write fails with ECONNRESET: Write returns -1, or 0 after its deadline.
WriteFails(f) ==
    /\ InCall(f, "write")
    /\ net[io[f].fd].error
    /\ net' = [net EXCEPT ![io[f].fd].error = FALSE]
    /\ Return(f)
    /\ UNCHANGED <<owners, edges>>

\* EAGAIN after the deadline: 0 is returned, whatever has been sent.
WriteTimesOut(f) ==
    /\ InCall(f, "write")
    /\ ~Writable(io[f].fd)
    /\ TimedOut(f)
    /\ net' = [net EXCEPT ![io[f].fd].noSpace = TRUE]
    /\ Return(f)
    /\ UNCHANGED <<owners, edges>>

WriteBlocks(f) ==
    /\ InCall(f, "write")
    /\ ~Writable(io[f].fd)
    /\ ~TimedOut(f)
    /\ net' = [net EXCEPT ![io[f].fd].noSpace = TRUE]
    /\ Park(f, FALSE)
    /\ UNCHANGED edges

\* CreateFiber with a function that captures the connection.
Spawn(f, fd, g) ==
    /\ InUser(f)
    /\ f \in owners[fd]
    /\ CreateFiber(g)
    /\ owners' = [owners EXCEPT ![fd] = @ \cup {g}]
    /\ UNCHANGED <<fdVars, io, kernelVars, events>>

\* A local shared_ptr goes out of scope.
Close(f, fd) ==
    /\ InUser(f)
    /\ f \in owners[fd]
    /\ DropConnection(f, fd)
    /\ UNCHANGED <<running, cur, phase, nowMs, clock, loc, expireAt,
                   readFds, io, events>>

\* The fiber ends holding a connection: the destructor of its entry function
\* runs inside "delete fiber", back in the dispatcher.
FinishHolding(f, fd) ==
    /\ InUser(f)
    /\ f \in owners[fd]
    /\ DropConnection(f, fd)
    /\ loc' = [loc EXCEPT ![f] = "freed"]
    /\ cur' = NoFiber
    /\ UNCHANGED <<running, phase, nowMs, clock, expireAt, readFds, io, events>>

-----------------------------------------------------------------------------
(* The scheduler: as in XFiber, with epoll events.                         *)

\* epoll_wait looks at the sockets with an edge until it has MaxEvents to report:
\* each one with something to show becomes an event.  Looking at a socket that is
\* full makes the kernel note that it owes an event.
EpollWait ==
    /\ phase = "epoll"
    /\ phase' = "events"
    /\ \E looked \in SUBSET edges :
        LET due == {fd \in looked : Readable(fd) \/ Writable(fd)}
        IN  /\ Cardinality(due) <= MaxEvents
            /\ looked = edges \/ Cardinality(due) = MaxEvents
            /\ events' = {[fd |-> fd, in |-> Readable(fd), out |-> Writable(fd)] :
                            fd \in due}
            /\ edges' = edges \ looked
            /\ net' = [fd \in AllFds |->
                         IF fd \in looked /\ ~Writable(fd)
                         THEN [net[fd] EXCEPT !.noSpace = TRUE] ELSE net[fd]]
    /\ UNCHANGED <<queueVars, cur, nowMs, clock, loc, timerVars, fdVars, io, owners>>

\* Mutant of Target: looks at OUT first.
Target_OutFirst(e) == IF e.out THEN Waiting(e.fd).w ELSE Waiting(e.fd).r

\* The fiber an event is for: with IN only the reader is looked at.
Target(e) == IF e.in THEN Waiting(e.fd).r ELSE Waiting(e.fd).w

\* Mutant of EpollEvent: no check for nullptr.
EpollEvent_Unchecked(e) ==
    /\ phase = "events"
    /\ e \in events
    /\ ready' = Append(ready, Target(e))
    /\ UNCHANGED <<ioFibers, expireEvents>>
    /\ events' = events \ {e}
    /\ UNCHANGED <<running, cur, phase, nowMs, clock, loc, expireAt,
                   readFds, io, owners, kernelVars>>

\* One event is handled.
EpollEvent(e) ==
    /\ phase = "events"
    /\ e \in events
    /\ IF Target(e) = NoFiber
       THEN UNCHANGED <<ready, expireEvents, ioFibers>>
       ELSE WakeUp(Target(e))
    /\ events' = events \ {e}
    /\ UNCHANGED <<running, cur, phase, nowMs, clock, loc, expireAt,
                   readFds, io, owners, kernelVars>>

EpollDone ==
    /\ phase = "events"
    /\ events = {}
    /\ phase' = "ready"
    /\ UNCHANGED <<queueVars, cur, nowMs, clock, loc, timerVars, sockVars>>

\* (EpollIdle is the epoll_wait that fails: the loop starts over, edges are kept.)
SockDispatch ==
    \/ (StartRound \/ RunNext \/ EnterTimers \/ TimerErase \/ TimersDone \/ EpollIdle)
       /\ UNCHANGED sockVars
    \/ \E f \in Fibers :
        /\ TimerWake(f)
        /\ Len(Queue) < MaxQueue
        /\ ForgetFds(f)
        /\ UNCHANGED <<readFds, io, owners, kernelVars, events>>
    \/ EpollWait
    \/ \E e \in events : EpollEvent(e)
    \/ EpollDone

-----------------------------------------------------------------------------
(* The peers.  Data and connections that arrive make an edge each time; room *)
(* in the send buffer makes one when the kernel owes it.                   *)

Peer(move) == move \in PeerMoves /\ UNCHANGED <<vars, fdVars, io, owners, events>>

PeerConnects ==
    /\ Peer("connect")
    /\ net[Listener].inbox < MaxInbox
    /\ FdsSuffice => net[Listener].inbox < Cardinality({fd \in Fds : ~net[fd].open})
    /\ net' = [net EXCEPT ![Listener].inbox = @ + 1]
    /\ edges' = edges \cup {Listener}

PeerSends(fd) ==
    /\ Peer("send")
    /\ net[fd].open /\ ~net[fd].fin /\ net[fd].inbox < MaxInbox
    /\ net' = [net EXCEPT ![fd].inbox = @ + 1]
    /\ edges' = edges \cup {fd}

PeerCloses(fd) ==
    /\ Peer("close")
    /\ net[fd].open /\ ~net[fd].fin
    /\ net' = [net EXCEPT ![fd].fin = TRUE]
    /\ edges' = edges \cup {fd}

PeerResets(fd) ==
    /\ Peer("reset")
    /\ net[fd].open /\ owners[fd] # {} /\ ~net[fd].reset
    /\ net' = [net EXCEPT ![fd].fin = TRUE, ![fd].reset = TRUE, ![fd].error = TRUE]
    /\ edges' = edges \cup {fd}

PeerReads(fd) ==
    /\ Peer("read")
    /\ net[fd].open /\ ~net[fd].reset /\ net[fd].room < SendBuffer
    /\ net' = [net EXCEPT ![fd].room = @ + 1, ![fd].noSpace = FALSE]
    /\ edges' = IF net[fd].noSpace THEN edges \cup {fd} ELSE edges

PeerStep ==
    \/ PeerConnects
    \/ \E fd \in Fds : PeerSends(fd) \/ PeerCloses(fd) \/ PeerResets(fd) \/ PeerReads(fd)

-----------------------------------------------------------------------------
\* One iteration of the loop of the call f is in.
CallStep(f) ==
    \/ AcceptBlocks(f)
    \/ ReadReturns(f) \/ ReadTimesOut(f) \/ ReadBlocks(f)
    \/ WriteTakes(f) \/ WriteFails(f) \/ WriteTimesOut(f) \/ WriteBlocks(f)
    \/ \E fd \in Fds : AcceptReturns(f, fd)

\* f gives the CPU up of its own accord.
Leave(f) ==
    \/ (Yield(f) \/ \E ms \in SleepTimes : SleepMs(f, ms)) /\ UNCHANGED sockVars
    \/ ~Holds(f) /\ Finish(f) /\ UNCHANGED sockVars
    \/ \E fd \in Fds : FinishHolding(f, fd)

SockNext ==
    \/ SockDispatch
    \/ PeerStep
    \/ (EnterDispatch \/ Tick) /\ UNCHANGED sockVars
    \/ \E f \in Fibers :
        \/ CreateFiber(f) /\ UNCHANGED sockVars
        \/ CallStep(f)
        \/ Leave(f)
        \/ "accept" \in Calls /\ Accept(f)
        \/ \E fd \in Fds :
            \/ "connect" \in Calls /\ ConnectTCP(f, fd)
            \/ "connect" \in Calls /\ "refuse" \in PeerMoves /\ ConnectRefused(f, fd)
            \/ \E ms \in Timeouts :
                \/ "read" \in Calls /\ Read(f, fd, ms)
                \/ \E sz \in WriteSizes : "write" \in Calls /\ Write(f, fd, sz, ms)
            \/ \E g \in Fibers : "share" \in Calls /\ Spawn(f, fd, g)
            \/ "close" \in Calls /\ Close(f, fd)

(***************************************************************************)
(* As for the scheduler alone; besides, an iteration of a call is taken,   *)
(* and a fiber cannot keep the CPU by calls that never block.  Nothing is  *)
(* assumed about the peers.                                                *)
(***************************************************************************)
SockFairness ==
    /\ WF_allVars(EnterDispatch /\ UNCHANGED sockVars)
    /\ WF_allVars(SockDispatch)
    /\ WF_allVars(Tick /\ UNCHANGED sockVars)
    /\ \A f \in Fibers : WF_allVars(CallStep(f)) /\ SF_allVars(Leave(f))

SockSpec == SockInit /\ [][SockNext]_allVars /\ SockFairness

-----------------------------------------------------------------------------
(* Properties.                                                             *)

WaitingFibers == [r : Fibers \cup {NoFiber}, w : Fibers \cup {NoFiber}]

Socket == [open : BOOLEAN, inbox : Nat, fin : BOOLEAN, room : Nat, noSpace : BOOLEAN,
           reset : BOOLEAN, error : BOOLEAN]

\* The types of the variables.
SockTypeOK ==
    /\ ready \in Seq(Fibers)
    /\ running \in Seq(Fibers)
    /\ cur \in Fibers \cup {NoFiber}
    /\ phase \in Phases \cup {"events"}
    /\ nowMs \in Nat
    /\ clock \in Nat \ {0}
    /\ loc \in [Fibers -> SockLocations]
    /\ expireAt \in [Fibers -> Nat \cup {-1}]
    /\ DOMAIN expireEvents \subseteq Nat \ {0}
    /\ expireEvents \in [DOMAIN expireEvents -> SUBSET Fibers]
    /\ DOMAIN ioFibers \subseteq AllFds
    /\ ioFibers \in [DOMAIN ioFibers -> WaitingFibers]
    /\ readFds \in [Fibers -> SUBSET AllFds]
    /\ io \in [Fibers -> [fd : AllFds \cup {NoFd}, left : Nat, expireAt : Nat \cup {-1}]]
    /\ owners \in [Fds -> SUBSET Fibers]
    /\ net \in [AllFds -> Socket]
    /\ edges \subseteq AllFds
    /\ events \subseteq [fd : AllFds, in : BOOLEAN, out : BOOLEAN]

\* f is off the CPU inside a call on fd, and nothing has woken it yet.
ParkedIn(f, calls, fd) ==
    loc[f] \in calls /\ io[f].fd = fd /\ cur # f /\ ~Queued(f)

\* Input that has arrived for a registered reader is on its way to it, as an edge
\* or as an event: one report per change is enough, whatever the order of
\* arrivals, reads and rounds.
InputOnItsWay ==
    \A fd \in DOMAIN ioFibers, f \in Fibers :
        ioFibers[fd].r = f /\ Readable(fd)
        => fd \in edges \/ \E e \in events : e.fd = fd /\ e.in

\* A reader that parks is registered, and stays so until it is woken, unless a
\* writer is in the entry or another live fiber has ever waited to read this fd:
\* while that one waits nobody else is registered, and when it is woken, for
\* whatever reason, the entry goes.
ReaderRegistered ==
    [][\A f \in Fibers, fd \in AllFds :
        (/\ ParkedIn(f, {"read", "accept"}, fd)'
         /\ ParkedIn(f, {"read", "accept"}, fd) => Waiting(fd).r = f
         /\ Waiting(fd).w = NoFiber
         /\ \A g \in Fibers \ {f} : Live(g) => fd \notin readFds[g])
        => Waiting(fd)'.r = f]_allVars

\* "Whenever epoll has an event we go on reading": a parked reader with input is
\* registered and its wake-up is on its way.
ReaderNotStranded ==
    \A f \in Fibers, fd \in AllFds :
        ParkedIn(f, {"read", "accept"}, fd) /\ Readable(fd)
        => /\ Waiting(fd).r = f
           /\ fd \in edges \/ \E e \in events : e.fd = fd /\ e.in

\* "A fiber that has not finished writing goes on": as long as the peer has not
\* closed the connection, room for a parked writer is on its way to it.
WriterNotStranded ==
    \A f \in Fibers, fd \in Fds :
        ParkedIn(f, {"write"}, fd) /\ Writable(fd) /\ ~net[fd].fin
        => /\ Waiting(fd).w = f
           /\ fd \in edges \/ \E e \in events : e.fd = fd /\ e.out

\* The reader in an entry of io_waiting_fibers_ is parked in a read of that very
\* fd, on a connection it holds: no wake-up is for a wait that is over, and a
\* connection is never destroyed under its reader.
ReadersCurrent ==
    \A fd \in DOMAIN ioFibers, f \in Fibers :
        ioFibers[fd].r = f =>
            /\ ParkedIn(f, {"read", "accept"}, fd)
            /\ fd # Listener => f \in owners[fd]

\* "WakeUpFiber solves the double wake-up": epoll and the timers never both
\* schedule a fiber, and its timer goes with its wait.
WokenOnce ==
    /\ IsInjective(Queue)
    /\ \A f \in Fibers :
        /\ ~(Queued(f) /\ cur = f)
        /\ HasTimer(f) => ~Queued(f) /\ cur # f

\* A fiber that has been deleted is not scheduled, and waits for nothing.
NoFreedScheduled ==
    \A f \in Fibers :
        loc[f] = "freed" =>
            /\ ~Queued(f) /\ ~HasTimer(f)
            /\ \A fd \in DOMAIN ioFibers : f \notin {ioFibers[fd].r, ioFibers[fd].w}

\* "Closed only when the reference count is 0": a connection is open as long as a
\* live fiber holds it, whoever accepted it, and no longer.
OpenWhileHeld ==
    \A fd \in Fds : net[fd].open <=> \E f \in owners[fd] : Live(f)

\* A Read with a timeout returns, even when its wait was never registered.
TimedReadEnds ==
    \A f \in Fibers :
        loc[f] = "read" /\ io[f].expireAt > 0 ~> loc[f] # "read"
=============================================================================
