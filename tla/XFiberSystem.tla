---------------------------- MODULE XFiberSystem ----------------------------
(***************************************************************************)
(* Scheduler, semaphores and sockets of the library together: the calls of *)
(* XSem and XSocket on one set of queues and timers.  They meet in         *)
(* WakeUpFiber, which takes a fiber out of everything it is registered in, *)
(* whoever wakes it: a fiber woken by a semaphore also gives up the        *)
(* entries of the fds it has ever read.                                    *)
(*                                                                         *)
(* The module has no Next: a program that uses the library is made of      *)
(* these steps, see XDemo.                                                 *)
(***************************************************************************)
EXTENDS XFiber

CONSTANTS
    Sems, NoSem, InitValue,                     \* see XSem
    Fds, Listener, NoFd,                        \* see XSocket
    PeerMoves, FdsSuffice, MaxInbox, SendBuffer, MaxEvents,
    MaxQueue                                    \* see both

VARIABLES
    semInfos, call, held,                             \* see XSem
    ioFibers, readFds, io, owners, net, edges, events \* see XSocket

\* The two parts; which calls the clients make is up to the program.
Sem == INSTANCE XSem WITH
    Doomed <- {}, AcquireSizes <- {}, Timeouts <- {}
Sock == INSTANCE XSocket WITH
    Calls <- {}, WriteSizes <- {}, Timeouts <- {}

ASSUME SystemAssumption == Sem!SemConstantsAssumption /\ Sock!SocketConstantsAssumption

semVars == <<semInfos, call, held>>
sockVars == <<ioFibers, readFds, io, owners, net, edges, events>>
systemVars == <<vars, semVars, sockVars>>

SystemInit == Sem!SemInit /\ Sock!SockInit

-----------------------------------------------------------------------------
\* WakeUpFiber for the fibers of S, fd part.
ForgetFdsOf(S) ==
    /\ ioFibers' = Restrict(ioFibers, DOMAIN ioFibers \ UNION {readFds[f] : f \in S})
    /\ UNCHANGED <<readFds, io, owners, net, edges, events>>

\* Calls on a semaphore.
NewSem(s) == Sem!RegisterSem(s) /\ UNCHANGED sockVars
Acquire(f, s, n, timeout) == Sem!Acquire(f, s, n, timeout) /\ UNCHANGED sockVars
Granted(f) == Sem!AcquireGranted(f) /\ UNCHANGED sockVars
Blocks(f) == Sem!AcquireBlocks(f) /\ UNCHANGED sockVars
GivesUp(f) == Sem!AcquireTimedOut(f) /\ ForgetFdsOf(Sem!Attempt(f).info.fibers)
Release(f, s, n) == Sem!Release(f, s, n) /\ ForgetFdsOf(semInfos[s].fibers)

\* Calls of the scheduler.
Main == EnterDispatch /\ UNCHANGED <<semVars, sockVars>>
Create(f) == CreateFiber(f) /\ UNCHANGED <<semVars, sockVars>>
Sleeps(f, ms) == SleepMs(f, ms) /\ UNCHANGED <<semVars, sockVars>>
Yields(f) == Yield(f) /\ UNCHANGED <<semVars, sockVars>>
Ends(f) == Finish(f) /\ UNCHANGED <<semVars, sockVars>>

\* The scheduler with epoll, and what goes on outside of the process.
Scheduler == Sock!SockDispatch /\ UNCHANGED semVars
Outside == Sock!PeerStep /\ UNCHANGED semVars
Time == Tick /\ UNCHANGED <<semVars, sockVars>>

-----------------------------------------------------------------------------
\* What the sockets see of loc: they know nothing of semaphores, and to them a fiber
\* inside Acquire is in code of the application.
sockLoc == [f \in Fibers |-> IF loc[f] = "acquire" THEN "user" ELSE loc[f]]

\* f is parked on some semaphore, or entered as the reader of some fd.
ParkedOnSem(f) == \E s \in DOMAIN semInfos : f \in semInfos[s].fibers
Reading(f) == \E fd \in DOMAIN ioFibers : ioFibers[fd].r = f

\* Whatever it was that woke a fiber, WakeUpFiber has taken it out of the rest: a
\* live fiber is in exactly one of the run queue (once), the CPU, a semaphore, or
\* the waits of the scheduler (a timer, an fd, or both); a freed fiber is nowhere.
InOneRole ==
    /\ IsInjective(Queue)
    /\ \A f \in Fibers :
        LET roles == {r \in {"queued", "running", "sem", "waiting"} :
                        \/ r = "queued" /\ Queued(f)
                        \/ r = "running" /\ cur = f
                        \/ r = "sem" /\ ParkedOnSem(f)
                        \/ r = "waiting" /\ (HasTimer(f) \/ Reading(f))}
        IN  IF Live(f) THEN \E r \in roles : roles = {r} ELSE roles = {}
=============================================================================
