------------------------------- MODULE XMixed -------------------------------
(***************************************************************************)
(* Fibers that use semaphores and sockets side by side: a fiber that parks *)
(* in Acquire has read a connection before, and may be woken there while   *)
(* its peer sends, so that WakeUpFiber has both registrations to clear.    *)
(* Unlike the programs of XDemo these are arbitrary, within three rules.   *)
(* Nobody gives a deadline to Acquire (the run double_wake of XSem is what *)
(* happens then), a fiber keeps its one connection for life and does not   *)
(* share it, and nobody writes (stale_reader and write_then_read of        *)
(* XSocket are what happens then).                                         *)
(***************************************************************************)
EXTENDS XFiberSystem

CONSTANTS
    AcquireSizes, \* the values of apply_value the clients use
    ReadTimeouts  \* the values of timeout_ms in Read

ASSUME MixedAssumption ==
    /\ AcquireSizes \subseteq Nat \ {0}
    /\ ReadTimeouts \subseteq Nat \cup {-1}

-----------------------------------------------------------------------------
\* f, or main before Dispatch, creates a semaphore or a fiber.
Creates ==
    \/ \E s \in Sems : NewSem(s)
    \/ \E f \in Fibers : Create(f)

\* f acquires units, goes on acquiring them, or releases some.
UsesSem(f) ==
    \/ \E s \in Sems, n \in AcquireSizes : Acquire(f, s, n, -1) \/ Release(f, s, n)
    \/ Granted(f)
    \/ Blocks(f)

\* f connects, or reads from its connection.
UsesSocket(f) ==
    /\ \/ Sock!ReadBlocks(f) \/ Sock!ReadReturns(f) \/ Sock!ReadTimesOut(f)
       \/ \E fd \in Fds :
            \/ Sock!ConnectTCP(f, fd)
            \/ \E ms \in ReadTimeouts : Sock!Read(f, fd, ms)
    /\ UNCHANGED semVars

\* f gives the CPU up; when it ends its connection goes with it.
Leaves(f) ==
    \/ Yields(f)
    \/ ~Sock!Holds(f) /\ Ends(f)
    \/ \E fd \in Fds : Sock!FinishHolding(f, fd) /\ UNCHANGED semVars

MixedNext ==
    \/ Creates
    \/ Main
    \/ Scheduler
    \/ Outside
    \/ Time
    \/ \E f \in Fibers : UsesSem(f) \/ UsesSocket(f) \/ Leaves(f)

MixedSpec == SystemInit /\ [][MixedNext]_systemVars

-----------------------------------------------------------------------------
(* Properties: InOneRole of XFiberSystem, and this one.                    *)

\* A fiber comes to its reads from waits on semaphores, and goes back to them, each
\* wake-up clearing whatever it finds: still its reads are registered afresh, and
\* input for a parked one is on its way to it.
ReadersReached == Sock!ReaderNotStranded
=============================================================================
