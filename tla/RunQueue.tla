------------------------------ MODULE RunQueue ------------------------------
(***************************************************************************)
(* What the scheduler of the library promises: one queue of tasks that is  *)
(* served first come, first served on one CPU, and sleepers that come back *)
(* through the same queue, never early and the earliest deadline first.    *)
(* Rounds, the two deques, the map of timers and the phases of Dispatch    *)
(* are not visible here.  XFiber is shown to implement this specification. *)
(***************************************************************************)
EXTENDS Naturals, Sequences

CONSTANTS Tasks, Nobody

VARIABLES
    queue,     \* the tasks to run, in this order
    cpu,       \* the task that runs, or Nobody
    sleeping,  \* the deadline of each sleeping task
    gone,      \* the tasks that have ended
    now        \* the time

Init ==
    /\ queue = <<>>
    /\ cpu = Nobody
    /\ sleeping = [t \in {} |-> 0]
    /\ gone = {}
    /\ now = 1

\* t is nowhere yet.
New(t) ==
    /\ \A i \in DOMAIN queue : queue[i] # t
    /\ t \notin DOMAIN sleeping \cup gone \cup {cpu}

Spawn(t) ==
    /\ New(t)
    /\ queue' = Append(queue, t)
    /\ UNCHANGED <<cpu, sleeping, gone, now>>

Run ==
    /\ cpu = Nobody
    /\ queue # <<>>
    /\ cpu' = Head(queue)
    /\ queue' = Tail(queue)
    /\ UNCHANGED <<sleeping, gone, now>>

GoBack ==
    /\ cpu # Nobody
    /\ queue' = Append(queue, cpu)
    /\ cpu' = Nobody
    /\ UNCHANGED <<sleeping, gone, now>>

\* The running task sleeps until any deadline that is not in the past.
Sleep ==
    /\ cpu # Nobody
    /\ sleeping' \in [DOMAIN sleeping \cup {cpu} -> Nat]
    /\ sleeping'[cpu] >= now
    /\ \A t \in DOMAIN sleeping : sleeping'[t] = sleeping[t]
    /\ cpu' = Nobody
    /\ UNCHANGED <<queue, gone, now>>

Exit ==
    /\ cpu # Nobody
    /\ gone' = gone \cup {cpu}
    /\ cpu' = Nobody
    /\ UNCHANGED <<queue, sleeping, now>>

\* A sleeper with the earliest deadline comes back when it is due.
Wake(t) ==
    /\ cpu = Nobody
    /\ t \in DOMAIN sleeping
    /\ sleeping[t] <= now
    /\ \A u \in DOMAIN sleeping : sleeping[t] <= sleeping[u]
    /\ queue' = Append(queue, t)
    /\ sleeping' = [u \in DOMAIN sleeping \ {t} |-> sleeping[u]]
    /\ UNCHANGED <<cpu, gone, now>>

Advance ==
    /\ now' = now + 1
    /\ UNCHANGED <<queue, cpu, sleeping, gone>>

Next ==
    \/ \E t \in Tasks : Spawn(t) \/ Wake(t)
    \/ Run
    \/ GoBack
    \/ Sleep
    \/ Exit
    \/ Advance

Spec == Init /\ [][Next]_<<queue, cpu, sleeping, gone, now>>
=============================================================================
