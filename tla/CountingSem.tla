----------------------------- MODULE CountingSem -----------------------------
(***************************************************************************)
(* What the semaphores of the library promise their clients: Acquire takes *)
(* all the units it asks for in one step or none at all, Release gives     *)
(* back units the client holds.  Partial grants, waiting and timeouts are  *)
(* not visible here.  Semaphores come and go.  XSem is shown to implement  *)
(* this specification.                                                     *)
(***************************************************************************)
EXTENDS Naturals

CONSTANTS Clients, Sems, InitValue

VARIABLES
    free,  \* free[s]: units nobody holds of a semaphore s that exists
    held   \* held[f][s]: units of s that f holds

Init ==
    /\ free = [s \in {} |-> 0]
    /\ held = [f \in Clients |-> [s \in Sems |-> 0]]

Create(s) ==
    /\ s \notin DOMAIN free
    /\ \A f \in Clients : held[f][s] = 0
    /\ free' = [r \in DOMAIN free \cup {s} |->
                   IF r = s THEN InitValue[s] ELSE free[r]]
    /\ UNCHANGED held

Destroy(s) ==
    /\ s \in DOMAIN free
    /\ free' = [r \in DOMAIN free \ {s} |-> free[r]]
    /\ UNCHANGED held

Take(f, s, n) ==
    /\ s \in DOMAIN free
    /\ n <= free[s]
    /\ free' = [free EXCEPT ![s] = @ - n]
    /\ held' = [held EXCEPT ![f][s] = @ + n]

Give(f, s, n) ==
    /\ s \in DOMAIN free
    /\ n <= held[f][s]
    /\ free' = [free EXCEPT ![s] = @ + n]
    /\ held' = [held EXCEPT ![f][s] = @ - n]

Next ==
    \E s \in Sems :
        \/ Create(s)
        \/ Destroy(s)
        \/ \E f \in Clients, n \in 1 .. InitValue[s] :
            Take(f, s, n) \/ Give(f, s, n)

Spec == Init /\ [][Next]_<<free, held>>
=============================================================================
