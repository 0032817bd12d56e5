-------------------------------- MODULE XSem --------------------------------
(***************************************************************************)
(* The counting semaphores of the library: struct Sem, XFiber::SemInfo and *)
(* the routines TryAcquireSem, ReleaseSem, RestoreSem of src/xfiber.cpp,   *)
(* on top of the scheduler of XFiber.                                      *)
(*                                                                         *)
(* Acquire is a loop around the scheduler.  Each iteration asks for the    *)
(* units still missing; when it got too few it keeps what it got, parks,   *)
(* and asks again when it is resumed.  A fiber that keeps units this way   *)
(* is the semaphore's creditor (UCBA_fiber_): until it is satisfied nobody *)
(* else is given any.                                                      *)
(*                                                                         *)
(* The clients are arbitrary fibers that release only what they hold.      *)
(***************************************************************************)
EXTENDS XFiber

CONSTANTS
    Sems,         \* the Sem objects, each known by its seq_
    Doomed,       \* the Sem objects the clients unregister
    NoSem,        \* stands for "not inside an Acquire"
    InitValue,    \* InitValue[s]: the argument of the constructor of s
    AcquireSizes, \* the values of apply_value the clients use
    Timeouts,     \* the values of timeout_ms the clients use, -1 is for ever
    MaxQueue      \* bound on the number of entries in the two deques

ASSUME SemConstantsAssumption ==
    /\ NoSem \notin Sems
    /\ Doomed \subseteq Sems
    /\ InitValue \in [Sems -> Nat]
    /\ AcquireSizes \subseteq Nat \ {0}
    /\ Timeouts \subseteq Nat \cup {-1}
    /\ MaxQueue \in Nat

VARIABLES
    semInfos,  \* sem_infos_: value_, UCBA_value_, UCBA_fiber_ and fibers_ of each
               \* registered Sem
    call,      \* call[f]: arguments and locals of the Acquire f is in, or NoCall
    held       \* held[f][s]: units f has acquired and not released (of the client)

semVars == <<semInfos, call, held>>
allVars == <<vars, semVars>>

NoCall == [sem |-> NoSem, apply |-> 0, done |-> 0, expireAt |-> -1]

SemLocations == Locations \cup {"acquire"}

-----------------------------------------------------------------------------
(* Mutants of TryAcquireSem.                                               *)

\* A creditor that comes back is given what it needs, whatever is left.
TryAcquireSem_Overdraws(info, f, need) ==
    IF info.ucba = NoFiber
    THEN IF info.value >= need
         THEN [got |-> need, info |-> [info EXCEPT !.value = @ - need]]
         ELSE [got  |-> info.value,
               info |-> [value |-> 0, ucbaValue |-> info.value, ucba |-> f,
                         fibers |-> info.fibers \ {f}]]
    ELSE IF info.ucba # f
         THEN [got |-> 0, info |-> [info EXCEPT !.fibers = @ \cup {f}]]
         ELSE [got  |-> need,
               info |-> [value |-> info.value - need, ucbaValue |-> 0,
                         ucba |-> NoFiber, fibers |-> info.fibers \ {f}]]

\* No check that the caller is the creditor.
TryAcquireSem_AnyCaller(info, f, need) ==
    LET enough == info.value >= need
        done   == IF enough THEN need ELSE info.value
    IN  [got  |-> done,
         info |-> [value |-> info.value - done, ucbaValue |-> done,
                   ucba |-> IF enough THEN NoFiber ELSE f,
                   fibers |-> info.fibers \ {f}]]

\* The first partial grant leaves value_ as it was.
TryAcquireSem_KeepsValue(info, f, need) ==
    LET enough == info.value >= need
        done   == IF enough THEN need ELSE info.value
    IN  IF info.ucba \in {NoFiber, f}
        THEN [got  |-> done,
              info |-> [value |-> IF enough THEN info.value - done ELSE info.value,
                        ucbaValue |-> done,
                        ucba |-> IF enough THEN NoFiber ELSE f,
                        fibers |-> info.fibers \ {f}]]
        ELSE [got |-> 0, info |-> [info EXCEPT !.fibers = @ \cup {f}]]

-----------------------------------------------------------------------------
(* XFiber::TryAcquireSem on the record info of a semaphore, called by f for *)
(* "need" units: the new record, and the number of units f was given.       *)

TryAcquireSem(info, f, need) ==
    LET enough == info.value >= need
        done   == IF enough THEN need ELSE info.value
    IN  IF info.ucba = NoFiber
        THEN IF enough
             THEN [got |-> done, info |-> [info EXCEPT !.value = @ - done]]
             ELSE [got  |-> done,
                   info |-> [value |-> 0, ucbaValue |-> done, ucba |-> f,
                             fibers |-> info.fibers \ {f}]]
        ELSE IF info.ucba # f
             THEN [got |-> 0, info |-> [info EXCEPT !.fibers = @ \cup {f}]]
             ELSE [got  |-> done,
                   info |-> [value     |-> info.value - done,
                             ucbaValue |-> IF enough THEN 0
                                                     ELSE info.ucbaValue + need,
                             ucba      |-> IF enough THEN NoFiber ELSE f,
                             fibers    |-> info.fibers \ {f}]]

\* Wakes all the fibers parked on a semaphore with record info.
WakeAll(info) ==
    /\ Len(Queue) + Cardinality(info.fibers) <= MaxQueue
    /\ WakeUpFibers(WakeOrder[info.fibers])

-----------------------------------------------------------------------------
SemInit ==
    /\ Init
    /\ semInfos = [s \in {} |-> [value |-> 0, ucbaValue |-> 0,
                                 ucba |-> NoFiber, fibers |-> {}]]
    /\ call = [f \in Fibers |-> NoCall]
    /\ held = [f \in Fibers |-> [s \in Sems |-> 0]]

\* No fiber has to do with s.
Unused(s) == \A f \in Fibers : call[f].sem # s /\ held[f][s] = 0

\* The constructor of a Sem, called by main or by the running fiber.  (A new Sem
\* has a new seq_; one that nobody remembers stands for it.)
RegisterSem(s) ==
    /\ phase = "main" \/ (cur # NoFiber /\ loc[cur] = "user")
    /\ s \notin DOMAIN semInfos
    /\ Unused(s)
    /\ semInfos' = [r \in DOMAIN semInfos \cup {s} |->
                       IF r # s THEN semInfos[r]
                       ELSE [value |-> InitValue[s], ucbaValue |-> 0,
                             ucba |-> NoFiber, fibers |-> {}]]
    /\ UNCHANGED <<vars, call, held>>

\* Mutant of UnregisterSem: erases the record and wakes nobody.
UnregisterSem_Silent(f, s) ==
    /\ InUser(f)
    /\ s \in Doomed \cap DOMAIN semInfos
    /\ semInfos' = Restrict(semInfos, DOMAIN semInfos \ {s})
    /\ UNCHANGED <<vars, call, held>>

\* UnregisterSem, called by a fiber: the parked fibers wake, the record goes.
UnregisterSem(f, s) ==
    /\ InUser(f)
    /\ s \in Doomed \cap DOMAIN semInfos
    /\ WakeAll(semInfos[s])
    /\ semInfos' = Restrict(semInfos, DOMAIN semInfos \ {s})
    /\ UNCHANGED <<running, cur, phase, nowMs, clock, loc, expireAt, call, held>>

\* Entry of Sem::Acquire: the deadline is computed and the loop begins.  (A
\* request of more than the semaphore was created with can never be granted.)
Acquire(f, s, n, timeout) ==
    /\ InUser(f)
    /\ s \in DOMAIN semInfos
    /\ n <= InitValue[s]
    /\ clock + timeout <= MaxTime
    /\ call' = [call EXCEPT ![f] =
                  [sem |-> s, apply |-> n, done |-> 0,
                   expireAt |-> IF timeout < 0 THEN -1 ELSE clock + timeout]]
    /\ loc' = [loc EXCEPT ![f] = "acquire"]
    /\ UNCHANGED <<queueVars, cur, phase, nowMs, clock, timerVars, semInfos, held>>

\* What f's next TryAcquireSem answers, and its done_value after that.
Attempt(f) == TryAcquireSem(semInfos[call[f].sem], f, call[f].apply - call[f].done)
DoneAfter(f) == call[f].done + Attempt(f).got

\* f has the CPU at the top of the loop of Acquire.  When the semaphore has been
\* unregistered TryAcquireSem uses end() as a record: no behaviour is given.
InAcquire(f) ==
    /\ cur = f
    /\ loc[f] = "acquire"
    /\ call[f].sem \in DOMAIN semInfos

\* expire_at >= 0 && expire_at <= NowMs()
TimedOut(f) == call[f].expireAt >= 0 /\ call[f].expireAt <= clock

\* Mutant of AcquireGranted: returns true as soon as it got anything.
AcquireGranted_Partial(f) ==
    /\ InAcquire(f)
    /\ DoneAfter(f) > 0
    /\ semInfos' = [semInfos EXCEPT ![call[f].sem] = Attempt(f).info]
    /\ held' = [held EXCEPT ![f][call[f].sem] = @ + call[f].apply]
    /\ call' = [call EXCEPT ![f] = NoCall]
    /\ loc' = [loc EXCEPT ![f] = "user"]
    /\ UNCHANGED <<queueVars, cur, phase, nowMs, clock, timerVars>>

\* An iteration that gets the last missing units: Acquire returns true.
AcquireGranted(f) ==
    /\ InAcquire(f)
    /\ DoneAfter(f) = call[f].apply
    /\ semInfos' = [semInfos EXCEPT ![call[f].sem] = Attempt(f).info]
    /\ held' = [held EXCEPT ![f][call[f].sem] = @ + call[f].apply]
    /\ call' = [call EXCEPT ![f] = NoCall]
    /\ loc' = [loc EXCEPT ![f] = "user"]
    /\ UNCHANGED <<queueVars, cur, phase, nowMs, clock, timerVars>>

\* Mutant of RestoreSem: the partial units are not given back.
RestoreSem_Forgets(info, done) ==
    [value |-> info.value, ucbaValue |-> 0, ucba |-> NoFiber, fibers |-> {}]

\* Mutant of RestoreSem: UCBA_fiber_ is not reset.
RestoreSem_KeepsCreditor(info, done) ==
    [info EXCEPT !.value = @ + done, !.fibers = {}]

\* RestoreSem(done) on a semaphore with record info, without the wake-ups.
RestoreSem(info, done) ==
    [value |-> info.value + done, ucbaValue |-> 0, ucba |-> NoFiber, fibers |-> {}]

\* An iteration that finds the deadline passed: RestoreSem gives back what this
\* Acquire got so far and wakes everybody parked; Acquire returns false.
AcquireTimedOut(f) ==
    /\ InAcquire(f)
    /\ DoneAfter(f) # call[f].apply
    /\ TimedOut(f)
    /\ semInfos' = [semInfos EXCEPT ![call[f].sem] =
                        RestoreSem(Attempt(f).info, DoneAfter(f))]
    /\ WakeAll(Attempt(f).info)
    /\ call' = [call EXCEPT ![f] = NoCall]
    /\ loc' = [loc EXCEPT ![f] = "user"]
    /\ UNCHANGED <<running, cur, phase, nowMs, clock, expireAt, held>>

\* Mutant of AcquireBlocks: parks without entering fibers_.
AcquireBlocks_NotParked(f) ==
    /\ InAcquire(f)
    /\ DoneAfter(f) # call[f].apply
    /\ ~TimedOut(f)
    /\ semInfos' = [semInfos EXCEPT ![call[f].sem] = Attempt(f).info]
    /\ RegisterDeadline(f, call[f].expireAt)
    /\ call' = [call EXCEPT ![f].done = DoneAfter(f)]
    /\ cur' = NoFiber
    /\ UNCHANGED <<queueVars, phase, nowMs, clock, loc, held>>

\* An iteration that has to wait: f registers its deadline and itself, keeps
\* what it got, and switches to the scheduler.
AcquireBlocks(f) ==
    /\ InAcquire(f)
    /\ DoneAfter(f) # call[f].apply
    /\ ~TimedOut(f)
    /\ semInfos' = [semInfos EXCEPT ![call[f].sem] =
                        [Attempt(f).info EXCEPT !.fibers = @ \cup {f}]]
    /\ RegisterDeadline(f, call[f].expireAt)
    /\ call' = [call EXCEPT ![f].done = DoneAfter(f)]
    /\ cur' = NoFiber
    /\ UNCHANGED <<queueVars, phase, nowMs, clock, loc, held>>

AcquireStep(f) == AcquireGranted(f) \/ AcquireTimedOut(f) \/ AcquireBlocks(f)

\* Mutant of Release: wakes the parked fibers but leaves them in fibers_.
Release_NotCleared(f, s, n) ==
    /\ InUser(f)
    /\ s \in DOMAIN semInfos
    /\ n <= held[f][s]
    /\ semInfos' = [semInfos EXCEPT ![s].value = @ + n]
    /\ WakeAll(semInfos[s])
    /\ held' = [held EXCEPT ![f][s] = @ - n]
    /\ UNCHANGED <<running, cur, phase, nowMs, clock, loc, expireAt, call>>

\* Mutant of Release: wakes nobody.
Release_Silent(f, s, n) ==
    /\ InUser(f)
    /\ s \in DOMAIN semInfos
    /\ n <= held[f][s]
    /\ semInfos' = [semInfos EXCEPT ![s].value = @ + n]
    /\ held' = [held EXCEPT ![f][s] = @ - n]
    /\ UNCHANGED <<queueVars, timerVars, cur, phase, nowMs, clock, loc, call>>

\* Sem::Release of n units by a fiber that holds them: all the parked fibers wake.
\* (The code asserts that the semaphore is registered.)
Release(f, s, n) ==
    /\ InUser(f)
    /\ s \in DOMAIN semInfos
    /\ n <= held[f][s]
    /\ semInfos' = [semInfos EXCEPT ![s].value = @ + n, ![s].fibers = {}]
    /\ WakeAll(semInfos[s])
    /\ held' = [held EXCEPT ![f][s] = @ - n]
    /\ UNCHANGED <<running, cur, phase, nowMs, clock, loc, expireAt, call>>

\* The steps of the scheduler, unchanged.
SemDispatch ==
    /\ Dispatch
    /\ Len(Queue') <= MaxQueue
    /\ UNCHANGED semVars

SemNext ==
    \/ SemDispatch
    \/ \E f \in Fibers :
        \/ (CreateFiber(f) \/ GiveUpCpu(f)) /\ UNCHANGED semVars
        \/ \E s \in Sems :
            \/ UnregisterSem(f, s)
            \/ \E n \in AcquireSizes, ms \in Timeouts : Acquire(f, s, n, ms)
            \/ \E n \in AcquireSizes : Release(f, s, n)
        \/ AcquireStep(f)
    \/ \E s \in Sems : RegisterSem(s)
    \/ (EnterDispatch \/ Tick) /\ UNCHANGED semVars

(***************************************************************************)
(* As for the scheduler alone; besides, an iteration of Acquire is taken,  *)
(* and a fiber cannot keep the CPU by acquiring and releasing for ever:    *)
(* calls of Acquire that succeed at once never enter the scheduler, so     *)
(* giving the CPU up is strongly fair.  That units are released is no      *)
(* property of the library, so it is a hypothesis of the liveness          *)
(* properties and not part of the fairness.                                *)
(***************************************************************************)
SemFairness ==
    /\ WF_allVars(EnterDispatch /\ UNCHANGED semVars)
    /\ WF_allVars(SemDispatch)
    /\ WF_allVars(Tick /\ UNCHANGED semVars)
    /\ \A f \in Fibers :
        /\ WF_allVars(AcquireStep(f))
        /\ SF_allVars(GiveUpCpu(f) /\ UNCHANGED semVars)

SemSpec == SemInit /\ [][SemNext]_allVars /\ SemFairness

-----------------------------------------------------------------------------
(* Properties.                                                             *)

SemInfo == [value : Nat, ucbaValue : Nat, ucba : Fibers \cup {NoFiber},
            fibers : SUBSET Fibers]

Call == [sem : Sems \cup {NoSem}, apply : Nat, done : Nat,
         expireAt : Nat \cup {-1}]

\* The types of the variables.
SemTypeOK ==
    /\ ready \in Seq(Fibers)
    /\ running \in Seq(Fibers)
    /\ cur \in Fibers \cup {NoFiber}
    /\ phase \in Phases
    /\ nowMs \in Nat
    /\ clock \in Nat \ {0}
    /\ loc \in [Fibers -> SemLocations]
    /\ expireAt \in [Fibers -> Nat \cup {-1}]
    /\ DOMAIN expireEvents \subseteq Nat \ {0}
    /\ expireEvents \in [DOMAIN expireEvents -> SUBSET Fibers]
    /\ DOMAIN semInfos \subseteq Sems
    /\ semInfos \in [DOMAIN semInfos -> SemInfo]
    /\ call \in [Fibers -> Call]
    /\ held \in [Fibers -> [Sems -> Nat]]

\* Units that f has got of s so far in the Acquire it is in.
Partial(f, s) == IF call[f].sem = s THEN call[f].done ELSE 0

\* The units of s that are with some fiber, each one as a distinct element.
UnitsOut(s) == UNION {{f} \X (1 .. held[f][s] + Partial(f, s)) : f \in Fibers}

\* No unit is ever lost or made, by partial grants, timeouts and releases.
Conservation ==
    \A s \in DOMAIN semInfos : semInfos[s].value + Cardinality(UnitsOut(s)) = InitValue[s]

Parked(f, s) == f \in semInfos[s].fibers

\* Without timeouts a live fiber is in exactly one place: scheduled once, on
\* the CPU, asleep, or parked on the semaphore whose Acquire it is in.
InOnePlace ==
    /\ IsInjective(Queue)
    /\ \A f \in Fibers :
        /\ ~(Queued(f) /\ cur = f)
        /\ HasTimer(f) => ~Queued(f) /\ cur # f /\ loc[f] = "sleep"
        /\ \A s \in DOMAIN semInfos : Parked(f, s) =>
                ~Queued(f) /\ cur # f /\ call[f].sem = s
        /\ Live(f) <=> (\/ Queued(f) \/ cur = f \/ HasTimer(f)
                        \/ \E s \in DOMAIN semInfos : Parked(f, s))

\* "A Sem has at most one creditor": only the recorded one keeps units while it
\* waits for more, so two fibers never wait for each other's share.
SingleCreditor ==
    \A f \in Fibers, s \in DOMAIN semInfos :
        call[f].sem = s /\ call[f].done > 0 => semInfos[s].ucba = f

\* UCBA_fiber_ is never stale: it names a fiber that is inside Acquire.
CreditorIsCalling ==
    \A s \in DOMAIN semInfos, f \in Fibers :
        semInfos[s].ucba = f => loc[f] = "acquire" /\ call[f].sem = s

\* Nobody is left parked while nothing is out whose release would wake it: either
\* units are out beyond the share it has collected, be they with others or acquired
\* by itself before, or it queues behind a creditor, for whom the same holds.
NoLostWakeup ==
    \A s \in DOMAIN semInfos, f \in Fibers :
        Parked(f, s) =>
            \/ semInfos[s].value + call[f].done < InitValue[s]
            \/ semInfos[s].ucba \notin {f, NoFiber}

\* Units never lie idle while the creditor is parked.
NoIdleUnits ==
    \A s \in DOMAIN semInfos, f \in Fibers :
        Parked(f, s) /\ semInfos[s].ucba = f => semInfos[s].value = 0

\* A fiber that waits in Acquire with a deadline has a timer at that deadline.
TimedWaitHasTimer ==
    \A f \in Fibers :
        (loc[f] = "acquire" /\ call[f].expireAt >= 0 /\ cur # f /\ ~Queued(f))
        => call[f].expireAt \in DOMAIN expireEvents
           /\ f \in expireEvents[call[f].expireAt]

\* "If they were not woken they might never be told": a fiber whose semaphore is
\* gone is not left parked.
NobodyLeftBehind ==
    \A f \in Fibers :
        loc[f] = "acquire" /\ call[f].sem \notin DOMAIN semInfos
        => Queued(f) \/ cur = f

\* "WakeUpFiber solves the double wake-up": no fiber is scheduled twice.
NoDoubleWake ==
    /\ IsInjective(Queue)
    /\ \A f \in Fibers : ~(Queued(f) /\ cur = f)

Creditor(f, s) == s \in DOMAIN semInfos /\ semInfos[s].ucba = f

\* Every fiber gets round to holding no unit of s, again and again.
Releasing(s) == \A g \in Fibers : []<>(held[g][s] = 0)

\* When units are released, a creditor gets all it waits for.
CreditorPaid ==
    \A s \in Sems, f \in Fibers :
        Releasing(s) => (Creditor(f, s) ~> ~Creditor(f, s))

(***************************************************************************)
(* XSem implements CountingSem: what a fiber got so far in an Acquire that *)
(* has not returned is still free for the abstract semaphore.              *)
(***************************************************************************)
PartialUnits(s) == UNION {{f} \X (1 .. Partial(f, s)) : f \in Fibers}

Abstract == INSTANCE CountingSem WITH
    Clients <- Fibers,
    free <- [s \in DOMAIN semInfos |-> semInfos[s].value + Cardinality(PartialUnits(s))]

\* Every behaviour of the semaphores is one of an atomic counting semaphore.
ImplementsCountingSem == Abstract!Spec
=============================================================================
