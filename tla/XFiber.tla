------------------------------- MODULE XFiber -------------------------------
(***************************************************************************)
(* The cooperative scheduler of the library: class XFiber and class Fiber  *)
(* of src/xfiber.cpp and src/xfiber.h, without the semaphores (XSem) and   *)
(* the sockets.                                                            *)
(*                                                                         *)
(* One thread runs everything.  Control is either in the scheduler         *)
(* (cur = NoFiber, and "phase" says where in Dispatch) or in one fiber     *)
(* (cur = f), and it only changes hands where the code swaps contexts: a   *)
(* fiber keeps the CPU until it yields, blocks or returns.  What runs      *)
(* concurrently is the wall clock, read by util::NowMs, which may move     *)
(* between any two steps.                                                  *)
(***************************************************************************)
EXTENDS Integers, Sequences, FiniteSets, Functions

CONSTANTS
    Fibers,     \* the Fiber objects a run may create
    NoFiber,    \* nullptr
    WakeOrder,  \* WakeOrder[S]: the fibers of S as std::set<Fiber *> walks them
    SleepTimes, \* the arguments of SleepMs, in milliseconds
    MaxTime     \* bound: the clock and every sleeping deadline stop here

\* A std::set is walked once over, in the order of the pointers it holds.
ASSUME WakeOrderAssumption ==
    \A S \in SUBSET Fibers :
        /\ WakeOrder[S] \in Seq(Fibers)
        /\ Range(WakeOrder[S]) = S
        /\ IsInjective(WakeOrder[S])

ASSUME ConstantsAssumption ==
    /\ NoFiber \notin Fibers
    /\ SleepTimes \subseteq Nat
    /\ MaxTime \in Nat \ {0}

VARIABLES
    ready,        \* ready_fibers_, the deque of fibers to run in the next round
    running,      \* the part of running_fibers_ the round has not visited yet
    cur,          \* cur_dispatch_fiber_
    phase,        \* where the scheduler is: "main" before Dispatch, then
                  \* "ready", "running", "timers", "epoll" round and round
    nowMs,        \* the local now_ms of Dispatch, read once per round, 0 outside
    clock,        \* the wall clock, in milliseconds
    loc,          \* loc[f]: what f is doing, see Locations
    expireAt,     \* expireAt[f]: waiting_events_.expire_at_, -1 until it is set
    expireEvents  \* expire_events_: a map from deadlines to sets of fibers

queueVars == <<ready, running>>
timerVars == <<expireAt, expireEvents>>
vars == <<ready, running, cur, phase, nowMs, clock, loc, expireAt, expireEvents>>

(***************************************************************************)
(* "none": no such object yet; "user": in code of the application, running *)
(* or to be resumed there; "sleep": inside SleepMs; "freed": deleted.      *)
(***************************************************************************)
Locations == {"none", "user", "sleep", "freed"}

Phases == {"main", "ready", "running", "timers", "epoll"}

-----------------------------------------------------------------------------
(* Views of the state that the actions and the properties share.           *)

\* Everything that is scheduled, in the order the dispatcher will visit it.
Queue == running \o ready

Live(f) == loc[f] \notin {"none", "freed"}

\* f has the CPU and executes code of the application.
InUser(f) == cur = f /\ loc[f] = "user"

\* Mutant of DueFirst: takes the last key instead of the first.
DueFirst_Last(t) == t <= nowMs /\ \A u \in DOMAIN expireEvents : u <= t

\* Mutant of DueFirst: forgets to compare the key with the clock.
DueFirst_Early(t) == \A u \in DOMAIN expireEvents : t <= u

\* t is the first key of expire_events_, and it is due: the guard of the timer
\* loop of Dispatch.
DueFirst(t) == t <= nowMs /\ \A u \in DOMAIN expireEvents : t <= u

-----------------------------------------------------------------------------
(* The two registration routines every blocking call goes through.         *)

\* Mutant of WakeUpFibers: does not take the fiber out of its timer.
WakeUpFibers_KeepTimer(q) ==
    /\ ready' = ready \o q
    /\ UNCHANGED expireEvents

(***************************************************************************)
(* WakeUpFiber for each fiber of q in turn.  A fiber is appended to ready  *)
(* whether or not it is there already, and leaves the deadline stored in   *)
(* its waiting_events_, which is the last one it registered and may be     *)
(* stale.  The key stays in the map even when its set becomes empty.  When *)
(* a stale deadline is no key any more the code looks it up all the same   *)
(* and uses end() as an entry; in the build this reads the always empty    *)
(* finished_fibers_ that follows the map and so erases nothing.            *)
(***************************************************************************)
WakeUpFibers(q) ==
    /\ ready' = ready \o q
    /\ expireEvents' = [t \in DOMAIN expireEvents |->
                            {f \in expireEvents[t] :
                                ~(f \in Range(q) /\ expireAt[f] = t)}]

\* RegisterWaitingEvents of the current fiber, deadline part: -1 is "no timeout"
\* and then leaves the stored deadline of an earlier call in place.
RegisterDeadline(f, deadline) ==
    IF deadline > 0
    THEN /\ expireEvents' =
              [t \in DOMAIN expireEvents \cup {deadline} |->
                    (IF t \in DOMAIN expireEvents THEN expireEvents[t] ELSE {})
                    \cup (IF t = deadline THEN {f} ELSE {})]
         /\ expireAt' = [expireAt EXCEPT ![f] = deadline]
    ELSE UNCHANGED timerVars

-----------------------------------------------------------------------------
Init ==
    /\ ready = <<>>
    /\ running = <<>>
    /\ cur = NoFiber
    /\ phase = "main"
    /\ nowMs = 0
    /\ clock = 1
    /\ loc = [f \in Fibers |-> "none"]
    /\ expireAt = [f \in Fibers |-> -1]
    /\ expireEvents = [t \in {} |-> {}]

\* CreateFiber, called by main before Dispatch or by the running fiber.
CreateFiber(f) ==
    /\ loc[f] = "none"
    /\ phase = "main" \/ (cur # NoFiber /\ loc[cur] = "user")
    /\ ready' = Append(ready, f)
    /\ loc' = [loc EXCEPT ![f] = "user"]
    /\ UNCHANGED <<running, cur, phase, nowMs, clock, timerVars>>

\* Main calls Dispatch, which never returns.
EnterDispatch ==
    /\ phase = "main"
    /\ phase' = "ready"
    /\ UNCHANGED <<queueVars, cur, nowMs, clock, loc, timerVars>>

\* Mutant of StartRound: clears ready after it took only its first fiber.
StartRound_TakesOne ==
    /\ phase = "ready"
    /\ ready # <<>>
    /\ running' = <<Head(ready)>>
    /\ ready' = <<>>
    /\ phase' = "running"
    /\ UNCHANGED <<cur, nowMs, clock, loc, timerVars>>

\* Top of the loop: the fibers ready now form this round; a fiber that becomes
\* ready while they run waits for the next one.
StartRound ==
    /\ phase = "ready"
    /\ ready # <<>>
    /\ running' = ready
    /\ ready' = <<>>
    /\ phase' = "running"
    /\ UNCHANGED <<cur, nowMs, clock, loc, timerVars>>

\* The round resumes its next fiber; a SleepMs that is resumed returns.  A freed
\* fiber at the head would be resumed on a deleted stack: no behaviour is given.
RunNext ==
    /\ phase = "running"
    /\ cur = NoFiber
    /\ running # <<>>
    /\ loc[Head(running)] # "freed"
    /\ cur' = Head(running)
    /\ running' = Tail(running)
    /\ loc' = [loc EXCEPT ![Head(running)] = IF @ = "sleep" THEN "user" ELSE @]
    /\ UNCHANGED <<ready, phase, nowMs, clock, timerVars>>

\* The round is over (or there was none): now_ms is read, once for all timers.
EnterTimers ==
    /\ cur = NoFiber
    /\ running = <<>>
    /\ phase = "running" \/ (phase = "ready" /\ ready = <<>>)
    /\ nowMs' = clock
    /\ phase' = "timers"
    /\ UNCHANGED <<queueVars, cur, clock, loc, timerVars>>

\* One iteration of the inner timer loop: the first fiber of the earliest due
\* deadline is woken.
TimerWake(f) ==
    /\ phase = "timers"
    /\ \E t \in DOMAIN expireEvents :
        /\ DueFirst(t)
        /\ expireEvents[t] # {}
        /\ f = Head(WakeOrder[expireEvents[t]])
    /\ WakeUpFibers(<<f>>)
    /\ UNCHANGED <<running, cur, phase, nowMs, clock, loc, expireAt>>

\* Mutant of TimerErase: erases the entry after one wake-up, not when it is empty.
TimerErase_DropsRest ==
    /\ phase = "timers"
    /\ \E t \in DOMAIN expireEvents :
        /\ DueFirst(t)
        /\ expireEvents' = Restrict(expireEvents, DOMAIN expireEvents \ {t})
    /\ UNCHANGED <<queueVars, cur, phase, nowMs, clock, loc, expireAt>>

\* The earliest due deadline has nobody left and its entry is erased.
TimerErase ==
    /\ phase = "timers"
    /\ \E t \in DOMAIN expireEvents :
        /\ DueFirst(t)
        /\ expireEvents[t] = {}
        /\ expireEvents' = Restrict(expireEvents, DOMAIN expireEvents \ {t})
    /\ UNCHANGED <<queueVars, cur, phase, nowMs, clock, loc, expireAt>>

\* No deadline is due any more; now_ms is not used again in this round.
TimersDone ==
    /\ phase = "timers"
    /\ ~\E t \in DOMAIN expireEvents : DueFirst(t)
    /\ phase' = "epoll"
    /\ nowMs' = 0
    /\ UNCHANGED <<queueVars, cur, clock, loc, timerVars>>

\* epoll_wait returns without an event, or fails: the loop starts over.
EpollIdle ==
    /\ phase = "epoll"
    /\ phase' = "ready"
    /\ UNCHANGED <<queueVars, cur, nowMs, clock, loc, timerVars>>

\* Mutant of Yield: queues cur_dispatch_fiber_ when it is already nullptr.
Yield_QueuesNull(f) ==
    /\ InUser(f)
    /\ ready' = Append(ready, NoFiber)
    /\ cur' = NoFiber
    /\ UNCHANGED <<running, phase, nowMs, clock, loc, timerVars>>

\* Mutant of Yield: push_front instead of push_back.
Yield_PutsFirst(f) ==
    /\ InUser(f)
    /\ ready' = <<f>> \o ready
    /\ cur' = NoFiber
    /\ UNCHANGED <<running, phase, nowMs, clock, loc, timerVars>>

\* Back of the queue, then to the scheduler.
Yield(f) ==
    /\ InUser(f)
    /\ ready' = Append(ready, f)
    /\ cur' = NoFiber
    /\ UNCHANGED <<running, phase, nowMs, clock, loc, timerVars>>

SleepMs(f, ms) ==
    /\ InUser(f)
    /\ clock + ms <= MaxTime
    /\ RegisterDeadline(f, clock + ms)
    /\ loc' = [loc EXCEPT ![f] = "sleep"]
    /\ cur' = NoFiber
    /\ UNCHANGED <<queueVars, phase, nowMs, clock>>

\* The entry function returns: Start marks the fiber FINISHED, and the
\* dispatcher deletes it as soon as it is back.
Finish(f) ==
    /\ InUser(f)
    /\ loc' = [loc EXCEPT ![f] = "freed"]
    /\ cur' = NoFiber
    /\ UNCHANGED <<queueVars, phase, nowMs, clock, timerVars>>

\* The clock is external: it moves between any two steps.
Tick ==
    /\ clock < MaxTime
    /\ clock' = clock + 1
    /\ UNCHANGED <<queueVars, cur, phase, nowMs, loc, timerVars>>

\* The scheduler's own steps, those of Dispatch.
Dispatch ==
    \/ StartRound
    \/ RunNext
    \/ EnterTimers
    \/ \E f \in Fibers : TimerWake(f)
    \/ TimerErase
    \/ TimersDone
    \/ EpollIdle

\* The running fiber gives the CPU back.
GiveUpCpu(f) ==
    \/ Yield(f)
    \/ \E ms \in SleepTimes : SleepMs(f, ms)
    \/ Finish(f)

Next ==
    \/ \E f \in Fibers : CreateFiber(f)
    \/ EnterDispatch
    \/ Dispatch
    \/ \E f \in Fibers : GiveUpCpu(f)
    \/ Tick

(***************************************************************************)
(* The dispatcher is a loop on a thread of its own, main reaches Dispatch, *)
(* time passes, and a fiber does not keep the CPU for ever: scheduling is  *)
(* cooperative and nothing can work without that.  Nothing is assumed      *)
(* about which of its ways to give the CPU up a fiber takes.               *)
(***************************************************************************)
Fairness ==
    /\ WF_vars(EnterDispatch)
    /\ WF_vars(Dispatch)
    /\ WF_vars(Tick)
    /\ \A f \in Fibers : WF_vars(GiveUpCpu(f))

Spec == Init /\ [][Next]_vars /\ Fairness

-----------------------------------------------------------------------------
(* Properties.                                                             *)

\* The types of the variables.
TypeOK ==
    /\ ready \in Seq(Fibers)
    /\ running \in Seq(Fibers)
    /\ cur \in Fibers \cup {NoFiber}
    /\ phase \in Phases
    /\ nowMs \in Nat
    /\ clock \in Nat \ {0}
    /\ loc \in [Fibers -> Locations]
    /\ expireAt \in [Fibers -> Nat \cup {-1}]
    /\ DOMAIN expireEvents \subseteq Nat \ {0}
    /\ expireEvents \in [DOMAIN expireEvents -> SUBSET Fibers]

Queued(f) == f \in Range(Queue)

\* f is registered under some deadline of expire_events_.
HasTimer(f) == \E t \in DOMAIN expireEvents : f \in expireEvents[t]

\* A live fiber is in exactly one place: scheduled once, on the CPU, or asleep
\* under the one deadline stored in it; no queue or timer holds a freed fiber.
\* This is what "wakeupfiber solves the double wake-up" (xfiber.h) means.
ScheduledOnce ==
    /\ IsInjective(Queue)
    /\ \A f \in Fibers :
        /\ ~(Queued(f) /\ cur = f)
        /\ HasTimer(f) => ~Queued(f) /\ cur # f
        /\ \A t \in DOMAIN expireEvents : f \in expireEvents[t] => t = expireAt[f]
        /\ Live(f) <=> (Queued(f) \/ cur = f \/ HasTimer(f))

\* A SleepMs never returns before the clock has reached its deadline: "what is not
\* yet due in the timer queue is not put on the CPU by dispatch" (xfiber.h:359).  The
\* comment above the timer loop says the contrary, that once the first deadline is
\* due all sleepers are woken; the loop looks at each deadline anew.
SleepNotShort ==
    [][\A f \in Fibers :
        loc[f] = "sleep" /\ loc'[f] = "user" => expireAt[f] <= clock]_vars

\* q begins with all of p.
StartsWith(q, p) == Len(p) <= Len(q) /\ SubSeq(q, 1, Len(p)) = p

\* First come, first served over both deques: a fiber leaves only from the front
\* and arrives only behind everybody, through yields, timers and the swap.
NoOvertaking ==
    [][\/ StartsWith(Queue', Queue)
       \/ Queue # <<>> /\ StartsWith(Queue', Tail(Queue))]_vars

\* Sleepers come back in the order of their deadlines: when a timer makes one
\* ready, every sleeper with an earlier deadline is scheduled before it.
TimersInOrder ==
    \A f, g \in Fibers :
        (/\ loc[f] = "sleep" /\ loc[g] = "sleep"
         /\ expireAt[f] < expireAt[g] /\ Queued(g)) => Queued(f)

\* A scheduled fiber gets the CPU, however many others there are.
ReadyRuns == \A f \in Fibers : Queued(f) ~> cur = f

\* Every SleepMs returns.
SleeperWakes == \A f \in Fibers : loc[f] = "sleep" ~> loc[f] = "user"

(***************************************************************************)
(* XFiber implements RunQueue: the two deques are one queue, the map of    *)
(* timers gives each sleeper the deadline stored in it.                    *)
(***************************************************************************)
Sleepers == {f \in Fibers : HasTimer(f)}
Freed == {f \in Fibers : loc[f] = "freed"}

RQ == INSTANCE RunQueue WITH
    Tasks <- Fibers,
    Nobody <- NoFiber,
    queue <- Queue,
    cpu <- cur,
    sleeping <- [f \in Sleepers |-> expireAt[f]],
    gone <- Freed,
    now <- clock

\* Every behaviour of the scheduler is one of a plain queue with sleepers: rounds,
\* the swap of the deques, stale keys and the timer loop of Dispatch do not show.
ImplementsRunQueue == RQ!Spec
=============================================================================
