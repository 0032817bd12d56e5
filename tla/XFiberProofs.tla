---------------------------- MODULE XFiberProofs ----------------------------
(***************************************************************************)
(* Proofs about the scheduler, for every set of fibers, every order in     *)
(* which sets are walked, every sleep and every bound on the clock:        *)
(*                                                                         *)
(*   Spec => []TypeOK, Spec => []ScheduledOnce, Spec => SleepNotShort,     *)
(*   Spec => NoOvertaking, Spec => []TimersInOrder,                        *)
(*   Spec => ImplementsRunQueue                                            *)
(*                                                                         *)
(* ScheduledOnce is not inductive alone: the swap of the deques drops the  *)
(* rest of a round unless there is none, hence PhaseInv, and that a woken  *)
(* sleeper is due needs the clock to be no earlier than now_ms, ClockInv.  *)
(***************************************************************************)
EXTENDS SchedulerLemmas

\* now_ms is in the past, and a scheduled sleeper has reached its deadline.
ClockInv ==
    /\ nowMs <= clock
    /\ \A f \in Fibers : loc[f] = "sleep" /\ Queued(f) => expireAt[f] <= clock

IInv == TypeOK /\ PhaseInv /\ ScheduledOnce /\ ClockInv

-----------------------------------------------------------------------------
(* The inductive invariant.                                                *)

\* At the start nobody is anywhere and the clock is past zero.
LEMMA InitEstablishes == Init => IInv
<1> SUFFICES ASSUME Init PROVE IInv
  OBVIOUS
<1>1. Queue = <<>> /\ Range(Queue) = {}
  BY DEF Init, Queue, Range
<1>2. TypeOK
  BY ConstantsAssumption DEF Init, TypeOK, Phases, Locations
<1>3. ScheduledOnce
  BY <1>1, ConstantsAssumption
     DEF Init, ScheduledOnce, IsInjective, Queued, HasTimer, Live
<1>4. PhaseInv /\ ClockInv
  BY <1>1 DEF Init, PhaseInv, ClockInv, Queued
<1> QED
  BY <1>2, <1>3, <1>4 DEF IInv

\* ScheduledOnce in terms of the places the lemmas about the steps speak of.
LEMMA OneOfThePlaces ==
    ScheduledOnce <=> AtMostOnce /\ \A f \in Fibers : Live(f) => Placed(f)
BY DEF ScheduledOnce, AtMostOnce, Placed

\* A sleeper is scheduled by its timer, when now_ms has reached the deadline.
LEMMA ClockPreserved ==
    ASSUME IInv, [Next]_vars
    PROVE  ClockInv'
<1> USE DEF queueVars, timerVars
<1>1. ASSUME NEW f \in Fibers, CreateFiber(f) \/ Yield(f) PROVE ClockInv'
  <2>1. /\ ready' = Append(ready, f)
        /\ UNCHANGED <<running, nowMs, clock, expireAt>>
        /\ loc'[f] = "user" /\ \A g \in Fibers \ {f} : loc'[g] = loc[g]
    BY <1>1 DEF CreateFiber, Yield, InUser, IInv, TypeOK
  <2>2. Range(Queue') = Range(Queue) \cup {f}
    BY <2>1, QueueSteps DEF IInv, TypeOK
  <2> QED
    BY <2>1, <2>2 DEF IInv, ClockInv, Queued
<1>2. ASSUME NEW f \in Fibers, Finish(f) PROVE ClockInv'
  BY <1>2 DEF Finish, IInv, TypeOK, ClockInv, Queued, Queue
<1>3. ASSUME NEW f \in Fibers, NEW ms \in SleepTimes, SleepMs(f, ms)
      PROVE  ClockInv'
  <2>1. clock + ms \in Nat \ {0}
    BY ConstantsAssumption DEF IInv, TypeOK
  <2>2. /\ Queue' = Queue /\ ~Queued(f) /\ UNCHANGED <<nowMs, clock>>
        /\ loc' = [loc EXCEPT ![f] = "sleep"]
        /\ expireAt' = [expireAt EXCEPT ![f] = clock + ms]
    BY <1>3, <2>1 DEF SleepMs, InUser, RegisterDeadline, Queue, IInv, ScheduledOnce
  <2> QED
    BY <2>2 DEF IInv, TypeOK, ClockInv, Queued
<1>4. CASE RunNext
  <2> DEFINE f == Head(running)
  <2>1. f \in Fibers /\ Range(Queue) = Range(Queue') \cup {f}
    BY <1>4, QueueSteps DEF RunNext, IInv, TypeOK
  <2>2. \A g \in Fibers : loc'[g] = "sleep" => loc[g] = "sleep"
    BY <1>4, <2>1 DEF RunNext, IInv, TypeOK
  <2> QED
    BY <1>4, <2>1, <2>2 DEF RunNext, IInv, ClockInv, Queued
<1>5. ASSUME NEW f \in Fibers, TimerWake(f) PROVE ClockInv'
  <2>1. PICK t \in DOMAIN expireEvents : f \in expireEvents[t] /\ t <= nowMs
    BY <1>5, WokenFirst DEF IInv, TypeOK, DueFirst
  <2>2. expireAt[f] <= clock
    BY <2>1 DEF IInv, TypeOK, ScheduledOnce, ClockInv
  <2>3. ready' = Append(ready, f)
        /\ UNCHANGED <<running, nowMs, clock, loc, expireAt>>
    BY <1>5, WakeOne DEF TimerWake, IInv, TypeOK
  <2>4. Range(Queue') = Range(Queue) \cup {f}
    BY <2>3, QueueSteps DEF IInv, TypeOK
  <2> QED
    BY <2>2, <2>3, <2>4 DEF IInv, ClockInv, Queued
<1>6. CASE TimerErase
  BY <1>6 DEF TimerErase, IInv, ClockInv, Queued, Queue
<1>7. CASE \/ EnterDispatch \/ StartRound \/ EnterTimers \/ TimersDone
           \/ EpollIdle \/ Tick \/ UNCHANGED vars
  <2>1. Queue' = Queue /\ UNCHANGED <<loc, expireAt>>
    BY <1>7, SchedulerMoves DEF IInv, TypeOK
  <2>2. nowMs' <= clock' /\ clock <= clock' /\ clock' \in Nat
    BY <1>7 DEF IInv, TypeOK, ClockInv, EnterDispatch, StartRound, EnterTimers,
                TimersDone, EpollIdle, Tick, vars
  <2> QED
    BY <2>1, <2>2 DEF IInv, TypeOK, ClockInv, Queued
<1> QED
  BY <1>1, <1>2, <1>3, <1>4, <1>5, <1>6, <1>7 DEF Next, Dispatch, GiveUpCpu

\* Every step keeps the invariant: its four parts, each by its own lemma.
LEMMA NextPreserves == IInv /\ [Next]_vars => IInv'
<1> SUFFICES ASSUME IInv, [Next]_vars PROVE IInv'
  OBVIOUS
<1>1. TypeOK <=> SchedTypes(Locations, Phases)
  BY DEF TypeOK, SchedTypes
<1>2. TypeOK' <=> SchedTypes(Locations, Phases)'
  BY DEF TypeOK, SchedTypes
<1>3. TypeOK' /\ PhaseInv'
  BY <1>1, <1>2, StepKeepsTypes DEF IInv
<1>4. ScheduledOnce'
  <2>1. AtMostOnce' /\ \A f \in Fibers : Live(f)' => Placed(f)'
    BY <1>1, OneOfThePlaces, StepKeepsPlaces DEF IInv
  <2> QED
    BY <2>1 DEF ScheduledOnce, AtMostOnce, Placed
<1>5. ClockInv'
  BY ClockPreserved
<1> QED
  BY <1>3, <1>4, <1>5 DEF IInv

\* The inductive invariant holds in every reachable state of the scheduler.
LEMMA InductiveInvariant == Spec => []IInv
<1>1. Init => IInv
  BY InitEstablishes
<1>2. IInv /\ [Next]_vars => IInv'
  BY NextPreserves
<1> QED
  BY <1>1, <1>2, PTL DEF Spec

-----------------------------------------------------------------------------
(* The theorems.                                                           *)

\* The variables of the scheduler always have their types.
THEOREM TypeCorrect == Spec => []TypeOK
<1>1. IInv => TypeOK
  BY DEF IInv
<1> QED
  BY <1>1, InductiveInvariant, PTL

\* A live fiber is always in exactly one place: no double wake-up, no fiber lost,
\* no freed fiber in a queue or a timer (CreateFiber, WakeUpFiber, Dispatch,
\* Yield, SleepMs).
THEOREM AlwaysScheduledOnce == Spec => []ScheduledOnce
<1>1. IInv => ScheduledOnce
  BY DEF IInv
<1> QED
  BY <1>1, InductiveInvariant, PTL

\* SleepMs never returns early: only RunNext ends a sleep, of a scheduled fiber.
THEOREM NeverShort == Spec => SleepNotShort
<1> DEFINE A == \A f \in Fibers :
                    loc[f] = "sleep" /\ loc'[f] = "user" => expireAt[f] <= clock
<1>1. ASSUME IInv, [Next]_vars PROVE A
  <2> SUFFICES ASSUME NEW f \in Fibers, loc[f] = "sleep", loc'[f] = "user"
               PROVE  expireAt[f] <= clock
    OBVIOUS
  <2>1. RunNext /\ Head(running) \in Fibers
    <3>1. ~UNCHANGED loc
      OBVIOUS
    <3>2. ~\E g \in Fibers : CreateFiber(g) \/ GiveUpCpu(g)
      BY <1>1 DEF CreateFiber, GiveUpCpu, Yield, SleepMs, Finish, InUser, IInv, TypeOK
    <3>3. RunNext
      BY <1>1, <3>1, <3>2
         DEF Next, Dispatch, EnterDispatch, StartRound, EnterTimers, TimerWake,
             TimerErase, TimersDone, EpollIdle, Tick, vars
    <3> QED
      BY <1>1, <3>3, QueueSteps DEF RunNext, queueVars, IInv, TypeOK
  <2>2. f = Head(running)
    BY <1>1, <2>1 DEF RunNext, IInv, TypeOK
  <2>3. Queued(f)
    BY <1>1, <2>1, <2>2, QueueSteps DEF RunNext, IInv, TypeOK, Queued
  <2> QED
    BY <1>1, <2>3 DEF IInv, ClockInv
<1>2. IInv /\ [Next]_vars => [A]_vars
  BY <1>1
<1> QED
  BY <1>2, InductiveInvariant, PTL DEF Spec, SleepNotShort

\* A sequence begins with itself, and still does with one more element behind it.
LEMMA StartsWithSelf ==
    ASSUME NEW S, NEW q \in Seq(S)
    PROVE  /\ StartsWith(q, q)
           /\ \A e \in S : StartsWith(Append(q, e), q)
<1>1. StartsWith(q, q)
  BY SubSeqFull, LenProperties DEF StartsWith
<1>2. ASSUME NEW e \in S PROVE StartsWith(Append(q, e), q)
  <2>1. Len(Append(q, e)) = Len(q) + 1 /\ Len(q) \in Nat
    BY AppendProperties, LenProperties
  <2>2. CASE Len(q) = 0
    <3>1. q = <<>> /\ SubSeq(Append(q, e), 1, Len(q)) = <<>>
      BY <2>2, EmptySeq, SubSeqEmpty
    <3> QED
      BY <2>1, <2>2, <3>1 DEF StartsWith
  <2>3. CASE Len(q) # 0
    <3>1. <<e>> \in Seq(S) /\ Append(q, e) = q \o <<e>>
      BY AppendIsConcat
    <3>2. 1 \in 1 .. Len(q) /\ Len(q) \in 1 .. Len(q)
      BY <2>1, <2>3
    <3>3. SubSeq(q \o <<e>>, 1, Len(q)) = SubSeq(q, 1, Len(q))
      BY <3>1, <3>2, SubSeqOfConcat1
    <3> QED
      BY <2>1, <3>1, <3>3, SubSeqFull DEF StartsWith
  <2> QED
    BY <2>2, <2>3
<1> QED
  BY <1>1, <1>2

\* The two deques together are first come, first served, over every step.
THEOREM NeverOvertaken == Spec => NoOvertaking
<1> DEFINE A == \/ StartsWith(Queue', Queue)
                \/ Queue # <<>> /\ StartsWith(Queue', Tail(Queue))
<1>1. ASSUME IInv, [Next]_vars PROVE A
  <2>1. Queue \in Seq(Fibers) /\ (Queue # <<>> => Tail(Queue) \in Seq(Fibers))
    BY <1>1, QueueSteps, TailQueue DEF IInv, TypeOK
  <2>2. CASE Queue' = Queue
    BY <2>1, <2>2, StartsWithSelf
  <2>3. CASE \E f \in Fibers : Queue' = Append(Queue, f)
    BY <2>1, <2>3, StartsWithSelf
  <2>4. CASE Queue # <<>> /\ Queue' = Tail(Queue)
    BY <2>1, <2>4, StartsWithSelf
  <2>5. CASE \E f \in Fibers : CreateFiber(f) \/ Yield(f) \/ TimerWake(f)
    <3>1. PICK f \in Fibers : CreateFiber(f) \/ Yield(f) \/ TimerWake(f)
      BY <2>5
    <3>2. ready' = Append(ready, f) /\ running' = running
      BY <1>1, <3>1, WakeOne DEF CreateFiber, Yield, TimerWake, IInv, TypeOK
    <3> QED
      BY <1>1, <3>2, <2>3, QueueSteps DEF IInv, TypeOK
  <2>6. CASE RunNext
    BY <1>1, <2>6, <2>4, QueueSteps DEF RunNext, IInv, TypeOK
  <2>7. CASE StartRound
    BY <1>1, <2>7, <2>2, QueueSteps DEF StartRound, IInv, TypeOK, PhaseInv
  <2>8. CASE \/ EnterDispatch \/ EnterTimers \/ TimerErase \/ TimersDone
             \/ EpollIdle \/ Tick \/ UNCHANGED vars
             \/ \E f \in Fibers : Finish(f) \/ \E ms \in SleepTimes : SleepMs(f, ms)
    <3>1. UNCHANGED queueVars
      BY <2>8 DEF EnterDispatch, EnterTimers, TimerErase, TimersDone, EpollIdle,
                  Tick, vars, Finish, SleepMs, queueVars
    <3> QED
      BY <3>1, <2>2 DEF queueVars, Queue
  <2> QED
    BY <1>1, <2>5, <2>6, <2>7, <2>8 DEF Next, Dispatch, GiveUpCpu
<1>2. IInv /\ [Next]_vars => [A]_vars
  BY <1>1
<1> QED
  BY <1>2, InductiveInvariant, PTL DEF Spec, NoOvertaking

-----------------------------------------------------------------------------
(* Sleepers come back in order.                                            *)

\* The fiber on the CPU executes code of the application.
OnCpu == cur # NoFiber => loc[cur] = "user"

\* What runs next is in code of the application: RunNext brings sleepers back to it.
LEMMA OnCpuPreserved == IInv /\ OnCpu /\ [Next]_vars => OnCpu'
<1> SUFFICES ASSUME IInv, OnCpu, [Next]_vars PROVE OnCpu'
  OBVIOUS
<1> USE DEF queueVars, timerVars
<1>1. CASE \E f \in Fibers : CreateFiber(f)
  BY <1>1 DEF OnCpu, CreateFiber, IInv, TypeOK
<1>2. CASE \E f \in Fibers : GiveUpCpu(f)
  BY <1>2 DEF OnCpu, GiveUpCpu, Yield, SleepMs, Finish
<1>3. CASE RunNext
  <2> DEFINE f == Head(running)
  <2>1. f \in Fibers /\ Queued(f)
    BY <1>3, QueueSteps DEF RunNext, IInv, TypeOK, Queued
  <2>2. loc[f] \in {"user", "sleep"}
    BY <2>1 DEF IInv, ScheduledOnce, Live, TypeOK, Locations
  <2> QED
    BY <1>3, <2>1, <2>2 DEF RunNext, OnCpu, IInv, TypeOK
<1>4. CASE UNCHANGED <<cur, loc>>
  BY <1>4 DEF OnCpu
<1>5. CASE Dispatch /\ ~RunNext
  BY <1>5, <1>4 DEF Dispatch, StartRound, EnterTimers, TimerWake, TimerErase,
                    TimersDone, EpollIdle
<1> QED
  BY <1>1, <1>2, <1>3, <1>4, <1>5 DEF Next, EnterDispatch, Tick, vars

\* The steps that neither wake a sleeper nor put one to sleep.
LEMMA OrderKept ==
    ASSUME IInv, TimersInOrder,
           \A f \in Fibers :
                loc'[f] = "sleep" =>
                    /\ loc[f] = "sleep"
                    /\ expireAt'[f] = expireAt[f]
                    /\ Queued(f)' <=> Queued(f)
    PROVE  TimersInOrder'
BY DEF TimersInOrder

\* Only the timers put a sleeper into the queue, those with the first deadline first.
LEMMA TimersInOrderPreserved ==
    IInv /\ OnCpu /\ TimersInOrder /\ [Next]_vars => TimersInOrder'
<1> SUFFICES ASSUME IInv, OnCpu, TimersInOrder, [Next]_vars PROVE TimersInOrder'
  OBVIOUS
<1> USE DEF queueVars, timerVars
<1>1. ASSUME NEW h \in Fibers, CreateFiber(h) \/ Yield(h) PROVE TimersInOrder'
  <2>1. ready' = Append(ready, h) /\ running' = running /\ loc'[h] = "user"
    BY <1>1 DEF CreateFiber, Yield, InUser, IInv, TypeOK
  <2>2. Range(Queue') = Range(Queue) \cup {h}
    BY <2>1, QueueSteps DEF IInv, TypeOK
  <2>3. UNCHANGED expireAt /\ \A f \in Fibers \ {h} : loc'[f] = loc[f]
    BY <1>1 DEF CreateFiber, Yield, IInv, TypeOK
  <2> QED
    BY <2>1, <2>2, <2>3, OrderKept DEF Queued
<1>2. ASSUME NEW h \in Fibers, Finish(h) PROVE TimersInOrder'
  <2>1. Queue' = Queue /\ UNCHANGED expireAt
        /\ loc' = [loc EXCEPT ![h] = "freed"]
    BY <1>2 DEF Finish, Queue
  <2> QED
    BY <2>1, OrderKept DEF Queued, IInv, TypeOK
<1>3. ASSUME NEW h \in Fibers, NEW ms \in SleepTimes, SleepMs(h, ms)
      PROVE  TimersInOrder'
  <2>1. ms \in Nat /\ clock \in Nat \ {0}
    BY ConstantsAssumption DEF IInv, TypeOK
  <2>2. /\ Queue' = Queue /\ clock' = clock /\ cur = h
        /\ loc' = [loc EXCEPT ![h] = "sleep"]
        /\ expireAt' = [expireAt EXCEPT ![h] = clock + ms]
    BY <1>3, <2>1 DEF SleepMs, InUser, RegisterDeadline, Queue
  <2>3. ~Queued(h)
    BY <2>2 DEF IInv, ScheduledOnce
  <2> SUFFICES ASSUME NEW f \in Fibers, NEW g \in Fibers,
                      (loc[f] = "sleep")', (loc[g] = "sleep")',
                      (expireAt[f] < expireAt[g])', Queued(g)'
               PROVE  Queued(f)'
    BY DEF TimersInOrder
  <2>4. g # h /\ loc[g] = "sleep" /\ expireAt'[g] = expireAt[g] /\ Queued(g)
    BY <2>2, <2>3 DEF Queued, IInv, TypeOK
  <2>5. expireAt[g] <= clock /\ expireAt[g] \in Nat \cup {-1}
    BY <2>4 DEF IInv, ClockInv, TypeOK
  <2>6. f # h
    BY <2>1, <2>2, <2>4, <2>5 DEF IInv, TypeOK
  <2> QED
    BY <2>2, <2>4, <2>6 DEF TimersInOrder, Queued, IInv, TypeOK
<1>4. CASE RunNext
  <2> DEFINE h == Head(running)
  <2>1. /\ h \in Fibers
        /\ Range(Queue) = Range(Queue') \cup {h}
        /\ UNCHANGED expireAt
        /\ loc' = [loc EXCEPT ![h] = IF @ = "sleep" THEN "user" ELSE @]
    BY <1>4, QueueSteps DEF RunNext, IInv, TypeOK
  <2>2. \A f \in Fibers : loc'[f] = "sleep" => f # h /\ loc[f] = "sleep"
    BY <2>1 DEF IInv, TypeOK
  <2> QED
    BY <2>1, <2>2, OrderKept DEF Queued
<1>5. ASSUME NEW h \in Fibers, TimerWake(h) PROVE TimersInOrder'
  <2>1. PICK t \in DOMAIN expireEvents :
            DueFirst(t) /\ h \in expireEvents[t]
    BY <1>5, WokenFirst DEF IInv, TypeOK
  <2>2. t = expireAt[h]
    BY <2>1 DEF IInv, ScheduledOnce
  <2>3. /\ Range(Queue') = Range(Queue) \cup {h} /\ cur = NoFiber
        /\ UNCHANGED <<loc, expireAt>>
    <3>1. ready' = Append(ready, h) /\ running' = running
      BY <1>5, WakeOne DEF TimerWake, IInv, TypeOK
    <3> QED
      BY <1>5, <3>1, QueueSteps DEF TimerWake, IInv, TypeOK, PhaseInv
  <2> SUFFICES ASSUME NEW f \in Fibers, NEW g \in Fibers,
                      loc[f] = "sleep", loc[g] = "sleep",
                      expireAt[f] < expireAt[g], Queued(g)', ~Queued(f)
               PROVE  Queued(f)'
    BY <2>3 DEF TimersInOrder, Queued
  <2>4. g = h
    BY <2>3 DEF TimersInOrder, Queued
  <2>5. HasTimer(f)
    BY <2>3, ConstantsAssumption DEF IInv, ScheduledOnce, Live
  <2>6. PICK u \in DOMAIN expireEvents : f \in expireEvents[u]
    BY <2>5 DEF HasTimer
  <2>7. u = expireAt[f] /\ t <= u
    BY <2>1, <2>6 DEF IInv, ScheduledOnce, DueFirst
  <2> QED
    BY <2>1, <2>2, <2>4, <2>6, <2>7 DEF IInv, TypeOK
<1>6. CASE \/ EnterDispatch \/ StartRound \/ EnterTimers \/ TimerErase \/ TimersDone
           \/ EpollIdle \/ Tick \/ UNCHANGED vars
  <2>1. UNCHANGED <<loc, expireAt>>
    BY <1>6 DEF EnterDispatch, StartRound, EnterTimers, TimerErase, TimersDone,
                EpollIdle, Tick, vars
  <2>2. CASE StartRound
    BY <2>1, <2>2, QueueSteps, OrderKept DEF StartRound, IInv, TypeOK, PhaseInv, Queued
  <2>3. CASE ~StartRound
    <3>1. Queue' = Queue
      BY <1>6, <2>3 DEF EnterDispatch, EnterTimers, TimerErase, TimersDone,
                        EpollIdle, Tick, vars, Queue
    <3> QED
      BY <2>1, <3>1, OrderKept DEF Queued
  <2> QED
    BY <2>2, <2>3
<1> QED
  BY <1>1, <1>2, <1>3, <1>4, <1>5, <1>6 DEF Next, Dispatch, GiveUpCpu

\* Sleepers are scheduled in the order of their deadlines: the timer loop of
\* Dispatch takes the first key, and SleepMs asks for no deadline in the past.
THEOREM AlwaysInOrder == Spec => []TimersInOrder
<1>1. Init => OnCpu /\ TimersInOrder
  BY DEF Init, OnCpu, TimersInOrder
<1>2. IInv /\ (OnCpu /\ TimersInOrder) /\ [Next]_vars => (OnCpu /\ TimersInOrder)'
  BY OnCpuPreserved, TimersInOrderPreserved
<1> QED
  BY <1>1, <1>2, InductiveInvariant, PTL DEF Spec

-----------------------------------------------------------------------------
(* The scheduler implements RunQueue: the initial states map to initial    *)
(* states, and each step of XFiber maps to the step of RunQueue it is      *)
(* named after or to a stutter.                                            *)

\* The steps that move no fiber and no deadline are not visible.
LEMMA Invisible ==
    ASSUME Queue' = Queue, UNCHANGED <<cur, loc, clock, expireAt>>,
           \A f \in Fibers : HasTimer(f)' <=> HasTimer(f)
    PROVE  UNCHANGED <<Queue, cur, [f \in Sleepers |-> expireAt[f]], Freed, clock>>
BY DEF Sleepers, Freed

\* At the start nobody is anywhere.
LEMMA InitMaps == Init => RQ!Init
<1> SUFFICES ASSUME Init PROVE RQ!Init
  OBVIOUS
<1>1. Queue = <<>> /\ Sleepers = {} /\ Freed = {}
  BY DEF Init, Queue, Sleepers, HasTimer, Freed
<1> QED
  BY <1>1 DEF Init, RQ!Init

\* A fiber that is created joins the queue at its tail.
LEMMA CreateFiberMaps ==
    ASSUME IInv, NEW f \in Fibers, CreateFiber(f)
    PROVE  RQ!Spawn(f)
<1> USE DEF queueVars, timerVars
<1>1. /\ loc[f] = "none" /\ ready' = Append(ready, f)
      /\ loc' = [loc EXCEPT ![f] = "user"]
      /\ UNCHANGED <<running, cur, clock, expireAt, expireEvents>>
  BY DEF CreateFiber
<1>2. ~Queued(f) /\ cur # f /\ ~HasTimer(f)
  BY <1>1 DEF IInv, ScheduledOnce, Live
<1>3. Queue' = Append(Queue, f)
  BY <1>1, QueueSteps DEF IInv, TypeOK
<1>4. UNCHANGED <<[g \in Sleepers |-> expireAt[g]], Freed>>
  BY <1>1 DEF Sleepers, HasTimer, Freed, IInv, TypeOK
<1>5. RQ!New(f)
  BY <1>1, <1>2 DEF RQ!New, Queued, Range, Sleepers, Freed
<1> QED
  BY <1>1, <1>3, <1>4, <1>5 DEF RQ!Spawn

\* The head of the round is the head of the joint queue.
LEMMA RunNextMaps ==
    ASSUME IInv, RunNext
    PROVE  RQ!Run
<1> USE DEF queueVars, timerVars
<1> DEFINE f == Head(running)
<1>1. Queue # <<>> /\ Queue' = Tail(Queue) /\ f \in Fibers
  BY QueueSteps DEF RunNext, IInv, TypeOK
<1>2. f = Head(Queue)
  BY TwoDeques DEF RunNext, IInv, TypeOK, Queue
<1>3. UNCHANGED <<[g \in Sleepers |-> expireAt[g]], Freed>>
  BY <1>1 DEF RunNext, Sleepers, HasTimer, Freed, IInv, TypeOK
<1> QED
  BY <1>1, <1>2, <1>3 DEF RunNext, RQ!Run

\* A fiber that yields goes behind both deques.
LEMMA YieldMaps ==
    ASSUME IInv, NEW f \in Fibers, Yield(f)
    PROVE  RQ!GoBack
<1> USE DEF queueVars, timerVars
<1>1. Queue' = Append(Queue, f)
  BY QueueSteps DEF Yield, IInv, TypeOK
<1>2. UNCHANGED <<[g \in Sleepers |-> expireAt[g]], Freed>>
  BY DEF Yield, Sleepers, HasTimer, Freed
<1> QED
  BY <1>1, <1>2, ConstantsAssumption DEF Yield, InUser, RQ!GoBack

\* A fiber that sleeps is asleep until the deadline stored in it.
LEMMA SleepMsMaps ==
    ASSUME IInv, NEW f \in Fibers, NEW ms \in SleepTimes, SleepMs(f, ms)
    PROVE  RQ!Sleep
<1> USE DEF queueVars, timerVars
<1> DEFINE d == clock + ms
           sl == [g \in Sleepers |-> expireAt[g]]
<1>1. ms \in Nat /\ d \in Nat \ {0} /\ d >= clock
  BY ConstantsAssumption DEF IInv, TypeOK
<1>2. /\ cur = f /\ loc[f] = "user" /\ cur' = NoFiber
      /\ loc' = [loc EXCEPT ![f] = "sleep"]
      /\ expireAt' = [expireAt EXCEPT ![f] = d]
      /\ DOMAIN expireEvents' = DOMAIN expireEvents \cup {d}
      /\ \A t \in DOMAIN expireEvents' : expireEvents'[t] =
            (IF t \in DOMAIN expireEvents THEN expireEvents[t] ELSE {})
            \cup (IF t = d THEN {f} ELSE {})
      /\ UNCHANGED <<ready, running, clock>>
  BY <1>1 DEF SleepMs, InUser, RegisterDeadline
<1>3. Sleepers' = Sleepers \cup {f} /\ f \notin Sleepers
  <2>1. ~HasTimer(f) /\ HasTimer(f)'
    BY <1>2 DEF IInv, ScheduledOnce, HasTimer
  <2>2. \A g \in Fibers \ {f} : HasTimer(g)' <=> HasTimer(g)
    BY <1>2 DEF HasTimer
  <2> QED
    BY <2>1, <2>2 DEF Sleepers
<1>4. \A g \in Sleepers : expireAt[g] \in Nat
  <2>1. \A g \in Sleepers : expireAt[g] \in DOMAIN expireEvents
    BY DEF Sleepers, HasTimer, IInv, ScheduledOnce
  <2> QED
    BY <2>1 DEF IInv, TypeOK
<1>5. Sleepers \subseteq Fibers
  BY DEF Sleepers
<1>6. /\ sl' \in [DOMAIN sl \cup {cur} -> Nat]
      /\ sl'[cur] = d
      /\ \A g \in DOMAIN sl : sl'[g] = sl[g]
  BY <1>1, <1>2, <1>3, <1>4, <1>5 DEF IInv, TypeOK
<1>7. Queue' = Queue /\ Freed' = Freed
  BY <1>2 DEF Queue, Freed, IInv, TypeOK
<1> QED
  BY <1>1, <1>2, <1>6, <1>7, ConstantsAssumption DEF RQ!Sleep

\* A fiber that ends is in no place any more.
LEMMA FinishMaps ==
    ASSUME IInv, NEW f \in Fibers, Finish(f)
    PROVE  RQ!Exit
<1> USE DEF queueVars, timerVars
<1>1. Freed' = Freed \cup {f}
  BY DEF Finish, Freed, IInv, TypeOK
<1>2. Queue' = Queue /\ UNCHANGED [g \in Sleepers |-> expireAt[g]]
  BY DEF Finish, Queue, Sleepers, HasTimer
<1> QED
  BY <1>1, <1>2, ConstantsAssumption DEF Finish, InUser, RQ!Exit

\* The fiber a timer wakes sleeps, is due, and none sleeps until an earlier deadline.
LEMMA TimerWakeMaps ==
    ASSUME IInv, NEW f \in Fibers, TimerWake(f)
    PROVE  RQ!Wake(f)
<1> USE DEF queueVars, timerVars
<1> DEFINE sl == [g \in Sleepers |-> expireAt[g]]
<1>1. PICK t \in DOMAIN expireEvents : DueFirst(t) /\ f \in expireEvents[t]
  BY WokenFirst DEF IInv, TypeOK
<1>2. t = expireAt[f] /\ f \in Sleepers
  BY <1>1 DEF IInv, ScheduledOnce, Sleepers, HasTimer
<1>3. t <= clock
  BY <1>1 DEF IInv, ClockInv, TypeOK, DueFirst
<1>4. \A g \in Sleepers : expireAt[f] <= expireAt[g]
  <2> SUFFICES ASSUME NEW g \in Sleepers PROVE expireAt[f] <= expireAt[g]
    OBVIOUS
  <2>1. PICK u \in DOMAIN expireEvents : g \in expireEvents[u]
    BY DEF Sleepers, HasTimer
  <2>2. u = expireAt[g]
    BY <2>1 DEF IInv, ScheduledOnce, Sleepers
  <2> QED
    BY <1>1, <1>2, <2>1, <2>2 DEF DueFirst
<1>5. /\ ready' = Append(ready, f)
      /\ DOMAIN expireEvents' = DOMAIN expireEvents
      /\ \A u \in DOMAIN expireEvents :
            expireEvents'[u] = {g \in expireEvents[u] : ~(g = f /\ expireAt[g] = u)}
      /\ UNCHANGED <<running, cur, clock, loc, expireAt>>
  BY WakeOne DEF TimerWake, IInv, TypeOK
<1>6. Sleepers' = Sleepers \ {f}
  <2>1. ~HasTimer(f)'
    BY <1>5 DEF HasTimer, IInv, ScheduledOnce
  <2>2. \A g \in Fibers \ {f} : HasTimer(g)' <=> HasTimer(g)
    BY <1>5 DEF HasTimer
  <2> QED
    BY <2>1, <2>2 DEF Sleepers
<1>7. sl' = [g \in DOMAIN sl \ {f} |-> sl[g]]
  BY <1>5, <1>6
<1>8. Queue' = Append(Queue, f) /\ Freed' = Freed
  BY <1>5, QueueSteps DEF IInv, TypeOK, Freed
<1>9. cur = NoFiber
  BY DEF TimerWake, IInv, PhaseInv
<1> QED
  BY <1>2, <1>3, <1>4, <1>5, <1>7, <1>8, <1>9 DEF RQ!Wake

\* Every step is one of RunQueue or not visible in it.
LEMMA NextMaps ==
    IInv /\ [Next]_vars =>
        [RQ!Next]_<<Queue, cur, [f \in Sleepers |-> expireAt[f]], Freed, clock>>
<1> DEFINE view == <<Queue, cur, [f \in Sleepers |-> expireAt[f]], Freed, clock>>
<1> SUFFICES ASSUME IInv, [Next]_vars PROVE RQ!Next \/ UNCHANGED view
  OBVIOUS
<1> USE DEF queueVars, timerVars
<1>1. CASE \E f \in Fibers : CreateFiber(f)
  BY <1>1, CreateFiberMaps DEF RQ!Next
<1>2. CASE \E f \in Fibers : GiveUpCpu(f)
  BY <1>2, YieldMaps, SleepMsMaps, FinishMaps DEF GiveUpCpu, RQ!Next
<1>3. CASE RunNext
  BY <1>3, RunNextMaps DEF RQ!Next
<1>4. CASE \E f \in Fibers : TimerWake(f)
  BY <1>4, TimerWakeMaps DEF RQ!Next
<1>5. CASE Tick
  <2>1. UNCHANGED <<Queue, cur, [f \in Sleepers |-> expireAt[f]], Freed>>
    BY <1>5 DEF Tick, Queue, Sleepers, HasTimer, Freed
  <2> QED
    BY <1>5, <2>1 DEF Tick, RQ!Advance, RQ!Next
<1>6. CASE TimerErase
  <2>1. \A f \in Fibers : HasTimer(f)' <=> HasTimer(f)
    BY <1>6 DEF TimerErase, HasTimer, Restrict
  <2>2. Queue' = Queue /\ UNCHANGED <<cur, loc, clock, expireAt>>
    BY <1>6 DEF TimerErase, Queue
  <2> QED
    BY <2>1, <2>2, Invisible
<1>7. CASE \/ EnterDispatch \/ StartRound \/ EnterTimers \/ TimersDone
           \/ EpollIdle \/ UNCHANGED vars
  <2>1. UNCHANGED <<cur, loc, clock, timerVars>>
    BY <1>7 DEF EnterDispatch, StartRound, EnterTimers, TimersDone, EpollIdle, vars
  <2>2. Queue' = Queue
    <3>1. CASE StartRound
      BY <3>1, QueueSteps DEF StartRound, IInv, TypeOK, PhaseInv
    <3>2. CASE ~StartRound
      BY <1>7, <3>2 DEF EnterDispatch, EnterTimers, TimersDone, EpollIdle, vars, Queue
    <3> QED
      BY <3>1, <3>2
  <2> QED
    BY <2>1, <2>2, Invisible DEF HasTimer
<1> QED
  BY <1>1, <1>2, <1>3, <1>4, <1>5, <1>6, <1>7 DEF Next, Dispatch

\* The scheduler of the code (Dispatch, WakeUpFiber, Yield, SleepMs, CreateFiber)
\* is, seen from outside, one first-come-first-served queue with sleepers that come
\* back through it by deadline.
THEOREM ImplementsQueue == Spec => ImplementsRunQueue
<1>1. Init => RQ!Init
  BY InitMaps
<1>2. IInv /\ [Next]_vars =>
        [RQ!Next]_<<Queue, cur, [f \in Sleepers |-> expireAt[f]], Freed, clock>>
  BY NextMaps
<1> QED
  BY <1>1, <1>2, InductiveInvariant, PTL DEF Spec, ImplementsRunQueue, RQ!Spec
=============================================================================
