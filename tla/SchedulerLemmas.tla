--------------------------- MODULE SchedulerLemmas ---------------------------
(***************************************************************************)
(* Facts about the steps of the scheduler that do not depend on what else  *)
(* fibers wait for.  The semaphores and the sockets put more places next   *)
(* to Locations and Phases and leave the steps as they are, so the lemmas  *)
(* have the sets of places, L and P, as parameters.                        *)
(***************************************************************************)
EXTENDS XFiber, SequenceTheorems, TLAPS

-----------------------------------------------------------------------------
(* Sequences without repetition, used as run queues: what appending, taking *)
(* the head and concatenation do to the elements.                          *)

\* Behind a queue that does not hold it, e is the one element that is added.
LEMMA AppendQueue ==
    ASSUME NEW S, NEW q \in Seq(S), NEW e \in S
    PROVE  /\ Append(q, e) \in Seq(S)
           /\ Range(Append(q, e)) = Range(q) \cup {e}
           /\ IsInjective(q) /\ e \notin Range(q) => IsInjective(Append(q, e))
<1>1. /\ Append(q, e) \in Seq(S)
      /\ DOMAIN Append(q, e) = 1 .. Len(q) + 1
      /\ DOMAIN q = 1 .. Len(q)
      /\ Len(q) \in Nat
      /\ \A i \in 1 .. Len(q) : Append(q, e)[i] = q[i]
      /\ Append(q, e)[Len(q) + 1] = e
  BY AppendProperties, LenProperties
<1>2. Range(Append(q, e)) = Range(q) \cup {e}
  <2>1. ASSUME NEW x \in Range(Append(q, e)) PROVE x \in Range(q) \cup {e}
    <3>1. PICK i \in 1 .. Len(q) + 1 : x = Append(q, e)[i]
      BY <1>1 DEF Range
    <3>2. CASE i = Len(q) + 1
      BY <3>1, <3>2, <1>1
    <3>3. CASE i \in 1 .. Len(q)
      BY <3>1, <3>3, <1>1 DEF Range
    <3> QED
      BY <3>2, <3>3, <1>1
  <2>2. ASSUME NEW x \in Range(q) PROVE x \in Range(Append(q, e))
    <3>1. PICK i \in 1 .. Len(q) : x = q[i]
      BY <1>1 DEF Range
    <3>2. i \in DOMAIN Append(q, e) /\ x = Append(q, e)[i]
      BY <3>1, <1>1
    <3> QED
      BY <3>2 DEF Range
  <2>3. e \in Range(Append(q, e))
    <3>1. Len(q) + 1 \in DOMAIN Append(q, e)
      BY <1>1
    <3> QED
      BY <3>1, <1>1 DEF Range
  <2> QED
    BY <2>1, <2>2, <2>3
<1>3. ASSUME IsInjective(q), e \notin Range(q)
      PROVE  IsInjective(Append(q, e))
  <2> SUFFICES ASSUME NEW i \in 1 .. Len(q) + 1, NEW j \in 1 .. Len(q) + 1,
                      Append(q, e)[i] = Append(q, e)[j]
               PROVE  i = j
    BY <1>1 DEF IsInjective
  <2>1. \A k \in 1 .. Len(q) : q[k] # e
    BY <1>1, <1>3 DEF Range
  <2>2. CASE i \in 1 .. Len(q) /\ j \in 1 .. Len(q)
    BY <2>2, <1>1, <1>3 DEF IsInjective
  <2>3. CASE ~(i \in 1 .. Len(q)) /\ j \in 1 .. Len(q)
    BY <2>1, <2>3, <1>1
  <2>4. CASE i \in 1 .. Len(q) /\ ~(j \in 1 .. Len(q))
    BY <2>1, <2>4, <1>1
  <2>5. CASE ~(i \in 1 .. Len(q)) /\ ~(j \in 1 .. Len(q))
    BY <2>5, <1>1
  <2> QED
    BY <2>2, <2>3, <2>4, <2>5
<1> QED
  BY <1>1, <1>2, <1>3

\* The head of a queue without repetition is the one element its tail lacks.
LEMMA TailQueue ==
    ASSUME NEW S, NEW q \in Seq(S), q # <<>>
    PROVE  /\ Head(q) \in S
           /\ Head(q) \in Range(q)
           /\ Tail(q) \in Seq(S)
           /\ Range(Tail(q)) \subseteq Range(q)
           /\ Range(q) = Range(Tail(q)) \cup {Head(q)}
           /\ IsInjective(q) => /\ IsInjective(Tail(q))
                                /\ Head(q) \notin Range(Tail(q))
<1>1. /\ Head(q) \in S
      /\ Tail(q) \in Seq(S)
      /\ Len(q) \in Nat \ {0}
      /\ DOMAIN q = 1 .. Len(q)
      /\ DOMAIN Tail(q) = 1 .. Len(q) - 1
      /\ \A i \in 1 .. Len(q) - 1 : Tail(q)[i] = q[i + 1]
  BY HeadTailProperties, LenProperties, EmptySeq
<1>2. Head(q) = q[1]
  OBVIOUS
<1>3. Head(q) \in Range(q)
  BY <1>1, <1>2 DEF Range
<1>4. ASSUME NEW x \in Range(Tail(q))
      PROVE  \E i \in 2 .. Len(q) : x = q[i]
  <2>1. PICK i \in 1 .. Len(q) - 1 : x = Tail(q)[i]
    BY <1>1 DEF Range
  <2>2. i + 1 \in 2 .. Len(q) /\ x = q[i + 1]
    BY <2>1, <1>1
  <2> QED
    BY <2>2
<1>5. Range(Tail(q)) \subseteq Range(q)
  BY <1>1, <1>4 DEF Range
<1>6. ASSUME NEW x \in Range(q), x # Head(q)
      PROVE  x \in Range(Tail(q))
  <2>1. PICK i \in 1 .. Len(q) : x = q[i]
    BY <1>1 DEF Range
  <2>2. i - 1 \in 1 .. Len(q) - 1 /\ x = Tail(q)[i - 1]
    BY <2>1, <1>1, <1>2, <1>6
  <2> QED
    BY <2>2, <1>1 DEF Range
<1>7. ASSUME IsInjective(q)
      PROVE  IsInjective(Tail(q)) /\ Head(q) \notin Range(Tail(q))
  <2>1. ASSUME NEW i \in 1 .. Len(q) - 1, NEW j \in 1 .. Len(q) - 1,
               Tail(q)[i] = Tail(q)[j]
        PROVE  i = j
    <3>1. q[i + 1] = q[j + 1] /\ i + 1 \in DOMAIN q /\ j + 1 \in DOMAIN q
      BY <2>1, <1>1
    <3>2. i + 1 = j + 1
      BY <3>1, <1>7 DEF IsInjective
    <3> QED
      BY <3>2, <1>1
  <2>2. Head(q) \notin Range(Tail(q))
    <3> SUFFICES ASSUME Head(q) \in Range(Tail(q)) PROVE FALSE
      OBVIOUS
    <3>1. PICK i \in 2 .. Len(q) : Head(q) = q[i]
      BY <1>4
    <3>2. i \in DOMAIN q /\ 1 \in DOMAIN q /\ q[1] = q[i] /\ i # 1
      BY <3>1, <1>1, <1>2
    <3> QED
      BY <3>2, <1>7 DEF IsInjective
  <2> QED
    BY <2>1, <2>2, <1>1 DEF IsInjective
<1> QED
  BY <1>1, <1>3, <1>5, <1>6, <1>7

\* Two deques read one after the other: appending to the second appends to both,
\* and the head of both is the head of the first.
LEMMA TwoDeques ==
    ASSUME NEW S, NEW p \in Seq(S), NEW q \in Seq(S)
    PROVE  /\ p \o q \in Seq(S)
           /\ \A e \in S : p \o Append(q, e) = Append(p \o q, e)
           /\ p # <<>> => /\ Tail(p) \o q = Tail(p \o q)
                          /\ Head(p) = Head(p \o q)
                          /\ p \o q # <<>>
           /\ p \o <<>> = p
           /\ <<>> \o q = q
<1>1. p \o q \in Seq(S)
  BY ConcatProperties
<1>2. ASSUME NEW e \in S PROVE p \o Append(q, e) = Append(p \o q, e)
  <2>1. <<e>> \in Seq(S)
    OBVIOUS
  <2>2. Append(q, e) = q \o <<e>> /\ Append(p \o q, e) = (p \o q) \o <<e>>
    BY <1>1, AppendIsConcat
  <2> QED
    BY <2>1, <2>2, ConcatAssociative
<1>3. ASSUME p # <<>>
      PROVE  Tail(p) \o q = Tail(p \o q) /\ Head(p) = Head(p \o q) /\ p \o q # <<>>
  <2>1. p \o q # <<>>
    BY <1>3, ConcatEqualIffEmpty
  <2>2. /\ Tail(p) \in Seq(S) /\ Len(Tail(p)) = Len(p) - 1
        /\ \A i \in 1 .. Len(p) - 1 : Tail(p)[i] = p[i + 1]
    BY <1>3, HeadTailProperties
  <2>3. /\ Tail(p \o q) \in Seq(S) /\ Len(Tail(p \o q)) = Len(p \o q) - 1
        /\ \A i \in 1 .. Len(p \o q) - 1 : Tail(p \o q)[i] = (p \o q)[i + 1]
    BY <1>1, <2>1, HeadTailProperties
  <2>4. /\ Len(p) \in Nat \ {0} /\ Len(q) \in Nat /\ Len(p \o q) = Len(p) + Len(q)
        /\ \A i \in 1 .. Len(p) + Len(q) : (p \o q)[i] =
                IF i <= Len(p) THEN p[i] ELSE q[i - Len(p)]
    BY <1>3, ConcatProperties, LenProperties, EmptySeq
  <2>5. /\ Tail(p) \o q \in Seq(S)
        /\ Len(Tail(p) \o q) = Len(p) - 1 + Len(q)
        /\ \A i \in 1 .. Len(p) - 1 + Len(q) : (Tail(p) \o q)[i] =
                IF i <= Len(p) - 1 THEN Tail(p)[i] ELSE q[i - (Len(p) - 1)]
    BY <2>2, ConcatProperties
  <2>6. ASSUME NEW i \in 1 .. Len(Tail(p) \o q)
        PROVE  (Tail(p) \o q)[i] = Tail(p \o q)[i]
    <3>1. Tail(p \o q)[i] = (p \o q)[i + 1] /\ i + 1 \in 1 .. Len(p) + Len(q)
      BY <2>3, <2>4, <2>5
    <3>2. CASE i <= Len(p) - 1
      BY <3>1, <3>2, <2>2, <2>4, <2>5
    <3>3. CASE ~(i <= Len(p) - 1)
      BY <3>1, <3>3, <2>4, <2>5
    <3> QED
      BY <3>2, <3>3
  <2>7. Tail(p) \o q = Tail(p \o q)
    BY <2>3, <2>4, <2>5, <2>6, SeqEqual
  <2>8. ASSUME NEW r \in Seq(S) PROVE Head(r) = r[1]
    OBVIOUS
  <2>9. (p \o q)[1] = p[1]
    BY <2>4
  <2> QED
    BY <2>1, <2>7, <2>8, <2>9, <1>1
<1> QED
  BY <1>1, <1>2, <1>3, ConcatEmptySeq
\* Two queues one behind the other hold what each of them holds.
LEMMA ConcatQueue ==
    ASSUME NEW S, NEW p \in Seq(S), NEW q \in Seq(S)
    PROVE  /\ p \o q \in Seq(S)
           /\ Range(p \o q) = Range(p) \cup Range(q)
           /\ (IsInjective(p) /\ IsInjective(q) /\ Range(p) \cap Range(q) = {})
              => IsInjective(p \o q)
<1>1. /\ p \o q \in Seq(S)
      /\ DOMAIN p = 1 .. Len(p) /\ DOMAIN q = 1 .. Len(q)
      /\ DOMAIN (p \o q) = 1 .. Len(p) + Len(q)
      /\ Len(p) \in Nat /\ Len(q) \in Nat
      /\ \A i \in 1 .. Len(p) : (p \o q)[i] = p[i]
      /\ \A i \in Len(p) + 1 .. Len(p) + Len(q) :
            i - Len(p) \in 1 .. Len(q) /\ (p \o q)[i] = q[i - Len(p)]
  BY ConcatProperties, LenProperties
<1>2. Range(p \o q) = Range(p) \cup Range(q)
  <2>1. ASSUME NEW x \in Range(p \o q) PROVE x \in Range(p) \cup Range(q)
    <3>1. PICK i \in 1 .. Len(p) + Len(q) : x = (p \o q)[i]
      BY <1>1 DEF Range
    <3>2. CASE i \in 1 .. Len(p)
      BY <3>1, <3>2, <1>1 DEF Range
    <3>3. CASE i \in Len(p) + 1 .. Len(p) + Len(q)
      BY <3>1, <3>3, <1>1 DEF Range
    <3> QED
      BY <3>2, <3>3, <1>1
  <2>2. ASSUME NEW x \in Range(p) PROVE x \in Range(p \o q)
    <3>1. PICK i \in 1 .. Len(p) : x = p[i]
      BY <1>1 DEF Range
    <3>2. i \in DOMAIN (p \o q) /\ x = (p \o q)[i]
      BY <3>1, <1>1
    <3> QED
      BY <3>2 DEF Range
  <2>3. ASSUME NEW x \in Range(q) PROVE x \in Range(p \o q)
    <3>1. PICK i \in 1 .. Len(q) : x = q[i]
      BY <1>1 DEF Range
    <3>2. i + Len(p) \in DOMAIN (p \o q) /\ x = (p \o q)[i + Len(p)]
      BY <3>1, <1>1
    <3> QED
      BY <3>2 DEF Range
  <2> QED
    BY <2>1, <2>2, <2>3
<1>3. ASSUME IsInjective(p), IsInjective(q), Range(p) \cap Range(q) = {},
             NEW i \in 1 .. Len(p) + Len(q), NEW j \in 1 .. Len(p) + Len(q),
             (p \o q)[i] = (p \o q)[j]
      PROVE  i = j
  <2>1. CASE i \in 1 .. Len(p) /\ j \in 1 .. Len(p)
    BY <2>1, <1>1, <1>3 DEF IsInjective
  <2>2. CASE ~(i \in 1 .. Len(p)) /\ ~(j \in 1 .. Len(p))
    BY <2>2, <1>1, <1>3 DEF IsInjective
  <2>3. ASSUME NEW k \in 1 .. Len(p), NEW m \in Len(p) + 1 .. Len(p) + Len(q)
        PROVE  (p \o q)[k] # (p \o q)[m]
    <3>1. (p \o q)[k] \in Range(p) /\ (p \o q)[m] \in Range(q)
      BY <1>1 DEF Range
    <3> QED
      BY <3>1, <1>3
  <2> QED
    BY <2>1, <2>2, <2>3, <1>1, <1>3
<1> QED
  BY <1>1, <1>2, <1>3 DEF IsInjective

-----------------------------------------------------------------------------
(* The invariants of the scheduler that its clients share.                 *)

\* The types of the variables of the scheduler, with places L and phases P.
SchedTypes(L, P) ==
    /\ ready \in Seq(Fibers)
    /\ running \in Seq(Fibers)
    /\ cur \in Fibers \cup {NoFiber}
    /\ phase \in P
    /\ nowMs \in Nat
    /\ clock \in Nat \ {0}
    /\ loc \in [Fibers -> L]
    /\ expireAt \in [Fibers -> Nat \cup {-1}]
    /\ DOMAIN expireEvents \subseteq Nat \ {0}
    /\ expireEvents \in [DOMAIN expireEvents -> SUBSET Fibers]

\* Outside a round no fiber runs and no fiber of a round is left.
PhaseInv == phase # "running" => cur = NoFiber /\ running = <<>>

\* f is scheduled, has the CPU or has a timer.
Placed(f) == Queued(f) \/ cur = f \/ HasTimer(f)

\* No fiber is in two of these places or twice in one, only live fibers are in
\* any, and a timer is at the deadline stored in the fiber.
AtMostOnce ==
    /\ IsInjective(Queue)
    /\ \A f \in Fibers :
        /\ ~(Queued(f) /\ cur = f)
        /\ HasTimer(f) => ~Queued(f) /\ cur # f
        /\ \A t \in DOMAIN expireEvents : f \in expireEvents[t] => t = expireAt[f]
        /\ Placed(f) => Live(f)

\* Whoever has a timer is inside SleepMs.
TimersAreSleeps == \A f \in Fibers : HasTimer(f) => loc[f] = "sleep"

-----------------------------------------------------------------------------
(* The run queue as a whole: what each kind of step does to it.            *)

\* The two deques form a queue of fibers; a push appends to it and a round
\* that goes on takes its head.
LEMMA QueueSteps ==
    ASSUME ready \in Seq(Fibers), running \in Seq(Fibers)
    PROVE  /\ Queue \in Seq(Fibers)
           /\ \A f \in Fibers :
                ready' = Append(ready, f) /\ running' = running
                => /\ ready' \in Seq(Fibers)
                   /\ Queue' = Append(Queue, f)
                   /\ Range(Queue') = Range(Queue) \cup {f}
                   /\ IsInjective(Queue) /\ f \notin Range(Queue)
                      => IsInjective(Queue')
           /\ running # <<>> /\ running' = Tail(running) /\ ready' = ready
              => /\ running' \in Seq(Fibers)
                 /\ Queue # <<>>
                 /\ Queue' = Tail(Queue)
                 /\ Head(running) \in Fibers
                 /\ Range(Queue) = Range(Queue') \cup {Head(running)}
                 /\ IsInjective(Queue)
                    => IsInjective(Queue') /\ Head(running) \notin Range(Queue')
           /\ running = <<>> /\ running' = ready /\ ready' = <<>> => Queue' = Queue
<1>2. Queue \in Seq(Fibers)
  BY TwoDeques DEF Queue
<1>3. ASSUME NEW f \in Fibers, ready' = Append(ready, f), running' = running
      PROVE  /\ ready' \in Seq(Fibers)
             /\ Queue' = Append(Queue, f)
             /\ Range(Queue') = Range(Queue) \cup {f}
             /\ IsInjective(Queue) /\ f \notin Range(Queue) => IsInjective(Queue')
  <2>1. Queue' = Append(Queue, f)
    BY <1>3, TwoDeques DEF Queue
  <2>2. ready' \in Seq(Fibers)
    BY <1>3
  <2> QED
    BY <2>1, <2>2, <1>2, AppendQueue
<1>4. ASSUME running # <<>>, running' = Tail(running), ready' = ready
      PROVE  /\ running' \in Seq(Fibers)
             /\ Queue # <<>>
             /\ Queue' = Tail(Queue)
             /\ Head(running) \in Fibers
             /\ Range(Queue) = Range(Queue') \cup {Head(running)}
             /\ IsInjective(Queue)
                => IsInjective(Queue') /\ Head(running) \notin Range(Queue')
  <2>1. Queue' = Tail(Queue) /\ Head(running) = Head(Queue) /\ Queue # <<>>
    BY <1>4, TwoDeques DEF Queue
  <2>2. running' \in Seq(Fibers)
    BY <1>4, TailQueue
  <2> QED
    BY <2>1, <2>2, <1>2, TailQueue
<1>5. ASSUME running = <<>>, running' = ready, ready' = <<>>
      PROVE  Queue' = Queue
  BY <1>5, TwoDeques DEF Queue
<1> QED
  BY <1>2, <1>3, <1>4, <1>5

\* Waking a set of fibers appends them all and takes each out of the timer it is
\* registered under; no other registration changes.
LEMMA WakeSet ==
    ASSUME ready \in Seq(Fibers), running \in Seq(Fibers), running' = running,
           expireEvents \in [DOMAIN expireEvents -> SUBSET Fibers],
           NEW S \in SUBSET Fibers, WakeUpFibers(WakeOrder[S])
    PROVE  /\ ready' \in Seq(Fibers)
           /\ Range(Queue') = Range(Queue) \cup S
           /\ IsInjective(Queue) /\ Range(Queue) \cap S = {} => IsInjective(Queue')
           /\ DOMAIN expireEvents' = DOMAIN expireEvents
           /\ expireEvents' \in [DOMAIN expireEvents -> SUBSET Fibers]
           /\ \A t \in DOMAIN expireEvents :
                expireEvents'[t] =
                    {f \in expireEvents[t] : ~(f \in S /\ expireAt[f] = t)}
<1> DEFINE q == WakeOrder[S]
<1>1. q \in Seq(Fibers) /\ Range(q) = S /\ IsInjective(q)
  BY WakeOrderAssumption
<1>2. ready' = ready \o q
  BY DEF WakeUpFibers
<1>3. ready' \in Seq(Fibers)
  BY <1>1, <1>2, ConcatQueue
<1>4. Queue \in Seq(Fibers) /\ Queue' = Queue \o q
  <2>1. Queue \in Seq(Fibers)
    BY ConcatQueue DEF Queue
  <2>2. running \o (ready \o q) = (running \o ready) \o q
    <3> HIDE DEF q
    <3> QED
      BY <1>1, ConcatAssociative
  <2> QED
    BY <1>2, <2>1, <2>2 DEF Queue
<1>5. /\ Range(Queue') = Range(Queue) \cup S
      /\ IsInjective(Queue) /\ Range(Queue) \cap S = {} => IsInjective(Queue')
  BY <1>1, <1>4, ConcatQueue
<1>6. expireEvents' = [t \in DOMAIN expireEvents |->
                        {f \in expireEvents[t] : ~(f \in S /\ expireAt[f] = t)}]
  BY <1>1 DEF WakeUpFibers
<1>7. \A t \in DOMAIN expireEvents : expireEvents[t] \in SUBSET Fibers
  OBVIOUS
<1> QED
  BY <1>3, <1>5, <1>6, <1>7

\* Waking one fiber appends it and takes it out of its timer.
LEMMA WakeOne ==
    ASSUME ready \in Seq(Fibers),
           expireEvents \in [DOMAIN expireEvents -> SUBSET Fibers],
           NEW f \in Fibers, WakeUpFibers(<<f>>)
    PROVE  /\ ready' = Append(ready, f)
           /\ DOMAIN expireEvents' = DOMAIN expireEvents
           /\ expireEvents' \in [DOMAIN expireEvents -> SUBSET Fibers]
           /\ \A t \in DOMAIN expireEvents :
                expireEvents'[t] =
                    {g \in expireEvents[t] : ~(g = f /\ expireAt[g] = t)}
<1>1. <<f>> \in Seq(Fibers) /\ Range(<<f>>) = {f}
  BY DEF Range
<1>2. ready' = Append(ready, f)
  BY <1>1, AppendIsConcat DEF WakeUpFibers
<1>3. expireEvents' = [t \in DOMAIN expireEvents |->
                        {g \in expireEvents[t] : ~(g = f /\ expireAt[g] = t)}]
  BY <1>1 DEF WakeUpFibers
<1>4. \A t \in DOMAIN expireEvents : expireEvents[t] \in SUBSET Fibers
  OBVIOUS
<1> QED
  BY <1>2, <1>3, <1>4

\* The timer loop wakes a fiber that is registered under the first deadline,
\* and this is due.
LEMMA WokenFirst ==
    ASSUME expireEvents \in [DOMAIN expireEvents -> SUBSET Fibers],
           NEW f, TimerWake(f)
    PROVE  /\ f \in Fibers
           /\ \E t \in DOMAIN expireEvents : DueFirst(t) /\ f \in expireEvents[t]
<1>1. PICK t \in DOMAIN expireEvents :
        /\ DueFirst(t)
        /\ expireEvents[t] # {}
        /\ f = Head(WakeOrder[expireEvents[t]])
  BY DEF TimerWake
<1>2. expireEvents[t] \in SUBSET Fibers
  OBVIOUS
<1> DEFINE q == WakeOrder[expireEvents[t]]
<1>3. q \in Seq(Fibers) /\ Range(q) = expireEvents[t]
  BY <1>2, WakeOrderAssumption
<1>4. q # <<>>
  BY <1>1, <1>3 DEF Range
<1>5. f \in expireEvents[t]
  BY <1>1, <1>3, <1>4, TailQueue
<1> QED
  BY <1>1, <1>2, <1>5

\* A deadline that is registered is a key, holds f, and is stored in f; nothing
\* else changes.
LEMMA DeadlineSet ==
    ASSUME NEW f \in Fibers, NEW d \in Nat \ {0}, RegisterDeadline(f, d),
           expireAt \in [Fibers -> Nat \cup {-1}],
           DOMAIN expireEvents \subseteq Nat \ {0},
           expireEvents \in [DOMAIN expireEvents -> SUBSET Fibers]
    PROVE  /\ expireAt' = [expireAt EXCEPT ![f] = d]
           /\ expireAt' \in [Fibers -> Nat \cup {-1}]
           /\ DOMAIN expireEvents' = DOMAIN expireEvents \cup {d}
           /\ DOMAIN expireEvents' \subseteq Nat \ {0}
           /\ expireEvents' \in [DOMAIN expireEvents' -> SUBSET Fibers]
           /\ \A t \in DOMAIN expireEvents' : expireEvents'[t] =
                (IF t \in DOMAIN expireEvents THEN expireEvents[t] ELSE {})
                \cup (IF t = d THEN {f} ELSE {})
<1> DEFINE set(t) == (IF t \in DOMAIN expireEvents THEN expireEvents[t] ELSE {})
                     \cup (IF t = d THEN {f} ELSE {})
<1>1. /\ expireAt' = [expireAt EXCEPT ![f] = d]
      /\ expireEvents' = [t \in DOMAIN expireEvents \cup {d} |-> set(t)]
  BY DEF RegisterDeadline
<1>2. \A t \in DOMAIN expireEvents \cup {d} : set(t) \in SUBSET Fibers
  OBVIOUS
<1>3. expireEvents' \in [DOMAIN expireEvents \cup {d} -> SUBSET Fibers]
  <2> HIDE DEF set
  <2> QED
    BY <1>1, <1>2
<1> QED
  BY <1>1, <1>3

-----------------------------------------------------------------------------
(* Steps of the scheduler keep the types, and let alone what is not theirs. *)

\* The steps that only move the scheduler, or the clock, move no fiber.
LEMMA SchedulerMoves ==
    ASSUME ready \in Seq(Fibers), running \in Seq(Fibers), PhaseInv,
           \/ EnterDispatch \/ StartRound \/ EnterTimers \/ TimersDone
           \/ EpollIdle \/ Tick \/ UNCHANGED vars
    PROVE  Queue' = Queue /\ UNCHANGED <<cur, loc, expireAt, expireEvents>>
<1> USE DEF queueVars, timerVars
<1>1. Queue' = Queue
  <2>1. CASE StartRound
    BY <2>1, QueueSteps DEF PhaseInv, StartRound
  <2>2. CASE ~StartRound
    BY <2>2 DEF Queue, EnterDispatch, EnterTimers, TimersDone, EpollIdle, Tick, vars
  <2> QED
    BY <2>1, <2>2
<1> QED
  BY <1>1 DEF EnterDispatch, StartRound, EnterTimers, TimersDone, EpollIdle, Tick, vars

\* The types are kept, and a round is over before the next one is taken.
LEMMA StepKeepsTypes ==
    ASSUME NEW L, Locations \subseteq L, NEW P, Phases \subseteq P,
           SchedTypes(L, P), PhaseInv, [Next]_vars
    PROVE  SchedTypes(L, P)' /\ PhaseInv'
<1> USE DEF queueVars, timerVars
<1>1. <<>> \in Seq(Fibers) /\ {"user", "sleep", "freed"} \subseteq L
  BY DEF Locations
<1>2. ASSUME NEW f \in Fibers, CreateFiber(f) \/ Yield(f)
      PROVE  SchedTypes(L, P)' /\ PhaseInv'
  <2>1. ready' \in Seq(Fibers)
    BY <1>2, QueueSteps DEF CreateFiber, Yield, SchedTypes
  <2> QED
    BY <1>1, <1>2, <2>1, ConstantsAssumption
       DEF CreateFiber, Yield, SchedTypes, PhaseInv
<1>3. ASSUME NEW f \in Fibers, Finish(f)
      PROVE  SchedTypes(L, P)' /\ PhaseInv'
  BY <1>1, <1>3 DEF Finish, SchedTypes, PhaseInv
<1>4. ASSUME NEW f \in Fibers, NEW ms \in SleepTimes, SleepMs(f, ms)
      PROVE  SchedTypes(L, P)' /\ PhaseInv'
  <2>1. clock + ms \in Nat \ {0}
    BY ConstantsAssumption DEF SchedTypes
  <2>2. /\ expireAt' \in [Fibers -> Nat \cup {-1}]
        /\ DOMAIN expireEvents' \subseteq Nat \ {0}
        /\ expireEvents' \in [DOMAIN expireEvents' -> SUBSET Fibers]
    BY <1>4, <2>1, DeadlineSet DEF SleepMs, SchedTypes
  <2> QED
    BY <1>1, <1>4, <2>2 DEF SleepMs, SchedTypes, PhaseInv
<1>5. CASE RunNext
  <2>1. running' \in Seq(Fibers) /\ Head(running) \in Fibers
    BY <1>5, QueueSteps DEF RunNext, SchedTypes
  <2>2. loc' \in [Fibers -> L]
    BY <1>1, <1>5, <2>1 DEF RunNext, SchedTypes
  <2> QED
    BY <1>5, <2>1, <2>2 DEF RunNext, SchedTypes, PhaseInv
<1>6. ASSUME NEW f \in Fibers, TimerWake(f)
      PROVE  SchedTypes(L, P)' /\ PhaseInv'
  <2>1. /\ ready' = Append(ready, f)
        /\ DOMAIN expireEvents' = DOMAIN expireEvents
        /\ expireEvents' \in [DOMAIN expireEvents -> SUBSET Fibers]
    BY <1>6, WakeOne DEF TimerWake, SchedTypes
  <2> QED
    BY <1>6, <2>1 DEF TimerWake, SchedTypes, PhaseInv
<1>7. CASE TimerErase
  BY <1>7 DEF TimerErase, Restrict, SchedTypes, PhaseInv
<1>8. CASE \/ EnterDispatch \/ StartRound \/ EnterTimers \/ TimersDone
           \/ EpollIdle \/ Tick \/ UNCHANGED vars
  <2>1. phase' \in P
    BY <1>8 DEF SchedTypes, Phases, EnterDispatch, StartRound, EnterTimers,
                TimersDone, EpollIdle, Tick, vars
  <2>2. ready' \in Seq(Fibers) /\ running' \in Seq(Fibers)
    BY <1>1, <1>8 DEF SchedTypes, EnterDispatch, StartRound, EnterTimers,
                      TimersDone, EpollIdle, Tick, vars
  <2>3. PhaseInv'
    BY <1>8 DEF PhaseInv, EnterDispatch, StartRound, EnterTimers, TimersDone,
                EpollIdle, Tick, vars
  <2>4. nowMs' \in Nat /\ clock' \in Nat \ {0}
    BY <1>8 DEF SchedTypes, EnterDispatch, StartRound, EnterTimers, TimersDone,
                EpollIdle, Tick, vars
  <2>5. UNCHANGED <<cur, loc, expireAt, expireEvents>>
    BY <1>8, SchedulerMoves DEF SchedTypes
  <2> QED
    BY <2>1, <2>2, <2>3, <2>4, <2>5 DEF SchedTypes
<1> QED
  BY <1>2, <1>3, <1>4, <1>5, <1>6, <1>7, <1>8 DEF Next, Dispatch, GiveUpCpu

\* A fiber inside a call that is not the scheduler's own stays in it, on the CPU or
\* scheduled if it was; a timer goes only when its fiber is scheduled.
LEMMA StepKeepsForeign ==
    ASSUME NEW L, Locations \subseteq L, NEW P, Phases \subseteq P,
           SchedTypes(L, P), PhaseInv, [Next]_vars
    PROVE  \A f \in Fibers :
            /\ loc[f] \notin Locations \/ loc'[f] \notin Locations => loc'[f] = loc[f]
            /\ loc[f] \notin Locations /\ (Queued(f) \/ cur = f)
               => Queued(f)' \/ cur' = f
            /\ \A t \in DOMAIN expireEvents :
                f \in expireEvents[t] =>
                    Queued(f)' \/ (t \in DOMAIN expireEvents' /\ f \in expireEvents'[t])
<1> USE DEF queueVars, timerVars
<1> SUFFICES ASSUME NEW f \in Fibers
             PROVE  /\ loc[f] \notin Locations \/ loc'[f] \notin Locations
                       => loc'[f] = loc[f]
                    /\ loc[f] \notin Locations /\ (Queued(f) \/ cur = f)
                       => Queued(f)' \/ cur' = f
                    /\ \A t \in DOMAIN expireEvents :
                        f \in expireEvents[t] =>
                            \/ Queued(f)'
                            \/ t \in DOMAIN expireEvents' /\ f \in expireEvents'[t]
  OBVIOUS
<1>1. {"user", "sleep", "freed", "none"} = Locations
  BY DEF Locations
<1>2. CASE \E g \in Fibers : CreateFiber(g) \/ Yield(g)
  <2>1. PICK g \in Fibers : CreateFiber(g) \/ Yield(g)
    BY <1>2
  <2>2. Range(Queue') = Range(Queue) \cup {g}
    BY <2>1, QueueSteps DEF CreateFiber, Yield, SchedTypes
  <2> QED
    BY <1>1, <2>1, <2>2 DEF CreateFiber, Yield, InUser, SchedTypes, Queued
<1>3. CASE \E g \in Fibers : Finish(g)
  BY <1>1, <1>3 DEF Finish, InUser, SchedTypes, Queued, Queue
<1>4. CASE \E g \in Fibers, ms \in SleepTimes : SleepMs(g, ms)
  <2>1. PICK g \in Fibers, ms \in SleepTimes : SleepMs(g, ms)
    BY <1>4
  <2>2. clock + ms \in Nat \ {0}
    BY ConstantsAssumption DEF SchedTypes
  <2>3. \A t \in DOMAIN expireEvents :
            t \in DOMAIN expireEvents' /\ expireEvents[t] \subseteq expireEvents'[t]
    <3>1. DOMAIN expireEvents' = DOMAIN expireEvents \cup {clock + ms}
          /\ \A t \in DOMAIN expireEvents' : expireEvents'[t] =
                (IF t \in DOMAIN expireEvents THEN expireEvents[t] ELSE {})
                \cup (IF t = clock + ms THEN {g} ELSE {})
      BY <2>1, <2>2, DeadlineSet DEF SleepMs, SchedTypes
    <3> QED
      BY <3>1
  <2>4. Queue' = Queue /\ cur = g /\ loc[g] = "user"
        /\ loc' = [loc EXCEPT ![g] = "sleep"]
    BY <2>1 DEF SleepMs, InUser, Queue
  <2> QED
    BY <1>1, <2>3, <2>4 DEF SchedTypes, Queued
<1>5. CASE RunNext
  <2>1. Head(running) \in Fibers /\ Range(Queue) = Range(Queue') \cup {Head(running)}
    BY <1>5, QueueSteps DEF RunNext, SchedTypes
  <2> QED
    BY <1>1, <1>5, <2>1, ConstantsAssumption DEF RunNext, SchedTypes, Queued
<1>6. CASE \E g \in Fibers : TimerWake(g)
  <2>1. PICK g \in Fibers : TimerWake(g)
    BY <1>6
  <2>2. /\ ready' = Append(ready, g)
        /\ DOMAIN expireEvents' = DOMAIN expireEvents
        /\ \A t \in DOMAIN expireEvents : expireEvents'[t] =
                {h \in expireEvents[t] : ~(h = g /\ expireAt[h] = t)}
        /\ UNCHANGED <<running, cur, loc>>
    BY <2>1, WakeOne DEF TimerWake, SchedTypes
  <2>3. Range(Queue') = Range(Queue) \cup {g}
    BY <2>2, QueueSteps DEF SchedTypes
  <2> QED
    BY <2>2, <2>3 DEF Queued
<1>7. CASE TimerErase
  BY <1>7 DEF TimerErase, Restrict, Queued, Queue
<1>8. CASE \/ EnterDispatch \/ StartRound \/ EnterTimers \/ TimersDone
           \/ EpollIdle \/ Tick \/ UNCHANGED vars
  BY <1>8, SchedulerMoves DEF SchedTypes, Queued
<1> QED
  BY <1>2, <1>3, <1>4, <1>5, <1>6, <1>7, <1>8 DEF Next, Dispatch, GiveUpCpu

-----------------------------------------------------------------------------
(* Steps of the scheduler keep every fiber in one place.                   *)

\* Each of them takes a fiber from one place to the next: no fiber is scheduled
\* twice, none is dropped, only live ones are anywhere, and one that waits
\* elsewhere is not touched.
LEMMA StepKeepsPlaces ==
    ASSUME NEW L, Locations \subseteq L, NEW P, Phases \subseteq P,
           SchedTypes(L, P), PhaseInv, AtMostOnce, [Next]_vars
    PROVE  /\ AtMostOnce'
           /\ \A f \in Fibers :
                /\ Live(f)' /\ ~Placed(f)' => Live(f) /\ ~Placed(f)
                /\ Placed(f)' => Placed(f) \/ loc[f] = "none"
           /\ TimersAreSleeps => TimersAreSleeps'
<1> USE DEF queueVars, timerVars
<1> DEFINE Goal == /\ AtMostOnce'
                   /\ \A f \in Fibers :
                        /\ Live(f)' /\ ~Placed(f)' => Live(f) /\ ~Placed(f)
                        /\ Placed(f)' => Placed(f) \/ loc[f] = "none"
                   /\ TimersAreSleeps => TimersAreSleeps'
<1>1. ASSUME NEW f \in Fibers, CreateFiber(f) \/ Yield(f) PROVE Goal
  <2>1. /\ ready' = Append(ready, f)
        /\ running' = running
        /\ UNCHANGED <<expireAt, expireEvents>>
        /\ cur' # f
        /\ loc'[f] = "user"
        /\ \A g \in Fibers \ {f} : loc'[g] = loc[g] /\ (cur' = g <=> cur = g)
    BY <1>1, ConstantsAssumption
       DEF CreateFiber, Yield, InUser, SchedTypes, AtMostOnce, Placed, Live
  <2>2. ~Queued(f) /\ ~HasTimer(f)
    BY <1>1 DEF CreateFiber, Yield, InUser, AtMostOnce, Placed, Live
  <2>3. Range(Queue') = Range(Queue) \cup {f} /\ IsInjective(Queue')
    BY <2>1, <2>2, QueueSteps DEF SchedTypes, AtMostOnce, Queued
  <2>4. \A g \in Fibers : /\ HasTimer(g)' <=> HasTimer(g)
                          /\ Queued(g)' <=> Queued(g) \/ g = f
    BY <2>1, <2>3 DEF HasTimer, Queued
  <2>5. cur = f \/ loc[f] = "none"
    BY <1>1 DEF CreateFiber, Yield, InUser
  <2> QED
    BY <2>1, <2>2, <2>3, <2>4, <2>5 DEF AtMostOnce, Placed, Live, TimersAreSleeps
<1>2. ASSUME NEW f \in Fibers, Finish(f) PROVE Goal
  <2>1. /\ Queue' = Queue /\ cur = f /\ cur' = NoFiber
        /\ UNCHANGED <<expireAt, expireEvents>>
        /\ loc' = [loc EXCEPT ![f] = "freed"]
    BY <1>2 DEF Finish, InUser, Queue
  <2>2. \A g \in Fibers : /\ HasTimer(g)' <=> HasTimer(g)
                          /\ Queued(g)' <=> Queued(g)
                          /\ Live(g)' <=> Live(g) /\ g # f
    BY <2>1 DEF HasTimer, Queued, Live, SchedTypes, AtMostOnce, Placed
  <2> QED
    BY <2>1, <2>2, ConstantsAssumption
       DEF AtMostOnce, Placed, TimersAreSleeps, SchedTypes
<1>3. ASSUME NEW f \in Fibers, NEW ms \in SleepTimes, SleepMs(f, ms) PROVE Goal
  <2> DEFINE d == clock + ms
  <2>1. d \in Nat \ {0}
    BY ConstantsAssumption DEF SchedTypes
  <2>2. /\ Queue' = Queue /\ cur = f /\ cur' = NoFiber
        /\ loc[f] = "user" /\ loc' = [loc EXCEPT ![f] = "sleep"]
    BY <1>3 DEF SleepMs, InUser, Queue
  <2>3. /\ expireAt' = [expireAt EXCEPT ![f] = d]
        /\ DOMAIN expireEvents' = DOMAIN expireEvents \cup {d}
        /\ \A t \in DOMAIN expireEvents' : expireEvents'[t] =
                (IF t \in DOMAIN expireEvents THEN expireEvents[t] ELSE {})
                \cup (IF t = d THEN {f} ELSE {})
    BY <1>3, <2>1, DeadlineSet DEF SleepMs, SchedTypes
  <2>4. ~Queued(f) /\ ~HasTimer(f)
    BY <2>2 DEF AtMostOnce
  <2>5. ASSUME NEW g \in Fibers, g # f
        PROVE  /\ HasTimer(g)' <=> HasTimer(g)
               /\ \A t \in DOMAIN expireEvents' :
                    g \in expireEvents'[t] => t = expireAt'[g]
               /\ Live(g)' <=> Live(g)
    BY <2>2, <2>3, <2>5 DEF HasTimer, Live, SchedTypes, AtMostOnce
  <2>6. /\ HasTimer(f)' /\ Live(f)'
        /\ \A t \in DOMAIN expireEvents' :
            f \in expireEvents'[t] => t = expireAt'[f]
    BY <2>2, <2>3, <2>4 DEF HasTimer, Live, SchedTypes
  <2>7. \A g \in Fibers : Queued(g)' <=> Queued(g)
    BY <2>2 DEF Queued
  <2> QED
    BY <2>2, <2>4, <2>5, <2>6, <2>7, ConstantsAssumption
       DEF AtMostOnce, Placed, TimersAreSleeps, SchedTypes
<1>4. CASE RunNext
  <2> DEFINE f == Head(running)
  <2>1. /\ f \in Fibers /\ cur = NoFiber /\ cur' = f
        /\ Range(Queue) = Range(Queue') \cup {f}
        /\ IsInjective(Queue') /\ f \notin Range(Queue')
        /\ loc' = [loc EXCEPT ![f] = IF @ = "sleep" THEN "user" ELSE @]
        /\ UNCHANGED <<expireAt, expireEvents>>
    BY <1>4, QueueSteps DEF RunNext, SchedTypes, AtMostOnce
  <2>2. Queued(f) /\ ~HasTimer(f) /\ Live(f)
    BY <2>1 DEF AtMostOnce, Placed, Queued
  <2>3. \A g \in Fibers : /\ HasTimer(g)' <=> HasTimer(g)
                          /\ Queued(g)' <=> Queued(g) /\ g # f
                          /\ Live(g)' <=> Live(g)
    BY <2>1, <2>2 DEF HasTimer, Queued, Live, SchedTypes
  <2> QED
    BY <2>1, <2>2, <2>3, ConstantsAssumption
       DEF AtMostOnce, Placed, TimersAreSleeps, SchedTypes
<1>5. ASSUME NEW f \in Fibers, TimerWake(f) PROVE Goal
  <2>1. PICK t \in DOMAIN expireEvents : f \in expireEvents[t]
    BY <1>5, WokenFirst DEF SchedTypes
  <2>2. HasTimer(f) /\ ~Queued(f) /\ cur # f /\ Live(f)
    BY <2>1 DEF AtMostOnce, Placed, HasTimer
  <2>3. /\ ready' = Append(ready, f)
        /\ DOMAIN expireEvents' = DOMAIN expireEvents
        /\ \A u \in DOMAIN expireEvents : expireEvents'[u] =
                {g \in expireEvents[u] : ~(g = f /\ expireAt[g] = u)}
        /\ UNCHANGED <<running, cur, loc, expireAt>>
    BY <1>5, WakeOne DEF TimerWake, SchedTypes
  <2>4. Range(Queue') = Range(Queue) \cup {f} /\ IsInjective(Queue')
    BY <2>2, <2>3, QueueSteps DEF SchedTypes, AtMostOnce, Queued
  <2>5. ~HasTimer(f)' /\ \A g \in Fibers \ {f} : HasTimer(g)' <=> HasTimer(g)
    BY <2>3 DEF HasTimer, AtMostOnce
  <2>6. \A g \in Fibers : /\ Queued(g)' <=> Queued(g) \/ g = f
                          /\ Live(g)' <=> Live(g)
    BY <2>3, <2>4 DEF Queued, Live
  <2> QED
    BY <2>2, <2>3, <2>4, <2>5, <2>6 DEF AtMostOnce, Placed, TimersAreSleeps
<1>6. CASE TimerErase
  <2>1. PICK t \in DOMAIN expireEvents :
            /\ expireEvents[t] = {}
            /\ DOMAIN expireEvents' = DOMAIN expireEvents \ {t}
            /\ \A u \in DOMAIN expireEvents' : expireEvents'[u] = expireEvents[u]
    BY <1>6 DEF TimerErase, Restrict
  <2>2. Queue' = Queue /\ UNCHANGED <<cur, loc, expireAt>>
    BY <1>6 DEF TimerErase, Queue
  <2>3. \A g \in Fibers : /\ HasTimer(g)' <=> HasTimer(g)
                          /\ Queued(g)' <=> Queued(g)
                          /\ Live(g)' <=> Live(g)
    BY <2>1, <2>2 DEF HasTimer, Queued, Live
  <2> QED
    BY <2>1, <2>2, <2>3 DEF AtMostOnce, Placed, TimersAreSleeps
<1>7. CASE \/ EnterDispatch \/ StartRound \/ EnterTimers \/ TimersDone
           \/ EpollIdle \/ Tick \/ UNCHANGED vars
  <2>1. Queue' = Queue /\ UNCHANGED <<cur, loc, expireAt, expireEvents>>
    BY <1>7, SchedulerMoves DEF SchedTypes
  <2> QED
    BY <2>1 DEF AtMostOnce, Placed, Queued, HasTimer, Live, TimersAreSleeps
<1> QED
  BY <1>1, <1>2, <1>3, <1>4, <1>5, <1>6, <1>7 DEF Next, Dispatch, GiveUpCpu

\* Waking live fibers that are nowhere puts each of them in the queue, once.
LEMMA WakeKeepsPlaces ==
    ASSUME NEW L, NEW P, SchedTypes(L, P), AtMostOnce,
           NEW S \in SUBSET Fibers, \A f \in S : ~Placed(f) /\ Live(f),
           WakeUpFibers(WakeOrder[S]), UNCHANGED <<running, cur, loc, expireAt>>
    PROVE  /\ AtMostOnce'
           /\ \A f \in Fibers : /\ Placed(f)' <=> Placed(f) \/ f \in S
                                /\ HasTimer(f)' <=> HasTimer(f)
<1>1. /\ Range(Queue') = Range(Queue) \cup S
      /\ IsInjective(Queue) /\ Range(Queue) \cap S = {} => IsInjective(Queue')
      /\ DOMAIN expireEvents' = DOMAIN expireEvents
      /\ \A t \in DOMAIN expireEvents :
            expireEvents'[t] = {f \in expireEvents[t] : ~(f \in S /\ expireAt[f] = t)}
  BY WakeSet DEF SchedTypes
<1>2. \A t \in DOMAIN expireEvents : expireEvents'[t] = expireEvents[t]
  BY <1>1 DEF Placed, HasTimer
<1>3. Range(Queue) \cap S = {}
  BY DEF Placed, Queued
<1>4. \A f \in Fibers : /\ HasTimer(f)' <=> HasTimer(f)
                        /\ Queued(f)' <=> Queued(f) \/ f \in S
                        /\ Live(f)' <=> Live(f)
  BY <1>1, <1>2 DEF HasTimer, Queued, Live
<1> QED
  BY <1>1, <1>2, <1>3, <1>4 DEF AtMostOnce, Placed

\* Waking a live fiber that is neither scheduled nor on the CPU puts it in the
\* queue, once, and out of its timer.
LEMMA WakeOneKeepsPlaces ==
    ASSUME NEW L, NEW P, SchedTypes(L, P), AtMostOnce,
           NEW f \in Fibers, ~Queued(f), cur # f, Live(f),
           WakeUpFibers(<<f>>), UNCHANGED <<running, cur, loc, expireAt>>
    PROVE  AtMostOnce' /\ \A g \in Fibers : Queued(g)' <=> Queued(g) \/ g = f
<1>1. /\ ready' = Append(ready, f)
      /\ DOMAIN expireEvents' = DOMAIN expireEvents
      /\ \A t \in DOMAIN expireEvents :
            expireEvents'[t] = {g \in expireEvents[t] : ~(g = f /\ expireAt[g] = t)}
  BY WakeOne DEF SchedTypes
<1>2. Range(Queue') = Range(Queue) \cup {f} /\ IsInjective(Queue')
  BY <1>1, QueueSteps DEF SchedTypes, AtMostOnce, Queued
<1>3. ~HasTimer(f)' /\ \A g \in Fibers \ {f} : HasTimer(g)' <=> HasTimer(g)
  BY <1>1 DEF HasTimer, AtMostOnce
<1>4. \A g \in Fibers : /\ Queued(g)' <=> Queued(g) \/ g = f
                        /\ Live(g)' <=> Live(g)
  BY <1>2 DEF Queued, Live
<1> QED
  BY <1>1, <1>2, <1>3, <1>4 DEF AtMostOnce, Placed

\* The fiber on the CPU may register a deadline and leave the CPU.
LEMMA ParkKeepsPlaces ==
    ASSUME NEW L, NEW P, SchedTypes(L, P), AtMostOnce,
           NEW f \in Fibers, cur = f, NEW d \in Nat \cup {-1}, RegisterDeadline(f, d),
           UNCHANGED <<ready, running, loc>>, cur' = NoFiber
    PROVE  AtMostOnce' /\ \A g \in Fibers : Queued(g)' <=> Queued(g)
<1>1. Queue' = Queue
  BY DEF Queue
<1>2. \A g \in Fibers : /\ Queued(g)' <=> Queued(g)
                        /\ Live(g)' <=> Live(g)
  BY <1>1 DEF Queued, Live
<1>3. ~Queued(f) /\ ~HasTimer(f) /\ Live(f)
  BY DEF AtMostOnce, Placed
<1>4. CASE d \in Nat \ {0}
  <2>1. /\ expireAt' = [expireAt EXCEPT ![f] = d]
        /\ DOMAIN expireEvents' = DOMAIN expireEvents \cup {d}
        /\ \A t \in DOMAIN expireEvents' : expireEvents'[t] =
                (IF t \in DOMAIN expireEvents THEN expireEvents[t] ELSE {})
                \cup (IF t = d THEN {f} ELSE {})
    BY <1>4, DeadlineSet DEF SchedTypes
  <2>2. ASSUME NEW g \in Fibers, g # f
        PROVE  /\ HasTimer(g)' <=> HasTimer(g)
               /\ \A t \in DOMAIN expireEvents' :
                    g \in expireEvents'[t] => t = expireAt'[g]
    BY <2>1, <2>2 DEF HasTimer, SchedTypes, AtMostOnce
  <2>3. /\ HasTimer(f)'
        /\ \A t \in DOMAIN expireEvents' :
            f \in expireEvents'[t] => t = expireAt'[f]
    BY <2>1, <1>3 DEF HasTimer, SchedTypes
  <2> QED
    BY <1>1, <1>2, <1>3, <2>2, <2>3, ConstantsAssumption DEF AtMostOnce, Placed
<1>5. CASE d \notin Nat \ {0}
  <2>1. UNCHANGED <<expireAt, expireEvents>>
    BY <1>5 DEF RegisterDeadline, timerVars
  <2>2. \A g \in Fibers : HasTimer(g)' <=> HasTimer(g)
    BY <2>1 DEF HasTimer
  <2> QED
    BY <1>1, <1>2, <2>1, <2>2, ConstantsAssumption DEF AtMostOnce, Placed
<1> QED
  BY <1>4, <1>5

-----------------------------------------------------------------------------
\* A phase that is not the scheduler's own is left by no step of it; a fiber only
\* ends by Finish, and is only scheduled anew by its creation or by a timer.
LEMMA StepKeepsLives ==
    ASSUME NEW L, NEW P, SchedTypes(L, P), PhaseInv, [Next]_vars
    PROVE  /\ phase \notin Phases => phase' = phase
           /\ \A f \in Fibers :
                /\ Live(f) => Live(f)' \/ Finish(f)
                /\ Queued(f)' \/ cur' = f
                   => Queued(f) \/ cur = f \/ loc[f] = "none" \/ TimerWake(f)
<1> USE DEF queueVars, timerVars
<1> DEFINE Goal == /\ phase \notin Phases => phase' = phase
                   /\ \A f \in Fibers :
                        /\ Live(f) => Live(f)' \/ Finish(f)
                        /\ Queued(f)' \/ cur' = f
                           => Queued(f) \/ cur = f \/ loc[f] = "none" \/ TimerWake(f)
<1>1. ASSUME NEW g \in Fibers, CreateFiber(g) \/ Yield(g) PROVE Goal
  <2>1. Range(Queue') = Range(Queue) \cup {g}
    BY <1>1, QueueSteps DEF CreateFiber, Yield, SchedTypes
  <2> QED
    BY <1>1, <2>1, ConstantsAssumption
       DEF CreateFiber, Yield, InUser, SchedTypes, Queued, Live
<1>2. ASSUME NEW g \in Fibers, NEW ms \in SleepTimes, SleepMs(g, ms) PROVE Goal
  BY <1>2, ConstantsAssumption DEF SleepMs, InUser, SchedTypes, Queued, Queue, Live
<1>3. ASSUME NEW g \in Fibers, Finish(g) PROVE Goal
  <2>1. Queue' = Queue /\ phase' = phase /\ cur' = NoFiber
        /\ loc' = [loc EXCEPT ![g] = "freed"]
    BY <1>3 DEF Finish, Queue
  <2>2. \A f \in Fibers : Live(f) => Live(f)' \/ f = g
    BY <2>1 DEF Live, SchedTypes
  <2> QED
    BY <1>3, <2>1, <2>2, ConstantsAssumption DEF Queued
<1>4. CASE RunNext
  <2>1. Head(running) \in Fibers /\ Range(Queue) = Range(Queue') \cup {Head(running)}
    BY <1>4, QueueSteps DEF RunNext, SchedTypes
  <2> QED
    BY <1>4, <2>1, ConstantsAssumption DEF RunNext, SchedTypes, Queued, Live
<1>5. ASSUME NEW g \in Fibers, TimerWake(g) PROVE Goal
  <2>1. ready' = Append(ready, g) /\ UNCHANGED <<running, cur, loc, phase>>
    BY <1>5, WakeOne DEF TimerWake, SchedTypes
  <2>2. Range(Queue') = Range(Queue) \cup {g}
    BY <2>1, QueueSteps DEF SchedTypes
  <2> QED
    BY <1>5, <2>1, <2>2 DEF Queued, Live
<1>6. CASE TimerErase
  BY <1>6 DEF TimerErase, Queued, Queue, Live
<1>7. CASE \/ EnterDispatch \/ StartRound \/ EnterTimers \/ TimersDone
           \/ EpollIdle \/ Tick \/ UNCHANGED vars
  <2>1. Queue' = Queue /\ UNCHANGED <<cur, loc>>
    BY <1>7, SchedulerMoves DEF SchedTypes
  <2>2. phase \notin Phases => phase' = phase
    BY <1>7 DEF EnterDispatch, StartRound, EnterTimers, TimersDone, EpollIdle, Tick,
                vars, Phases
  <2> QED
    BY <2>1, <2>2 DEF Queued, Live
<1> QED
  BY <1>1, <1>2, <1>3, <1>4, <1>5, <1>6, <1>7 DEF Next, Dispatch, GiveUpCpu
=============================================================================
