----------------------------- MODULE XSemProofs -----------------------------
(***************************************************************************)
(* Proofs about the semaphores, for every set of fibers and semaphores,    *)
(* every initial value, size of request and timeout.                       *)
(***************************************************************************)
EXTENDS XSem, SchedulerLemmas, FiniteSetTheorems

\* The types of the variables XSem adds.
SemTypes ==
    /\ DOMAIN semInfos \subseteq Sems
    /\ semInfos \in [DOMAIN semInfos -> SemInfo]
    /\ call \in [Fibers -> Call]
    /\ held \in [Fibers -> [Sems -> Nat]]

\* A fiber is inside Acquire exactly when it has arguments for it, and it is there
\* because units are missing.
CallInv ==
    \A f \in Fibers :
        /\ loc[f] = "acquire" <=> call[f].sem # NoSem
        /\ call[f].sem # NoSem =>
            /\ call[f].done < call[f].apply
            /\ call[f].apply \in AcquireSizes
            /\ call[f].apply <= InitValue[call[f].sem]
            /\ call[f].expireAt # 0

\* Conservation, of finitely many units.
CountInv ==
    \A s \in DOMAIN semInfos :
        /\ IsFiniteSet(UnitsOut(s))
        /\ semInfos[s].value + Cardinality(UnitsOut(s)) = InitValue[s]

\* f is inside Acquire, off the CPU, and not scheduled.
Waits(f) == loc[f] = "acquire" /\ ~Queued(f) /\ cur # f

\* Whoever waits can be found: by a release, and by its timer if it has a deadline.
WaitersInv ==
    \A f \in Fibers : Waits(f) =>
        /\ call[f].sem \in DOMAIN semInfos
        /\ Parked(f, call[f].sem)
        /\ call[f].expireAt >= 0 =>
            /\ call[f].expireAt \in DOMAIN expireEvents
            /\ f \in expireEvents[call[f].expireAt]

SemIInv ==
    /\ SchedTypes(SemLocations, Phases)
    /\ PhaseInv
    /\ SemTypes
    /\ CallInv
    /\ CountInv
    /\ CreditorIsCalling
    /\ WaitersInv

-----------------------------------------------------------------------------
(* Counting the units that are with the fibers.                            *)

\* The units of a semaphore of which each fiber e has g[e].
Units(g) == UNION {{e} \X (1 .. g[e]) : e \in Fibers}

\* A part of a finite set replaced by another one.
LEMMA ReplacePart ==
    ASSUME NEW S, IsFiniteSet(S), NEW M \in SUBSET S, NEW N, IsFiniteSet(N),
           (S \ M) \cap N = {}
    PROVE  /\ IsFiniteSet((S \ M) \cup N)
           /\ Cardinality(S) \in Nat
           /\ Cardinality(M) \in Nat
           /\ Cardinality(N) \in Nat
           /\ Cardinality((S \ M) \cup N) =
                Cardinality(S) - Cardinality(M) + Cardinality(N)
           /\ Cardinality(M) <= Cardinality(S)
<1>1. IsFiniteSet(M) /\ Cardinality(M) <= Cardinality(S) /\ S \cap M = M
  BY FS_Subset
<1>2. IsFiniteSet(S \ M)
  BY FS_Difference
<1>3. Cardinality(S \ M) = Cardinality(S) - Cardinality(M)
  <2>1. Cardinality(S \ M) = Cardinality(S) - Cardinality(S \cap M)
    BY FS_Difference
  <2> QED
    BY <1>1, <2>1
<1>4. /\ IsFiniteSet((S \ M) \cup N)
      /\ Cardinality((S \ M) \cup N) =
            Cardinality(S \ M) + Cardinality(N) - Cardinality((S \ M) \cap N)
  BY <1>2, FS_Union
<1>5. Cardinality((S \ M) \cap N) = 0
  BY FS_EmptySet
<1>6. /\ Cardinality(S) \in Nat /\ Cardinality(M) \in Nat /\ Cardinality(N) \in Nat
      /\ Cardinality(S \ M) \in Nat
  BY <1>1, <1>2, FS_CardinalityType
<1> QED
  BY <1>1, <1>3, <1>4, <1>5, <1>6

\* n units of one fiber.
LEMMA UnitsOfOne ==
    ASSUME NEW f, NEW n \in Nat
    PROVE  IsFiniteSet({f} \X (1 .. n)) /\ Cardinality({f} \X (1 .. n)) = n
<1>1. IsFiniteSet({f}) /\ Cardinality({f}) = 1
  BY FS_Singleton
<1>2. IsFiniteSet(1 .. n) /\ Cardinality(1 .. n) = (IF 1 > n THEN 0 ELSE n - 1 + 1)
  BY FS_Interval
<1>3. Cardinality(1 .. n) = n
  BY <1>2
<1>4. /\ IsFiniteSet({f} \X (1 .. n))
      /\ Cardinality({f} \X (1 .. n)) = Cardinality({f}) * Cardinality(1 .. n)
  <2> DEFINE A == {f}
             B == 1 .. n
  <2>1. IsFiniteSet(A) /\ IsFiniteSet(B)
    BY <1>1, <1>2
  <2> HIDE DEF A, B
  <2>2. IsFiniteSet(A \X B) /\ Cardinality(A \X B) = Cardinality(A) * Cardinality(B)
    BY <2>1, FS_Product
  <2> QED
    BY <2>2 DEF A, B
<1> QED
  BY <1>1, <1>3, <1>4

\* When one fiber's number changes, the total changes by as much.
LEMMA UnitsChange ==
    ASSUME NEW g \in [Fibers -> Nat], NEW h \in [Fibers -> Nat], NEW f \in Fibers,
           \A e \in Fibers \ {f} : h[e] = g[e],
           IsFiniteSet(Units(g))
    PROVE  /\ IsFiniteSet(Units(h))
           /\ Cardinality(Units(g)) \in Nat
           /\ Cardinality(Units(h)) \in Nat
           /\ Cardinality(Units(h)) = Cardinality(Units(g)) - g[f] + h[f]
           /\ g[f] <= Cardinality(Units(g))
<1> DEFINE M == {f} \X (1 .. g[f])
           N == {f} \X (1 .. h[f])
<1>1. M \subseteq Units(g) /\ (Units(g) \ M) \cap N = {}
  BY DEF Units
<1>2. Units(h) = (Units(g) \ M) \cup N
  BY DEF Units
<1>3. /\ IsFiniteSet(N) /\ Cardinality(M) = g[f] /\ Cardinality(N) = h[f]
  BY UnitsOfOne
<1>4. g[f] \in Nat /\ h[f] \in Nat
  OBVIOUS
<1>5. /\ IsFiniteSet((Units(g) \ M) \cup N)
      /\ Cardinality(Units(g)) \in Nat
      /\ Cardinality((Units(g) \ M) \cup N) =
            Cardinality(Units(g)) - Cardinality(M) + Cardinality(N)
      /\ Cardinality(M) <= Cardinality(Units(g))
  <2> DEFINE S == Units(g)
  <2>1. IsFiniteSet(S) /\ M \in SUBSET S /\ IsFiniteSet(N) /\ (S \ M) \cap N = {}
    BY <1>1, <1>3
  <2> HIDE DEF M, N, S
  <2>2. /\ IsFiniteSet((S \ M) \cup N)
        /\ Cardinality(S) \in Nat
        /\ Cardinality((S \ M) \cup N) =
                Cardinality(S) - Cardinality(M) + Cardinality(N)
        /\ Cardinality(M) <= Cardinality(S)
    BY <2>1, ReplacePart
  <2> QED
    BY <2>2 DEF S
<1>6. Cardinality(Units(h)) \in Nat
  BY <1>2, <1>5, FS_CardinalityType
<1> HIDE DEF M, N
<1> QED
  BY <1>2, <1>3, <1>4, <1>5, <1>6

\* What f has of s, with what it got so far in the Acquire it is in.
Owned(f, s) == held[f][s] + Partial(f, s)

\* A step that changes what one fiber has of s changes UnitsOut(s) by as much.
LEMMA OwnerChange ==
    ASSUME NEW s, NEW f \in Fibers, IsFiniteSet(UnitsOut(s)),
           \A e \in Fibers : Owned(e, s) \in Nat /\ Owned(e, s)' \in Nat,
           \A e \in Fibers \ {f} : Owned(e, s)' = Owned(e, s)
    PROVE  /\ IsFiniteSet(UnitsOut(s)')
           /\ Cardinality(UnitsOut(s)) \in Nat
           /\ Cardinality(UnitsOut(s)') \in Nat
           /\ Cardinality(UnitsOut(s)') =
                Cardinality(UnitsOut(s)) - Owned(f, s) + Owned(f, s)'
           /\ Owned(f, s) <= Cardinality(UnitsOut(s))
<1> DEFINE g == [e \in Fibers |-> Owned(e, s)]
           h == [e \in Fibers |-> Owned(e, s)']
<1>1. g \in [Fibers -> Nat] /\ h \in [Fibers -> Nat]
  OBVIOUS
<1>2. UnitsOut(s) = Units(g)
  BY DEF UnitsOut, Units, Owned
<1>3. UnitsOut(s)' = Units(h)
  BY DEF UnitsOut, Units, Owned
<1>4. \A e \in Fibers : g[e] = Owned(e, s) /\ h[e] = Owned(e, s)'
  OBVIOUS
<1> HIDE DEF g, h
<1>5. IsFiniteSet(Units(g)) /\ \A e \in Fibers \ {f} : h[e] = g[e]
  BY <1>2, <1>4
<1>6. /\ IsFiniteSet(Units(h))
      /\ Cardinality(Units(g)) \in Nat
      /\ Cardinality(Units(h)) \in Nat
      /\ Cardinality(Units(h)) = Cardinality(Units(g)) - g[f] + h[f]
      /\ g[f] <= Cardinality(Units(g))
  BY <1>1, <1>5, UnitsChange
<1> QED
  BY <1>2, <1>3, <1>4, <1>6

\* A step that changes nothing any fiber has of s.
LEMMA OwnersSame ==
    ASSUME NEW s, \A e \in Fibers : Owned(e, s)' = Owned(e, s)
    PROVE  UnitsOut(s)' = UnitsOut(s)
BY DEF UnitsOut, Owned

-----------------------------------------------------------------------------
(* TryAcquireSem: what an iteration of Acquire gets, and who is creditor.  *)

\* It gives no more than is asked for or free: all of it, and then there is no
\* creditor; or whatever is free, and f is the creditor; or nothing, because
\* somebody else is.
LEMMA TryAcquireSemGives ==
    ASSUME NEW info \in SemInfo, NEW f \in Fibers, NEW need \in Nat \ {0}
    PROVE  LET a == TryAcquireSem(info, f, need)
           IN  /\ a.got \in 0 .. need
               /\ a.got <= info.value
               /\ a.info \in SemInfo
               /\ a.info.value = info.value - a.got
               /\ a.got = need =>
                    /\ info.ucba \in {f, NoFiber} /\ a.info.ucba = NoFiber
                    /\ f \in a.info.fibers => f \in info.fibers
               /\ a.got # need =>
                    \/ info.ucba \in {f, NoFiber} /\ a.info.ucba = f /\ a.info.value = 0
                    \/ /\ info.ucba \notin {f, NoFiber}
                       /\ a.info.ucba = info.ucba /\ a.got = 0
               /\ \A g \in Fibers \ {f} : g \in a.info.fibers <=> g \in info.fibers
<1> DEFINE enough == info.value >= need
           a == TryAcquireSem(info, f, need)
<1>1. info.value \in Nat /\ info.fibers \subseteq Fibers
      /\ info.ucbaValue \in Nat /\ info.ucba \in Fibers \cup {NoFiber}
  BY DEF SemInfo
<1>2. CASE info.ucba = NoFiber /\ enough
  <2>1. a = [got |-> need, info |-> [info EXCEPT !.value = @ - need]]
    BY <1>2, ConstantsAssumption DEF TryAcquireSem
  <2> QED
    BY <1>1, <1>2, <2>1, ConstantsAssumption DEF SemInfo
<1>3. CASE info.ucba = NoFiber /\ ~enough
  <2>1. a = [got |-> info.value,
             info |-> [value |-> 0, ucbaValue |-> info.value, ucba |-> f,
                       fibers |-> info.fibers \ {f}]]
    BY <1>3, ConstantsAssumption DEF TryAcquireSem
  <2> QED
    BY <1>1, <1>3, <2>1, ConstantsAssumption DEF SemInfo
<1>4. CASE info.ucba # NoFiber /\ info.ucba # f
  <2>1. a = [got |-> 0, info |-> [info EXCEPT !.fibers = @ \cup {f}]]
    BY <1>4, ConstantsAssumption DEF TryAcquireSem
  <2> QED
    BY <1>1, <1>4, <2>1, ConstantsAssumption DEF SemInfo
<1>5. CASE info.ucba = f /\ enough
  <2>1. a = [got |-> need,
             info |-> [value |-> info.value - need, ucbaValue |-> 0,
                       ucba |-> NoFiber, fibers |-> info.fibers \ {f}]]
    BY <1>5, ConstantsAssumption DEF TryAcquireSem
  <2> QED
    BY <1>1, <1>5, <2>1, ConstantsAssumption DEF SemInfo
<1>6. CASE info.ucba = f /\ ~enough
  <2>1. a = [got |-> info.value,
             info |-> [value |-> info.value - info.value,
                       ucbaValue |-> info.ucbaValue + need,
                       ucba |-> f, fibers |-> info.fibers \ {f}]]
    BY <1>6, ConstantsAssumption DEF TryAcquireSem
  <2> QED
    BY <1>1, <1>6, <2>1, ConstantsAssumption DEF SemInfo
<1> QED
  BY <1>1, <1>2, <1>3, <1>4, <1>5, <1>6

\* The same for the next attempt of a fiber at the top of the loop of Acquire.
LEMMA AttemptGives ==
    ASSUME SemTypes, CallInv, NEW f \in Fibers, InAcquire(f), loc \in [Fibers -> SemLocations]
    PROVE  LET s == call[f].sem
               info == semInfos[s]
               a == Attempt(f)
           IN  /\ s \in Sems /\ s # NoSem /\ info \in SemInfo
               /\ call[f].apply \in Nat /\ call[f].done \in Nat
               /\ a.got \in Nat /\ a.got <= info.value
               /\ a.info \in SemInfo
               /\ a.info.value = info.value - a.got
               /\ DoneAfter(f) \in Nat /\ DoneAfter(f) <= call[f].apply
               /\ DoneAfter(f) = call[f].apply =>
                    /\ info.ucba \in {f, NoFiber} /\ a.info.ucba = NoFiber
                    /\ f \in a.info.fibers => f \in info.fibers
               /\ DoneAfter(f) # call[f].apply =>
                    \/ info.ucba \in {f, NoFiber} /\ a.info.ucba = f /\ a.info.value = 0
                    \/ /\ info.ucba \notin {f, NoFiber}
                       /\ a.info.ucba = info.ucba /\ a.got = 0
               /\ \A g \in Fibers \ {f} : g \in a.info.fibers <=> g \in info.fibers
<1> DEFINE s == call[f].sem
           info == semInfos[s]
           need == call[f].apply - call[f].done
<1>1. s \in DOMAIN semInfos /\ loc[f] = "acquire"
  BY DEF InAcquire
<1>2. info \in SemInfo /\ s \in Sems /\ s # NoSem
  BY <1>1, SemConstantsAssumption DEF SemTypes
<1>3. call[f].apply \in Nat /\ call[f].done \in Nat /\ need \in Nat \ {0}
  BY <1>2 DEF SemTypes, CallInv, Call
<1>4. Attempt(f) = TryAcquireSem(info, f, need)
  BY DEF Attempt
<1> HIDE DEF info, need
<1>5. /\ Attempt(f).got \in 0 .. need
      /\ Attempt(f).got <= info.value
      /\ Attempt(f).info \in SemInfo
      /\ Attempt(f).info.value = info.value - Attempt(f).got
      /\ Attempt(f).got = need =>
            /\ info.ucba \in {f, NoFiber} /\ Attempt(f).info.ucba = NoFiber
            /\ f \in Attempt(f).info.fibers => f \in info.fibers
      /\ Attempt(f).got # need =>
            \/ /\ info.ucba \in {f, NoFiber}
               /\ Attempt(f).info.ucba = f /\ Attempt(f).info.value = 0
            \/ /\ info.ucba \notin {f, NoFiber}
               /\ Attempt(f).info.ucba = info.ucba /\ Attempt(f).got = 0
      /\ \A g \in Fibers \ {f} : g \in Attempt(f).info.fibers <=> g \in info.fibers
  BY <1>2, <1>3, <1>4, TryAcquireSemGives
<1>6. /\ DoneAfter(f) = call[f].done + Attempt(f).got
      /\ need = call[f].apply - call[f].done
  BY DEF DoneAfter, need
<1>7. /\ Attempt(f).got \in Nat /\ DoneAfter(f) \in Nat
      /\ DoneAfter(f) <= call[f].apply
      /\ DoneAfter(f) = call[f].apply <=> Attempt(f).got = need
  BY <1>3, <1>5, <1>6
<1> QED
  BY <1>2, <1>3, <1>5, <1>7 DEF info

-----------------------------------------------------------------------------
(* What the steps of Acquire and Release do to one record and one fiber.   *)

\* The record of s and the call of f are the only ones that change.
Only(f, s) ==
    /\ s \in Sems /\ s # NoSem /\ s \in DOMAIN semInfos
    /\ DOMAIN semInfos' = DOMAIN semInfos
    /\ semInfos' \in [DOMAIN semInfos -> SemInfo]
    /\ \A r \in DOMAIN semInfos \ {s} : semInfos'[r] = semInfos[r]
    /\ call' \in [Fibers -> Call]
    /\ \A g \in Fibers \ {f} : call'[g] = call[g]

\* The same other fibers are parked on s as before.
SameOthersParked(f, s) ==
    \A g \in Fibers \ {f} : g \in semInfos'[s].fibers <=> g \in semInfos[s].fibers

\* Nobody is parked on s any more; those who were, f apart, are scheduled.
OthersWoken(f, s) ==
    /\ semInfos'[s].fibers = {}
    /\ \E S \in SUBSET Fibers :
        /\ WakeUpFibers(WakeOrder[S])
        /\ \A g \in Fibers \ {f} : g \in S <=> g \in semInfos[s].fibers

GrantedEffect(f, s) ==
    /\ Only(f, s) /\ SameOthersParked(f, s)
    /\ f \in semInfos'[s].fibers => f \in semInfos[s].fibers
    /\ cur = f /\ loc[f] = "acquire" /\ call[f].sem = s
    /\ semInfos[s].ucba \in {f, NoFiber} /\ semInfos'[s].ucba = NoFiber
    /\ semInfos'[s].value + call[f].apply = semInfos[s].value + call[f].done
    /\ call'[f] = NoCall
    /\ held' = [held EXCEPT ![f][s] = @ + call[f].apply]
    /\ loc' = [loc EXCEPT ![f] = "user"]
    /\ UNCHANGED <<ready, running, cur, phase, nowMs, clock, expireAt, expireEvents>>

TimedOutEffect(f, s) ==
    /\ Only(f, s) /\ OthersWoken(f, s)
    /\ cur = f /\ loc[f] = "acquire" /\ call[f].sem = s /\ TimedOut(f)
    /\ semInfos'[s].ucba = NoFiber
    /\ semInfos'[s].value = semInfos[s].value + call[f].done
    /\ call'[f] = NoCall
    /\ loc' = [loc EXCEPT ![f] = "user"]
    /\ UNCHANGED <<running, cur, phase, nowMs, clock, expireAt, held>>

BlocksEffect(f, s) ==
    /\ Only(f, s) /\ SameOthersParked(f, s)
    /\ f \in semInfos'[s].fibers
    /\ cur = f /\ cur' = NoFiber /\ loc[f] = "acquire" /\ call[f].sem = s
    /\ call'[f] = [call[f] EXCEPT !.done = call'[f].done]
    /\ call'[f].done < call[f].apply
    /\ semInfos'[s].value + call'[f].done = semInfos[s].value + call[f].done
    /\ \/ /\ semInfos[s].ucba \in {f, NoFiber}
          /\ semInfos'[s].ucba = f /\ semInfos'[s].value = 0
       \/ /\ semInfos[s].ucba \notin {f, NoFiber}
          /\ semInfos'[s].ucba = semInfos[s].ucba /\ call'[f].done = call[f].done
    /\ RegisterDeadline(f, call[f].expireAt)
    /\ UNCHANGED <<ready, running, phase, nowMs, clock, loc, held>>

ReleaseEffect(f, s, n) ==
    /\ Only(f, s) /\ OthersWoken(f, s) /\ WakeUpFibers(WakeOrder[semInfos[s].fibers])
    /\ cur = f /\ loc[f] = "user" /\ n \in Nat \ {0} /\ n <= held[f][s]
    /\ semInfos'[s].ucba = semInfos[s].ucba
    /\ semInfos'[s].value = semInfos[s].value + n
    /\ call' = call
    /\ held' = [held EXCEPT ![f][s] = @ - n]
    /\ UNCHANGED <<running, cur, phase, nowMs, clock, loc, expireAt>>

\* An iteration that gets the last missing units, given to the creditor or because
\* there was none.
LEMMA GrantedHas ==
    ASSUME SemTypes, CallInv, loc \in [Fibers -> SemLocations], NEW f \in Fibers,
           AcquireGranted(f)
    PROVE  \E s \in Sems : GrantedEffect(f, s)
<1> USE DEF queueVars, timerVars
<1>0. PICK s \in Sems : s = call[f].sem
  BY DEF AcquireGranted, InAcquire, SemTypes
<1> DEFINE a == Attempt(f)
<1>1. /\ cur = f /\ loc[f] = "acquire" /\ s \in DOMAIN semInfos
      /\ DoneAfter(f) = call[f].apply /\ DoneAfter(f) = call[f].done + a.got
      /\ semInfos' = [semInfos EXCEPT ![s] = a.info]
      /\ held' = [held EXCEPT ![f][s] = @ + call[f].apply]
      /\ call' = [call EXCEPT ![f] = NoCall]
      /\ loc' = [loc EXCEPT ![f] = "user"]
      /\ UNCHANGED <<ready, running, cur, phase, nowMs, clock, expireAt, expireEvents>>
  BY <1>0 DEF AcquireGranted, InAcquire, DoneAfter
<1>2. /\ s # NoSem /\ semInfos[s] \in SemInfo
      /\ call[f].apply \in Nat /\ call[f].done \in Nat /\ a.got \in Nat
      /\ a.got <= semInfos[s].value
      /\ a.info \in SemInfo /\ a.info.value = semInfos[s].value - a.got
      /\ semInfos[s].ucba \in {f, NoFiber} /\ a.info.ucba = NoFiber
      /\ f \in a.info.fibers => f \in semInfos[s].fibers
      /\ \A g \in Fibers \ {f} : g \in a.info.fibers <=> g \in semInfos[s].fibers
  BY <1>0, <1>1, AttemptGives DEF AcquireGranted
<1>3. NoCall \in Call
  BY DEF NoCall, Call
<1> HIDE DEF a
<1>4. /\ call'[f] = NoCall /\ \A g \in Fibers \ {f} : call'[g] = call[g]
      /\ semInfos'[s] = a.info /\ DOMAIN semInfos' = DOMAIN semInfos
      /\ \A r \in DOMAIN semInfos \ {s} : semInfos'[r] = semInfos[r]
      /\ semInfos' \in [DOMAIN semInfos -> SemInfo]
      /\ call' \in [Fibers -> Call]
  BY <1>1, <1>2, <1>3 DEF SemTypes
<1>5. semInfos'[s].value + call[f].apply = semInfos[s].value + call[f].done
  BY <1>1, <1>2, <1>4 DEF SemInfo
<1> QED
  BY <1>0, <1>1, <1>2, <1>4, <1>5 DEF GrantedEffect, Only, SameOthersParked

\* An iteration that finds the deadline passed gives the share back.
LEMMA TimedOutHas ==
    ASSUME SemTypes, CallInv, loc \in [Fibers -> SemLocations], NEW f \in Fibers,
           AcquireTimedOut(f)
    PROVE  \E s \in Sems : TimedOutEffect(f, s)
<1>0. PICK s \in Sems : s = call[f].sem
  BY DEF AcquireTimedOut, InAcquire, SemTypes
<1> DEFINE a == Attempt(f)
<1>1. /\ cur = f /\ loc[f] = "acquire" /\ s \in DOMAIN semInfos /\ TimedOut(f)
      /\ DoneAfter(f) = call[f].done + a.got
      /\ semInfos' = [semInfos EXCEPT ![s] = RestoreSem(a.info, DoneAfter(f))]
      /\ WakeUpFibers(WakeOrder[a.info.fibers])
      /\ call' = [call EXCEPT ![f] = NoCall]
      /\ loc' = [loc EXCEPT ![f] = "user"]
      /\ UNCHANGED <<running, cur, phase, nowMs, clock, expireAt, held>>
  BY <1>0 DEF AcquireTimedOut, InAcquire, WakeAll, DoneAfter
<1>2. /\ s # NoSem /\ semInfos[s].value \in Nat /\ a.info.fibers \in SUBSET Fibers
      /\ call[f].done \in Nat /\ a.got \in Nat /\ a.got <= semInfos[s].value
      /\ a.info.value = semInfos[s].value - a.got
      /\ \A g \in Fibers \ {f} : g \in a.info.fibers <=> g \in semInfos[s].fibers
  BY <1>0, <1>1, AttemptGives DEF AcquireTimedOut, SemInfo
<1> HIDE DEF a
<1>3. RestoreSem(a.info, DoneAfter(f)) =
        [value |-> semInfos[s].value + call[f].done, ucbaValue |-> 0,
         ucba |-> NoFiber, fibers |-> {}]
  <2>1. a.info.value + DoneAfter(f) = semInfos[s].value + call[f].done
    BY <1>1, <1>2
  <2> QED
    BY <2>1 DEF RestoreSem
<1>4. NoCall \in Call /\ RestoreSem(a.info, DoneAfter(f)) \in SemInfo
  BY <1>2, <1>3 DEF NoCall, Call, SemInfo
<1>5. /\ call'[f] = NoCall /\ \A g \in Fibers \ {f} : call'[g] = call[g]
      /\ semInfos'[s] = [value |-> semInfos[s].value + call[f].done, ucbaValue |-> 0,
                         ucba |-> NoFiber, fibers |-> {}]
      /\ DOMAIN semInfos' = DOMAIN semInfos
      /\ \A r \in DOMAIN semInfos \ {s} : semInfos'[r] = semInfos[r]
      /\ semInfos' \in [DOMAIN semInfos -> SemInfo]
      /\ call' \in [Fibers -> Call]
  BY <1>1, <1>3, <1>4 DEF SemTypes
<1>6. OthersWoken(f, s)
  BY <1>1, <1>2, <1>5 DEF OthersWoken
<1> QED
  BY <1>0, <1>1, <1>2, <1>5, <1>6 DEF TimedOutEffect, Only

\* An iteration that has to wait keeps its share, as the creditor, or has none.
LEMMA BlocksHas ==
    ASSUME SemTypes, CallInv, loc \in [Fibers -> SemLocations], NEW f \in Fibers,
           AcquireBlocks(f)
    PROVE  \E s \in Sems : BlocksEffect(f, s)
<1> USE DEF queueVars
<1>0. PICK s \in Sems : s = call[f].sem
  BY DEF AcquireBlocks, InAcquire, SemTypes
<1> DEFINE a == Attempt(f)
           i == [a.info EXCEPT !.fibers = @ \cup {f}]
           c == [call[f] EXCEPT !.done = DoneAfter(f)]
<1>1. /\ cur = f /\ cur' = NoFiber /\ loc[f] = "acquire" /\ s \in DOMAIN semInfos
      /\ DoneAfter(f) # call[f].apply /\ DoneAfter(f) = call[f].done + a.got
      /\ semInfos' = [semInfos EXCEPT ![s] = i]
      /\ call' = [call EXCEPT ![f] = c]
      /\ RegisterDeadline(f, call[f].expireAt)
      /\ UNCHANGED <<ready, running, phase, nowMs, clock, loc, held>>
  BY <1>0 DEF AcquireBlocks, InAcquire, DoneAfter
<1>2. /\ s # NoSem /\ semInfos[s].value \in Nat
      /\ call[f].apply \in Nat /\ call[f].done \in Nat /\ a.got \in Nat
      /\ a.got <= semInfos[s].value
      /\ a.info \in SemInfo /\ a.info.value = semInfos[s].value - a.got
      /\ DoneAfter(f) \in Nat /\ DoneAfter(f) <= call[f].apply
      /\ \/ /\ semInfos[s].ucba \in {f, NoFiber}
            /\ a.info.ucba = f /\ a.info.value = 0
         \/ /\ semInfos[s].ucba \notin {f, NoFiber}
            /\ a.info.ucba = semInfos[s].ucba /\ a.got = 0
      /\ \A g \in Fibers \ {f} : g \in a.info.fibers <=> g \in semInfos[s].fibers
  BY <1>0, <1>1, AttemptGives DEF AcquireBlocks, SemInfo
<1>3. c \in Call /\ c.done = DoneAfter(f)
  BY <1>2 DEF SemTypes, Call
<1>4. /\ i \in SemInfo /\ i.value = a.info.value /\ i.ucba = a.info.ucba
      /\ f \in i.fibers
      /\ \A g \in Fibers \ {f} : g \in i.fibers <=> g \in semInfos[s].fibers
  <2> HIDE DEF a
  <2> QED
    BY <1>2 DEF SemInfo
<1>5. c = [call[f] EXCEPT !.done = c.done]
  BY <1>3
<1> HIDE DEF a, i, c
<1>6. /\ call'[f] = c /\ \A g \in Fibers \ {f} : call'[g] = call[g]
      /\ semInfos'[s] = i /\ DOMAIN semInfos' = DOMAIN semInfos
      /\ \A r \in DOMAIN semInfos \ {s} : semInfos'[r] = semInfos[r]
      /\ semInfos' \in [DOMAIN semInfos -> SemInfo]
      /\ call' \in [Fibers -> Call]
  BY <1>1, <1>3, <1>4 DEF SemTypes
<1>7. /\ c.done < call[f].apply
      /\ i.value + c.done = semInfos[s].value + call[f].done
      /\ a.got = 0 => c.done = call[f].done
  BY <1>1, <1>2, <1>3, <1>4
<1> QED
  BY <1>0, <1>1, <1>2, <1>4, <1>5, <1>6, <1>7 DEF BlocksEffect, Only, SameOthersParked

\* A release puts back as many units as its caller had more.
LEMMA ReleaseHas ==
    ASSUME SemTypes, NEW f \in Fibers, NEW s \in Sems, NEW n \in AcquireSizes,
           Release(f, s, n)
    PROVE  ReleaseEffect(f, s, n)
<1>1. /\ cur = f /\ loc[f] = "user" /\ s \in DOMAIN semInfos
      /\ n \in Nat \ {0} /\ n <= held[f][s]
      /\ semInfos' = [semInfos EXCEPT ![s].value = @ + n, ![s].fibers = {}]
      /\ WakeUpFibers(WakeOrder[semInfos[s].fibers])
      /\ held' = [held EXCEPT ![f][s] = @ - n]
      /\ UNCHANGED <<running, cur, phase, nowMs, clock, loc, expireAt, call>>
  BY SemConstantsAssumption DEF Release, InUser, WakeAll
<1>2. PICK r \in SemInfo : r = semInfos[s]
  BY <1>1 DEF SemTypes
<1> DEFINE i == [r EXCEPT !.value = @ + n, !.fibers = {}]
<1>3. i = [value |-> r.value + n, ucbaValue |-> r.ucbaValue, ucba |-> r.ucba,
           fibers |-> {}]
  <2> DEFINE j == [r EXCEPT !.value = @ + n]
  <2>1. j = [value |-> r.value + n, ucbaValue |-> r.ucbaValue, ucba |-> r.ucba,
             fibers |-> r.fibers]
    BY DEF SemInfo
  <2>2. i = [j EXCEPT !.fibers = {}]
    BY DEF SemInfo
  <2> HIDE DEF i, j
  <2> QED
    BY <2>1, <2>2
<1>4. semInfos' = [semInfos EXCEPT ![s] = i]
  BY <1>1, <1>2
<1> HIDE DEF i
<1>5. i \in SemInfo /\ i.value = r.value + n /\ i.ucba = r.ucba /\ i.fibers = {}
  BY <1>1, <1>3 DEF SemInfo
<1>6. Only(f, s)
  BY <1>1, <1>4, <1>5, SemConstantsAssumption DEF Only, SemTypes
<1>7. OthersWoken(f, s)
  BY <1>1, <1>2, <1>4, <1>5 DEF OthersWoken, SemTypes, SemInfo
<1> QED
  BY <1>1, <1>2, <1>4, <1>5, <1>6, <1>7 DEF ReleaseEffect

\* When the parked fibers of s wake, the two deques and the timers change so.
LEMMA WokenHas ==
    ASSUME SchedTypes(SemLocations, Phases), NEW f \in Fibers, NEW s,
           OthersWoken(f, s), running' = running
    PROVE  /\ ready' \in Seq(Fibers)
           /\ DOMAIN expireEvents' = DOMAIN expireEvents
           /\ expireEvents' \in [DOMAIN expireEvents -> SUBSET Fibers]
           /\ \A g \in Fibers \ {f} :
                /\ Queued(g)' <=> Queued(g) \/ g \in semInfos[s].fibers
                /\ g \notin semInfos[s].fibers =>
                    \A t \in DOMAIN expireEvents :
                        g \in expireEvents'[t] <=> g \in expireEvents[t]
<1>1. PICK S \in SUBSET Fibers :
        /\ WakeUpFibers(WakeOrder[S])
        /\ \A g \in Fibers \ {f} : g \in S <=> g \in semInfos[s].fibers
  BY DEF OthersWoken
<1>2. /\ ready' \in Seq(Fibers)
      /\ Range(Queue') = Range(Queue) \cup S
      /\ DOMAIN expireEvents' = DOMAIN expireEvents
      /\ expireEvents' \in [DOMAIN expireEvents -> SUBSET Fibers]
      /\ \A t \in DOMAIN expireEvents :
            expireEvents'[t] = {g \in expireEvents[t] : ~(g \in S /\ expireAt[g] = t)}
  BY <1>1, WakeSet DEF SchedTypes
<1> QED
  BY <1>1, <1>2 DEF Queued

-----------------------------------------------------------------------------
(* SemIInv is inductive: the initial states, and one lemma per action.     *)

\* At the start there is no semaphore.
LEMMA SemInitInv == SemInit => SemIInv
<1> SUFFICES ASSUME SemInit PROVE SemIInv
  OBVIOUS
<1>1. SchedTypes(SemLocations, Phases) /\ PhaseInv
  <2>1. <<>> \in Seq(Fibers) /\ "none" \in SemLocations /\ "main" \in Phases
    BY DEF SemLocations, Locations, Phases
  <2> QED
    BY <2>1 DEF SemInit, Init, SchedTypes, PhaseInv
<1>2. SemTypes
  BY DEF SemInit, SemTypes, NoCall, Call, SemInfo
<1>3. CallInv
  BY DEF SemInit, Init, CallInv, NoCall
<1>4. CountInv /\ CreditorIsCalling
  BY DEF SemInit, CountInv, CreditorIsCalling
<1>5. WaitersInv
  BY DEF SemInit, Init, WaitersInv, Waits
<1> QED
  BY <1>1, <1>2, <1>3, <1>4, <1>5 DEF SemIInv

\* What a fiber has of a semaphore is a number.
LEMMA OwnedNat ==
    ASSUME SemTypes
    PROVE  \A f \in Fibers, s \in Sems : Owned(f, s) \in Nat
BY DEF SemTypes, Call, Owned, Partial

\* The steps of the scheduler know nothing of semaphores.
LEMMA SchedulerKeeps ==
    ASSUME SemIInv, [Next]_vars, UNCHANGED semVars
    PROVE  SemIInv'
<1> USE DEF semVars
<1>1. Locations \subseteq SemLocations /\ "acquire" \notin Locations
  BY DEF Locations, SemLocations
<1>2. SchedTypes(SemLocations, Phases)' /\ PhaseInv'
  BY <1>1, StepKeepsTypes DEF SemIInv
<1>3. \A f \in Fibers :
        /\ loc[f] \notin Locations \/ loc'[f] \notin Locations => loc'[f] = loc[f]
        /\ loc[f] \notin Locations /\ (Queued(f) \/ cur = f) => Queued(f)' \/ cur' = f
        /\ \A t \in DOMAIN expireEvents :
            f \in expireEvents[t] =>
                Queued(f)' \/ (t \in DOMAIN expireEvents' /\ f \in expireEvents'[t])
  BY <1>1, StepKeepsForeign DEF SemIInv
<1>4. \A f \in Fibers : loc'[f] = "acquire" <=> loc[f] = "acquire"
  BY <1>1, <1>3
<1>5. SemTypes'
  BY DEF SemIInv, SemTypes
<1>6. CallInv'
  BY <1>4 DEF SemIInv, CallInv
<1>7. CountInv'
  BY DEF SemIInv, CountInv, UnitsOut, Partial
<1>8. CreditorIsCalling'
  BY <1>4 DEF SemIInv, CreditorIsCalling
<1>9. WaitersInv'
  <2> SUFFICES ASSUME NEW f \in Fibers, Waits(f)'
               PROVE  /\ call[f].sem \in DOMAIN semInfos
                      /\ Parked(f, call[f].sem)
                      /\ call[f].expireAt >= 0 =>
                            /\ call[f].expireAt \in DOMAIN expireEvents'
                            /\ f \in expireEvents'[call[f].expireAt]
    BY DEF WaitersInv, Parked
  <2>1. Waits(f) /\ ~Queued(f)'
    BY <1>1, <1>3, <1>4 DEF Waits
  <2> QED
    BY <2>1, <1>3 DEF SemIInv, WaitersInv
<1> QED
  BY <1>2, <1>5, <1>6, <1>7, <1>8, <1>9 DEF SemIInv

\* A new semaphore is whole, and nobody waits for it.
LEMMA RegisterSemKeeps ==
    ASSUME SemIInv, NEW s \in Sems, RegisterSem(s)
    PROVE  SemIInv'
<1> USE DEF vars
<1>1. /\ s \notin DOMAIN semInfos
      /\ DOMAIN semInfos' = DOMAIN semInfos \cup {s}
      /\ \A r \in DOMAIN semInfos : semInfos'[r] = semInfos[r]
      /\ semInfos'[s] = [value |-> InitValue[s], ucbaValue |-> 0,
                         ucba |-> NoFiber, fibers |-> {}]
      /\ UNCHANGED <<vars, call, held>>
  BY DEF RegisterSem
<1>2. SchedTypes(SemLocations, Phases)' /\ PhaseInv'
  BY <1>1 DEF SemIInv, SchedTypes, PhaseInv
<1>3. SemTypes'
  <2>1. semInfos'[s] \in SemInfo
    BY <1>1, SemConstantsAssumption DEF SemInfo
  <2>2. \A r \in DOMAIN semInfos' : semInfos'[r] \in SemInfo
    BY <1>1, <2>1 DEF SemIInv, SemTypes
  <2>3. semInfos' \in [DOMAIN semInfos' -> SemInfo]
    BY <2>2 DEF RegisterSem
  <2> QED
    BY <1>1, <2>3 DEF SemIInv, SemTypes
<1>4. CallInv'
  BY <1>1 DEF SemIInv, CallInv
<1>5. CountInv'
  <2>1. \A r : UnitsOut(r)' = UnitsOut(r)
    BY <1>1 DEF UnitsOut, Partial
  <2>2. UnitsOut(s) = {}
    <3>1. \A f \in Fibers : held[f][s] + Partial(f, s) = 0
      BY DEF RegisterSem, Unused, Partial
    <3> QED
      BY <3>1 DEF UnitsOut
  <2>3. IsFiniteSet(UnitsOut(s)) /\ Cardinality(UnitsOut(s)) = 0
    BY <2>2, FS_EmptySet
  <2>4. InitValue[s] \in Nat
    BY SemConstantsAssumption
  <2> QED
    BY <1>1, <2>1, <2>3, <2>4 DEF SemIInv, CountInv
<1>6. CreditorIsCalling'
  BY <1>1, ConstantsAssumption DEF SemIInv, CreditorIsCalling
<1>7. WaitersInv'
  BY <1>1 DEF SemIInv, WaitersInv, Waits, Parked, Queued, Queue
<1> QED
  BY <1>2, <1>3, <1>4, <1>5, <1>6, <1>7 DEF SemIInv

\* UnregisterSem wakes whoever is parked, so nobody waits for what is gone.
LEMMA UnregisterSemKeeps ==
    ASSUME SemIInv, NEW f \in Fibers, NEW s \in Sems, UnregisterSem(f, s)
    PROVE  SemIInv'
<1> DEFINE S == semInfos[s].fibers
<1>1. /\ s \in DOMAIN semInfos
      /\ DOMAIN semInfos' = DOMAIN semInfos \ {s}
      /\ \A r \in DOMAIN semInfos' : semInfos'[r] = semInfos[r]
      /\ UNCHANGED <<running, cur, phase, nowMs, clock, loc, expireAt, call, held>>
  BY DEF UnregisterSem, Restrict
<1>2. S \in SUBSET Fibers /\ WakeUpFibers(WakeOrder[S])
  BY <1>1 DEF SemIInv, SemTypes, SemInfo, UnregisterSem, WakeAll
<1>3. /\ ready' \in Seq(Fibers)
      /\ Range(Queue') = Range(Queue) \cup S
      /\ DOMAIN expireEvents' = DOMAIN expireEvents
      /\ expireEvents' \in [DOMAIN expireEvents -> SUBSET Fibers]
      /\ \A t \in DOMAIN expireEvents :
            expireEvents'[t] = {g \in expireEvents[t] : ~(g \in S /\ expireAt[g] = t)}
  <2> HIDE DEF S
  <2> QED
    BY <1>1, <1>2, WakeSet DEF SemIInv, SchedTypes
<1>4. SchedTypes(SemLocations, Phases)' /\ PhaseInv'
  BY <1>1, <1>3 DEF SemIInv, SchedTypes, PhaseInv
<1>5. SemTypes'
  BY <1>1 DEF SemIInv, SemTypes, UnregisterSem, Restrict
<1>6. CallInv'
  BY <1>1 DEF SemIInv, CallInv
<1>7. CountInv'
  <2>1. \A r : UnitsOut(r)' = UnitsOut(r)
    BY <1>1 DEF UnitsOut, Partial
  <2> QED
    BY <1>1, <2>1 DEF SemIInv, CountInv
<1>8. CreditorIsCalling'
  BY <1>1 DEF SemIInv, CreditorIsCalling
<1>9. WaitersInv'
  <2> SUFFICES ASSUME NEW g \in Fibers, Waits(g)'
               PROVE  /\ call[g].sem \in DOMAIN semInfos'
                      /\ Parked(g, call[g].sem)'
                      /\ call[g].expireAt >= 0 =>
                            /\ call[g].expireAt \in DOMAIN expireEvents'
                            /\ g \in expireEvents'[call[g].expireAt]
    BY <1>1 DEF WaitersInv, Parked
  <2>1. Waits(g) /\ g \notin S
    BY <1>1, <1>3 DEF Waits, Queued
  <2>2. /\ call[g].sem \in DOMAIN semInfos /\ Parked(g, call[g].sem)
        /\ call[g].expireAt >= 0 =>
            /\ call[g].expireAt \in DOMAIN expireEvents
            /\ g \in expireEvents[call[g].expireAt]
    BY <2>1 DEF SemIInv, WaitersInv
  <2>3. call[g].sem # s
    BY <2>1, <2>2 DEF Parked
  <2> QED
    BY <1>1, <1>3, <2>1, <2>2, <2>3 DEF Parked
<1> QED
  BY <1>4, <1>5, <1>6, <1>7, <1>8, <1>9 DEF SemIInv

\* Whoever enters Acquire has nothing yet.
LEMMA AcquireKeeps ==
    ASSUME SemIInv, NEW f \in Fibers, NEW s \in Sems, NEW n \in AcquireSizes,
           NEW ms \in Timeouts, Acquire(f, s, n, ms)
    PROVE  SemIInv'
<1> USE DEF queueVars, timerVars
<1> DEFINE c == [sem |-> s, apply |-> n, done |-> 0,
                 expireAt |-> IF ms < 0 THEN -1 ELSE clock + ms]
<1>1. /\ cur = f /\ loc[f] = "user" /\ s \in DOMAIN semInfos /\ n <= InitValue[s]
      /\ call' = [call EXCEPT ![f] = c]
      /\ loc' = [loc EXCEPT ![f] = "acquire"]
      /\ UNCHANGED <<ready, running, cur, phase, nowMs, clock, expireAt, expireEvents,
                     semInfos, held>>
  BY DEF Acquire, InUser
<1>2. /\ n \in Nat \ {0} /\ s # NoSem /\ c \in Call /\ c.expireAt # 0
      /\ c.sem = s /\ c.apply = n /\ c.done = 0
  BY SemConstantsAssumption DEF SemIInv, SchedTypes, Call
<1> HIDE DEF c
<1>3. call[f].sem = NoSem
  BY <1>1 DEF SemIInv, CallInv
<1>4. /\ call'[f] = c /\ loc'[f] = "acquire"
      /\ \A g \in Fibers \ {f} : call'[g] = call[g] /\ loc'[g] = loc[g]
  BY <1>1 DEF SemIInv, SemTypes, SchedTypes
<1>5. SchedTypes(SemLocations, Phases)' /\ PhaseInv'
  BY <1>1 DEF SemIInv, SchedTypes, PhaseInv, SemLocations
<1>6. SemTypes'
  BY <1>1, <1>2 DEF SemIInv, SemTypes
<1>7. CallInv'
  BY <1>1, <1>2, <1>4 DEF SemIInv, CallInv
<1>8. CountInv'
  <2> SUFFICES ASSUME NEW r \in DOMAIN semInfos PROVE UnitsOut(r)' = UnitsOut(r)
    BY <1>1 DEF SemIInv, CountInv
  <2>1. r # NoSem
    BY SemConstantsAssumption DEF SemIInv, SemTypes
  <2>2. \A g \in Fibers : Partial(g, r)' = Partial(g, r)
    BY <1>2, <1>3, <1>4, <2>1 DEF Partial
  <2> QED
    BY <1>1, <2>2, OwnersSame DEF Owned
<1>9. CreditorIsCalling'
  BY <1>1, <1>4 DEF SemIInv, CreditorIsCalling
<1>10. WaitersInv'
  <2> SUFFICES ASSUME NEW g \in Fibers, Waits(g)'
               PROVE  /\ call'[g].sem \in DOMAIN semInfos
                      /\ Parked(g, call'[g].sem)
                      /\ call'[g].expireAt >= 0 =>
                            /\ call'[g].expireAt \in DOMAIN expireEvents
                            /\ g \in expireEvents[call'[g].expireAt]
    BY <1>1 DEF WaitersInv, Parked
  <2>1. g # f /\ Waits(g)
    BY <1>1, <1>4 DEF Waits, Queued, Queue
  <2> QED
    BY <2>1, <1>4 DEF SemIInv, WaitersInv
<1> QED
  BY <1>5, <1>6, <1>7, <1>8, <1>9, <1>10 DEF SemIInv

\* An iteration of Acquire or a release by f leaves the sum of what is left in the
\* semaphore and what f has of it as it was, and nothing else changes.
LEMMA IterationCounts ==
    ASSUME SemTypes, CountInv, NEW f \in Fibers, NEW s, Only(f, s), SemTypes',
           \A g \in Fibers, r \in Sems : g # f \/ r # s => Owned(g, r)' = Owned(g, r),
           semInfos'[s].value + Owned(f, s)' = semInfos[s].value + Owned(f, s)
    PROVE  CountInv'
<1> USE DEF Only
<1> SUFFICES ASSUME NEW r \in DOMAIN semInfos
             PROVE  /\ IsFiniteSet(UnitsOut(r)')
                    /\ semInfos'[r].value + Cardinality(UnitsOut(r)') = InitValue[r]
  BY DEF CountInv
<1>1. /\ r \in Sems /\ IsFiniteSet(UnitsOut(r))
      /\ semInfos[r].value + Cardinality(UnitsOut(r)) = InitValue[r]
  BY DEF CountInv, SemTypes
<1>2. CASE r # s
  <2>1. UnitsOut(r)' = UnitsOut(r)
    BY <1>1, <1>2, OwnersSame
  <2> QED
    BY <1>1, <1>2, <2>1
<1>3. CASE r = s
  <2>1. \A e \in Fibers : Owned(e, s) \in Nat /\ Owned(e, s)' \in Nat
    <3>1. \A e \in Fibers : Owned(e, s) \in Nat
      BY <1>1, <1>3, OwnedNat
    <3>2. \A e \in Fibers : Owned(e, s)' \in Nat
      BY <1>1, <1>3 DEF SemTypes, Call, Owned, Partial
    <3> QED
      BY <3>1, <3>2
  <2>2. /\ IsFiniteSet(UnitsOut(s)')
        /\ Cardinality(UnitsOut(s)) \in Nat
        /\ Cardinality(UnitsOut(s)') \in Nat
        /\ Cardinality(UnitsOut(s)') =
                Cardinality(UnitsOut(s)) - Owned(f, s) + Owned(f, s)'
    BY <1>1, <1>3, <2>1, OwnerChange
  <2>3. semInfos[s].value \in Nat /\ semInfos'[s].value \in Nat
    BY DEF SemTypes, SemInfo
  <2>4. Owned(f, s) \in Nat /\ Owned(f, s)' \in Nat
    BY <2>1
  <2> QED
    BY <1>1, <1>3, <2>2, <2>3, <2>4
<1> QED
  BY <1>2, <1>3

\* The last missing units: the share f kept becomes part of what it holds.
LEMMA AcquireGrantedKeeps ==
    ASSUME SemIInv, NEW f \in Fibers, AcquireGranted(f)
    PROVE  SemIInv'
<1>1. PICK s \in Sems : GrantedEffect(f, s)
  BY GrantedHas DEF SemIInv, SchedTypes
<1> USE DEF GrantedEffect, Only, SameOthersParked
<1>2. call[f].apply \in Nat /\ call[f].done \in Nat /\ held[f][s] \in Nat
  BY <1>1 DEF SemIInv, SemTypes, Call
<1>3. /\ loc'[f] = "user" /\ \A g \in Fibers \ {f} : loc'[g] = loc[g]
      /\ held'[f][s] = held[f][s] + call[f].apply
      /\ \A g \in Fibers, r \in Sems : g # f \/ r # s => held'[g][r] = held[g][r]
  BY <1>1 DEF SemIInv, SemTypes, SchedTypes
<1>4. SchedTypes(SemLocations, Phases)' /\ PhaseInv'
  BY <1>1 DEF SemIInv, SchedTypes, PhaseInv, SemLocations, Locations
<1>5. SemTypes'
  BY <1>1, <1>2 DEF SemIInv, SemTypes
<1>6. CallInv'
  BY <1>1, <1>3 DEF SemIInv, CallInv, NoCall
<1>7. CountInv'
  <2>1. \A g \in Fibers, r \in Sems : g # f \/ r # s => Owned(g, r)' = Owned(g, r)
    BY <1>1, <1>3, SemConstantsAssumption DEF Owned, Partial, NoCall
  <2>2. /\ Owned(f, s) = held[f][s] + call[f].done
        /\ Owned(f, s)' = held[f][s] + call[f].apply + 0
    BY <1>1, <1>3 DEF Owned, Partial, NoCall
  <2>3. semInfos'[s].value \in Nat /\ semInfos[s].value \in Nat
    BY <1>1 DEF SemIInv, SemTypes, SemInfo
  <2>4. semInfos'[s].value + Owned(f, s)' = semInfos[s].value + Owned(f, s)
    BY <1>1, <1>2, <2>2, <2>3
  <2> QED
    BY <1>1, <1>5, <2>1, <2>4, IterationCounts DEF SemIInv
<1>8. CreditorIsCalling'
  BY <1>1, <1>3, ConstantsAssumption DEF SemIInv, CreditorIsCalling
<1>9. WaitersInv'
  <2> SUFFICES ASSUME NEW g \in Fibers, Waits(g)'
               PROVE  /\ call'[g].sem \in DOMAIN semInfos'
                      /\ g \in semInfos'[call'[g].sem].fibers
                      /\ call'[g].expireAt >= 0 =>
                            /\ call'[g].expireAt \in DOMAIN expireEvents
                            /\ g \in expireEvents[call'[g].expireAt]
    BY <1>1 DEF WaitersInv, Parked
  <2>1. g # f /\ Waits(g)
    BY <1>1, <1>3 DEF Waits, Queued, Queue
  <2>2. /\ call[g].sem \in DOMAIN semInfos /\ g \in semInfos[call[g].sem].fibers
        /\ call[g].expireAt >= 0 =>
            /\ call[g].expireAt \in DOMAIN expireEvents
            /\ g \in expireEvents[call[g].expireAt]
    BY <2>1 DEF SemIInv, WaitersInv, Parked
  <2> QED
    BY <1>1, <2>1, <2>2
<1> QED
  BY <1>4, <1>5, <1>6, <1>7, <1>8, <1>9 DEF SemIInv

\* The deadline passed: the share goes back, and nobody stays parked.
LEMMA AcquireTimedOutKeeps ==
    ASSUME SemIInv, NEW f \in Fibers, AcquireTimedOut(f)
    PROVE  SemIInv'
<1>1. PICK s \in Sems : TimedOutEffect(f, s)
  BY TimedOutHas DEF SemIInv, SchedTypes
<1>2. /\ ready' \in Seq(Fibers)
      /\ DOMAIN expireEvents' = DOMAIN expireEvents
      /\ expireEvents' \in [DOMAIN expireEvents -> SUBSET Fibers]
      /\ \A g \in Fibers \ {f} :
            /\ Queued(g)' <=> Queued(g) \/ g \in semInfos[s].fibers
            /\ g \notin semInfos[s].fibers =>
                \A t \in DOMAIN expireEvents :
                    g \in expireEvents'[t] <=> g \in expireEvents[t]
  BY <1>1, WokenHas DEF SemIInv, TimedOutEffect
<1> USE DEF TimedOutEffect, Only
<1>3. /\ call[f].done \in Nat /\ held[f][s] \in Nat
      /\ loc'[f] = "user" /\ \A g \in Fibers \ {f} : loc'[g] = loc[g]
  BY <1>1 DEF SemIInv, SemTypes, SchedTypes, Call
<1>4. SchedTypes(SemLocations, Phases)' /\ PhaseInv'
  BY <1>1, <1>2 DEF SemIInv, SchedTypes, PhaseInv, SemLocations, Locations
<1>5. SemTypes'
  BY <1>1 DEF SemIInv, SemTypes
<1>6. CallInv'
  BY <1>1, <1>3 DEF SemIInv, CallInv, NoCall
<1>7. CountInv'
  <2>1. \A g \in Fibers, r \in Sems : g # f \/ r # s => Owned(g, r)' = Owned(g, r)
    BY <1>1, SemConstantsAssumption DEF Owned, Partial, NoCall
  <2>2. /\ Owned(f, s) = held[f][s] + call[f].done
        /\ Owned(f, s)' = held[f][s] + 0
    BY <1>1 DEF Owned, Partial, NoCall
  <2>3. semInfos'[s].value \in Nat /\ semInfos[s].value \in Nat
    BY <1>1 DEF SemIInv, SemTypes, SemInfo
  <2>4. semInfos'[s].value + Owned(f, s)' = semInfos[s].value + Owned(f, s)
    BY <1>1, <1>3, <2>2, <2>3
  <2> QED
    BY <1>1, <1>5, <2>1, <2>4, IterationCounts DEF SemIInv
<1>8. CreditorIsCalling'
  BY <1>1, <1>3, ConstantsAssumption DEF SemIInv, CreditorIsCalling
<1>9. WaitersInv'
  <2> SUFFICES ASSUME NEW g \in Fibers, Waits(g)'
               PROVE  /\ call'[g].sem \in DOMAIN semInfos'
                      /\ g \in semInfos'[call'[g].sem].fibers
                      /\ call'[g].expireAt >= 0 =>
                            /\ call'[g].expireAt \in DOMAIN expireEvents'
                            /\ g \in expireEvents'[call'[g].expireAt]
    BY DEF WaitersInv, Parked
  <2>1. g # f /\ g \notin semInfos[s].fibers /\ Waits(g)
    BY <1>1, <1>2, <1>3 DEF Waits
  <2>2. /\ call[g].sem \in DOMAIN semInfos /\ g \in semInfos[call[g].sem].fibers
        /\ call[g].expireAt >= 0 =>
            /\ call[g].expireAt \in DOMAIN expireEvents
            /\ g \in expireEvents[call[g].expireAt]
    BY <2>1 DEF SemIInv, WaitersInv, Parked
  <2> QED
    BY <1>1, <1>2, <2>1, <2>2
<1> QED
  BY <1>4, <1>5, <1>6, <1>7, <1>8, <1>9 DEF SemIInv

\* f keeps what it got and waits where a release and its timer find it.
LEMMA AcquireBlocksKeeps ==
    ASSUME SemIInv, NEW f \in Fibers, AcquireBlocks(f)
    PROVE  SemIInv'
<1> DEFINE d == call[f].expireAt
<1>1. PICK s \in Sems : BlocksEffect(f, s)
  BY BlocksHas DEF SemIInv, SchedTypes
<1> USE DEF BlocksEffect, Only, SameOthersParked
<1>2. d \in Nat \cup {-1} /\ d # 0
  BY <1>1, SemConstantsAssumption DEF SemIInv, SemTypes, Call, CallInv
<1>3. /\ call'[f].sem = s /\ call'[f].apply = call[f].apply /\ call'[f].expireAt = d
      /\ call[f].apply \in Nat /\ call[f].done \in Nat /\ call'[f].done \in Nat
      /\ held[f][s] \in Nat
  BY <1>1 DEF SemIInv, SemTypes, Call
<1> HIDE DEF d
<1>4. /\ expireAt' \in [Fibers -> Nat \cup {-1}]
      /\ DOMAIN expireEvents' \subseteq Nat \ {0}
      /\ expireEvents' \in [DOMAIN expireEvents' -> SUBSET Fibers]
      /\ \A t \in DOMAIN expireEvents :
            t \in DOMAIN expireEvents' /\ expireEvents[t] \subseteq expireEvents'[t]
      /\ d >= 0 => d \in DOMAIN expireEvents' /\ f \in expireEvents'[d]
  <2>0. RegisterDeadline(f, d)
    BY <1>1 DEF d
  <2>1. CASE d = -1
    BY <2>0, <2>1 DEF RegisterDeadline, timerVars, SemIInv, SchedTypes
  <2>2. CASE d \in Nat \ {0}
    <3>1. /\ expireAt' = [expireAt EXCEPT ![f] = d]
          /\ DOMAIN expireEvents' = DOMAIN expireEvents \cup {d}
          /\ DOMAIN expireEvents' \subseteq Nat \ {0}
          /\ expireEvents' \in [DOMAIN expireEvents' -> SUBSET Fibers]
          /\ \A t \in DOMAIN expireEvents' : expireEvents'[t] =
                (IF t \in DOMAIN expireEvents THEN expireEvents[t] ELSE {})
                \cup (IF t = d THEN {f} ELSE {})
      BY <2>0, <2>2, DeadlineSet DEF SemIInv, SchedTypes
    <3>2. expireAt' \in [Fibers -> Nat \cup {-1}]
      BY <2>2, <3>1 DEF SemIInv, SchedTypes
    <3> QED
      BY <3>1, <3>2
  <2> QED
    BY <1>2, <2>1, <2>2
<1>5. SchedTypes(SemLocations, Phases)' /\ PhaseInv'
  BY <1>1, <1>4 DEF SemIInv, SchedTypes, PhaseInv
<1>6. SemTypes'
  BY <1>1 DEF SemIInv, SemTypes
<1>7. CallInv'
  BY <1>1, <1>2, <1>3 DEF SemIInv, CallInv
<1>8. CountInv'
  <2>1. \A g \in Fibers, r \in Sems : g # f \/ r # s => Owned(g, r)' = Owned(g, r)
    BY <1>1, <1>3 DEF Owned, Partial
  <2>2. /\ Owned(f, s) = held[f][s] + call[f].done
        /\ Owned(f, s)' = held[f][s] + call'[f].done
    BY <1>1, <1>3 DEF Owned, Partial
  <2>3. semInfos'[s].value \in Nat /\ semInfos[s].value \in Nat
    BY <1>1 DEF SemIInv, SemTypes, SemInfo
  <2>4. semInfos'[s].value + Owned(f, s)' = semInfos[s].value + Owned(f, s)
    BY <1>1, <1>3, <2>2, <2>3
  <2> QED
    BY <1>1, <1>6, <2>1, <2>4, IterationCounts DEF SemIInv
<1>9. CreditorIsCalling'
  BY <1>1, <1>3 DEF SemIInv, CreditorIsCalling
<1>10. WaitersInv'
  <2> SUFFICES ASSUME NEW g \in Fibers, Waits(g)'
               PROVE  /\ call'[g].sem \in DOMAIN semInfos'
                      /\ g \in semInfos'[call'[g].sem].fibers
                      /\ call'[g].expireAt >= 0 =>
                            /\ call'[g].expireAt \in DOMAIN expireEvents'
                            /\ g \in expireEvents'[call'[g].expireAt]
    BY DEF WaitersInv, Parked
  <2>1. CASE g = f
    BY <1>1, <1>3, <1>4, <2>1
  <2>2. CASE g # f
    <3>1. Waits(g)
      BY <1>1, <2>2 DEF Waits, Queued, Queue
    <3>2. /\ call[g].sem \in DOMAIN semInfos /\ g \in semInfos[call[g].sem].fibers
          /\ call[g].expireAt >= 0 =>
                /\ call[g].expireAt \in DOMAIN expireEvents
                /\ g \in expireEvents[call[g].expireAt]
      BY <3>1 DEF SemIInv, WaitersInv, Parked
    <3> QED
      BY <1>1, <1>4, <2>2, <3>2
  <2> QED
    BY <2>1, <2>2
<1> QED
  BY <1>5, <1>6, <1>7, <1>8, <1>9, <1>10 DEF SemIInv

\* Released units go back, and nobody stays parked.
LEMMA ReleaseKeeps ==
    ASSUME SemIInv, NEW f \in Fibers, NEW s \in Sems, NEW n \in AcquireSizes,
           Release(f, s, n)
    PROVE  SemIInv'
<1>1. ReleaseEffect(f, s, n)
  BY ReleaseHas DEF SemIInv
<1>2. /\ ready' \in Seq(Fibers)
      /\ DOMAIN expireEvents' = DOMAIN expireEvents
      /\ expireEvents' \in [DOMAIN expireEvents -> SUBSET Fibers]
      /\ \A g \in Fibers \ {f} :
            /\ Queued(g)' <=> Queued(g) \/ g \in semInfos[s].fibers
            /\ g \notin semInfos[s].fibers =>
                \A t \in DOMAIN expireEvents :
                    g \in expireEvents'[t] <=> g \in expireEvents[t]
  BY <1>1, WokenHas DEF SemIInv, ReleaseEffect
<1> USE DEF ReleaseEffect, Only
<1>3. /\ held[f][s] \in Nat /\ held[f][s] - n \in Nat
      /\ held'[f][s] = held[f][s] - n
      /\ \A g \in Fibers, r \in Sems : g # f \/ r # s => held'[g][r] = held[g][r]
  BY <1>1 DEF SemIInv, SemTypes
<1>4. SchedTypes(SemLocations, Phases)' /\ PhaseInv'
  BY <1>1, <1>2 DEF SemIInv, SchedTypes, PhaseInv
<1>5. SemTypes'
  BY <1>1, <1>3 DEF SemIInv, SemTypes
<1>6. CallInv'
  BY <1>1 DEF SemIInv, CallInv
<1>7. CountInv'
  <2>1. \A g \in Fibers, r \in Sems : g # f \/ r # s => Owned(g, r)' = Owned(g, r)
    BY <1>1, <1>3 DEF Owned, Partial
  <2>2. /\ Owned(f, s) = held[f][s] + Partial(f, s)
        /\ Owned(f, s)' = held[f][s] - n + Partial(f, s)
    BY <1>1, <1>3 DEF Owned, Partial
  <2>3. Partial(f, s) \in Nat /\ semInfos[s].value \in Nat
    BY <1>1 DEF Partial, SemIInv, SemTypes, Call, SemInfo
  <2>4. semInfos'[s].value + Owned(f, s)' = semInfos[s].value + Owned(f, s)
    BY <1>1, <1>3, <2>2, <2>3
  <2> QED
    BY <1>1, <1>5, <2>1, <2>4, IterationCounts DEF SemIInv
<1>8. CreditorIsCalling'
  BY <1>1 DEF SemIInv, CreditorIsCalling
<1>9. WaitersInv'
  <2> SUFFICES ASSUME NEW g \in Fibers, Waits(g)'
               PROVE  /\ call'[g].sem \in DOMAIN semInfos'
                      /\ g \in semInfos'[call'[g].sem].fibers
                      /\ call'[g].expireAt >= 0 =>
                            /\ call'[g].expireAt \in DOMAIN expireEvents'
                            /\ g \in expireEvents'[call'[g].expireAt]
    BY DEF WaitersInv, Parked
  <2>1. g # f /\ g \notin semInfos[s].fibers /\ Waits(g)
    BY <1>1, <1>2 DEF Waits
  <2>2. /\ call[g].sem \in DOMAIN semInfos /\ g \in semInfos[call[g].sem].fibers
        /\ call[g].expireAt >= 0 =>
            /\ call[g].expireAt \in DOMAIN expireEvents
            /\ g \in expireEvents[call[g].expireAt]
    BY <2>1 DEF SemIInv, WaitersInv, Parked
  <2> QED
    BY <1>1, <1>2, <2>1, <2>2
<1> QED
  BY <1>4, <1>5, <1>6, <1>7, <1>8, <1>9 DEF SemIInv

\* Every step keeps SemIInv.
LEMMA SemNextKeeps == SemIInv /\ [SemNext]_allVars => SemIInv'
<1> SUFFICES ASSUME SemIInv, [SemNext]_allVars PROVE SemIInv'
  OBVIOUS
<1>1. CASE SemDispatch
  BY <1>1, SchedulerKeeps DEF SemDispatch, Next
<1>2. ASSUME NEW f \in Fibers, (CreateFiber(f) \/ GiveUpCpu(f)) /\ UNCHANGED semVars
      PROVE  SemIInv'
  BY <1>2, SchedulerKeeps DEF Next
<1>3. CASE (EnterDispatch \/ Tick) /\ UNCHANGED semVars
  BY <1>3, SchedulerKeeps DEF Next
<1>4. CASE UNCHANGED allVars
  BY <1>4, SchedulerKeeps DEF allVars
<1>5. ASSUME NEW s \in Sems, RegisterSem(s) PROVE SemIInv'
  BY <1>5, RegisterSemKeeps
<1>6. ASSUME NEW f \in Fibers, NEW s \in Sems, UnregisterSem(f, s) PROVE SemIInv'
  BY <1>6, UnregisterSemKeeps
<1>7. ASSUME NEW f \in Fibers, NEW s \in Sems, NEW n \in AcquireSizes,
             NEW ms \in Timeouts, Acquire(f, s, n, ms)
      PROVE  SemIInv'
  BY <1>7, AcquireKeeps
<1>8. ASSUME NEW f \in Fibers, NEW s \in Sems, NEW n \in AcquireSizes, Release(f, s, n)
      PROVE  SemIInv'
  BY <1>8, ReleaseKeeps
<1>9. ASSUME NEW f \in Fibers, AcquireStep(f) PROVE SemIInv'
  BY <1>9, AcquireGrantedKeeps, AcquireTimedOutKeeps, AcquireBlocksKeeps DEF AcquireStep
<1> QED
  BY <1>1, <1>2, <1>3, <1>4, <1>5, <1>6, <1>7, <1>8, <1>9 DEF SemNext

\* The invariant holds in every state.
LEMMA SemInvariant == SemSpec => []SemIInv
<1> QED
  BY SemInitInv, SemNextKeeps, PTL DEF SemSpec

-----------------------------------------------------------------------------
(* The theorems.                                                           *)

\* The state of the library with semaphores keeps its types.
THEOREM SemTypesKept == SemSpec => []SemTypeOK
<1>1. SemIInv => SemTypeOK
  BY DEF SemIInv, SchedTypes, SemTypes, SemTypeOK
<1> QED
  BY <1>1, SemInvariant, PTL

\* TryAcquireSem, ReleaseSem and RestoreSem lose no unit and make none: what is left
\* in value_ and what the fibers have is what the semaphore was created with.
THEOREM UnitsConserved == SemSpec => []Conservation
<1>1. SemIInv => Conservation
  BY DEF SemIInv, CountInv, Conservation
<1> QED
  BY <1>1, SemInvariant, PTL

\* UCBA_fiber_ names a fiber that is inside Acquire: RestoreSem and the last grant
\* reset it, so no unit is ever reserved for a fiber that has gone away.
THEOREM CreditorNeverStale == SemSpec => []CreditorIsCalling
<1>1. SemIInv => CreditorIsCalling
  BY DEF SemIInv
<1> QED
  BY <1>1, SemInvariant, PTL

\* An Acquire with a deadline that waits is registered in expire_events_ under that
\* deadline, whatever stale deadlines WakeUpFiber looked up before.
THEOREM TimeoutsRegistered == SemSpec => []TimedWaitHasTimer
<1>1. SemIInv => TimedWaitHasTimer
  BY DEF SemIInv, WaitersInv, Waits, TimedWaitHasTimer
<1> QED
  BY <1>1, SemInvariant, PTL

\* UnregisterSem leaves nobody parked on what it erased.
THEOREM UnregisterTellsEverybody == SemSpec => []NobodyLeftBehind
<1>1. SemIInv => NobodyLeftBehind
  BY DEF SemIInv, WaitersInv, Waits, NobodyLeftBehind
<1> QED
  BY <1>1, SemInvariant, PTL
=============================================================================
