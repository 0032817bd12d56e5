-------------------------- MODULE XSemUntimedProofs --------------------------
(***************************************************************************)
(* Proofs about the semaphores when every Acquire waits for ever           *)
(* (timeout_ms = -1, the default of Sem::Acquire).  What they state is not *)
(* so with timeouts: there the runs MCXSemDoubleWake and                   *)
(* MCXSemTwoCreditors find it violated.                                    *)
(***************************************************************************)
EXTENDS XSemProofs

\* A parked fiber is inside the Acquire of that semaphore and nowhere else.
ParkedInv ==
    \A f \in Fibers, s \in DOMAIN semInfos :
        Parked(f, s) => ~Placed(f) /\ loc[f] = "acquire" /\ call[f].sem = s

\* A live fiber is somewhere.
NobodyLost ==
    \A f \in Fibers : Live(f) /\ ~Placed(f) =>
        call[f].sem \in DOMAIN semInfos /\ Parked(f, call[f].sem)

NoDeadlines == \A f \in Fibers : call[f].expireAt = -1

\* When nobody is creditor whoever is parked waits for units that are out.
UnitsAreOut ==
    \A s \in DOMAIN semInfos, f \in Fibers :
        Parked(f, s) /\ semInfos[s].ucba = NoFiber => semInfos[s].value < InitValue[s]

PlacesInv == AtMostOnce /\ TimersAreSleeps /\ ParkedInv /\ NobodyLost
SharesInv == SingleCreditor /\ NoIdleUnits /\ UnitsAreOut

\* What holds besides SemIInv when no call has a deadline.
UntimedInv == NoDeadlines /\ PlacesInv /\ SharesInv

-----------------------------------------------------------------------------
(* UntimedInv is inductive relative to SemIInv.                            *)

\* At the start there is no semaphore and nobody is anywhere.
LEMMA UntimedInitInv == SemInit => UntimedInv
<1> SUFFICES ASSUME SemInit PROVE UntimedInv
  OBVIOUS
<1>1. /\ Queue = <<>> /\ cur = NoFiber /\ DOMAIN expireEvents = {}
      /\ \A f \in Fibers : loc[f] = "none" /\ call[f] = NoCall
      /\ DOMAIN semInfos = {}
  BY DEF SemInit, Init, Queue
<1>2. IsInjective(Queue) /\ \A f \in Fibers : ~Queued(f) /\ ~HasTimer(f) /\ ~Live(f)
  BY <1>1 DEF IsInjective, Queued, HasTimer, Live, Range
<1>3. AtMostOnce /\ TimersAreSleeps
  BY <1>1, <1>2, ConstantsAssumption DEF AtMostOnce, Placed, TimersAreSleeps
<1>4. ParkedInv /\ NobodyLost /\ NoDeadlines
  BY <1>1, <1>2 DEF ParkedInv, NobodyLost, NoDeadlines, NoCall
<1>5. SharesInv
  BY <1>1 DEF SharesInv, SingleCreditor, NoIdleUnits, UnitsAreOut
<1> QED
  BY <1>3, <1>4, <1>5 DEF UntimedInv, PlacesInv

\* The steps of the scheduler move no fiber that waits in Acquire.
LEMMA UntimedSchedulerKeeps ==
    ASSUME SemIInv, UntimedInv, [Next]_vars, UNCHANGED semVars
    PROVE  UntimedInv'
<1> USE DEF semVars
<1>1. Locations \subseteq SemLocations /\ "acquire" \notin Locations /\ "none" # "acquire"
  BY DEF Locations, SemLocations
<1>2. /\ AtMostOnce' /\ TimersAreSleeps'
      /\ \A f \in Fibers :
            /\ Live(f)' /\ ~Placed(f)' => Live(f) /\ ~Placed(f)
            /\ Placed(f)' => Placed(f) \/ loc[f] = "none"
  BY <1>1, StepKeepsPlaces DEF SemIInv, UntimedInv, PlacesInv
<1>3. \A f \in Fibers : loc[f] \notin Locations => loc'[f] = loc[f]
  BY <1>1, StepKeepsForeign DEF SemIInv
<1>4. ParkedInv'
  BY <1>1, <1>2, <1>3 DEF UntimedInv, PlacesInv, ParkedInv, Parked
<1>5. NobodyLost'
  BY <1>2 DEF UntimedInv, PlacesInv, NobodyLost, Parked
<1>6. SharesInv' /\ NoDeadlines'
  BY DEF UntimedInv, SharesInv, SingleCreditor, NoIdleUnits, UnitsAreOut, Parked,
         NoDeadlines
<1> QED
  BY <1>2, <1>4, <1>5, <1>6 DEF UntimedInv, PlacesInv

\* A semaphore that is registered has no one parked and all its units.
LEMMA UntimedRegisterSemKeeps ==
    ASSUME UntimedInv, NEW s \in Sems, RegisterSem(s)
    PROVE  UntimedInv'
<1> USE DEF vars
<1>1. /\ s \notin DOMAIN semInfos
      /\ DOMAIN semInfos' = DOMAIN semInfos \cup {s}
      /\ \A r \in DOMAIN semInfos : semInfos'[r] = semInfos[r]
      /\ semInfos'[s].fibers = {}
      /\ UNCHANGED <<vars, call, held>>
      /\ \A f \in Fibers : call[f].sem # s
  BY DEF RegisterSem, Unused
<1>2. AtMostOnce' /\ TimersAreSleeps' /\ NoDeadlines'
      /\ \A f \in Fibers : (Placed(f)' <=> Placed(f)) /\ (Live(f)' <=> Live(f))
  BY <1>1 DEF UntimedInv, PlacesInv, AtMostOnce, TimersAreSleeps, NoDeadlines, Placed,
              HasTimer, Queued, Queue, Live
<1>3. ParkedInv' /\ NobodyLost'
  BY <1>1, <1>2 DEF UntimedInv, PlacesInv, ParkedInv, NobodyLost, Parked
<1>4. SharesInv'
  BY <1>1 DEF UntimedInv, SharesInv, SingleCreditor, NoIdleUnits, UnitsAreOut, Parked
<1> QED
  BY <1>2, <1>3, <1>4 DEF UntimedInv, PlacesInv

\* Everybody parked on s is scheduled, once, whether s is erased or only emptied.
LEMMA UntimedWake ==
    ASSUME SemIInv, UntimedInv, NEW s \in DOMAIN semInfos,
           WakeUpFibers(WakeOrder[semInfos[s].fibers]),
           UNCHANGED <<running, cur, loc, expireAt, call>>,
           DOMAIN semInfos' \subseteq DOMAIN semInfos,
           \A r \in DOMAIN semInfos \ {s} :
                r \in DOMAIN semInfos' /\ semInfos'[r] = semInfos[r],
           s \in DOMAIN semInfos' => semInfos'[s].fibers = {}
    PROVE  PlacesInv' /\ NoDeadlines'
<1> DEFINE S == semInfos[s].fibers
<1>1. S \in SUBSET Fibers /\ \A f \in S : ~Placed(f) /\ Live(f)
  BY DEF SemIInv, SemTypes, SemInfo, UntimedInv, PlacesInv, ParkedInv, Parked, Live
<1>2. /\ AtMostOnce'
      /\ \A f \in Fibers : /\ Placed(f)' <=> Placed(f) \/ f \in S
                           /\ HasTimer(f)' <=> HasTimer(f)
  <2> HIDE DEF S
  <2>1. WakeUpFibers(WakeOrder[S])
    BY DEF S
  <2> QED
    BY <1>1, <2>1, WakeKeepsPlaces DEF SemIInv, UntimedInv, PlacesInv
<1>3. TimersAreSleeps' /\ NoDeadlines'
  BY <1>2 DEF UntimedInv, PlacesInv, TimersAreSleeps, NoDeadlines
<1>4. ParkedInv'
  BY <1>2 DEF UntimedInv, PlacesInv, ParkedInv, Parked
<1>5. NobodyLost'
  BY <1>2 DEF UntimedInv, PlacesInv, NobodyLost, Parked, Live
<1> QED
  BY <1>2, <1>3, <1>4, <1>5 DEF PlacesInv

\* A semaphore that goes schedules whoever was parked on it, each once.
LEMMA UntimedUnregisterSemKeeps ==
    ASSUME SemIInv, UntimedInv, NEW f \in Fibers, NEW s \in Sems, UnregisterSem(f, s)
    PROVE  UntimedInv'
<1>1. /\ s \in DOMAIN semInfos
      /\ DOMAIN semInfos' = DOMAIN semInfos \ {s}
      /\ \A r \in DOMAIN semInfos' : semInfos'[r] = semInfos[r]
      /\ WakeUpFibers(WakeOrder[semInfos[s].fibers])
      /\ UNCHANGED <<running, cur, loc, expireAt, call>>
  BY DEF UnregisterSem, Restrict, WakeAll
<1>2. PlacesInv' /\ NoDeadlines'
  BY <1>1, UntimedWake
<1>3. SharesInv'
  BY <1>1 DEF UntimedInv, SharesInv, SingleCreditor, NoIdleUnits, UnitsAreOut, Parked
<1> QED
  BY <1>2, <1>3 DEF UntimedInv

\* A release schedules everyone who is parked, so none is parked beside its units.
LEMMA UntimedReleaseKeeps ==
    ASSUME SemIInv, UntimedInv, NEW f \in Fibers, NEW s \in Sems,
           NEW n \in AcquireSizes, Release(f, s, n)
    PROVE  UntimedInv'
<1>1. ReleaseEffect(f, s, n)
  BY ReleaseHas DEF SemIInv
<1> USE DEF ReleaseEffect, Only, OthersWoken
<1>2. PlacesInv' /\ NoDeadlines'
  BY <1>1, UntimedWake
<1>3. SharesInv'
  BY <1>1 DEF UntimedInv, SharesInv, SingleCreditor, NoIdleUnits, UnitsAreOut, Parked
<1> QED
  BY <1>2, <1>3 DEF UntimedInv

\* The fiber on the CPU enters Acquire: it has nothing yet and stays on the CPU.
LEMMA UntimedAcquireKeeps ==
    ASSUME SemIInv, UntimedInv, NEW f \in Fibers, NEW s \in Sems,
           NEW n \in AcquireSizes, Acquire(f, s, n, -1)
    PROVE  UntimedInv'
<1> USE DEF queueVars, timerVars
<1>1. /\ cur = f /\ loc[f] = "user"
      /\ call'[f].done = 0 /\ call'[f].expireAt = -1
      /\ loc' = [loc EXCEPT ![f] = "acquire"]
      /\ \A g \in Fibers \ {f} : call'[g] = call[g]
      /\ UNCHANGED <<ready, running, cur, expireAt, expireEvents, semInfos>>
  BY DEF Acquire, InUser, SemIInv, SemTypes
<1>2. \A g \in Fibers : /\ Placed(g)' <=> Placed(g)
                        /\ HasTimer(g)' <=> HasTimer(g)
                        /\ Queued(g)' <=> Queued(g)
                        /\ Live(g)' <=> Live(g)
  BY <1>1 DEF Placed, HasTimer, Queued, Queue, Live, SemIInv, SchedTypes
<1>3. AtMostOnce'
  BY <1>1, <1>2 DEF UntimedInv, PlacesInv, AtMostOnce, Queue
<1>4. Placed(f) /\ ~HasTimer(f)
  BY <1>1 DEF Placed, UntimedInv, PlacesInv, AtMostOnce
<1>5. \A g \in Fibers \ {f} : loc'[g] = loc[g]
  BY <1>1 DEF SemIInv, SchedTypes
<1>6. TimersAreSleeps' /\ NoDeadlines'
  BY <1>1, <1>2, <1>4, <1>5
     DEF UntimedInv, PlacesInv, TimersAreSleeps, NoDeadlines
<1>7. ParkedInv'
  BY <1>1, <1>2, <1>4, <1>5 DEF UntimedInv, PlacesInv, ParkedInv, Parked
<1>8. NobodyLost'
  BY <1>1, <1>2, <1>4 DEF UntimedInv, PlacesInv, NobodyLost, Parked
<1>9. SharesInv'
  BY <1>1 DEF UntimedInv, SharesInv, SingleCreditor, NoIdleUnits, UnitsAreOut, Parked
<1> QED
  BY <1>3, <1>6, <1>7, <1>8, <1>9 DEF UntimedInv, PlacesInv

\* The grant of the last missing units to f, which is the creditor or finds none.
LEMMA UntimedGrantedKeeps ==
    ASSUME SemIInv, UntimedInv, SemIInv', NEW f \in Fibers, AcquireGranted(f)
    PROVE  UntimedInv'
<1>1. PICK s \in Sems : GrantedEffect(f, s)
  BY GrantedHas DEF SemIInv, SchedTypes
<1> USE DEF GrantedEffect, Only, SameOthersParked
<1>2. /\ loc'[f] = "user" /\ \A g \in Fibers \ {f} : loc'[g] = loc[g]
      /\ call'[f] = NoCall /\ NoCall.expireAt = -1 /\ NoCall.sem = NoSem
  BY <1>1 DEF SemIInv, SchedTypes, NoCall
<1>3. \A g \in Fibers : /\ Placed(g)' <=> Placed(g)
                        /\ HasTimer(g)' <=> HasTimer(g)
                        /\ Queued(g)' <=> Queued(g)
                        /\ Live(g)' <=> Live(g)
  BY <1>1, <1>2 DEF Placed, HasTimer, Queued, Queue, Live
<1>4. AtMostOnce'
  BY <1>1, <1>3 DEF UntimedInv, PlacesInv, AtMostOnce, Queue
<1>5. Placed(f) /\ ~HasTimer(f)
  BY <1>1 DEF Placed, UntimedInv, PlacesInv, AtMostOnce
<1>6. TimersAreSleeps' /\ NoDeadlines'
  BY <1>1, <1>2, <1>3, <1>5 DEF UntimedInv, PlacesInv, TimersAreSleeps, NoDeadlines
<1>7. \A r \in DOMAIN semInfos : ~Parked(f, r) /\ ~Parked(f, r)'
  BY <1>1, <1>5 DEF UntimedInv, PlacesInv, ParkedInv, Parked
<1>8. \A g \in Fibers, r \in DOMAIN semInfos : Parked(g, r)' <=> Parked(g, r)
  BY <1>1, <1>7 DEF Parked
<1>9. ParkedInv'
  BY <1>1, <1>2, <1>3, <1>7, <1>8 DEF UntimedInv, PlacesInv, ParkedInv
<1>10. NobodyLost'
  BY <1>1, <1>3, <1>5, <1>8 DEF UntimedInv, PlacesInv, NobodyLost
<1>11. semInfos'[s].value < InitValue[s]
  <2>1. call[f].apply \in Nat \ {0} /\ held[f][s] \in Nat
    BY <1>1 DEF SemIInv, SemTypes, CallInv, Call
  <2>2. held'[f][s] = held[f][s] + call[f].apply
    BY <1>1 DEF SemIInv, SemTypes
  <2>3. Owned(f, s)' = held[f][s] + call[f].apply + 0
    BY <1>1, <1>2, <2>2 DEF Owned, Partial
  <2>4. /\ IsFiniteSet(UnitsOut(s)')
        /\ semInfos'[s].value + Cardinality(UnitsOut(s)') = InitValue[s]
        /\ semInfos'[s].value \in Nat
    BY <1>1 DEF SemIInv, CountInv, SemTypes, SemInfo
  <2>5. Owned(f, s)' <= Cardinality(UnitsOut(s)') /\ Cardinality(UnitsOut(s)') \in Nat
    <3> DEFINE g == [e \in Fibers |-> Owned(e, s)']
    <3>1. UnitsOut(s)' = Units(g)
      BY DEF UnitsOut, Units, Owned
    <3>2. \A e \in Fibers : Owned(e, s)' \in Nat
      BY DEF SemIInv, SemTypes, Call, Owned, Partial
    <3>3. g \in [Fibers -> Nat] /\ g[f] = Owned(f, s)'
      BY <3>2
    <3> HIDE DEF g
    <3>4. g[f] <= Cardinality(Units(g)) /\ Cardinality(Units(g)) \in Nat
      BY <2>4, <3>1, <3>3, UnitsChange
    <3> QED
      BY <3>1, <3>3, <3>4
  <2> QED
    BY <2>1, <2>3, <2>4, <2>5
<1>12. SingleCreditor'
  BY <1>1, <1>2, ConstantsAssumption, SemConstantsAssumption
     DEF UntimedInv, SharesInv, SingleCreditor, SemIInv, SemTypes
<1>13. NoIdleUnits' /\ UnitsAreOut'
  BY <1>1, <1>8, <1>11, ConstantsAssumption
     DEF UntimedInv, SharesInv, NoIdleUnits, UnitsAreOut
<1> QED
  BY <1>4, <1>6, <1>9, <1>10, <1>12, <1>13 DEF UntimedInv, PlacesInv, SharesInv

\* f leaves the CPU to be parked, and is the creditor or has no share.
LEMMA UntimedBlocksKeeps ==
    ASSUME SemIInv, UntimedInv, NEW f \in Fibers, AcquireBlocks(f)
    PROVE  UntimedInv'
<1>1. PICK s \in Sems : BlocksEffect(f, s)
  BY BlocksHas DEF SemIInv, SchedTypes
<1> USE DEF BlocksEffect, Only, SameOthersParked
<1>2. /\ call'[f].sem = s /\ call'[f].expireAt = call[f].expireAt
      /\ call[f].expireAt = -1
  BY <1>1 DEF SemIInv, SemTypes, Call, UntimedInv, NoDeadlines
<1>3. UNCHANGED <<expireAt, expireEvents, Queue, loc>>
  BY <1>1, <1>2 DEF RegisterDeadline, timerVars, Queue
<1>4. \A g \in Fibers : /\ HasTimer(g)' <=> HasTimer(g)
                        /\ Queued(g)' <=> Queued(g)
                        /\ Live(g)' <=> Live(g)
  BY <1>3 DEF HasTimer, Queued, Live
<1>5. Placed(f) /\ ~HasTimer(f) /\ ~Queued(f)
  BY <1>1 DEF Placed, UntimedInv, PlacesInv, AtMostOnce
<1>6. ~Placed(f)' /\ \A g \in Fibers \ {f} : Placed(g)' <=> Placed(g)
  BY <1>1, <1>4, <1>5, ConstantsAssumption DEF Placed
<1>7. AtMostOnce'
  BY <1>1, <1>3, <1>4, <1>6, ConstantsAssumption DEF UntimedInv, PlacesInv, AtMostOnce
<1>8. TimersAreSleeps' /\ NoDeadlines'
  BY <1>1, <1>2, <1>3, <1>4 DEF UntimedInv, PlacesInv, TimersAreSleeps, NoDeadlines
<1>9. /\ \A r \in DOMAIN semInfos : Parked(f, r)' <=> r = s
      /\ \A g \in Fibers \ {f}, r \in DOMAIN semInfos : Parked(g, r)' <=> Parked(g, r)
  BY <1>1, <1>5 DEF UntimedInv, PlacesInv, ParkedInv, Parked
<1>10. ParkedInv'
  BY <1>1, <1>2, <1>3, <1>6, <1>9 DEF UntimedInv, PlacesInv, ParkedInv
<1>11. NobodyLost'
  BY <1>1, <1>2, <1>4, <1>6, <1>9 DEF UntimedInv, PlacesInv, NobodyLost
<1>12. SingleCreditor'
  BY <1>1, <1>2, ConstantsAssumption DEF UntimedInv, SharesInv, SingleCreditor
<1>13. semInfos'[s].ucba # NoFiber
  BY <1>1, ConstantsAssumption
<1>14. UnitsAreOut'
  BY <1>1, <1>9, <1>13 DEF UntimedInv, SharesInv, UnitsAreOut
<1>15. NoIdleUnits'
  <2> SUFFICES ASSUME NEW r \in DOMAIN semInfos, NEW g \in Fibers,
                      Parked(g, r)', semInfos'[r].ucba = g
               PROVE  semInfos'[r].value = 0
    BY <1>1 DEF NoIdleUnits
  <2>1. CASE r # s
    BY <1>1, <1>9, <2>1 DEF UntimedInv, SharesInv, NoIdleUnits
  <2>2. CASE r = s /\ semInfos[s].ucba \in {f, NoFiber}
    BY <1>1, <2>2
  <2>3. CASE r = s /\ semInfos[s].ucba \notin {f, NoFiber}
    <3>1. g # f /\ Parked(g, s) /\ semInfos[s].ucba = g
      BY <1>1, <1>9, <2>3
    <3>2. semInfos[s].value = 0
      BY <1>1, <3>1 DEF UntimedInv, SharesInv, NoIdleUnits
    <3>3. /\ call'[f].done = call[f].done /\ call[f].done \in Nat
          /\ semInfos'[s].value \in Nat
          /\ semInfos'[s].value + call'[f].done = semInfos[s].value + call[f].done
      BY <1>1, <2>3 DEF SemIInv, SemTypes, Call, SemInfo
    <3> QED
      BY <2>3, <3>2, <3>3
  <2> QED
    BY <2>1, <2>2, <2>3
<1> QED
  BY <1>7, <1>8, <1>10, <1>11, <1>12, <1>14, <1>15 DEF UntimedInv, PlacesInv, SharesInv

\* Every step keeps UntimedInv when no client passes a timeout.
LEMMA UntimedNextKeeps ==
    ASSUME Timeouts \subseteq {-1}
    PROVE  SemIInv /\ UntimedInv /\ SemIInv' /\ [SemNext]_allVars => UntimedInv'
<1> SUFFICES ASSUME SemIInv, UntimedInv, SemIInv', [SemNext]_allVars PROVE UntimedInv'
  OBVIOUS
<1>1. CASE SemDispatch
  BY <1>1, UntimedSchedulerKeeps DEF SemDispatch, Next
<1>2. ASSUME NEW f \in Fibers, (CreateFiber(f) \/ GiveUpCpu(f)) /\ UNCHANGED semVars
      PROVE  UntimedInv'
  BY <1>2, UntimedSchedulerKeeps DEF Next
<1>3. CASE (EnterDispatch \/ Tick) /\ UNCHANGED semVars
  BY <1>3, UntimedSchedulerKeeps DEF Next
<1>4. CASE UNCHANGED allVars
  BY <1>4, UntimedSchedulerKeeps DEF allVars
<1>5. ASSUME NEW s \in Sems, RegisterSem(s) PROVE UntimedInv'
  BY <1>5, UntimedRegisterSemKeeps
<1>6. ASSUME NEW f \in Fibers, NEW s \in Sems, UnregisterSem(f, s) PROVE UntimedInv'
  BY <1>6, UntimedUnregisterSemKeeps
<1>7. ASSUME NEW f \in Fibers, NEW s \in Sems, NEW n \in AcquireSizes,
             NEW ms \in Timeouts, Acquire(f, s, n, ms)
      PROVE  UntimedInv'
  <2>1. ms = -1
    OBVIOUS
  <2> QED
    BY <1>7, <2>1, UntimedAcquireKeeps
<1>8. ASSUME NEW f \in Fibers, NEW s \in Sems, NEW n \in AcquireSizes, Release(f, s, n)
      PROVE  UntimedInv'
  BY <1>8, UntimedReleaseKeeps
<1>9. ASSUME NEW f \in Fibers, AcquireStep(f) PROVE UntimedInv'
  <2>1. ~AcquireTimedOut(f)
    BY DEF AcquireTimedOut, TimedOut, UntimedInv, NoDeadlines
  <2> QED
    BY <1>9, <2>1, UntimedGrantedKeeps, UntimedBlocksKeeps DEF AcquireStep
<1> QED
  BY <1>1, <1>2, <1>3, <1>4, <1>5, <1>6, <1>7, <1>8, <1>9 DEF SemNext

\* Both invariants hold in every state when nobody gives a deadline.
LEMMA UntimedInvariant ==
    ASSUME Timeouts \subseteq {-1}
    PROVE  SemSpec => [](SemIInv /\ UntimedInv)
<1>1. SemIInv /\ UntimedInv /\ SemIInv' /\ [SemNext]_allVars => UntimedInv'
  BY UntimedNextKeeps
<1> QED
  BY <1>1, UntimedInitInv, SemInvariant, PTL DEF SemSpec

-----------------------------------------------------------------------------
(* The theorems.                                                           *)

\* Without timeouts a fiber is never scheduled twice, never lost, and never both
\* parked and on its way: what WakeUpFiber and fibers_ of SemInfo are for.
THEOREM OnePlaceOnly ==
    ASSUME Timeouts \subseteq {-1}
    PROVE  SemSpec => []InOnePlace
<1>1. SemIInv /\ UntimedInv => InOnePlace
  <2> SUFFICES ASSUME SemIInv, UntimedInv PROVE InOnePlace
    OBVIOUS
  <2>1. \A f \in Fibers, s \in DOMAIN semInfos :
            Parked(f, s) => ~Queued(f) /\ cur # f /\ call[f].sem = s /\ Live(f)
    BY DEF UntimedInv, PlacesInv, ParkedInv, Placed, Live
  <2>2. \A f \in Fibers : Live(f) <=> (Placed(f) \/ \E s \in DOMAIN semInfos : Parked(f, s))
    BY <2>1 DEF UntimedInv, PlacesInv, NobodyLost, AtMostOnce
  <2> QED
    BY <2>1, <2>2 DEF UntimedInv, PlacesInv, AtMostOnce, TimersAreSleeps, Placed, InOnePlace
<1> QED
  BY <1>1, UntimedInvariant, PTL

\* Without timeouts only the recorded creditor keeps units while it waits for more,
\* so two calls of Acquire never wait for each other's share.
THEOREM OneCreditor ==
    ASSUME Timeouts \subseteq {-1}
    PROVE  SemSpec => []SingleCreditor
<1>1. UntimedInv => SingleCreditor
  BY DEF UntimedInv, SharesInv
<1> QED
  BY <1>1, UntimedInvariant, PTL

\* Without timeouts no unit lies in value_ while the creditor is parked.
THEOREM UnitsNeverIdle ==
    ASSUME Timeouts \subseteq {-1}
    PROVE  SemSpec => []NoIdleUnits
<1>1. UntimedInv => NoIdleUnits
  BY DEF UntimedInv, SharesInv
<1> QED
  BY <1>1, UntimedInvariant, PTL

\* Without timeouts nobody is parked whom no release would wake: units are out beyond
\* the share it has collected, or a creditor is served first.
THEOREM WakeupNeverLost ==
    ASSUME Timeouts \subseteq {-1}
    PROVE  SemSpec => []NoLostWakeup
<1>1. SemIInv /\ UntimedInv => NoLostWakeup
  <2> SUFFICES ASSUME SemIInv, UntimedInv, NEW s \in DOMAIN semInfos, NEW f \in Fibers,
                      Parked(f, s), semInfos[s].ucba \in {f, NoFiber}
               PROVE  semInfos[s].value + call[f].done < InitValue[s]
    BY DEF NoLostWakeup
  <2>1. call[f].sem = s /\ s # NoSem
    BY SemConstantsAssumption
       DEF SemIInv, SemTypes, UntimedInv, PlacesInv, ParkedInv
  <2>2. /\ call[f].done \in Nat /\ call[f].apply \in Nat /\ InitValue[s] \in Nat
        /\ call[f].done < call[f].apply /\ call[f].apply <= InitValue[s]
        /\ semInfos[s].value \in Nat
    BY <2>1, SemConstantsAssumption DEF SemIInv, SemTypes, CallInv, Call, SemInfo
  <2>3. CASE semInfos[s].ucba = f
    BY <2>2, <2>3 DEF UntimedInv, SharesInv, NoIdleUnits
  <2>4. CASE semInfos[s].ucba = NoFiber
    <3>1. call[f].done = 0
      BY <2>1, <2>2, <2>4, ConstantsAssumption DEF UntimedInv, SharesInv, SingleCreditor
    <3> QED
      BY <2>2, <2>4, <3>1 DEF UntimedInv, SharesInv, UnitsAreOut
  <2> QED
    BY <2>3, <2>4
<1> QED
  BY <1>1, UntimedInvariant, PTL
=============================================================================
