-------------------------- MODULE CountingSemProofs --------------------------
(***************************************************************************)
(* XSem implements CountingSem, with any timeouts and with semaphores that *)
(* are unregistered while fibers wait.                                     *)
(***************************************************************************)
EXTENDS XSemProofs

\* free of CountingSem: what nobody holds, the shares of pending calls included.
FreeOf(s) == semInfos[s].value + Cardinality(PartialUnits(s))
Free == [s \in DOMAIN semInfos |-> FreeOf(s)]

\* The shares are among the units that are out, so they are finitely many.
LEMMA SharesFinite ==
    ASSUME SemTypes, CountInv, NEW s \in DOMAIN semInfos
    PROVE  IsFiniteSet(PartialUnits(s)) /\ FreeOf(s) \in Nat
<1>1. \A f \in Fibers : held[f][s] \in Nat /\ Partial(f, s) \in Nat
  BY DEF SemTypes, Partial, Call
<1>2. PartialUnits(s) \subseteq UnitsOut(s)
  <2>1. \A f \in Fibers : 1 .. Partial(f, s) \subseteq 1 .. held[f][s] + Partial(f, s)
    BY <1>1
  <2> QED
    BY <2>1 DEF PartialUnits, UnitsOut
<1>3. IsFiniteSet(PartialUnits(s))
  BY <1>2, FS_Subset DEF CountInv
<1>4. Cardinality(PartialUnits(s)) \in Nat /\ semInfos[s].value \in Nat
  BY <1>3, FS_CardinalityType DEF SemTypes, SemInfo
<1> QED
  BY <1>3, <1>4 DEF FreeOf

\* A step of one fiber that changes one record changes what is free by the difference
\* of value_ and of the share.
LEMMA FreeChange ==
    ASSUME SemTypes, CountInv, SemTypes', NEW f \in Fibers, NEW s, Only(f, s),
           \A g \in Fibers, r \in Sems : g # f \/ r # s => Partial(g, r)' = Partial(g, r)
    PROVE  /\ Free' = [Free EXCEPT ![s] = FreeOf(s)']
           /\ s \in DOMAIN Free /\ Free[s] = FreeOf(s)
           /\ FreeOf(s)' = FreeOf(s) - semInfos[s].value - Partial(f, s)
                                + semInfos'[s].value + Partial(f, s)'
           /\ semInfos[s].value + Partial(f, s) <= FreeOf(s)
<1> USE DEF Only
<1> DEFINE g == [e \in Fibers |-> Partial(e, s)]
           h == [e \in Fibers |-> Partial(e, s)']
<1>1. /\ \A e \in Fibers : Partial(e, s) \in Nat /\ Partial(e, s)' \in Nat
      /\ g \in [Fibers -> Nat] /\ h \in [Fibers -> Nat]
  <2>1. \A e \in Fibers : Partial(e, s) \in Nat /\ Partial(e, s)' \in Nat
    BY DEF SemTypes, Call, Partial
  <2> QED
    BY <2>1
<1>2. PartialUnits(s) = Units(g) /\ PartialUnits(s)' = Units(h)
  BY DEF PartialUnits, Units
<1>3. \A e \in Fibers : g[e] = Partial(e, s) /\ h[e] = Partial(e, s)'
  OBVIOUS
<1> HIDE DEF g, h
<1>4. IsFiniteSet(Units(g)) /\ \A e \in Fibers \ {f} : h[e] = g[e]
  BY <1>2, <1>3, SharesFinite
<1>5. /\ Cardinality(Units(g)) \in Nat /\ Cardinality(Units(h)) \in Nat
      /\ Cardinality(Units(h)) = Cardinality(Units(g)) - g[f] + h[f]
      /\ g[f] <= Cardinality(Units(g))
  BY <1>1, <1>4, UnitsChange
<1>6. semInfos[s].value \in Nat /\ semInfos'[s].value \in Nat
  BY DEF SemTypes, SemInfo
<1>7. /\ FreeOf(s) = semInfos[s].value + Cardinality(Units(g))
      /\ FreeOf(s)' = semInfos'[s].value + Cardinality(Units(h))
  BY <1>2 DEF FreeOf
<1>8. \A r \in DOMAIN semInfos \ {s} : FreeOf(r)' = FreeOf(r)
  <2> SUFFICES ASSUME NEW r \in DOMAIN semInfos \ {s}
               PROVE  PartialUnits(r)' = PartialUnits(r)
    BY DEF FreeOf
  <2>1. r \in Sems /\ \A e \in Fibers : Partial(e, r)' = Partial(e, r)
    BY DEF SemTypes
  <2> QED
    BY <2>1 DEF PartialUnits
<1>9. Free' = [Free EXCEPT ![s] = FreeOf(s)']
  BY <1>8 DEF Free
<1>10. s \in DOMAIN Free /\ Free[s] = FreeOf(s)
  BY DEF Free
<1>11. g[f] \in Nat /\ h[f] \in Nat
  BY <1>1
<1> QED
  BY <1>1, <1>3, <1>5, <1>6, <1>7, <1>9, <1>10, <1>11

\* A step that changes no record, no share and nothing held is not visible.
LEMMA InvisibleStep ==
    ASSUME semInfos' = semInfos, held' = held,
           \A f \in Fibers, s \in DOMAIN semInfos : Partial(f, s)' = Partial(f, s)
    PROVE  Free' = Free /\ held' = held
BY DEF Free, FreeOf, PartialUnits

-----------------------------------------------------------------------------
(* Every step of XSem is one of CountingSem or not visible in it.          *)

\* At the start neither knows a semaphore.
LEMMA SemInitMaps == SemInit => Abstract!Init
BY DEF SemInit, Abstract!Init

\* A registered semaphore has all its units free.
LEMMA RegisterSemMaps ==
    ASSUME SemIInv, NEW s \in Sems, RegisterSem(s)
    PROVE  Abstract!Create(s)
<1>1. /\ s \notin DOMAIN semInfos /\ DOMAIN semInfos' = DOMAIN semInfos \cup {s}
      /\ \A r \in DOMAIN semInfos : semInfos'[r] = semInfos[r]
      /\ semInfos'[s].value = InitValue[s]
      /\ UNCHANGED <<call, held>>
  BY DEF RegisterSem
<1>2. \A r : PartialUnits(r)' = PartialUnits(r)
  BY <1>1 DEF PartialUnits, Partial
<1>3. \A r \in DOMAIN semInfos : FreeOf(r)' = FreeOf(r)
  BY <1>1, <1>2 DEF FreeOf
<1>4. FreeOf(s)' = InitValue[s]
  <2>1. PartialUnits(s) = {}
    BY DEF RegisterSem, Unused, PartialUnits, Partial
  <2>2. Cardinality(PartialUnits(s)) = 0 /\ InitValue[s] \in Nat
    BY <2>1, FS_EmptySet, SemConstantsAssumption
  <2> QED
    BY <1>1, <1>2, <2>2 DEF FreeOf
<1>5. Free' = [r \in DOMAIN Free \cup {s} |-> IF r = s THEN InitValue[s] ELSE Free[r]]
  BY <1>1, <1>3, <1>4 DEF Free
<1>6. \A f \in Fibers : held[f][s] = 0
  BY DEF RegisterSem, Unused
<1> QED
  BY <1>1, <1>5, <1>6 DEF Abstract!Create, Free, FreeOf

\* An erased one has none, whoever was waiting for it.
LEMMA UnregisterSemMaps ==
    ASSUME NEW f \in Fibers, NEW s \in Sems, UnregisterSem(f, s)
    PROVE  Abstract!Destroy(s)
<1>1. /\ s \in DOMAIN semInfos /\ DOMAIN semInfos' = DOMAIN semInfos \ {s}
      /\ \A r \in DOMAIN semInfos' : semInfos'[r] = semInfos[r]
      /\ UNCHANGED <<call, held>>
  BY DEF UnregisterSem, Restrict
<1>2. \A r : PartialUnits(r)' = PartialUnits(r)
  BY <1>1 DEF PartialUnits, Partial
<1>3. Free' = [r \in DOMAIN Free \ {s} |-> Free[r]]
  BY <1>1, <1>2 DEF Free, FreeOf
<1> QED
  BY <1>1, <1>3 DEF Abstract!Destroy, Free, FreeOf

\* The grant of the last missing units takes all of them at once.
LEMMA AcquireGrantedMaps ==
    ASSUME SemIInv, SemTypes', NEW f \in Fibers, AcquireGranted(f)
    PROVE  \E s \in Sems : \E n \in 1 .. InitValue[s] : Abstract!Take(f, s, n)
<1>1. PICK s \in Sems : GrantedEffect(f, s)
  BY GrantedHas DEF SemIInv, SchedTypes
<1>2. /\ Only(f, s) /\ call[f].sem = s /\ s # NoSem /\ call'[f] = NoCall
      /\ \A g \in Fibers \ {f} : call'[g] = call[g]
      /\ semInfos'[s].value + call[f].apply = semInfos[s].value + call[f].done
      /\ held' = [held EXCEPT ![f][s] = @ + call[f].apply]
  BY <1>1 DEF GrantedEffect, Only
<1>3. /\ call[f].apply \in 1 .. InitValue[s] /\ call[f].done \in Nat
      /\ semInfos[s].value \in Nat /\ semInfos'[s].value \in Nat
  BY <1>2, SemConstantsAssumption
     DEF SemIInv, SemTypes, CallInv, Call, SemInfo, Only
<1>4. \A g \in Fibers, r \in Sems : g # f \/ r # s => Partial(g, r)' = Partial(g, r)
  BY <1>2, SemConstantsAssumption DEF Partial, NoCall
<1>5. Partial(f, s) = call[f].done /\ Partial(f, s)' = 0
  BY <1>2 DEF Partial, NoCall
<1>6. /\ Free' = [Free EXCEPT ![s] = FreeOf(s)']
      /\ s \in DOMAIN Free /\ Free[s] = FreeOf(s)
      /\ FreeOf(s)' = FreeOf(s) - semInfos[s].value - Partial(f, s)
                                + semInfos'[s].value + Partial(f, s)'
      /\ semInfos[s].value + Partial(f, s) <= FreeOf(s)
  BY <1>2, <1>4, FreeChange DEF SemIInv
<1>7. FreeOf(s) \in Nat
  BY <1>2, SharesFinite DEF SemIInv, Only
<1>8. FreeOf(s)' = FreeOf(s) - call[f].apply /\ call[f].apply <= FreeOf(s)
  BY <1>2, <1>3, <1>5, <1>6, <1>7
<1>9. PICK n \in 1 .. InitValue[s] : n = call[f].apply
  BY <1>3
<1>10. Abstract!Take(f, s, n)
  BY <1>2, <1>6, <1>8, <1>9 DEF Abstract!Take, Free, FreeOf
<1> QED
  BY <1>10

\* A release gives back units that were held, never more than there are.
LEMMA ReleaseMaps ==
    ASSUME SemIInv, SemTypes', NEW f \in Fibers, NEW s \in Sems, NEW n \in AcquireSizes,
           Release(f, s, n)
    PROVE  \E m \in 1 .. InitValue[s] : Abstract!Give(f, s, m)
<1>1. ReleaseEffect(f, s, n)
  BY ReleaseHas DEF SemIInv
<1>2. /\ Only(f, s) /\ call' = call /\ s \in DOMAIN semInfos
      /\ n \in Nat \ {0} /\ n <= held[f][s]
      /\ semInfos'[s].value = semInfos[s].value + n
      /\ held' = [held EXCEPT ![f][s] = @ - n]
  BY <1>1 DEF ReleaseEffect, Only
<1>3. /\ held[f][s] \in Nat /\ Partial(f, s) \in Nat
      /\ semInfos[s].value \in Nat
  BY <1>2 DEF SemIInv, SemTypes, Partial, Call, SemInfo
<1>4. n \in 1 .. InitValue[s]
  <2>1. IsFiniteSet(UnitsOut(s)) /\ semInfos[s].value + Cardinality(UnitsOut(s)) = InitValue[s]
    BY <1>2 DEF SemIInv, CountInv
  <2>2. Owned(f, s) <= Cardinality(UnitsOut(s)) /\ Cardinality(UnitsOut(s)) \in Nat
    <3> DEFINE g == [e \in Fibers |-> Owned(e, s)]
    <3>1. UnitsOut(s) = Units(g)
      BY DEF UnitsOut, Units, Owned
    <3>2. g \in [Fibers -> Nat] /\ g[f] = Owned(f, s)
      BY OwnedNat DEF SemIInv
    <3> HIDE DEF g
    <3>3. g[f] <= Cardinality(Units(g)) /\ Cardinality(Units(g)) \in Nat
      BY <2>1, <3>1, <3>2, UnitsChange
    <3> QED
      BY <3>1, <3>2, <3>3
  <2>3. n <= Owned(f, s) /\ Owned(f, s) \in Nat
    BY <1>2, <1>3 DEF Owned
  <2> QED
    BY <1>2, <1>3, <2>1, <2>2, <2>3
<1>5. \A g \in Fibers : \A r : Partial(g, r)' = Partial(g, r)
  BY <1>2 DEF Partial
<1>6. /\ Free' = [Free EXCEPT ![s] = FreeOf(s)']
      /\ s \in DOMAIN Free /\ Free[s] = FreeOf(s)
      /\ FreeOf(s)' = FreeOf(s) - semInfos[s].value - Partial(f, s)
                                + semInfos'[s].value + Partial(f, s)'
  BY <1>2, <1>5, FreeChange DEF SemIInv
<1>7. FreeOf(s) \in Nat
  BY <1>2, SharesFinite DEF SemIInv
<1>8. FreeOf(s)' = FreeOf(s) + n
  <2>1. Partial(f, s)' = Partial(f, s)
    BY <1>5
  <2> QED
    BY <1>2, <1>3, <1>6, <1>7, <2>1
<1>9. Abstract!Give(f, s, n)
  BY <1>2, <1>6, <1>8 DEF Abstract!Give, Free, FreeOf
<1> QED
  BY <1>4, <1>9

\* What an iteration gets and keeps, and what a timeout gives back, was free before
\* and is free after.
LEMMA WaitingIsInvisible ==
    ASSUME SemIInv, SemTypes', NEW f \in Fibers, AcquireTimedOut(f) \/ AcquireBlocks(f)
    PROVE  Free' = Free /\ held' = held
<1>1. PICK s \in Sems : TimedOutEffect(f, s) \/ BlocksEffect(f, s)
  BY TimedOutHas, BlocksHas DEF SemIInv, SchedTypes
<1>2. /\ Only(f, s) /\ call[f].sem = s /\ s # NoSem /\ held' = held
      /\ \A g \in Fibers \ {f} : call'[g] = call[g]
  BY <1>1 DEF TimedOutEffect, BlocksEffect, Only
<1>3. \A g \in Fibers, r \in Sems : g # f \/ r # s => Partial(g, r)' = Partial(g, r)
  <2>1. call'[f] = NoCall \/ call'[f].sem = s
    BY <1>1, <1>2 DEF TimedOutEffect, BlocksEffect, SemIInv, SemTypes, Call
  <2> QED
    BY <1>2, <2>1, SemConstantsAssumption DEF Partial, NoCall
<1>4. /\ Free' = [Free EXCEPT ![s] = FreeOf(s)']
      /\ s \in DOMAIN Free /\ Free[s] = FreeOf(s)
      /\ FreeOf(s)' = FreeOf(s) - semInfos[s].value - Partial(f, s)
                                + semInfos'[s].value + Partial(f, s)'
  BY <1>2, <1>3, FreeChange DEF SemIInv
<1>5. /\ FreeOf(s) \in Nat /\ semInfos[s].value \in Nat /\ semInfos'[s].value \in Nat
      /\ call[f].done \in Nat /\ call'[f].done \in Nat
  BY <1>2, SharesFinite DEF SemIInv, SemTypes, SemInfo, Call, Only
<1>6. Partial(f, s) = call[f].done
  BY <1>2 DEF Partial
<1>7. semInfos'[s].value + Partial(f, s)' = semInfos[s].value + Partial(f, s)
  <2>1. CASE TimedOutEffect(f, s)
    BY <1>2, <1>5, <1>6, <2>1 DEF TimedOutEffect, Partial, NoCall
  <2>2. CASE BlocksEffect(f, s)
    <3>1. call'[f].sem = s
      BY <1>2, <2>2 DEF BlocksEffect, SemIInv, SemTypes, Call
    <3> QED
      BY <1>5, <1>6, <2>2, <3>1 DEF BlocksEffect, Partial
  <2> QED
    BY <1>1, <2>1, <2>2
<1>8. FreeOf(s)' = FreeOf(s)
  <2>1. Partial(f, s)' \in Nat
    BY <1>5 DEF Partial
  <2> QED
    BY <1>4, <1>5, <1>6, <1>7, <2>1
<1>9. Free' = Free
  BY <1>4, <1>8 DEF Free
<1> QED
  BY <1>2, <1>9

\* Every step is one of the abstract semaphore, or leaves free and held as they are.
LEMMA SemNextMaps ==
    SemIInv /\ SemIInv' /\ [SemNext]_allVars => [Abstract!Next]_<<Free, held>>
<1> SUFFICES ASSUME SemIInv, SemIInv', [SemNext]_allVars
             PROVE  Abstract!Next \/ (Free' = Free /\ held' = held)
  OBVIOUS
<1>1. CASE UNCHANGED semVars
  BY <1>1, InvisibleStep DEF semVars, Partial
<1>2. ASSUME NEW s \in Sems, RegisterSem(s) PROVE Abstract!Next
  BY <1>2, RegisterSemMaps DEF Abstract!Next
<1>3. ASSUME NEW f \in Fibers, NEW s \in Sems, UnregisterSem(f, s) PROVE Abstract!Next
  BY <1>3, UnregisterSemMaps DEF Abstract!Next
<1>4. ASSUME NEW f \in Fibers, NEW s \in Sems, NEW n \in AcquireSizes,
             NEW ms \in Timeouts, Acquire(f, s, n, ms)
      PROVE  Free' = Free /\ held' = held
  <2>1. /\ loc[f] = "user" /\ semInfos' = semInfos /\ held' = held
        /\ \A g \in Fibers \ {f} : call'[g] = call[g]
        /\ call'[f].sem = s /\ call'[f].done = 0
    BY <1>4 DEF Acquire, InUser, SemIInv, SemTypes
  <2>2. call[f].sem = NoSem
    BY <2>1 DEF SemIInv, CallInv
  <2>3. \A r \in DOMAIN semInfos : r # NoSem
    BY SemConstantsAssumption DEF SemIInv, SemTypes
  <2>4. \A g \in Fibers, r \in DOMAIN semInfos : Partial(g, r)' = Partial(g, r)
    BY <2>1, <2>2, <2>3 DEF Partial
  <2> QED
    BY <2>1, <2>4, InvisibleStep
<1>5. ASSUME NEW f \in Fibers, NEW s \in Sems, NEW n \in AcquireSizes, Release(f, s, n)
      PROVE  Abstract!Next
  BY <1>5, ReleaseMaps DEF SemIInv, Abstract!Next
<1>6. ASSUME NEW f \in Fibers, AcquireGranted(f) PROVE Abstract!Next
  BY <1>6, AcquireGrantedMaps DEF SemIInv, Abstract!Next
<1>7. ASSUME NEW f \in Fibers, AcquireTimedOut(f) \/ AcquireBlocks(f)
      PROVE  Free' = Free /\ held' = held
  BY <1>7, WaitingIsInvisible DEF SemIInv
<1> QED
  BY <1>1, <1>2, <1>3, <1>4, <1>5, <1>6, <1>7
     DEF SemNext, SemDispatch, AcquireStep, allVars, semVars

\* Seen by its clients, a Sem is an atomic counting semaphore: the loop of Acquire,
\* its partial grants and the creditor, timeouts and unregistering do not show, and
\* no unit is handed out that is not free.
THEOREM ImplementsSem == SemSpec => ImplementsCountingSem
<1>1. SemInit => Abstract!Init
  BY SemInitMaps
<1>2. SemIInv /\ SemIInv' /\ [SemNext]_allVars => [Abstract!Next]_<<Free, held>>
  BY SemNextMaps
<1>3. SemIInv /\ SemIInv' /\ [SemNext]_allVars =>
        [Abstract!Next]_<<[s \in DOMAIN semInfos |->
                             semInfos[s].value + Cardinality(PartialUnits(s))], held>>
  BY <1>2 DEF Free, FreeOf
<1> QED
  BY <1>1, <1>3, SemInvariant, PTL DEF SemSpec, ImplementsCountingSem, Abstract!Spec
=============================================================================
