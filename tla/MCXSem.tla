------------------------------- MODULE MCXSem -------------------------------
(* Instances of XSem for TLC: up to three fibers and one semaphore.        *)
EXTENDS XSem

CONSTANTS f1, f2, f3, s1

MCFibers2 == {f1, f2}
MCFibers3 == {f1, f2, f3}

MCWakeOrder ==
    [S \in SUBSET Fibers |-> SelectSeq(<<f1, f2, f3>>, LAMBDA f : f \in S)]

MCSems == {s1}
MCInitValue2 == [s \in MCSems |-> 2]
MCSizes2 == {1, 2}
MCForever == {-1}
MCTimeouts == {-1, 0, 1}
MCNoSleep == {}
MCSleep1 == {1}
=============================================================================
