------------------------------ MODULE MCXFiber ------------------------------
(* An instance of XFiber for TLC: three fibers, allocated at increasing    *)
(* addresses in the order of FiberSeq (the model lets main and the fibers  *)
(* create them in any order, so every address order occurs).               *)
EXTENDS XFiber

CONSTANTS f1, f2, f3

MCFibers == {f1, f2, f3}

MCWakeOrder ==
    [S \in SUBSET MCFibers |-> SelectSeq(<<f1, f2, f3>>, LAMBDA f : f \in S)]

MCSleepTimes == 0..2
=============================================================================
