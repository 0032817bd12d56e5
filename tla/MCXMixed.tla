------------------------------ MODULE MCXMixed ------------------------------
(* Two fibers with a connection each and a semaphore of two units, for TLC. *)
EXTENDS XMixed

CONSTANTS f1, f2, s1

MCFibers == {f1, f2}
MCWakeOrder ==
    [S \in SUBSET MCFibers |-> SelectSeq(<<f1, f2>>, LAMBDA f : f \in S)]

MCSems == {s1}
MCInitValue == [s \in MCSems |-> 2]
MCSizes == {1, 2}
MCTimeouts == {1}
MCNoSleep == {}
MCFds == {5, 6}
MCPeers == {"send"}
=============================================================================
