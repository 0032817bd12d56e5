------------------------------ MODULE MCXDemo ------------------------------
(* The demo for TLC: its four fibers, two server fibers and one connection *)
(* number, which the kernel gives out again.                               *)
EXTENDS XDemo

CONSTANTS producer, consumer, acceptor, sleeper, server1, server2

MCFibers == {producer, consumer, acceptor, sleeper, server1, server2}

MCWakeOrder ==
    [S \in SUBSET MCFibers |->
        SelectSeq(<<producer, consumer, acceptor, sleeper, server1, server2>>,
                  LAMBDA f : f \in S)]

MCSleepTimes == {1}
MCSems == {sem}
MCInitValue == [s \in MCSems |-> 4]
MCFds == {5}
MCPeers == {"connect", "send", "close"}
=============================================================================
