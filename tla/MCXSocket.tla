----------------------------- MODULE MCXSocket -----------------------------
(* Instances of XSocket for TLC: one or two fibers, a listener and one     *)
(* connection number, which the kernel gives out again after a close.      *)
EXTENDS XSocket

CONSTANTS f1, f2

MCFibers1 == {f1}
MCFibers2 == {f1, f2}

MCWakeOrder ==
    [S \in SUBSET Fibers |-> SelectSeq(<<f1, f2>>, LAMBDA f : f \in S)]

MCFds1 == {5}

MCReaders == {"accept", "read", "share", "close"}
MCWriters == {"connect", "write", "close"}
MCClients == {"connect", "read", "close"}
MCBoth == {"connect", "read", "write"}

MCSenders == {"connect", "send", "close"}
MCSending == {"send"}
MCServers == {"read", "reset", "refuse"}
MCAllPeers == {"send", "read"}

MCSizes == {1, 2}
MCForever == {-1}
MCOneMs == {1}
MCTimeouts == {-1, 1}
MCNoSleep == {}
MCSleep1 == {1}
=============================================================================
