-------------------------- MODULE MCNetworkServer --------------------------
(* One or two connections, each with an endpoint of its own; the one that   *)
(* connect() makes is asked for by a host's name.  One or two io threads,   *)
(* where the acceptor's is io1 and the reads of c1 may be on io2.           *)
EXTENDS NetworkServer
CONSTANTS c1, c2, a1, a2, n2, io1, io2, main, user, user2

Distinct == [c \in Conns |-> IF c = c1 THEN a1 ELSE a2]
ByName == [c \in Conns \ Accepted |-> n2]
NoPacks == [c \in Conns |-> 0]
OnePack == [c \in Conns |-> IF c = c1 THEN 1 ELSE 0]
TwoPacks == [c \in Conns |-> IF c = c1 THEN 2 ELSE 1]
Leave == [c \in Conns |-> {"eof"}]
LeaveOrReset == [c \in Conns |-> {"eof", "reset"}]
OneIo == [c \in Conns |-> io1]
TwoIo == [c \in Conns |-> IF c = c2 THEN io1 ELSE io2]
=============================================================================
