---------------------------- MODULE MCAlarmClient ----------------------------
(* Two connections to one server, alive at once.  The peer of c1 sends a    *)
(* pack, or a bad head, and leaves in any way; that of c2 stays and is      *)
(* silent.  The times keep the order of the code's: 0, 1, 2, 3 and 4 for    *)
(* 1, 5, 10, 15 and 30 seconds.                                             *)
EXTENDS AlarmClient
CONSTANTS c1, c2, server

OneServer == [c \in Conns |-> server]
OnePack == [c \in Conns |-> IF c = c1 THEN 1 ELSE 0]
OneLeaves == [c \in Conns |-> IF c = c1 THEN {"eof", "reset"} ELSE {}]
OneIo == [c \in Conns |-> Io]
=============================================================================
