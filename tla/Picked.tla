-------------------------------- MODULE Picked --------------------------------
(***************************************************************************)
(* What a queue holds of some set, in the order of the queue.  Recursion is *)
(* a function's, over the prefixes of the queue, so that it can be proved   *)
(* about.                                                                  *)
(***************************************************************************)
EXTENDS Naturals, Sequences

PickedTo(s, S) ==
  LET upTo[n \in 0..Len(s)] ==
        IF n = 0 THEN <<>>
        ELSE IF s[n] \in S THEN Append(upTo[n - 1], s[n]) ELSE upTo[n - 1]
  IN  upTo

Picked(s, S) == PickedTo(s, S)[Len(s)]
=============================================================================
