---------------------------- MODULE FifoChannel ----------------------------
(***************************************************************************)
(* What the send side of a Connection promises to its callers: a packet    *)
(* accepted by send() reaches the wire once, whole and in the order of the *)
(* calls, until the channel breaks; after a break nothing more reaches it, *)
(* although send() goes on accepting packets.                              *)
(***************************************************************************)
EXTENDS Naturals, Sequences

CONSTANTS Packs,      \* the packets callers may send
          MaxSends    \* bound on the number of calls to send()

VARIABLES accepted,   \* packets for which send() returned true, in call order
          delivered,  \* packets that have reached the wire, in wire order
          up          \* FALSE once the channel has broken

vars == <<accepted, delivered, up>>

TypeOK == /\ accepted \in Seq(Packs)
          /\ delivered \in Seq(Packs)
          /\ up \in BOOLEAN

Init == accepted = <<>> /\ delivered = <<>> /\ up = TRUE

Accept(p) == /\ Len(accepted) < MaxSends
             /\ accepted' = Append(accepted, p)
             /\ UNCHANGED <<delivered, up>>

Deliver == /\ up
           /\ Len(delivered) < Len(accepted)
           /\ delivered' = Append(delivered, accepted[Len(delivered) + 1])
           /\ UNCHANGED <<accepted, up>>

Break == /\ up
         /\ up' = FALSE
         /\ UNCHANGED <<accepted, delivered>>

Next == Deliver \/ Break \/ \E p \in Packs : Accept(p)

Spec == Init /\ [][Next]_vars /\ WF_vars(Deliver)
=============================================================================
