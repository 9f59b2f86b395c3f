---------------------------- MODULE EventManager ----------------------------
(***************************************************************************)
(* eventmanager.h: CEventManager, from which NetworkClient and             *)
(* NetworkServer inherit.  Handlers of a message are slots of a vector;    *)
(* fireMessage() walks it and calls them in order, on one thread.  A       *)
(* handler may itself register and unregister: unregistering only empties  *)
(* slots ("does not really delete", eventmanager.h:123), so that a walk    *)
(* under way keeps its place.                                              *)
(* A push_back() that has to grow the vector moves it away from under such *)
(* a walk; what the program does then is undefined, and here it stops.     *)
(***************************************************************************)
EXTENDS Naturals, Sequences, Picked

CONSTANTS Messages,   \* message types
          Objects,    \* objects that have handlers
          Functions,  \* their member functions
          NULL,
          MaxSlots    \* bound on the slots of a message

ASSUME EventAssumption == NULL \notin Objects \cup Messages /\ MaxSlots \in Nat

VARIABLES m_msgMap,    \* the slots of each message; no vector is an empty one
          capacity,    \* how many slots the vector has memory for
          firing,      \* the message being fired, or NULL
          itor,        \* the index of the slot the walk is at
          calling,     \* the object whose handler runs, or NULL
          invalid,     \* itor points into a vector that was moved
          registered,  \* who has asked for which message and not taken it back
          due          \* whom the firing owes a call, in order

vars == <<m_msgMap, capacity, firing, itor, calling, invalid, registered, due>>
walk == <<firing, itor, calling>>

Slot == [m_this : Objects \cup {NULL}, m_funPtr : Functions]
-----------------------------------------------------------------------------
(* Handlers are called by fireMessage() only; everything else is done while *)
(* none is fired, or by the handler that runs.                              *)
Running == ~invalid /\ (firing # NULL => calling # NULL)

(* std::vector grows by half of its size.                                   *)
Grown(n) == IF n < 2 THEN n + 1 ELSE n + n \div 2

registerMessageHandle(m, f, o) ==
  /\ Running
  /\ Len(m_msgMap[m]) < MaxSlots
  /\ m_msgMap' = [m_msgMap EXCEPT ![m] = Append(@, [m_this |-> o, m_funPtr |-> f])]
  /\ IF Len(m_msgMap[m]) < capacity[m]
     THEN UNCHANGED <<capacity, invalid>>
     ELSE /\ capacity' = [capacity EXCEPT ![m] = Grown(@)]
          /\ invalid' = (firing = m)
  /\ registered' = registered \cup {<<m, o>>}
  /\ due' = IF firing = m THEN Append(due, o) ELSE due
  /\ UNCHANGED walk

(* Mutant: unregistering ends with the first slot found. *)
Emptied_First(slots, o) ==
  [k \in DOMAIN slots |->
     IF slots[k].m_this = o /\ \A j \in 1..(k - 1) : slots[j].m_this # o
     THEN [slots[k] EXCEPT !.m_this = NULL] ELSE slots[k]]

(* Mutant: the slots are taken out of the vector. *)
Emptied_Erased(slots, o) == Picked(slots, {s \in Slot : s.m_this # o})

Emptied(slots, o) ==
  [k \in DOMAIN slots |->
     IF slots[k].m_this = o THEN [slots[k] EXCEPT !.m_this = NULL] ELSE slots[k]]

unregisterMessageHandle(m, o) ==
  /\ Running
  /\ m_msgMap' = [m_msgMap EXCEPT ![m] = Emptied(@, o)]
  /\ registered' = registered \ {<<m, o>>}
  /\ due' = IF firing = m THEN Picked(due, Objects \ {o}) ELSE due
  /\ UNCHANGED <<capacity, invalid, walk>>
-----------------------------------------------------------------------------
(* The objects that slots are for, the emptied ones left out.               *)
Handlers(slots) ==
  LET live == Picked(slots, [m_this : Objects, m_funPtr : Functions])
  IN  [k \in DOMAIN live |-> live[k].m_this]

(* fireMessage(): nothing happens without a vector.                         *)
fireMessage(m) ==
  /\ ~invalid /\ firing = NULL
  /\ m_msgMap[m] # <<>>
  /\ firing' = m
  /\ itor' = 1
  /\ due' = Handlers(m_msgMap[m])
  /\ UNCHANGED <<m_msgMap, capacity, calling, invalid, registered>>

Walking == ~invalid /\ firing # NULL /\ calling = NULL

(* The walk is at a slot, the end being looked up anew each time.           *)
CallSlot ==
  /\ Walking
  /\ itor <= Len(m_msgMap[firing])
  /\ m_msgMap[firing][itor].m_this # NULL
  /\ calling' = m_msgMap[firing][itor].m_this
  /\ due' = Tail(due)
  /\ UNCHANGED <<m_msgMap, capacity, firing, itor, invalid, registered>>

SkipSlot ==
  /\ Walking
  /\ itor <= Len(m_msgMap[firing])
  /\ m_msgMap[firing][itor].m_this = NULL
  /\ itor' = itor + 1
  /\ UNCHANGED <<m_msgMap, capacity, firing, calling, invalid, registered, due>>

HandlerReturns ==
  /\ ~invalid /\ calling # NULL
  /\ calling' = NULL
  /\ itor' = itor + 1
  /\ UNCHANGED <<m_msgMap, capacity, firing, invalid, registered, due>>

FireEnds ==
  /\ Walking
  /\ itor > Len(m_msgMap[firing])
  /\ firing' = NULL
  /\ UNCHANGED <<m_msgMap, capacity, itor, calling, invalid, registered, due>>

Init ==
  /\ m_msgMap = [m \in Messages |-> <<>>]
  /\ capacity = [m \in Messages |-> 0]
  /\ firing = NULL /\ itor = 1 /\ calling = NULL
  /\ invalid = FALSE
  /\ registered = {}
  /\ due = <<>>

Next ==
  \/ \E m \in Messages, o \in Objects :
       \/ \E f \in Functions : registerMessageHandle(m, f, o)
       \/ unregisterMessageHandle(m, o)
  \/ \E m \in Messages : fireMessage(m)
  \/ CallSlot \/ SkipSlot \/ HandlerReturns \/ FireEnds

Spec == Init /\ [][Next]_vars
-----------------------------------------------------------------------------
(* The variables keep their types, due apart.                                *)
TypeOK ==
  /\ m_msgMap \in [Messages -> Seq(Slot)]
  /\ capacity \in [Messages -> Nat]
  /\ firing \in Messages \cup {NULL}
  /\ itor \in Nat \ {0}
  /\ calling \in Objects \cup {NULL}
  /\ invalid \in BOOLEAN
  /\ registered \subseteq Messages \X Objects

(* An object that has taken its registration back is not called any more,   *)
(* under whatever functions and how often it was registered, also when it   *)
(* did so while the message was being fired: it may be deleted.             *)
RemovedNotCalled ==
  [][calling' # calling /\ calling' # NULL => <<firing, calling'>> \in registered]_vars

(* A firing calls whoever it owes a call: all that are registered when it   *)
(* begins and while it runs, in that order, once for each registration, and *)
(* none that has taken it back.  The slots ahead of the walk are theirs at  *)
(* any time, whatever handlers register and unregister.                     *)
Ahead == SubSeq(m_msgMap[firing], IF calling = NULL THEN itor ELSE itor + 1,
                Len(m_msgMap[firing]))

FiredInOrder == firing # NULL /\ ~invalid => due = Handlers(Ahead)
=============================================================================
