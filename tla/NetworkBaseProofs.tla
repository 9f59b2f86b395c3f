--------------------------- MODULE NetworkBaseProofs ---------------------------
(***************************************************************************)
(* The parts NetworkServer and NetworkClient are built on: CEventManager,  *)
(* from which they inherit, and io_service_pool, which runs their threads; *)
(* and NetworkClientSync, the client that has no thread of its own.        *)
(*                                                                         *)
(* An object that has taken its registration back is not called any more,  *)
(* for all messages, objects and handlers, and whatever a handler does     *)
(* while a message is fired.  It follows from Kept: a slot that is not     *)
(* empty belongs to an object that is registered.  Slots keep their places,*)
(* for unregistering only empties them.                                    *)
(***************************************************************************)
EXTENDS EventManager, IoServicePool, NetworkClientSync, BasicLemmas

Kept ==
  /\ TypeOK
  /\ \A m \in Messages : \A k \in DOMAIN m_msgMap[m] :
       m_msgMap[m][k].m_this # NULL => <<m, m_msgMap[m][k].m_this>> \in registered

(* What unregistering leaves of a vector: each slot in its place, and none  *)
(* of the object.                                                           *)
LEMMA EmptiedSlots ==
  ASSUME NEW slots \in Seq(Slot), NEW o \in Objects
  PROVE  /\ Emptied(slots, o) \in Seq(Slot)
         /\ DOMAIN Emptied(slots, o) = DOMAIN slots
         /\ \A k \in DOMAIN slots :
              Emptied(slots, o)[k].m_this =
                IF slots[k].m_this = o THEN NULL ELSE slots[k].m_this
<1>1. DOMAIN slots = 1..Len(slots) OBVIOUS
<1>2. ASSUME NEW k \in DOMAIN slots
      PROVE  /\ Emptied(slots, o)[k] \in Slot
             /\ Emptied(slots, o)[k].m_this =
                  IF slots[k].m_this = o THEN NULL ELSE slots[k].m_this
  <2>1. slots[k] \in Slot BY <1>2
  <2>2. CASE slots[k].m_this = o
    <3>1. Emptied(slots, o)[k] = [slots[k] EXCEPT !.m_this = NULL]
      BY <1>2, <2>2 DEF Emptied
    <3> QED BY <2>1, <2>2, <3>1 DEF Slot
  <2>3. CASE slots[k].m_this # o
    <3>1. Emptied(slots, o)[k] = slots[k] BY <1>2, <2>3 DEF Emptied
    <3> QED BY <2>1, <2>3, <3>1
  <2> QED BY <2>2, <2>3
<1>3. DOMAIN Emptied(slots, o) = 1..Len(slots) BY <1>1 DEF Emptied
<1>4. Emptied(slots, o) = [k \in 1..Len(slots) |-> Emptied(slots, o)[k]]
  BY <1>1 DEF Emptied
<1>5. Len(slots) \in Nat OBVIOUS
<1>6. Emptied(slots, o) \in [1..Len(slots) -> Slot]
  BY <1>1, <1>2, <1>3, <1>4
<1>7. Emptied(slots, o) \in Seq(Slot)
  BY <1>5, <1>6
<1> QED BY <1>1, <1>2, <1>3, <1>7

(* Registering adds a slot of an object that is registered by then.         *)
LEMMA RegisterStep ==
  ASSUME Kept, NEW m \in Messages, NEW f \in Functions, NEW o \in Objects,
         registerMessageHandle(m, f, o)
  PROVE  Kept'
<1> DEFINE slot == [m_this |-> o, m_funPtr |-> f]
<1>1. slot \in Slot BY DEF Slot
<1>2. m_msgMap' = [m_msgMap EXCEPT ![m] = Append(@, slot)]
  BY DEF registerMessageHandle
<1>3. firing' = firing /\ itor' = itor /\ registered' = registered \cup {<<m, o>>}
  BY DEF registerMessageHandle, walk
<1>4. TypeOK'
  <2>1. m_msgMap' \in [Messages -> Seq(Slot)] BY <1>1, <1>2 DEF Kept, TypeOK
  <2>2. capacity' \in [Messages -> Nat] /\ invalid' \in BOOLEAN
    <3>1. CASE Len(m_msgMap[m]) < capacity[m]
      BY <3>1 DEF registerMessageHandle, Kept, TypeOK
    <3>2. CASE ~(Len(m_msgMap[m]) < capacity[m])
      <4>1. capacity' = [capacity EXCEPT ![m] = Grown(capacity[m])]
        BY <3>2 DEF registerMessageHandle
      <4>2. \A n \in Nat : Grown(n) \in Nat BY DEF Grown
      <4>3. capacity' \in [Messages -> Nat] BY <4>1, <4>2 DEF Kept, TypeOK
      <4>4. invalid' = (firing = m) BY <3>2 DEF registerMessageHandle
      <4> QED BY <4>3, <4>4, Zenon
    <3> QED BY <3>1, <3>2
  <2> QED BY <1>3, <2>1, <2>2 DEF Kept, TypeOK, registerMessageHandle, walk
<1>5. ASSUME NEW n \in Messages, NEW k \in DOMAIN m_msgMap'[n],
             m_msgMap'[n][k].m_this # NULL
      PROVE  <<n, m_msgMap'[n][k].m_this>> \in registered'
  <2>1. CASE n # m
    <3>1. m_msgMap'[n] = m_msgMap[n] BY <1>2, <2>1 DEF Kept, TypeOK
    <3> QED BY <1>3, <1>5, <3>1 DEF Kept
  <2>2. CASE n = m
    <3>1. m_msgMap[m] \in Seq(Slot) BY DEF Kept, TypeOK
    <3>2. m_msgMap'[m] = Append(m_msgMap[m], slot) BY <1>2 DEF Kept, TypeOK
    <3>3. \/ k \in DOMAIN m_msgMap[m] /\ m_msgMap'[m][k] = m_msgMap[m][k]
          \/ m_msgMap'[m][k] = slot
      <4> HIDE DEF slot
      <4> QED BY <1>1, <1>5, <2>2, <3>1, <3>2
    <3> QED BY <1>3, <1>5, <2>2, <3>3 DEF Kept
  <2> QED BY <2>1, <2>2
<1> QED BY <1>3, <1>4, <1>5 DEF Kept

(* Unregistering empties all slots of the object.                           *)
LEMMA UnregisterStep ==
  ASSUME Kept, NEW m \in Messages, NEW o \in Objects,
         unregisterMessageHandle(m, o)
  PROVE  Kept'
<1>1. m_msgMap' = [m_msgMap EXCEPT ![m] = Emptied(m_msgMap[m], o)]
  BY DEF unregisterMessageHandle
<1>2. firing' = firing /\ itor' = itor /\ registered' = registered \ {<<m, o>>}
  BY DEF unregisterMessageHandle, walk
<1>3. m_msgMap[m] \in Seq(Slot) BY DEF Kept, TypeOK
<1>4. TypeOK'
  <2>1. m_msgMap' \in [Messages -> Seq(Slot)]
    BY <1>1, <1>3, EmptiedSlots DEF Kept, TypeOK
  <2> QED BY <1>2, <2>1 DEF Kept, TypeOK, unregisterMessageHandle, walk
<1>5. ASSUME NEW n \in Messages, NEW k \in DOMAIN m_msgMap'[n],
             m_msgMap'[n][k].m_this # NULL
      PROVE  <<n, m_msgMap'[n][k].m_this>> \in registered'
  <2>1. CASE n # m
    <3>1. m_msgMap'[n] = m_msgMap[n] BY <1>1, <2>1 DEF Kept, TypeOK
    <3> QED BY <1>2, <1>5, <2>1, <3>1 DEF Kept
  <2>2. CASE n = m
    <3>1. m_msgMap'[m] = Emptied(m_msgMap[m], o) BY <1>1 DEF Kept, TypeOK
    <3>2. k \in DOMAIN m_msgMap[m] BY <1>3, <1>5, <2>2, <3>1, EmptiedSlots
    <3>3. m_msgMap'[m][k].m_this =
            IF m_msgMap[m][k].m_this = o THEN NULL ELSE m_msgMap[m][k].m_this
      BY <1>3, <3>1, <3>2, EmptiedSlots
    <3>4. /\ m_msgMap[m][k].m_this # o
          /\ m_msgMap'[m][k].m_this = m_msgMap[m][k].m_this
      BY <1>5, <2>2, <3>3
    <3> QED BY <1>2, <1>5, <2>2, <3>2, <3>4 DEF Kept
  <2> QED BY <2>1, <2>2
<1> QED BY <1>2, <1>4, <1>5 DEF Kept

(* Walking changes no slot.                                                 *)
LEMMA WalkStep ==
  ASSUME Kept,
         \/ \E m \in Messages : fireMessage(m)
         \/ CallSlot \/ SkipSlot \/ HandlerReturns \/ FireEnds
  PROVE  Kept'
<1>1. m_msgMap' = m_msgMap /\ capacity' = capacity /\ invalid' = invalid
      /\ registered' = registered
  BY DEF fireMessage, CallSlot, SkipSlot, HandlerReturns, FireEnds
<1>2. firing' \in Messages \cup {NULL} /\ itor' \in Nat \ {0}
  BY DEF Kept, TypeOK, fireMessage, CallSlot, SkipSlot, HandlerReturns, FireEnds
<1>3. calling' \in Objects \cup {NULL}
  <2>1. CASE CallSlot
    <3>1. firing \in Messages /\ m_msgMap[firing] \in Seq(Slot)
      BY <2>1 DEF CallSlot, Walking, Kept, TypeOK
    <3>2. m_msgMap[firing][itor] \in Slot
      BY <2>1, <3>1 DEF CallSlot, Kept, TypeOK
    <3> QED BY <2>1, <3>2 DEF CallSlot, Slot
  <2>2. CASE ~CallSlot
    BY <2>2 DEF Kept, TypeOK, fireMessage, SkipSlot, HandlerReturns, FireEnds
  <2> QED BY <2>1, <2>2
<1> QED BY <1>1, <1>2, <1>3 DEF Kept, TypeOK

(* There is no slot in the beginning.                                       *)
LEMMA KeptInit == Init => Kept
<1> SUFFICES ASSUME Init PROVE Kept OBVIOUS
<1>0. <<>> \in Seq(Slot) /\ DOMAIN <<>> = {} OBVIOUS
<1>1. m_msgMap \in [Messages -> Seq(Slot)] BY <1>0, Zenon DEF Init
<1>2. \A m \in Messages : DOMAIN m_msgMap[m] = {} BY <1>0, Zenon DEF Init
<1>3. capacity \in [Messages -> Nat] BY DEF Init
<1>4. firing \in Messages \cup {NULL} /\ itor \in Nat \ {0}
      /\ calling \in Objects \cup {NULL}
  BY DEF Init
<1>5. invalid \in BOOLEAN /\ registered \subseteq Messages \X Objects
  BY DEF Init
<1> QED BY <1>1, <1>2, <1>3, <1>4, <1>5 DEF Kept, TypeOK

(* Every step keeps the slots with their objects.                           *)
LEMMA KeptStep == Kept /\ [Next]_vars => Kept'
<1> SUFFICES ASSUME Kept, [Next]_vars PROVE Kept' OBVIOUS
<1>1. CASE UNCHANGED vars BY <1>1 DEF vars, Kept, TypeOK
<1>2. CASE Next BY <1>2, RegisterStep, UnregisterStep, WalkStep DEF Next
<1> QED BY <1>1, <1>2

(* The slots are kept in every behaviour.                                   *)
LEMMA KeptAlways == Spec => []Kept
BY KeptInit, KeptStep, PTL DEF Spec

(* The variables keep their types.                                          *)
THEOREM EventManagerTypes == Spec => []TypeOK
<1>1. Kept => TypeOK BY DEF Kept
<1> QED BY <1>1, KeptAlways, PTL

(* Nobody is called who is not registered when he is called.                *)
THEOREM EventManagerRemovedNotCalled == Spec => RemovedNotCalled
<1>1. ASSUME Kept, [Next]_vars, calling' # calling, calling' # NULL
      PROVE  <<firing, calling'>> \in registered
  <2>1. CallSlot
    BY <1>1 DEF Next, vars, walk, registerMessageHandle, unregisterMessageHandle,
                fireMessage, SkipSlot, HandlerReturns, FireEnds
  <2>2. firing \in Messages BY <1>1, <2>1 DEF CallSlot, Walking, Kept, TypeOK
  <2>3. m_msgMap[firing] \in Seq(Slot) BY <1>1, <2>2 DEF Kept, TypeOK
  <2>4. itor \in DOMAIN m_msgMap[firing]
    BY <1>1, <2>1, <2>3 DEF CallSlot, Kept, TypeOK
  <2> QED BY <1>1, <2>1, <2>2, <2>4 DEF CallSlot, Kept, TypeOK
<1>2. Kept /\ [Next]_vars
        => [calling' # calling /\ calling' # NULL
              => <<firing, calling'>> \in registered]_vars
  BY <1>1
<1> QED BY <1>2, KeptAlways, PTL DEF Spec, RemovedNotCalled
-----------------------------------------------------------------------------
(* What a firing owes is what the slots ahead of the walk are for. *)

(* The handlers of nothing, and what one slot adds. *)
LEMMA HandlersAppend ==
  /\ Handlers(<<>>) = <<>>
  /\ \A s \in Seq(Slot), e \in Slot :
       /\ Handlers(s) \in Seq(Objects)
       /\ Handlers(Append(s, e)) =
            IF e.m_this # NULL THEN Append(Handlers(s), e.m_this) ELSE Handlers(s)
<1> DEFINE Live == [m_this : Objects, m_funPtr : Functions]
<1>1. Handlers(<<>>) = <<>>
  <2>1. Picked(<<>>, Live) = <<>>
    BY PickedEmpty
  <2>2. [k \in DOMAIN <<>> |-> <<>>[k].m_this] = <<>>
    OBVIOUS
  <2> QED BY <2>1, <2>2, Zenon DEF Handlers
<1>2. ASSUME NEW s \in Seq(Slot), NEW e \in Slot
      PROVE  /\ Handlers(s) \in Seq(Objects)
             /\ Handlers(Append(s, e)) =
                  IF e.m_this # NULL THEN Append(Handlers(s), e.m_this)
                                     ELSE Handlers(s)
  <2> DEFINE live == Picked(s, Live)
  <2>1. live \in Seq(Live)
    <3>1. Slot \cap Live = Live
      BY DEF Slot
    <3>2. live \in Seq(Slot \cap Live)
      <4> HIDE DEF Live
      <4> QED BY PickedType
    <3> QED BY <3>1, <3>2, Zenon
  <2>2. Picked(Append(s, e), Live) = IF e \in Live THEN Append(live, e) ELSE live
    <3> HIDE DEF Live
    <3> QED BY PickedAppend
  <2>3. e \in Live <=> e.m_this # NULL
    BY EventAssumption DEF Slot, EventAssumption
  <2> HIDE DEF live
  <2>4. Handlers(s) = [k \in DOMAIN live |-> live[k].m_this]
    BY DEF Handlers, live
  <2>5. Handlers(s) \in Seq(Objects)
    <3>1. Len(live) \in Nat /\ DOMAIN live = 1..Len(live)
      BY <2>1
    <3>2. ASSUME NEW k \in 1..Len(live) PROVE live[k].m_this \in Objects
      <4>1. live[k] \in Live
        <5> HIDE DEF Live
        <5> QED BY <2>1
      <4> QED BY <4>1
    <3>3. [k \in 1..Len(live) |-> live[k].m_this] \in Seq(Objects)
      BY <3>1, <3>2
    <3> QED BY <2>4, <3>1, <3>3
  <2>6. CASE e.m_this # NULL
    <3>1. e.m_this \in Objects
      BY <2>6 DEF Slot
    <3>2. Handlers(Append(s, e)) =
            [k \in DOMAIN Append(live, e) |-> Append(live, e)[k].m_this]
      <4>1. Picked(Append(s, e), Live) = Append(live, e)
        BY <2>2, <2>3, <2>6
      <4> QED BY <4>1 DEF Handlers
    <3>3. [k \in DOMAIN Append(live, e) |-> Append(live, e)[k].m_this]
            = Append([k \in DOMAIN live |-> live[k].m_this], e.m_this)
      <4> HIDE DEF Live
      <4> QED BY <2>1
    <3> QED BY <2>4, <2>5, <2>6, <3>2, <3>3
  <2>7. CASE e.m_this = NULL
    <3>1. Picked(Append(s, e), Live) = live
      BY <2>2, <2>3, <2>7
    <3> QED BY <2>4, <2>5, <2>7, <3>1 DEF Handlers
  <2> QED BY <2>6, <2>7
<1> QED BY <1>1, <1>2

(* An object can be added before or after sequences are joined. *)
LEMMA AppendObject ==
  ASSUME NEW a \in Seq(Objects), NEW b \in Seq(Objects), NEW x \in Objects
  PROVE  Append(a \o b, x) = a \o Append(b, x)
OBVIOUS

(* The handlers of slots that follow others come after theirs. *)
LEMMA HandlersConcat ==
  ASSUME NEW s \in Seq(Slot)
  PROVE  \A r \in Seq(Slot) : Handlers(s \o r) = Handlers(s) \o Handlers(r)
<1> DEFINE P == {r \in Seq(Slot) : Handlers(s \o r) = Handlers(s) \o Handlers(r)}
<1>0. \A r \in Seq(Slot) : Handlers(r) \in Seq(Objects)
  BY HandlersAppend
<1>1. <<>> \in P
  <2>1. s \o <<>> = s /\ Handlers(s) \o <<>> = Handlers(s) /\ <<>> \in Seq(Slot)
    BY <1>0
  <2> QED BY <2>1, HandlersAppend
<1>2. ASSUME NEW r \in Seq(Slot), NEW e \in Slot, r \in P PROVE Append(r, e) \in P
  <2>1. /\ s \o r \in Seq(Slot) /\ s \o Append(r, e) = Append(s \o r, e)
        /\ Append(r, e) \in Seq(Slot)
    OBVIOUS
  <2>2. Handlers(s \o r) = Handlers(s) \o Handlers(r)
    BY <1>2
  <2>3. SUFFICES Handlers(s \o Append(r, e)) = Handlers(s) \o Handlers(Append(r, e))
    BY <2>1
  <2> HIDE DEF P
  <2>4. /\ Handlers(Append(r, e)) =
             IF e.m_this # NULL THEN Append(Handlers(r), e.m_this) ELSE Handlers(r)
        /\ Handlers(Append(s \o r, e)) =
             IF e.m_this # NULL THEN Append(Handlers(s \o r), e.m_this)
                                ELSE Handlers(s \o r)
    BY <2>1, HandlersAppend
  <2>5. ASSUME NEW a \in Seq(Objects), NEW b \in Seq(Objects), NEW x \in Objects
        PROVE  Append(a \o b, x) = a \o Append(b, x)
    BY AppendObject
  <2>6. e.m_this # NULL =>
          Append(Handlers(s) \o Handlers(r), e.m_this)
            = Handlers(s) \o Append(Handlers(r), e.m_this)
    <3>1. e.m_this # NULL => e.m_this \in Objects
      BY DEF Slot
    <3> QED BY <1>0, <2>5, <3>1
  <2> QED BY <2>1, <2>2, <2>4, <2>6
<1>3. Seq(Slot) \subseteq P
  <2> HIDE DEF P
  <2> QED BY <1>1, <1>2, SeqInduction
<1> QED BY <1>3

(* Emptying the slots of an object takes out it alone.                      *)
LEMMA HandlersEmptied ==
  ASSUME NEW o \in Objects
  PROVE  \A s \in Seq(Slot) :
           Handlers(Emptied(s, o)) = Picked(Handlers(s), Objects \ {o})
<1> DEFINE Q == Objects \ {o}
           P == {s \in Seq(Slot) : Handlers(Emptied(s, o)) = Picked(Handlers(s), Q)}
<1>0. \A x \in Objects : x \in Q <=> x # o
  OBVIOUS
<1> HIDE DEF Q
<1>a. \A q \in Seq(Objects), x \in Objects :
        Picked(Append(q, x), Q) =
          IF x \in Q THEN Append(Picked(q, Q), x) ELSE Picked(q, Q)
  <2> HIDE DEF P
  <2> QED BY PickedAppend
<1>1. <<>> \in P
  <2>1. Emptied(<<>>, o) = <<>> /\ <<>> \in Seq(Slot)
    BY DEF Emptied
  <2> QED BY <2>1, HandlersAppend, PickedEmpty
<1>2. ASSUME NEW s \in Seq(Slot), NEW e \in Slot, s \in P PROVE Append(s, e) \in P
  <2> DEFINE d == IF e.m_this = o THEN [e EXCEPT !.m_this = NULL] ELSE e
  <2>0. Handlers(Emptied(s, o)) = Picked(Handlers(s), Q)
    BY <1>2
  <2>1. Append(s, e) \in Seq(Slot) /\ Emptied(s, o) \in Seq(Slot)
        /\ DOMAIN Emptied(s, o) = DOMAIN s
    BY EmptiedSlots
  <2>2. /\ d \in Slot
        /\ d.m_this = IF e.m_this = o THEN NULL ELSE e.m_this
    BY DEF Slot
  <2>3. Emptied(Append(s, e), o) = Append(Emptied(s, o), d)
    <3>1. DOMAIN Append(s, e) = 1..(Len(s) + 1) /\ DOMAIN s = 1..Len(s)
      OBVIOUS
    <3>2. Append(s, e)[Len(s) + 1] = e /\ \A k \in 1..Len(s) : Append(s, e)[k] = s[k]
      OBVIOUS
    <3> DEFINE One(x) == IF x.m_this = o THEN [x EXCEPT !.m_this = NULL] ELSE x
    <3>3. Emptied(Append(s, e), o) = [k \in 1..(Len(s) + 1) |-> One(Append(s, e)[k])]
      BY <3>1 DEF Emptied
    <3>4. Emptied(s, o) = [k \in 1..Len(s) |-> One(s[k])]
      BY <3>1 DEF Emptied
    <3>5. d = One(e)
      OBVIOUS
    <3> HIDE DEF One, d
    <3> QED BY <2>1, <3>1, <3>2, <3>3, <3>4, <3>5
  <2>4. SUFFICES Handlers(Emptied(Append(s, e), o)) = Picked(Handlers(Append(s, e)), Q)
    BY <2>1
  <2> HIDE DEF P, d
  <2>5. /\ Handlers(Append(s, e)) =
             IF e.m_this # NULL THEN Append(Handlers(s), e.m_this) ELSE Handlers(s)
        /\ Handlers(Append(Emptied(s, o), d)) =
             IF d.m_this # NULL THEN Append(Handlers(Emptied(s, o)), d.m_this)
                                ELSE Handlers(Emptied(s, o))
        /\ Handlers(s) \in Seq(Objects)
    BY <2>1, <2>2, HandlersAppend
  <2>6. CASE e.m_this = NULL
    <3>1. d.m_this = NULL
      BY <2>2, <2>6
    <3> QED BY <2>0, <2>3, <2>5, <2>6, <3>1
  <2>7. CASE e.m_this # NULL
    <3>1. e.m_this \in Objects
      BY <2>7 DEF Slot
    <3>2. Picked(Append(Handlers(s), e.m_this), Q) =
            IF e.m_this \in Q THEN Append(Picked(Handlers(s), Q), e.m_this)
                              ELSE Picked(Handlers(s), Q)
      BY <1>a, <2>5, <3>1
    <3>3. o # NULL
      BY EventAssumption DEF EventAssumption
    <3>4. CASE e.m_this = o
      <4>1. d.m_this = NULL /\ e.m_this \notin Q
        BY <1>0, <2>2, <3>1, <3>4
      <4> QED BY <2>0, <2>3, <2>5, <2>7, <3>2, <4>1
    <3>5. CASE e.m_this # o
      <4>1. d.m_this = e.m_this /\ e.m_this \in Q
        BY <1>0, <2>2, <3>1, <3>5
      <4> QED BY <2>0, <2>3, <2>5, <2>7, <3>2, <4>1
    <3> QED BY <3>4, <3>5
  <2> QED BY <2>6, <2>7
<1>3. Seq(Slot) \subseteq P
  <2> HIDE DEF P
  <2> QED BY <1>1, <1>2, SeqInduction
<1> QED BY <1>3 DEF Q

(* The walk is inside the vector or at its end, and what is owed is what is *)
(* ahead.                                                                   *)
InOrder ==
  /\ Kept
  /\ due \in Seq(Objects)
  /\ firing = NULL => calling = NULL
  /\ firing # NULL => itor <= Len(m_msgMap[firing]) + 1
  /\ calling # NULL => itor <= Len(m_msgMap[firing])
  /\ FiredInOrder

(* Where the slots ahead of the walk begin. *)
AheadFrom == IF calling = NULL THEN itor ELSE itor + 1

(* They are in the vector, or there are none. *)
LEMMA AheadType ==
  ASSUME InOrder, firing # NULL
  PROVE  /\ firing \in Messages /\ m_msgMap[firing] \in Seq(Slot)
         /\ Len(m_msgMap[firing]) \in Nat
         /\ AheadFrom \in 1..(Len(m_msgMap[firing]) + 1)
         /\ Ahead = SubSeq(m_msgMap[firing], AheadFrom, Len(m_msgMap[firing]))
         /\ Ahead \in Seq(Slot)
<1>1. firing \in Messages /\ m_msgMap[firing] \in Seq(Slot)
  BY DEF InOrder, Kept, TypeOK
<1>2. Len(m_msgMap[firing]) \in Nat
  BY <1>1
<1>3. AheadFrom \in 1..(Len(m_msgMap[firing]) + 1)
  BY <1>2 DEF InOrder, Kept, TypeOK, AheadFrom
<1>4. Ahead = SubSeq(m_msgMap[firing], AheadFrom, Len(m_msgMap[firing]))
  BY DEF Ahead, AheadFrom
<1> QED BY <1>1, <1>2, <1>3, <1>4

(* A slot that is added is ahead of the walk. *)
LEMMA SubSeqAppend ==
  ASSUME NEW s \in Seq(Slot), NEW e \in Slot, NEW k \in 1..(Len(s) + 1)
  PROVE  SubSeq(Append(s, e), k, Len(s) + 1) = Append(SubSeq(s, k, Len(s)), e)
OBVIOUS

(* The first slot ahead, and those behind it. *)
LEMMA SubSeqFirst ==
  ASSUME NEW s \in Seq(Slot), NEW k \in 1..Len(s)
  PROVE  /\ <<s[k]>> \in Seq(Slot) /\ SubSeq(s, k + 1, Len(s)) \in Seq(Slot)
         /\ SubSeq(s, k, Len(s)) = <<s[k]>> \o SubSeq(s, k + 1, Len(s))
OBVIOUS

(* Emptying slots leaves the others where they are. *)
LEMMA EmptiedSubSeq ==
  ASSUME NEW s \in Seq(Slot), NEW o \in Objects, NEW k \in 1..(Len(s) + 1)
  PROVE  SubSeq(Emptied(s, o), k, Len(s)) = Emptied(SubSeq(s, k, Len(s)), o)
<1> DEFINE One(x) == IF x.m_this = o THEN [x EXCEPT !.m_this = NULL] ELSE x
           r == SubSeq(s, k, Len(s))
           n == Len(s) - k + 1
<1>1. /\ r \in Seq(Slot) /\ DOMAIN r = 1..n /\ n \in Nat /\ Len(s) \in Nat
      /\ \A j \in 1..n : r[j] = s[k + j - 1] /\ k + j - 1 \in 1..Len(s)
      /\ DOMAIN s = 1..Len(s)
  OBVIOUS
<1>2. Emptied(r, o) = [j \in 1..n |-> One(r[j])]
  BY <1>1 DEF Emptied
<1>3. Emptied(s, o) = [j \in 1..Len(s) |-> One(s[j])]
  BY <1>1 DEF Emptied
<1>4. Emptied(s, o) \in Seq(Slot) /\ DOMAIN Emptied(s, o) = DOMAIN s
  BY EmptiedSlots
<1> DEFINE es == Emptied(s, o)
<1>5. Len(es) = Len(s)
  <2> HIDE DEF es
  <2> QED BY <1>1, <1>4 DEF es
<1>6. SubSeq(es, k, Len(s)) = [j \in 1..n |-> es[k + j - 1]]
  <2>1. es \in Seq(Slot)
    BY <1>4
  <2> HIDE DEF es
  <2> QED BY <1>1, <1>5, <2>1
<1>7. \A j \in 1..n : es[k + j - 1] = One(r[j])
  <2> HIDE DEF One, r, n
  <2> QED BY <1>1, <1>3
<1> HIDE DEF One, r, n, es
<1>8. [j \in 1..n |-> es[k + j - 1]] = [j \in 1..n |-> One(r[j])]
  BY <1>7
<1> QED BY <1>2, <1>6, <1>8 DEF es, r

(* A registration is owed a call by the firing under way, after the others. *)
LEMMA RegisterInOrder ==
  ASSUME InOrder, NEW m \in Messages, NEW f \in Functions, NEW o \in Objects,
         registerMessageHandle(m, f, o)
  PROVE  InOrder'
<1> DEFINE slot == [m_this |-> o, m_funPtr |-> f]
           s == m_msgMap[firing]
<1>1. slot \in Slot /\ slot.m_this = o /\ o # NULL
  BY EventAssumption DEF Slot, EventAssumption
<1>2. /\ m_msgMap' = [m_msgMap EXCEPT ![m] = Append(@, slot)]
      /\ firing' = firing /\ itor' = itor /\ calling' = calling
      /\ due' = IF firing = m THEN Append(due, o) ELSE due
  BY DEF registerMessageHandle, walk
<1>3. Kept'
  BY RegisterStep DEF InOrder
<1>4. due' \in Seq(Objects)
  BY <1>2 DEF InOrder
<1>5. CASE firing = NULL
  BY <1>2, <1>3, <1>4, <1>5 DEF InOrder, FiredInOrder
<1>6. CASE firing # NULL /\ firing # m
  <2>1. firing \in Messages /\ m_msgMap \in [Messages -> Seq(Slot)]
    BY <1>6 DEF InOrder, Kept, TypeOK
  <2>2. m_msgMap'[firing] = m_msgMap[firing]
    BY <1>2, <1>6, <2>1
  <2>3. Ahead' = Ahead
    BY <1>2, <2>2 DEF Ahead
  <2>4. due' = due /\ (~invalid' => ~invalid)
    BY <1>2, <1>6 DEF registerMessageHandle, Running
  <2> QED BY <1>2, <1>3, <1>4, <1>6, <2>2, <2>3, <2>4 DEF InOrder, FiredInOrder
<1>7. CASE firing = m
  <2>1. /\ firing # NULL /\ s \in Seq(Slot) /\ Len(s) \in Nat
        /\ AheadFrom \in 1..(Len(s) + 1) /\ itor \in Nat
        /\ Ahead = SubSeq(s, AheadFrom, Len(s)) /\ Ahead \in Seq(Slot)
    BY <1>7, AheadType, EventAssumption DEF InOrder, Kept, TypeOK, EventAssumption
  <2>2. m_msgMap'[firing'] = Append(s, slot) /\ Len(m_msgMap'[firing']) = Len(s) + 1
    <3>1. m_msgMap'[m] = Append(m_msgMap[m], slot)
      BY <1>2 DEF InOrder, Kept, TypeOK
    <3> HIDE DEF slot
    <3> QED BY <1>1, <1>2, <1>7, <2>1, <3>1
  <2>3. Ahead' = SubSeq(Append(s, slot), AheadFrom, Len(s) + 1)
    BY <1>2, <2>2 DEF Ahead, AheadFrom
  <2>4. Ahead' = Append(Ahead, slot)
    <3> HIDE DEF slot, s
    <3> QED BY <1>1, <2>1, <2>3, SubSeqAppend
  <2>5. Handlers(Ahead') = Append(Handlers(Ahead), o)
    <3> HIDE DEF slot
    <3> QED BY <1>1, <2>1, <2>4, HandlersAppend
  <2>6. FiredInOrder'
    <3>1. ~invalid
      BY DEF registerMessageHandle, Running
    <3>2. due = Handlers(Ahead)
      BY <2>1, <3>1 DEF InOrder, FiredInOrder
    <3>3. due' = Append(due, o)
      BY <1>2, <1>7
    <3>4. FiredInOrder' <=> (firing' # NULL /\ ~invalid' => due' = Handlers(Ahead'))
      BY DEF FiredInOrder, Handlers
    <3> QED BY <2>5, <3>2, <3>3, <3>4
  <2> QED BY <1>2, <1>3, <1>4, <2>1, <2>2, <2>6 DEF InOrder
<1> QED BY <1>5, <1>6, <1>7

(* One that is taken back is not. *)
LEMMA UnregisterInOrder ==
  ASSUME InOrder, NEW m \in Messages, NEW o \in Objects,
         unregisterMessageHandle(m, o)
  PROVE  InOrder'
<1> DEFINE s == m_msgMap[firing]
           Q == Objects \ {o}
<1>2. /\ m_msgMap' = [m_msgMap EXCEPT ![m] = Emptied(@, o)]
      /\ firing' = firing /\ itor' = itor /\ calling' = calling
      /\ invalid' = invalid /\ ~invalid
      /\ due' = IF firing = m THEN Picked(due, Q) ELSE due
  BY DEF unregisterMessageHandle, walk, Running
<1>3. Kept'
  BY UnregisterStep DEF InOrder
<1>4. due' \in Seq(Objects)
  <2>0. due \in Seq(Objects)
    BY DEF InOrder
  <2>1. Picked(due, Q) \in Seq(Objects \cap Q)
    <3> HIDE DEF Q
    <3> QED BY <2>0, PickedType
  <2>2. Picked(due, Q) \in Seq(Objects)
    BY <2>1
  <2> QED BY <1>2, <2>0, <2>2
<1>5. CASE firing = NULL
  BY <1>2, <1>3, <1>4, <1>5 DEF InOrder, FiredInOrder
<1>6. CASE firing # NULL /\ firing # m
  <2>1. firing \in Messages /\ m_msgMap \in [Messages -> Seq(Slot)]
    BY <1>6 DEF InOrder, Kept, TypeOK
  <2>2. m_msgMap'[firing] = m_msgMap[firing]
    BY <1>2, <1>6, <2>1
  <2>3. Ahead' = Ahead
    BY <1>2, <2>2 DEF Ahead
  <2>4. due' = due
    BY <1>2, <1>6
  <2> QED BY <1>2, <1>3, <1>4, <1>6, <2>2, <2>3, <2>4 DEF InOrder, FiredInOrder
<1>7. CASE firing = m
  <2>1. /\ firing # NULL /\ s \in Seq(Slot) /\ Len(s) \in Nat
        /\ AheadFrom \in 1..(Len(s) + 1) /\ itor \in Nat
        /\ Ahead = SubSeq(s, AheadFrom, Len(s)) /\ Ahead \in Seq(Slot)
    BY <1>7, AheadType, EventAssumption DEF InOrder, Kept, TypeOK, EventAssumption
  <2>2. m_msgMap'[firing'] = Emptied(s, o)
    BY <1>2, <1>7 DEF InOrder, Kept, TypeOK
  <2>3. /\ Emptied(s, o) \in Seq(Slot) /\ DOMAIN Emptied(s, o) = DOMAIN s
    BY <2>1, EmptiedSlots
  <2>4. Len(Emptied(s, o)) = Len(s)
    <3> HIDE DEF s
    <3> QED BY <2>1, <2>3
  <2>5. Ahead' = SubSeq(Emptied(s, o), AheadFrom, Len(s))
    BY <1>2, <2>2, <2>4 DEF Ahead, AheadFrom
  <2>6. SubSeq(Emptied(s, o), AheadFrom, Len(s)) = Emptied(SubSeq(s, AheadFrom, Len(s)), o)
    <3> HIDE DEF s
    <3> QED BY <2>1, EmptiedSubSeq
  <2>7. Handlers(Ahead') = Picked(Handlers(Ahead), Q)
    <3> HIDE DEF s
    <3> QED BY <2>1, <2>5, <2>6, HandlersEmptied
  <2>8. FiredInOrder'
    <3>2. due = Handlers(Ahead)
      BY <1>2, <2>1 DEF InOrder, FiredInOrder
    <3>3. due' = Picked(due, Q)
      BY <1>2, <1>7
    <3>4. FiredInOrder' <=> (firing' # NULL /\ ~invalid' => due' = Handlers(Ahead'))
      BY DEF FiredInOrder, Handlers
    <3> HIDE DEF Q
    <3> QED BY <2>7, <3>2, <3>3, <3>4
  <2> QED BY <1>2, <1>3, <1>4, <2>1, <2>2, <2>4, <2>8 DEF InOrder
<1> QED BY <1>5, <1>6, <1>7

(* The handler of one slot. *)
LEMMA HandlersOne ==
  ASSUME NEW e \in Slot
  PROVE  /\ Handlers(<<e>>) = IF e.m_this # NULL THEN <<e.m_this>> ELSE <<>>
         /\ e.m_this # NULL => e.m_this \in Objects
<1>1. <<>> \in Seq(Slot) /\ Append(<<>>, e) = <<e>>
  OBVIOUS
<1>2. Handlers(Append(<<>>, e)) =
        IF e.m_this # NULL THEN Append(Handlers(<<>>), e.m_this) ELSE Handlers(<<>>)
  BY <1>1, HandlersAppend
<1>3. Handlers(<<>>) = <<>>
  BY HandlersAppend
<1>4. Append(<<>>, e.m_this) = <<e.m_this>>
  OBVIOUS
<1> QED BY <1>1, <1>2, <1>3, <1>4 DEF Slot

(* The rest of a sequence with its first element known. *)
LEMMA TailOfFirst ==
  ASSUME NEW r \in Seq(Objects), NEW x \in Objects
  PROVE  Tail(<<x>> \o r) = r
OBVIOUS

(* Slots have handlers. *)
LEMMA HandlersType == \A s \in Seq(Slot) : Handlers(s) \in Seq(Objects)
<1> SUFFICES ASSUME NEW s \in Seq(Slot) PROVE Handlers(s) \in Seq(Objects)
  OBVIOUS
<1>1. CASE s = <<>>
  <2>1. <<>> \in Seq(Objects)
    OBVIOUS
  <2> QED BY <1>1, <2>1, HandlersAppend
<1>2. CASE s # <<>>
  <2>1. s[1] \in Slot
    BY <1>2
  <2> QED BY <2>1, HandlersAppend
<1> QED BY <1>1, <1>2

(* The walk passes the slots one by one: what it passes is no longer owed.  *)
LEMMA WalkInOrder ==
  ASSUME InOrder,
         \/ \E m \in Messages : fireMessage(m)
         \/ CallSlot \/ SkipSlot \/ HandlerReturns \/ FireEnds
  PROVE  InOrder'
<1>1. Kept'
  BY WalkStep DEF InOrder
<1>2. m_msgMap' = m_msgMap /\ invalid' = invalid /\ ~invalid
  BY DEF fireMessage, CallSlot, SkipSlot, HandlerReturns, FireEnds, Walking
<1>3. ASSUME NEW m \in Messages, fireMessage(m) PROVE InOrder'
  <2> DEFINE s == m_msgMap[m]
  <2>1. s \in Seq(Slot) /\ m # NULL
    BY EventAssumption DEF InOrder, Kept, TypeOK, EventAssumption
  <2>2. /\ firing' = m /\ itor' = 1 /\ calling' = calling /\ calling = NULL
        /\ due' = Handlers(s) /\ s # <<>>
    BY <1>3 DEF fireMessage, InOrder
  <2>3. Ahead' = SubSeq(s, 1, Len(s))
    BY <1>2, <2>2 DEF Ahead
  <2>4. SubSeq(s, 1, Len(s)) = s /\ 1 <= Len(s) + 1
    <3> HIDE DEF s
    <3> QED BY <2>1
  <2>5. due' \in Seq(Objects)
    <3> HIDE DEF s
    <3> QED BY <2>1, <2>2, HandlersType
  <2>6. FiredInOrder'
    <3>1. FiredInOrder' <=> (firing' # NULL /\ ~invalid' => due' = Handlers(Ahead'))
      BY DEF FiredInOrder, Handlers
    <3> QED BY <2>2, <2>3, <2>4, <3>1
  <2>7. firing' # NULL /\ calling' = NULL /\ itor' <= Len(m_msgMap'[firing']) + 1
    BY <1>2, <2>1, <2>2, <2>4
  <2> QED BY <1>1, <2>5, <2>6, <2>7 DEF InOrder
<1>4. CASE CallSlot \/ SkipSlot
  <2> DEFINE s == m_msgMap[firing]
             rest == SubSeq(s, itor + 1, Len(s))
  <2>1. /\ firing # NULL /\ firing' = firing /\ calling = NULL
        /\ itor <= Len(s) /\ itor \in Nat \ {0}
    BY <1>4 DEF CallSlot, SkipSlot, Walking, InOrder, Kept, TypeOK
  <2>2. s \in Seq(Slot) /\ Len(s) \in Nat /\ itor \in 1..Len(s) /\ s[itor] \in Slot
    BY <2>1, AheadType
  <2>3. Ahead = SubSeq(s, itor, Len(s)) /\ due = Handlers(Ahead)
    BY <1>2, <2>1 DEF Ahead, InOrder, FiredInOrder
  <2>4. /\ rest \in Seq(Slot) /\ <<s[itor]>> \in Seq(Slot)
        /\ Ahead = <<s[itor]>> \o rest
    <3> HIDE DEF s
    <3> QED BY <2>2, <2>3, SubSeqFirst
  <2>5. Handlers(Ahead) = Handlers(<<s[itor]>>) \o Handlers(rest)
    <3> HIDE DEF s, rest
    <3> QED BY <2>4, HandlersConcat
  <2>6. Handlers(rest) \in Seq(Objects)
    <3> HIDE DEF rest
    <3> QED BY <2>4, HandlersType
  <2>7. FiredInOrder' <=> (firing' # NULL /\ ~invalid' => due' = Handlers(Ahead'))
    BY DEF FiredInOrder, Handlers
  <2>8. CASE CallSlot
    <3>1. /\ calling' = s[itor].m_this /\ s[itor].m_this # NULL
          /\ itor' = itor /\ due' = Tail(due)
      BY <2>8 DEF CallSlot
    <3>2. Ahead' = rest
      BY <1>2, <2>1, <3>1 DEF Ahead
    <3>3. Handlers(<<s[itor]>>) = <<s[itor].m_this>> /\ s[itor].m_this \in Objects
      <4> HIDE DEF s
      <4> QED BY <2>2, <3>1, HandlersOne
    <3>4. Tail(<<s[itor].m_this>> \o Handlers(rest)) = Handlers(rest)
      <4> HIDE DEF s, rest
      <4> QED BY <2>6, <3>3, TailOfFirst
    <3>5. due' = Handlers(rest)
      BY <2>3, <2>5, <3>1, <3>3, <3>4
    <3> QED BY <1>1, <1>2, <2>1, <2>6, <2>7, <3>1, <3>2, <3>5 DEF InOrder
  <2>9. CASE SkipSlot
    <3>1. /\ calling' = calling /\ s[itor].m_this = NULL
          /\ itor' = itor + 1 /\ due' = due
      BY <2>9 DEF SkipSlot
    <3>2. Ahead' = rest
      BY <1>2, <2>1, <3>1 DEF Ahead
    <3>3. Handlers(<<s[itor]>>) = <<>>
      <4> HIDE DEF s
      <4> QED BY <2>2, <3>1, HandlersOne
    <3>4. <<>> \o Handlers(rest) = Handlers(rest)
      <4> HIDE DEF rest
      <4> QED BY <2>6
    <3>5. due' = Handlers(rest)
      BY <2>3, <2>5, <3>1, <3>3, <3>4
    <3>6. itor' <= Len(s) + 1
      BY <2>2, <3>1
    <3> QED BY <1>1, <1>2, <2>1, <2>6, <2>7, <3>1, <3>2, <3>5, <3>6 DEF InOrder
  <2> QED BY <1>4, <2>8, <2>9
<1>5. CASE HandlerReturns
  <2>1. /\ firing' = firing /\ calling' = NULL /\ calling # NULL
        /\ itor' = itor + 1 /\ due' = due
    BY <1>5 DEF HandlerReturns
  <2>2. Ahead' = Ahead
    BY <1>2, <2>1 DEF Ahead
  <2>3. firing # NULL /\ firing \in Messages
    BY <2>1 DEF InOrder, Kept, TypeOK
  <2>4. itor' <= Len(m_msgMap[firing]) + 1
    <3>1. m_msgMap[firing] \in Seq(Slot) /\ itor \in Nat
          /\ itor <= Len(m_msgMap[firing])
      BY <2>1, <2>3 DEF InOrder, Kept, TypeOK
    <3> QED BY <2>1, <3>1
  <2> QED BY <1>1, <1>2, <2>1, <2>2, <2>3, <2>4 DEF InOrder, FiredInOrder
<1>6. CASE FireEnds
  BY <1>1, <1>2, <1>6 DEF FireEnds, Walking, InOrder, FiredInOrder
<1> QED BY <1>3, <1>4, <1>5, <1>6

(* Nothing is fired in the beginning. *)
LEMMA InOrderInit == Init => InOrder
<1>1. Init => Kept
  BY KeptInit
<1>2. ASSUME Init PROVE due \in Seq(Objects)
  <2>1. <<>> \in Seq(Objects)
    OBVIOUS
  <2> QED BY <1>2, <2>1, Zenon DEF Init
<1> QED BY <1>1, <1>2 DEF Init, InOrder, FiredInOrder

(* Every step keeps what is owed. *)
LEMMA InOrderStep == InOrder /\ [Next]_vars => InOrder'
<1> SUFFICES ASSUME InOrder, [Next]_vars PROVE InOrder' OBVIOUS
<1>1. CASE UNCHANGED vars
  BY <1>1 DEF vars, InOrder, Kept, TypeOK, FiredInOrder, Ahead
<1>2. CASE Next BY <1>2, RegisterInOrder, UnregisterInOrder, WalkInOrder DEF Next
<1> QED BY <1>1, <1>2

(* At any time of a firing it owes a call to exactly those whose slots are  *)
(* ahead of it: the objects registered, in order and once per registration. *)
THEOREM EventManagerFiredInOrder == Spec => []FiredInOrder
<1>1. InOrder => FiredInOrder BY DEF InOrder
<1> QED BY <1>1, InOrderInit, InOrderStep, PTL DEF Spec
-----------------------------------------------------------------------------
(***************************************************************************)
(* For every pool size and every set of threads that call get_io_service():*)
(* as long as no two calls overlap, the index stays inside the vector and  *)
(* the io_services take turns.                                             *)
(***************************************************************************)

(* The io_services below index n were returned once more than the others. *)
Turned(n) == \E q \in Nat : \A i \in Services :
               served[i] = IF i < n THEN q + 1 ELSE q

AllIdle == \A t \in Callers : at[t] = "idle"

(* What holds when no call is under way ...                                *)
BetweenCalls == next_io_service_ < size /\ Turned(next_io_service_)

(* ... and during the call of t, where it is in get_io_service().          *)
Turn(t) ==
  /\ \A u \in Callers : u # t => at[u] = "idle"
  /\ at[t] \in {"load", "store"} =>
       BetweenCalls /\ chosen[t] = next_io_service_
  /\ at[t] = "store" => loaded[t] = next_io_service_
  /\ at[t] \in {"compare", "reset", "return"} =>
       chosen[t] < size /\ Turned(chosen[t])
  /\ at[t] \in {"compare", "reset"} => next_io_service_ = chosen[t] + 1
  /\ at[t] = "reset" => chosen[t] = size - 1
  /\ at[t] = "return" =>
       next_io_service_ = IF chosen[t] = size - 1 THEN 0 ELSE chosen[t] + 1

(* A call that begins alone finds the index between calls; a call under way *)
(* is the only one until another overlaps it, and nothing is said then.     *)
Turns ==
  /\ AllIdle => BetweenCalls
  /\ \A t \in Callers : at[t] # "idle" => Turn(t)

RoundInv == PoolTypeOK /\ (overlapped = FALSE => Turns)

(* A new pool starts a round with nothing returned. *)
LEMMA RoundInit == PoolInit => RoundInv
<1> SUFFICES ASSUME PoolInit PROVE RoundInv
  OBVIOUS
<1>1. size \in Nat \ {0}
  BY PoolAssumption DEF PoolInit
<1>2. PoolTypeOK
  BY <1>1 DEF PoolInit, PoolTypeOK, Steps, Services
<1>3. Turned(0)
  <2>1. \A i \in Services : served[i] = IF i < 0 THEN 0 + 1 ELSE 0
    BY <1>1 DEF PoolInit, Services
  <2> QED BY <2>1 DEF Turned
<1> QED BY <1>1, <1>2, <1>3 DEF RoundInv, Turns, BetweenCalls, PoolInit

(* Types are kept whatever the callers do. *)
LEMMA PoolTypes == PoolTypeOK /\ [PoolNext]_poolVars => PoolTypeOK'
<1> SUFFICES ASSUME PoolTypeOK, [PoolNext]_poolVars PROVE PoolTypeOK'
  OBVIOUS
<1>1. size \in Nat \ {0} /\ size' = size
  BY PoolAssumption DEF PoolTypeOK, PoolNext, get_io_service, poolVars, Choose, Load, Store,
     Compare, Reset, Return
<1>2. CASE UNCHANGED poolVars
  BY <1>2 DEF PoolTypeOK, Services, poolVars
<1>3. ASSUME NEW t \in Callers, Choose(t) PROVE PoolTypeOK'
  <2>1. overlapped' \in BOOLEAN
    BY <1>3, Zenon DEF Choose, PoolTypeOK
  <2> QED BY <1>1, <1>3, <2>1 DEF PoolTypeOK, Services, Steps, Goto, Choose
<1>4. ASSUME NEW t \in Callers, Load(t) \/ Store(t) \/ Compare(t) \/ Reset(t)
      PROVE PoolTypeOK'
  <2>1. CASE Load(t)
    BY <1>1, <2>1 DEF PoolTypeOK, Services, Steps, Goto, Load
  <2>2. CASE Store(t)
    BY <1>1, <2>2 DEF PoolTypeOK, Services, Steps, Goto, Store
  <2>3. CASE Compare(t)
    BY <1>1, <2>3 DEF PoolTypeOK, Services, Steps, Goto, Compare
  <2>4. CASE Reset(t)
    BY <1>1, <2>4 DEF PoolTypeOK, Services, Steps, Goto, Reset
  <2> QED BY <1>4, <2>1, <2>2, <2>3, <2>4
<1>5. ASSUME NEW t \in Callers, Return(t) PROVE PoolTypeOK'
  BY <1>1, <1>5 DEF PoolTypeOK, Services, Steps, Goto, Return
<1> QED BY <1>2, <1>3, <1>4, <1>5 DEF PoolNext, get_io_service

(* The step of a call that no other overlaps keeps the turn it is at. *)
LEMMA RoundStep == RoundInv /\ [PoolNext]_poolVars => RoundInv'
<1> SUFFICES ASSUME RoundInv, [PoolNext]_poolVars, overlapped' = FALSE PROVE Turns'
  BY PoolTypes DEF RoundInv
<1>0. size \in Nat \ {0} /\ size' = size /\ PoolTypeOK
  BY PoolAssumption DEF RoundInv, PoolTypeOK, PoolNext, get_io_service, poolVars, Choose,
     Load, Store, Compare, Reset, Return
<1>1. overlapped = FALSE
  BY DEF RoundInv, PoolTypeOK, PoolNext, get_io_service, poolVars, Choose, Load, Store,
     Compare, Reset, Return
<1>2. Turns
  BY <1>1 DEF RoundInv
<1>3. CASE UNCHANGED poolVars
  BY <1>2, <1>3 DEF Turns, AllIdle, BetweenCalls, Turn, Turned, Services, poolVars
<1>4. ASSUME NEW c \in Callers, Choose(c) PROVE Turns'
  <2>1. AllIdle
    BY <1>1, <1>4 DEF Choose, AllIdle
  <2>2. \A n : Turned(n)' = Turned(n)
    BY <1>4 DEF Turned, Services, Choose
  <2> QED BY <1>0, <1>2, <1>4, <2>1, <2>2
          DEF Turns, AllIdle, BetweenCalls, Turn, Choose, Goto, PoolTypeOK
<1>5. ASSUME NEW c \in Callers, Load(c) \/ Store(c) \/ Compare(c) \/ Reset(c)
      PROVE  Turns'
  <2>1. \A n : Turned(n)' = Turned(n)
    BY <1>5 DEF Turned, Services, Load, Store, Compare, Reset
  <2>2. Turn(c) /\ at'[c] # "idle" /\ \A u \in Callers : u # c => at'[u] = "idle"
    BY <1>0, <1>2, <1>5 DEF Turns, Turn, Load, Store, Compare, Reset, Goto, PoolTypeOK
  <2>3. Turn(c)'
    BY <1>0, <1>5, <2>1, <2>2 DEF Turn, BetweenCalls, PoolTypeOK, Goto, Load, Store,
       Compare, Reset
  <2> QED BY <2>2, <2>3 DEF Turns, AllIdle
<1>6. ASSUME NEW c \in Callers, Return(c) PROVE Turns'
  <2>1. /\ chosen[c] \in Nat /\ chosen[c] < size
        /\ next_io_service_ = IF chosen[c] = size - 1 THEN 0 ELSE chosen[c] + 1
        /\ Turned(chosen[c])
        /\ \A u \in Callers : u # c => at[u] = "idle"
    BY <1>0, <1>2, <1>6 DEF Turns, Turn, PoolTypeOK, Return, Goto
  <2>2. PICK q \in Nat : \A i \in Services :
          served[i] = IF i < chosen[c] THEN q + 1 ELSE q
    BY <2>1 DEF Turned
  <2>3. next_io_service_' = next_io_service_ /\ \A u \in Callers : at'[u] = "idle"
    BY <1>0, <1>6, <2>1 DEF Return, Goto, PoolTypeOK
  <2>4. \A i \in Services : served'[i] = IF i < chosen[c] + 1 THEN q + 1 ELSE q
    BY <1>0, <1>6, <2>1, <2>2 DEF Return, Services
  <2>5. Turned(next_io_service_)'
    <3>1. CASE chosen[c] = size - 1
      <4>1. \A i \in Services' : served'[i] = IF i < 0 THEN (q + 1) + 1 ELSE q + 1
        BY <1>0, <2>1, <2>4, <3>1 DEF Services
      <4>2. next_io_service_' = 0
        BY <2>1, <2>3, <3>1
      <4> QED BY <4>1, <4>2, <2>2 DEF Turned
    <3>2. CASE chosen[c] # size - 1
      <4>1. next_io_service_' = chosen[c] + 1
        BY <2>1, <2>3, <3>2
      <4> QED BY <1>0, <2>4, <4>1 DEF Turned, Services
    <3> QED BY <3>1, <3>2
  <2>6. BetweenCalls'
    BY <1>0, <2>1, <2>3, <2>5 DEF BetweenCalls
  <2> QED BY <2>3, <2>6 DEF Turns
<1> QED BY <1>3, <1>4, <1>5, <1>6 DEF PoolNext, get_io_service

(* As long as no two calls overlap, the index get_io_service() uses is      *)
(* inside the vector and the io_services take turns: the invariant of run   *)
(* pool, for every pool, all callers and any number of calls.               *)
THEOREM PoolTakesTurns == PoolSpec => []TakesTurns
<1>1. RoundInv => TakesTurns
  <2> SUFFICES ASSUME RoundInv, overlapped = FALSE
               PROVE  IndexInRange /\ RoundRobin
    BY DEF TakesTurns, RoundInv, PoolTypeOK
  <2>1. size \in Nat \ {0} /\ PoolTypeOK /\ Turns
    BY PoolAssumption DEF RoundInv, PoolTypeOK
  <2>2. ASSUME NEW t \in Callers, at[t] # "idle" PROVE chosen[t] \in Services
    <3>1. Turn(t) /\ chosen[t] \in Nat
      BY <2>1, <2>2 DEF PoolTypeOK, Turns
    <3> QED BY <2>1, <2>2, <3>1 DEF Turn, PoolTypeOK, Steps, Services, BetweenCalls
  <2>3. ASSUME AllIdle, NEW i \in Services, NEW j \in Services
        PROVE  served[i] <= served[j] + 1
    <3>1. Turned(next_io_service_)
      BY <2>1, <2>3 DEF Turns, BetweenCalls
    <3>2. next_io_service_ \in Nat /\ i \in Nat /\ j \in Nat
      BY <2>1 DEF PoolTypeOK, Services
    <3> QED BY <2>1, <3>1, <3>2 DEF Turned
  <2> QED BY <2>2, <2>3 DEF IndexInRange, RoundRobin, AllIdle
<1> QED BY <1>1, RoundInit, RoundStep, PTL DEF PoolSpec
-----------------------------------------------------------------------------
(* NetworkClientSync.  No socket is lost, and none is left behind by a call *)
(* that failed, because connect() starts from none: Apart.                  *)
Apart ==
  /\ sockets = IF socket = "NULL" THEN 0 ELSE 1
  /\ call = "connect" => socket = "NULL" /\ peer = "closed" /\ inbox = <<>>

LEMMA ApartInit == SyncInit => Apart
  BY DEF SyncInit, Apart

LEMMA ApartStep == Apart /\ [SyncNext]_syncVars => Apart'
<1> SUFFICES ASSUME Apart, [SyncNext]_syncVars PROVE Apart'
  OBVIOUS
<1> USE DEF Apart
<1>1. CASE closeconnect BY <1>1 DEF closeconnect, Disconnect, Returns
<1>2. CASE connectBegins BY <1>2 DEF connectBegins, Disconnect
<1>3. CASE connect BY <1>3 DEF connect, Returns
<1>4. CASE connectFails BY <1>4 DEF connectFails, Returns
<1>5. CASE sendFails BY <1>5 DEF sendFails, SendFails, Disconnect, Returns
<1>6. CASE send
  <2>1. call' # "connect" BY <1>6 DEF send, Returns
  <2> QED BY <1>6, <2>1 DEF send
<1>7. CASE sendReadsHead
  BY <1>7 DEF sendReadsHead, ReadHead, SendFails, Disconnect, Returns
<1>8. CASE sendReadsBody
  <2>1. call' # "connect" BY <1>8 DEF sendReadsBody, Returns
  <2> QED BY <1>8, <2>1 DEF sendReadsBody
<1>9. CASE Answer BY <1>9 DEF Answer, local
<1>10. CASE PeerClose BY <1>10 DEF PeerClose, local
<1>11. CASE UNCHANGED syncVars BY <1>11 DEF syncVars, local
<1> QED
  BY <1>1, <1>2, <1>3, <1>4, <1>5, <1>6, <1>7, <1>8, <1>9, <1>10, <1>11
     DEF SyncNext, Sending

(* The socket that exists is the one closeconnect() will delete.            *)
THEOREM SyncSocketsAccounted == SyncSpec => []SocketsAccounted
<1>1. Apart => SocketsAccounted
  BY DEF Apart, SocketsAccounted
<1> QED BY <1>1, ApartInit, ApartStep, PTL DEF SyncSpec

(* A failed call leaves no connection on which the rest of an answer could  *)
(* be taken for the next.                                                   *)
THEOREM SyncFailureDisconnects == SyncSpec => FailureDisconnects
<1> DEFINE Failed == /\ call' = "none" /\ ~ret'
                     /\ (call # "none" \/ requests' # requests)
<1>1. Apart /\ [SyncNext]_syncVars
      => [Failed => peer' = "closed" /\ inbox' = <<>>]_syncVars
  <2> SUFFICES ASSUME Apart, SyncNext, Failed
               PROVE  peer' = "closed" /\ inbox' = <<>>
    OBVIOUS
  <2>1. CASE closeconnect \/ connectBegins
    BY <2>1 DEF closeconnect, connectBegins
  <2>2. CASE connect BY <2>2 DEF connect, Returns
  <2>3. CASE connectFails BY <2>3 DEF connectFails, Apart
  <2>4. CASE sendFails BY <2>4 DEF sendFails, SendFails, Disconnect
  <2>5. CASE send BY <2>5 DEF send, Returns
  <2>6. CASE sendReadsHead
    BY <2>6 DEF sendReadsHead, ReadHead, SendFails, Disconnect
  <2>7. CASE sendReadsBody BY <2>7 DEF sendReadsBody, Returns
  <2>8. CASE Answer \/ PeerClose BY <2>8 DEF Answer, PeerClose, local
  <2> QED BY <2>1, <2>2, <2>3, <2>4, <2>5, <2>6, <2>7, <2>8 DEF SyncNext, Sending
<1>2. SyncSpec => [][Failed => peer' = "closed" /\ inbox' = <<>>]_syncVars
  BY <1>1, ApartInit, ApartStep, PTL DEF SyncSpec
<1> QED BY <1>2 DEF FailureDisconnects
(* An answer, and how its bytes follow each other: one that is not the last *)
(* is followed by the others of its answer, and the last by a first one.    *)
AnswerLength == HEAD + BODY

Octet == [req : Nat, id : MessageIds, part : 1..AnswerLength]

Request == [n : Nat, retId : MessageIds \cup {"none"}, length : Nat]

SyncTypeOK ==
  /\ inbox \in Seq(Octet) /\ retData \in Seq(Octet)
  /\ asked \in Seq([n : Nat, id : MessageIds])
  /\ requests \in Nat /\ request \in Request

Together(s) ==
  \A j \in 1..Len(s), d \in Nat : s[j].part + d <= AnswerLength =>
    /\ j + d <= Len(s)
    /\ s[j + d].req = s[j].req /\ s[j + d].id = s[j].id
    /\ s[j + d].part = s[j].part + d

InTurn(s) ==
  \A j \in 1..Len(s) :
    j + 1 <= Len(s) /\ s[j].part = AnswerLength => s[j + 1].part = 1

(* What is left of an answer is the rest of its body.                       *)
Reading ==
  /\ inbox # <<>> /\ inbox[1].part = HEAD + Len(retData) + 1
  /\ inbox[1].id = request.retId
  /\ request.length = BODY /\ Len(retData) < BODY
  /\ \A k \in 1..Len(retData) :
       /\ retData[k].req = inbox[1].req /\ retData[k].id = request.retId
       /\ retData[k].part = HEAD + k

(* As long as the other end stays and heads come whole.                     *)
Whole ==
  ~rough =>
    /\ socket = "connected" => peer = "up"
    /\ call \in {"head", "body"} => socket = "connected"
    /\ Together(inbox) /\ InTurn(inbox)
    /\ call # "body" /\ inbox # <<>> => inbox[1].part = 1
    /\ call = "head" => retData = <<>>
    /\ call = "body" => Reading

LEMMA LengthsAreNat ==
  /\ HEAD \in Nat /\ HEAD > 0 /\ BODY \in Nat /\ BODY > 0
  /\ AnswerLength = HEAD + BODY /\ AnswerLength \in Nat
  BY SyncAssumption DEF AnswerLength

LEMMA BytesOfAnswer ==
  ASSUME NEW n \in Nat, NEW id \in MessageIds
  PROVE  /\ Bytes(n, id) \in Seq(Octet) /\ Len(Bytes(n, id)) = AnswerLength
         /\ \A k \in 1..AnswerLength :
              /\ Bytes(n, id)[k].req = n /\ Bytes(n, id)[k].id = id
              /\ Bytes(n, id)[k].part = k
<1> DEFINE b == [k \in 1..AnswerLength |-> [req |-> n, id |-> id, part |-> k]]
<1>1. Bytes(n, id) = b
  BY DEF Bytes, AnswerLength
<1>2. \A k \in 1..AnswerLength : [req |-> n, id |-> id, part |-> k] \in Octet
  BY DEF Octet
<1>3. b \in [1..AnswerLength -> Octet]
  BY <1>2
<1>4. b \in Seq(Octet) /\ Len(b) = AnswerLength
  BY <1>3, LengthsAreNat
<1>5. \A k \in 1..AnswerLength : b[k].req = n /\ b[k].id = id /\ b[k].part = k
  OBVIOUS
<1> QED BY <1>1, <1>4, <1>5

(* What is left after the first bytes of s were read. *)
LEMMA RestOf ==
  ASSUME NEW T, NEW s \in Seq(T), NEW n \in 0..Len(s)
  PROVE  /\ SubSeq(s, n + 1, Len(s)) \in Seq(T)
         /\ Len(SubSeq(s, n + 1, Len(s))) = Len(s) - n
         /\ \A k \in 1..(Len(s) - n) : SubSeq(s, n + 1, Len(s))[k] = s[n + k]
<1>1. Len(s) \in Nat /\ n \in Nat /\ n <= Len(s)
  OBVIOUS
<1> DEFINE l == Len(s)
<1>2. \A k \in (n + 1)..l : s[k] \in T
  BY <1>1
<1>3. SubSeq(s, n + 1, l) = [k \in 1..(l - n) |-> s[n + k]]
  BY <1>1
<1> QED BY <1>1, <1>2, <1>3

LEMMA ReadingOn ==
  ASSUME NEW s \in Seq(Octet), NEW n \in 0..Len(s), Together(s), InTurn(s)
  PROVE  /\ Together(SubSeq(s, n + 1, Len(s)))
         /\ InTurn(SubSeq(s, n + 1, Len(s)))
<1> DEFINE r == SubSeq(s, n + 1, Len(s))
<1>1. /\ r \in Seq(Octet) /\ Len(r) = Len(s) - n
      /\ \A k \in 1..(Len(s) - n) : r[k] = s[n + k]
  BY RestOf
<1>2. Len(s) \in Nat /\ n \in Nat /\ n <= Len(s)
  OBVIOUS
<1> HIDE DEF r
<1>3. Together(r)
  <2> SUFFICES ASSUME NEW j \in 1..Len(r), NEW d \in Nat,
                      r[j].part + d <= AnswerLength
               PROVE  /\ j + d <= Len(r)
                      /\ r[j + d].req = r[j].req /\ r[j + d].id = r[j].id
                      /\ r[j + d].part = r[j].part + d
    BY DEF Together
  <2>1. n + j \in 1..Len(s) /\ r[j] = s[n + j] /\ (n + j) + d = n + (j + d)
    BY <1>1, <1>2
  <2>2. /\ (n + j) + d <= Len(s)
        /\ s[(n + j) + d].req = s[n + j].req /\ s[(n + j) + d].id = s[n + j].id
        /\ s[(n + j) + d].part = s[n + j].part + d
    BY <2>1 DEF Together
  <2>3. j + d \in 1..(Len(s) - n) /\ j + d <= Len(r)
    BY <1>1, <1>2, <2>1, <2>2
  <2>4. r[j + d] = s[n + (j + d)]
    BY <1>1, <2>3
  <2>5. r[j + d] = s[(n + j) + d]
    BY <2>1, <2>4
  <2> QED BY <2>1, <2>2, <2>3, <2>5
<1>4. InTurn(r)
  <2> SUFFICES ASSUME NEW j \in 1..Len(r), j + 1 <= Len(r),
                      r[j].part = AnswerLength
               PROVE  r[j + 1].part = 1
    BY DEF InTurn
  <2>1. /\ n + j \in 1..Len(s) /\ r[j] = s[n + j] /\ (n + j) + 1 = n + (j + 1)
        /\ (n + j) + 1 <= Len(s) /\ r[j + 1] = s[n + (j + 1)]
    BY <1>1, <1>2
  <2> QED BY <2>1 DEF InTurn
<1> QED BY <1>3, <1>4 DEF r

LEMMA AnswerAdded ==
  ASSUME NEW s \in Seq(Octet), NEW n \in Nat, NEW id \in MessageIds,
         Together(s), InTurn(s)
  PROVE  /\ Together(s \o Bytes(n, id)) /\ InTurn(s \o Bytes(n, id))
         /\ s \o Bytes(n, id) \in Seq(Octet)
         /\ s \o Bytes(n, id) # <<>>
         /\ s # <<>> => (s \o Bytes(n, id))[1] = s[1]
         /\ s = <<>> => (s \o Bytes(n, id))[1].part = 1
<1> DEFINE b == Bytes(n, id)
           r == s \o b
           l == Len(s)
<1>1. /\ b \in Seq(Octet) /\ Len(b) = AnswerLength
      /\ \A k \in 1..AnswerLength : b[k].req = n /\ b[k].id = id /\ b[k].part = k
  BY BytesOfAnswer
<1> HIDE DEF b
<1>2. /\ r \in Seq(Octet) /\ Len(r) = l + AnswerLength /\ l \in Nat
      /\ \A k \in 1..l : r[k] = s[k]
      /\ \A k \in 1..AnswerLength : r[l + k] = b[k]
  BY <1>1, LengthsAreNat
<1>3. \A k \in 1..AnswerLength :
        r[l + k].req = n /\ r[l + k].id = id /\ r[l + k].part = k
  BY <1>1, <1>2
<1>4. 1 \in 1..AnswerLength /\ Len(r) > 0 /\ (s = <<>> <=> l = 0)
  BY <1>2, LengthsAreNat
<1> HIDE DEF r
<1>5. \A j \in 1..Len(r) : j \in 1..l \/ \E k \in 1..AnswerLength : j = l + k
  <2> SUFFICES ASSUME NEW j \in 1..Len(r), ~(j \in 1..l)
               PROVE  \E k \in 1..AnswerLength : j = l + k
    OBVIOUS
  <2>1. j - l \in 1..AnswerLength /\ j = l + (j - l)
    BY <1>2, LengthsAreNat
  <2> QED BY <2>1
<1>6. Together(r)
  <2> SUFFICES ASSUME NEW j \in 1..Len(r), NEW d \in Nat,
                      r[j].part + d <= AnswerLength
               PROVE  /\ j + d <= Len(r)
                      /\ r[j + d].req = r[j].req /\ r[j + d].id = r[j].id
                      /\ r[j + d].part = r[j].part + d
    BY DEF Together
  <2>1. CASE j \in 1..l
    <3>1. r[j] = s[j] BY <1>2, <2>1
    <3>2. /\ j + d <= l /\ s[j + d].req = s[j].req /\ s[j + d].id = s[j].id
          /\ s[j + d].part = s[j].part + d
      BY <2>1, <3>1 DEF Together
    <3>3. j + d \in 1..l /\ j + d <= Len(r)
      BY <1>2, <2>1, <3>2, LengthsAreNat
    <3> QED BY <1>2, <3>1, <3>2, <3>3
  <2>2. CASE \E k \in 1..AnswerLength : j = l + k
    <3>1. PICK k \in 1..AnswerLength : j = l + k BY <2>2
    <3>2. r[j].req = n /\ r[j].id = id /\ r[j].part = k
      BY <1>3, <3>1
    <3>3. k + d <= AnswerLength
      BY <3>2
    <3>4. k + d \in 1..AnswerLength /\ j + d = l + (k + d)
      BY <1>2, <3>1, <3>3, LengthsAreNat
    <3>5. j + d <= Len(r)
      BY <1>2, <3>4, LengthsAreNat
    <3>6. /\ r[l + (k + d)].req = n /\ r[l + (k + d)].id = id
          /\ r[l + (k + d)].part = k + d
      BY <1>3, <3>4
    <3> QED BY <3>2, <3>4, <3>5, <3>6
  <2> QED BY <1>5, <2>1, <2>2
<1>7. InTurn(r)
  <2> SUFFICES ASSUME NEW j \in 1..Len(r), j + 1 <= Len(r),
                      r[j].part = AnswerLength
               PROVE  r[j + 1].part = 1
    BY DEF InTurn
  <2>1. CASE j \in 1..l
    <3>1. r[j] = s[j] /\ s[j].part = AnswerLength BY <1>2, <2>1
    <3>2. CASE j = l
      BY <1>3, <1>4, <3>2
    <3>3. CASE j # l
      <4>1. j + 1 \in 1..l /\ j + 1 <= l BY <1>2, <2>1, <3>3
      <4> QED BY <1>2, <2>1, <3>1, <4>1 DEF InTurn
    <3> QED BY <3>2, <3>3
  <2>2. CASE \E k \in 1..AnswerLength : j = l + k
    <3>1. PICK k \in 1..AnswerLength : j = l + k BY <2>2
    <3>2. k = AnswerLength BY <1>3, <3>1
    <3> QED BY <1>2, <3>1, <3>2, LengthsAreNat
  <2> QED BY <1>5, <2>1, <2>2
<1>8. s # <<>> => r[1] = s[1]
  BY <1>2, <1>4
<1>9. s = <<>> => r[1].part = 1
  <2> SUFFICES ASSUME s = <<>> PROVE r[1].part = 1
    OBVIOUS
  <2>1. l = 0 /\ l + 1 = 1 BY <1>4
  <2> QED BY <1>3, <1>4, <2>1
<1> QED BY <1>2, <1>4, <1>6, <1>7, <1>8, <1>9 DEF r, b
LEMMA FirstOf ==
  ASSUME NEW T, NEW s \in Seq(T), NEW n \in 0..Len(s)
  PROVE  /\ SubSeq(s, 1, n) \in Seq(T) /\ Len(SubSeq(s, 1, n)) = n
         /\ \A k \in 1..n : SubSeq(s, 1, n)[k] = s[k]
<1>1. Len(s) \in Nat /\ n \in Nat /\ n <= Len(s)
  OBVIOUS
<1>2. \A k \in 1..n : s[k] \in T
  BY <1>1
<1>3. SubSeq(s, 1, n) = [k \in 1..n |-> s[k]]
  BY <1>1
<1> QED BY <1>1, <1>2, <1>3

(* What a read may bring is there to be read, and no more than was asked.   *)
LEMMA AvailableIsThere ==
  ASSUME SyncTypeOK, NEW m \in Int, NEW n \in Available(m)
  PROVE  /\ n \in 0..Len(inbox)
         /\ inbox # <<>> => n \in 1..m
         /\ inbox = <<>> => n = 0 /\ peer = "closed"
<1>1. Len(inbox) \in Nat
  BY DEF SyncTypeOK
<1>2. CASE inbox = <<>>
  BY <1>1, <1>2 DEF Available
<1>3. CASE inbox # <<>>
  BY <1>1, <1>3 DEF Available
<1> QED BY <1>2, <1>3

LEMMA SyncTypesInit == SyncInit => SyncTypeOK
<1>1. /\ <<>> \in Seq(Octet) /\ <<>> \in Seq([n : Nat, id : MessageIds])
      /\ NoRequest \in Request
  BY DEF NoRequest, Request
<1> QED BY <1>1 DEF SyncInit, SyncTypeOK

LEMMA SyncTypesStep == SyncTypeOK /\ [SyncNext]_syncVars => SyncTypeOK'
<1> SUFFICES ASSUME SyncTypeOK, [SyncNext]_syncVars PROVE SyncTypeOK'
  OBVIOUS
<1> DEFINE Ask == [n : Nat, id : MessageIds]
<1>0. <<>> \in Seq(Octet) /\ <<>> \in Seq(Ask)
  OBVIOUS
<1>00. /\ inbox \in Seq(Octet) /\ retData \in Seq(Octet) /\ asked \in Seq(Ask)
       /\ requests \in Nat /\ request \in Request
  BY DEF SyncTypeOK
<1>1. CASE closeconnect \/ connectBegins \/ connect \/ connectFails
  BY <1>0, <1>00, <1>1
     DEF closeconnect, connectBegins, connect, connectFails, Disconnect, SyncTypeOK
<1>2. CASE sendFails
  BY <1>0, <1>00, <1>2 DEF sendFails, SendFails, Disconnect, SyncTypeOK
<1>3. CASE send
  <2>1. PICK id \in MessageIds, noneedret \in BOOLEAN, whole \in BOOLEAN :
          /\ asked' = IF peer = "up" /\ whole
                      THEN Append(asked, [n |-> requests', id |-> id]) ELSE asked
          /\ IF noneedret
             THEN Returns(TRUE) /\ UNCHANGED request
             ELSE /\ request' = [n |-> requests', retId |-> id, length |-> 0]
                  /\ call' = "head" /\ UNCHANGED ret
    BY <1>3 DEF send
  <2>2. requests' \in Nat /\ retData' = <<>> /\ inbox' = inbox
    BY <1>00, <1>3 DEF send
  <2>3. [n |-> requests', id |-> id] \in Ask
    BY <2>2
  <2>4. asked' \in Seq(Ask)
    <3> HIDE DEF Ask
    <3> QED BY <1>00, <2>1, <2>3
  <2>5. request' \in Request
    <3>1. request' = request \/ request' = [n |-> requests', retId |-> id, length |-> 0]
      BY <2>1
    <3>2. [n |-> requests', retId |-> id, length |-> 0] \in Request
      BY <2>2 DEF Request
    <3> QED BY <1>00, <3>1, <3>2, Zenon
  <2> QED BY <1>0, <1>00, <2>2, <2>4, <2>5 DEF SyncTypeOK
<1>4. CASE sendReadsHead
  <2>1. PICK n \in HeadLengths, id \in MessageIds \cup {"other"}, length \in Lengths :
          ReadHead(n, id, length)
    BY <1>4 DEF sendReadsHead
  <2>2. requests' = requests /\ retData' = retData
    BY <1>4, <2>1 DEF sendReadsHead, ReadHead, SendFails
  <2>3. CASE SendFails
    BY <1>0, <1>00, <2>2, <2>3 DEF SendFails, Disconnect, SyncTypeOK
  <2>4. CASE ~SendFails
    <3>1. /\ request' = [request EXCEPT !.length = length] /\ asked' = asked
          /\ inbox' = SubSeq(inbox, n + 1, Len(inbox))
      BY <2>1, <2>4 DEF ReadHead
    <3>2. request' \in Request
      <4>1. length \in Nat BY SyncAssumption
      <4> QED BY <1>00, <3>1, <4>1 DEF Request
    <3>3. n \in Available(HEAD)
      BY <2>1 DEF HeadLengths
    <3>4. n \in 0..Len(inbox)
      BY <3>3, AvailableIsThere, LengthsAreNat
    <3>5. inbox' \in Seq(Octet)
      BY <1>00, <3>1, <3>4, RestOf
    <3> QED BY <1>00, <2>2, <3>1, <3>2, <3>5 DEF SyncTypeOK
  <2> QED BY <2>3, <2>4
<1>5. CASE sendReadsBody
  <2>1. PICK n \in (IF request.length = Len(retData) THEN {0}
                    ELSE Available(request.length - Len(retData))) :
          /\ retData' = retData \o SubSeq(inbox, 1, n)
          /\ inbox' = SubSeq(inbox, n + 1, Len(inbox))
    BY <1>5 DEF sendReadsBody
  <2>2. request.length - Len(retData) \in Int /\ Len(inbox) \in Nat
    BY <1>00, LengthsAreNat DEF Request
  <2>3. n \in 0..Len(inbox)
    BY <2>1, <2>2, AvailableIsThere
  <2> DEFINE first == SubSeq(inbox, 1, n)
  <2>4. first \in Seq(Octet)
    BY <1>00, <2>3, FirstOf
  <2>5. inbox' \in Seq(Octet)
    BY <1>00, <2>1, <2>3, RestOf
  <2> HIDE DEF first
  <2>6. retData \o first \in Seq(Octet)
    BY <1>00, <2>4
  <2>7. request' = request /\ requests' = requests /\ asked' = asked
    BY <1>5 DEF sendReadsBody
  <2> QED BY <1>00, <2>1, <2>5, <2>6, <2>7 DEF SyncTypeOK, first
<1>6. CASE Answer
  <2>1. /\ asked # <<>> /\ asked' = Tail(asked) /\ UNCHANGED local
        /\ inbox' = inbox \o Bytes(Head(asked).n, Head(asked).id)
    BY <1>6 DEF Answer
  <2>2. Head(asked) \in Ask /\ Tail(asked) \in Seq(Ask)
    <3> HIDE DEF Ask
    <3> QED BY <1>00, <2>1
  <2>3. Head(asked).n \in Nat /\ Head(asked).id \in MessageIds
    BY <2>2
  <2>4. Bytes(Head(asked).n, Head(asked).id) \in Seq(Octet)
    BY <2>3, BytesOfAnswer
  <2>5. inbox' \in Seq(Octet)
    BY <1>00, <2>1, <2>4
  <2> QED BY <1>00, <2>1, <2>2, <2>5 DEF SyncTypeOK, local
<1>7. CASE PeerClose
  <2>1. PICK k \in 0..Len(inbox) : inbox' = SubSeq(inbox, 1, k)
    BY <1>7 DEF PeerClose
  <2>2. inbox' \in Seq(Octet)
    BY <1>00, <2>1, FirstOf
  <2> QED BY <1>0, <1>00, <1>7, <2>2 DEF PeerClose, local, SyncTypeOK
<1>8. CASE UNCHANGED syncVars BY <1>00, <1>8 DEF syncVars, local, SyncTypeOK
<1> QED BY <1>1, <1>2, <1>3, <1>4, <1>5, <1>6, <1>7, <1>8 DEF SyncNext, Sending
(* What the caller reads next, once the whole head of an answer was read.   *)
LEMMA HeadWasRead ==
  ASSUME SyncTypeOK, Together(inbox), inbox # <<>>, inbox[1].part = 1,
         HEAD <= Len(inbox)
  PROVE  /\ \A k \in 1..HEAD : inbox[k].part = k
         /\ HEAD + 1 <= Len(inbox)
         /\ inbox[HEAD + 1].part = HEAD + 1 /\ inbox[HEAD + 1].id = inbox[1].id
<1>1. inbox \in Seq(Octet) /\ Len(inbox) \in Nat /\ Len(inbox) >= 1
  BY DEF SyncTypeOK
<1>2. \A d \in Nat : 1 + d <= AnswerLength =>
        /\ 1 + d <= Len(inbox)
        /\ inbox[1 + d].id = inbox[1].id /\ inbox[1 + d].part = 1 + d
  <2>1. 1 \in 1..Len(inbox) BY <1>1
  <2> QED BY <2>1 DEF Together
<1>3. ASSUME NEW k \in 1..HEAD PROVE inbox[k].part = k
  <2>1. k - 1 \in Nat /\ 1 + (k - 1) = k /\ 1 + (k - 1) <= AnswerLength
    BY LengthsAreNat
  <2>2. inbox[1 + (k - 1)].part = 1 + (k - 1) BY <1>2, <2>1
  <2> QED BY <2>1, <2>2
<1>4. HEAD \in Nat /\ 1 + HEAD <= AnswerLength /\ 1 + HEAD = HEAD + 1
  BY LengthsAreNat
<1> QED BY <1>2, <1>3, <1>4

LEMMA WholeInit == SyncInit => Whole
<1> SUFFICES ASSUME SyncInit PROVE Whole
  OBVIOUS
<1>1. inbox = <<>> /\ Len(inbox) = 0 /\ call = "none" /\ socket = "NULL"
  BY DEF SyncInit
<1>2. Together(inbox) /\ InTurn(inbox)
  BY <1>1 DEF Together, InTurn
<1> QED BY <1>1, <1>2 DEF Whole

LEMMA NothingIsWhole == Together(<<>>) /\ InTurn(<<>>)
  BY DEF Together, InTurn

(* The loop in send(): more of the body of the same answer.                 *)
LEMMA BodyStep ==
  ASSUME SyncTypeOK, Whole, ~rough, sendReadsBody
  PROVE  /\ Together(inbox') /\ InTurn(inbox')
         /\ call' = "none" => /\ Len(retData') = BODY /\ ret' = TRUE
                              /\ inbox' # <<>> => inbox'[1].part = 1
         /\ call' # "none" => call' = "body" /\ Reading'
         /\ inbox # <<>> /\ Len(inbox') + Len(retData') = Len(inbox) + Len(retData)
         /\ \A k \in 1..Len(retData') :
              /\ retData'[k].req = inbox[1].req /\ retData'[k].id = request.retId
              /\ retData'[k].part = HEAD + k
         /\ \A k \in 1..Len(inbox') :
              \E l \in 1..Len(inbox) : inbox'[k] = inbox[l]
<1> DEFINE L == Len(retData)
           s == inbox
<1>1. /\ inbox \in Seq(Octet) /\ retData \in Seq(Octet) /\ L \in Nat
      /\ Len(s) \in Nat
  BY DEF SyncTypeOK
<1>2. Reading /\ Together(s) /\ InTurn(s) /\ call = "body"
  BY DEF Whole, sendReadsBody
<1>3. PICK n \in Available(BODY - L) :
        /\ retData' = retData \o SubSeq(s, 1, n)
        /\ inbox' = SubSeq(s, n + 1, Len(s))
  <2>1. request.length = BODY /\ request.length # Len(retData)
    BY <1>1, <1>2, LengthsAreNat DEF Reading
  <2>2. \E n \in (IF request.length = Len(retData) THEN {0}
                  ELSE Available(request.length - Len(retData))) :
          /\ retData' = retData \o SubSeq(inbox, 1, n)
          /\ inbox' = SubSeq(inbox, n + 1, Len(inbox))
    BY DEF sendReadsBody
  <2> QED BY <2>1, <2>2
<1>4. n \in 0..Len(s) /\ n \in 1..(BODY - L)
  BY <1>1, <1>2, AvailableIsThere, LengthsAreNat DEF Reading
<1> DEFINE first == SubSeq(s, 1, n)
           rest == SubSeq(s, n + 1, Len(s))
<1>5. /\ first \in Seq(Octet) /\ Len(first) = n
      /\ \A k \in 1..n : first[k] = s[k]
  BY <1>1, <1>4, FirstOf
<1>6. /\ rest \in Seq(Octet) /\ Len(rest) = Len(s) - n
      /\ \A k \in 1..(Len(s) - n) : rest[k] = s[n + k]
  BY <1>1, <1>4, RestOf
<1>7. Together(rest) /\ InTurn(rest)
  BY <1>1, <1>2, <1>4, ReadingOn
<1> HIDE DEF first, rest
<1>8. /\ retData' \in Seq(Octet) /\ Len(retData') = L + n
      /\ \A k \in 1..L : retData'[k] = retData[k]
      /\ \A k \in 1..n : retData'[L + k] = first[k]
  <2> DEFINE more == retData \o first
  <2>1. retData' = more BY <1>3 DEF first
  <2>2. /\ more \in Seq(Octet) /\ Len(more) = L + n
        /\ \A k \in 1..L : more[k] = retData[k]
        /\ \A k \in 1..n : more[L + k] = first[k]
    BY <1>1, <1>4, <1>5
  <2> HIDE DEF more
  <2> QED BY <2>1, <2>2
<1>9. inbox' = rest BY <1>3 DEF rest
<1>10. \A d \in Nat : HEAD + L + 1 + d <= AnswerLength =>
         /\ 1 + d <= Len(s) /\ s[1 + d].req = s[1].req
         /\ s[1 + d].id = request.retId /\ s[1 + d].part = HEAD + L + 1 + d
  <2>1. 1 \in 1..Len(s) /\ s[1].part = HEAD + L + 1 /\ s[1].id = request.retId
    BY <1>1, <1>2 DEF Reading
  <2> QED BY <1>2, <2>1 DEF Together
<1>11. ASSUME NEW k \in 1..Len(retData')
       PROVE  /\ retData'[k].req = s[1].req /\ retData'[k].id = request.retId
              /\ retData'[k].part = HEAD + k
  <2>1. CASE k \in 1..L
    BY <1>2, <1>8, <2>1 DEF Reading
  <2>2. CASE ~(k \in 1..L)
    <3> DEFINE d == k - L - 1
    <3>1. /\ d \in Nat /\ 1 + d \in 1..n /\ L + (1 + d) = k
          /\ HEAD + L + 1 + d <= AnswerLength /\ HEAD + L + 1 + d = HEAD + k
      BY <1>1, <1>4, <1>8, <2>2, LengthsAreNat
    <3> HIDE DEF d
    <3>2. retData'[k] = s[1 + d]
      BY <1>5, <1>8, <3>1
    <3> QED BY <1>10, <3>1, <3>2
  <2> QED BY <2>1, <2>2
<1>12. /\ s # <<>> /\ Len(rest) + Len(retData') = Len(s) + L
       /\ \A k \in 1..Len(rest) : \E l \in 1..Len(s) : rest[k] = s[l]
  <2>1. s # <<>> BY <1>2 DEF Reading
  <2>2. Len(rest) + Len(retData') = Len(s) + L BY <1>1, <1>4, <1>6, <1>8
  <2>3. ASSUME NEW k \in 1..Len(rest) PROVE \E l \in 1..Len(s) : rest[k] = s[l]
    <3>1. n + k \in 1..Len(s) /\ rest[k] = s[n + k]
      BY <1>1, <1>4, <1>6
    <3> QED BY <3>1
  <2> QED BY <2>1, <2>2, <2>3
<1>13. IF L + n >= BODY THEN call' = "none" /\ ret' = TRUE ELSE call' = call
  BY <1>2, <1>8 DEF sendReadsBody, BodyRead, Returns, Reading
<1>14. request' = request
  BY DEF sendReadsBody
<1>15. CASE L + n >= BODY
  <2>1. L + n = BODY BY <1>1, <1>4, <1>15, LengthsAreNat
  <2>2. ASSUME rest # <<>> PROVE rest[1].part = 1
    <3>1. Len(rest) >= 1 /\ 1 \in 1..(Len(s) - n) /\ rest[1] = s[n + 1]
      BY <1>1, <1>4, <1>6, <2>2
    <3>2. /\ n - 1 \in Nat /\ 1 + (n - 1) = n
          /\ HEAD + L + 1 + (n - 1) = AnswerLength
      BY <1>1, <1>4, <2>1, LengthsAreNat
    <3>3. s[n].part = AnswerLength
      <4> DEFINE d == n - 1
      <4>1. d \in Nat /\ 1 + d = n /\ HEAD + L + 1 + d = AnswerLength
        BY <3>2
      <4>2. HEAD + L + 1 + d <= AnswerLength
        BY <4>1, LengthsAreNat
      <4> HIDE DEF d
      <4>3. s[1 + d].part = HEAD + L + 1 + d
        BY <1>10, <4>1, <4>2
      <4> QED BY <4>1, <4>3
    <3>4. n \in 1..Len(s) /\ n + 1 <= Len(s)
      BY <1>1, <1>4, <3>1
    <3> QED BY <1>2, <3>1, <3>3, <3>4 DEF InTurn
  <2> QED BY <1>7, <1>8, <1>9, <1>11, <1>12, <1>13, <1>15, <2>1, <2>2
<1>16. CASE ~(L + n >= BODY)
  <2>1. /\ n \in Nat /\ HEAD + L + 1 + n <= AnswerLength
        /\ L + n < BODY
    BY <1>1, <1>4, <1>16, LengthsAreNat
  <2>2. /\ 1 + n <= Len(s) /\ s[1 + n].req = s[1].req
        /\ s[1 + n].id = request.retId /\ s[1 + n].part = HEAD + L + 1 + n
    BY <1>10, <2>1
  <2>3. /\ 1 \in 1..(Len(s) - n) /\ rest[1] = s[n + 1] /\ n + 1 = 1 + n
        /\ rest # <<>>
    BY <1>1, <1>4, <1>6, <2>2
  <2>4. HEAD + L + 1 + n = HEAD + Len(retData') + 1
    BY <1>1, <1>4, <1>8, LengthsAreNat
  <2>5. request.length = BODY BY <1>2 DEF Reading
  <2>6. Reading'
    BY <1>8, <1>9, <1>11, <1>14, <2>1, <2>2, <2>3, <2>4, <2>5 DEF Reading
  <2>7. call' = "body" BY <1>2, <1>13, <1>16
  <2> QED BY <1>7, <1>9, <1>11, <1>12, <2>6, <2>7
<1> QED BY <1>15, <1>16
(* The head is not what was awaited, or it is not to be had.                *)
LEMMA ReadHeadEnds ==
  sendReadsHead /\ call' = "none" => Disconnect
BY DEF sendReadsHead, ReadHead, SendFails

(* The head of an answer was read: its body is next.                        *)
LEMMA HeadStep ==
  ASSUME SyncTypeOK, Whole, ~rough, sendReadsHead, call' # "none"
  PROVE  /\ call' = "body" /\ Reading' /\ Together(inbox') /\ InTurn(inbox')
         /\ UNCHANGED <<socket, peer, asked, retData, unawaited>>
         /\ socket = "connected" /\ retData = <<>> /\ request'.n = request.n
         /\ inbox # <<>> /\ Len(inbox') = Len(inbox) - HEAD
         /\ \A k \in 1..Len(inbox') :
              \E l \in 1..Len(inbox) : inbox'[k] = inbox[l]
<1>0. call = "head"
  BY DEF sendReadsHead
<1>00. /\ inbox \in Seq(Octet) /\ Len(inbox) \in Nat
       /\ socket = "connected" /\ peer = "up"
       /\ Together(inbox) /\ InTurn(inbox)
       /\ inbox # <<>> => inbox[1].part = 1
       /\ retData = <<>> /\ Len(retData) = 0
  BY <1>0 DEF Whole, SyncTypeOK
<1>1. PICK n \in HeadLengths, id \in MessageIds \cup {"other"}, length \in Lengths :
        ReadHead(n, id, length)
  BY DEF sendReadsHead
<1>2. /\ id = request.retId
      /\ request' = [request EXCEPT !.length = length] /\ call' = "body"
      /\ inbox' = SubSeq(inbox, n + 1, Len(inbox))
      /\ UNCHANGED <<socket, peer, asked, retData, unawaited>>
  BY <1>1 DEF ReadHead, SendFails, Returns
<1>3. n \in Available(HEAD) /\ n \in {0, HEAD}
  BY <1>1 DEF HeadLengths
<1>4. /\ n \in 0..Len(inbox) /\ inbox # <<>> /\ n \in 1..HEAD
  BY <1>00, <1>3, AvailableIsThere, LengthsAreNat
<1>5. n = HEAD /\ HEAD <= Len(inbox)
  BY <1>00, <1>3, <1>4, LengthsAreNat
<1>6. /\ \A k \in 1..HEAD : inbox[k].part = k
      /\ HEAD + 1 <= Len(inbox)
      /\ inbox[HEAD + 1].part = HEAD + 1 /\ inbox[HEAD + 1].id = inbox[1].id
  BY <1>00, <1>4, <1>5, HeadWasRead
<1>7. id = inbox[1].id /\ length = BODY
  BY <1>1, <1>5, <1>6 DEF ReadHead, HeadIs, HeadIsWhole
<1> DEFINE rest == SubSeq(inbox, n + 1, Len(inbox))
<1>8. /\ rest \in Seq(Octet) /\ Len(rest) = Len(inbox) - n
      /\ \A k \in 1..(Len(inbox) - n) : rest[k] = inbox[n + k]
  BY <1>00, <1>4, RestOf
<1>9. Together(rest) /\ InTurn(rest)
  BY <1>00, <1>4, ReadingOn
<1> HIDE DEF rest
<1>10. inbox' = rest BY <1>2 DEF rest
<1>11. rest # <<>> /\ rest[1] = inbox[HEAD + 1]
  BY <1>00, <1>5, <1>6, <1>8, LengthsAreNat
<1>12. request'.length = BODY /\ request'.retId = id /\ request'.n = request.n
  BY <1>2, <1>7 DEF SyncTypeOK, Request
<1>13. HEAD + Len(retData') + 1 = HEAD + 1 /\ Len(retData') = 0
  BY <1>00, <1>2, LengthsAreNat
<1>14. Reading'
  BY <1>6, <1>7, <1>10, <1>11, <1>12, <1>13, LengthsAreNat DEF Reading
<1>15. ASSUME NEW k \in 1..Len(rest)
       PROVE  \E l \in 1..Len(inbox) : rest[k] = inbox[l]
  <2>1. n + k \in 1..Len(inbox) /\ rest[k] = inbox[n + k]
    BY <1>00, <1>4, <1>8
  <2> QED BY <2>1
<1>16. /\ Len(inbox') = Len(inbox) - HEAD
       /\ \A k \in 1..Len(inbox') : \E l \in 1..Len(inbox) : inbox'[k] = inbox[l]
  BY <1>5, <1>8, <1>10, <1>15
<1>17. Together(inbox') /\ InTurn(inbox')
  BY <1>9, <1>10
<1> QED BY <1>00, <1>2, <1>4, <1>12, <1>14, <1>16, <1>17

LEMMA WholeStep ==
  SyncTypeOK /\ Apart /\ Whole /\ [SyncNext]_syncVars => Whole'
<1> SUFFICES ASSUME SyncTypeOK, Apart, Whole, [SyncNext]_syncVars, ~rough'
             PROVE  Whole'
  BY DEF Whole
<1>0. ~rough /\ rough' = rough
  BY DEF SyncNext, syncVars
<1>00. /\ inbox \in Seq(Octet)
       /\ socket = "connected" => peer = "up"
       /\ call \in {"head", "body"} => socket = "connected"
       /\ Together(inbox) /\ InTurn(inbox)
       /\ call # "body" /\ inbox # <<>> => inbox[1].part = 1
       /\ call = "head" => retData = <<>>
       /\ call = "body" => Reading
  BY <1>0 DEF Whole, SyncTypeOK
<1>1. CASE closeconnect \/ connectBegins
  BY <1>1, NothingIsWhole
     DEF closeconnect, connectBegins, Disconnect, Returns, Whole
<1>2. CASE connect
  BY <1>2, NothingIsWhole DEF connect, Returns, Whole
<1>3. CASE connectFails
  <2>1. call' = "none" /\ inbox' = <<>> /\ socket' # "connected"
    BY <1>3 DEF connectFails, Returns, Apart
  <2> QED BY <2>1, NothingIsWhole DEF Whole
<1>4. CASE sendFails
  BY <1>4, NothingIsWhole DEF sendFails, SendFails, Disconnect, Returns, Whole
<1>5. CASE send
  <2>1. /\ call' \in {"none", "head"} /\ retData' = <<>> /\ call = "none"
        /\ socket = "connected" /\ socket' = socket
        /\ peer' = peer /\ inbox' = inbox
    BY <1>0, <1>5 DEF send, Returns
  <2> QED BY <1>00, <2>1 DEF Whole
<1>6. CASE sendReadsHead
  <2>1. call = "head" /\ rough' = rough
    BY <1>0, <1>6 DEF sendReadsHead
  <2>2. CASE call' = "none"
    <3>1. Disconnect
      BY <1>6, <2>2, ReadHeadEnds
    <3> QED BY <2>2, <3>1, NothingIsWhole DEF Disconnect, Whole
  <2>3. CASE call' # "none"
    <3>1. /\ call' = "body" /\ UNCHANGED <<socket, peer>> /\ socket = "connected"
          /\ Together(inbox') /\ InTurn(inbox') /\ Reading'
      BY <1>0, <1>00, <1>6, <2>1, <2>3, HeadStep
    <3> QED BY <1>00, <3>1 DEF Whole
  <2> QED BY <2>2, <2>3
<1>7. CASE sendReadsBody
  <2>1. call = "body" /\ UNCHANGED <<socket, peer>>
    BY <1>7 DEF sendReadsBody
  <2>2. /\ Together(inbox') /\ InTurn(inbox')
        /\ call' = "none" /\ inbox' # <<>> => inbox'[1].part = 1
        /\ call' # "none" => call' = "body" /\ Reading'
    BY <1>0, <1>7, BodyStep
  <2> QED BY <1>00, <2>1, <2>2 DEF Whole
<1>8. CASE Answer
  <2>1. /\ asked # <<>> /\ UNCHANGED local /\ UNCHANGED <<socket, peer>>
        /\ inbox' = inbox \o Bytes(Head(asked).n, Head(asked).id)
    BY <1>8 DEF Answer
  <2> DEFINE Ask == [n : Nat, id : MessageIds]
             more == inbox \o Bytes(Head(asked).n, Head(asked).id)
  <2>2. Head(asked) \in Ask
    <3>1. asked \in Seq(Ask) BY DEF SyncTypeOK
    <3> HIDE DEF Ask
    <3> QED BY <2>1, <3>1
  <2>3. Head(asked).n \in Nat /\ Head(asked).id \in MessageIds
    BY <2>2
  <2>4. /\ Together(more) /\ InTurn(more) /\ more # <<>>
        /\ inbox # <<>> => more[1] = inbox[1]
        /\ inbox = <<>> => more[1].part = 1
    BY <1>00, <2>3, AnswerAdded
  <2> HIDE DEF more
  <2>5. inbox' = more BY <2>1 DEF more
  <2>6. Reading => Reading'
    BY <2>1, <2>4, <2>5 DEF Reading, local
  <2> QED BY <1>00, <2>1, <2>4, <2>5, <2>6 DEF Whole, local
<1>9. CASE PeerClose
  BY <1>0, <1>9 DEF PeerClose
<1>10. CASE UNCHANGED syncVars
  BY <1>00, <1>10 DEF syncVars, local, Whole, Reading
<1> QED
  BY <1>1, <1>2, <1>3, <1>4, <1>5, <1>6, <1>7, <1>8, <1>9, <1>10
     DEF SyncNext, Sending

(* As long as every answer was waited for, there is one at most: that of    *)
(* the present request.                                                     *)
Alone ==
  ~rough /\ ~unawaited =>
    /\ call \notin {"head", "body"} => asked = <<>> /\ inbox = <<>>
    /\ call = "head" /\ asked = <<>> => Len(inbox) = AnswerLength
    /\ call = "head" /\ asked # <<>> =>
         /\ inbox = <<>> /\ Len(asked) = 1 /\ Head(asked).n = request.n
    /\ call = "body" => asked = <<>> /\ Len(inbox) + Len(retData) = BODY
    /\ \A k \in 1..Len(inbox) : inbox[k].req = request.n

LEMMA AloneInit == SyncInit => Alone
BY DEF SyncInit, Alone

LEMMA AloneStep ==
  SyncTypeOK /\ Apart /\ Whole /\ Alone /\ [SyncNext]_syncVars => Alone'
<1> SUFFICES ASSUME SyncTypeOK, Apart, Whole, Alone, [SyncNext]_syncVars,
                    ~rough', ~unawaited'
             PROVE  Alone'
  BY DEF Alone
<1>0. ~rough /\ rough' = rough
  BY DEF SyncNext, syncVars
<1>1. CASE closeconnect \/ connectBegins \/ sendFails
  <2>1. inbox' = <<>> /\ asked' = <<>> /\ call' \notin {"head", "body"}
    BY <1>1 DEF closeconnect, connectBegins, sendFails, SendFails, Disconnect, Returns
  <2> QED BY <2>1 DEF Alone
<1>2. CASE connect \/ connectFails
  <2>1. inbox' = <<>> /\ asked' = <<>> /\ call' = "none"
    BY <1>0, <1>2 DEF connect, connectFails, Returns, Apart, Alone
  <2> QED BY <2>1 DEF Alone
<1>3. CASE send
  <2>1. PICK id \in MessageIds, noneedret \in BOOLEAN, whole \in BOOLEAN :
          /\ ~whole => rough
          /\ asked' = IF peer = "up" /\ whole
                      THEN Append(asked, [n |-> requests', id |-> id]) ELSE asked
          /\ unawaited' = (unawaited \/ noneedret)
          /\ IF noneedret
             THEN Returns(TRUE) /\ UNCHANGED request
             ELSE /\ request' = [n |-> requests', retId |-> id, length |-> 0]
                  /\ call' = "head" /\ UNCHANGED ret
    BY <1>3 DEF send
  <2>2. ~unawaited /\ ~noneedret /\ whole
    BY <1>0, <2>1
  <2>3. call = "none" /\ peer = "up" /\ inbox' = inbox
    BY <1>0, <1>3 DEF send, Whole
  <2>4. asked = <<>> /\ inbox = <<>>
    BY <1>0, <2>2, <2>3 DEF Alone
  <2>5. /\ asked' = <<[n |-> requests', id |-> id]>> /\ call' = "head"
        /\ request'.n = requests'
    BY <2>1, <2>2, <2>3, <2>4
  <2>6. asked' # <<>> /\ Len(asked') = 1 /\ Head(asked').n = requests'
    BY <2>5
  <2> QED BY <2>3, <2>4, <2>5, <2>6 DEF Alone
<1>4. CASE sendReadsHead
  <2>1. CASE call' = "none"
    <3>1. Disconnect BY <1>4, <2>1, ReadHeadEnds
    <3> QED BY <2>1, <3>1 DEF Disconnect, Alone
  <2>2. CASE call' # "none"
    <3>1. /\ call' = "body" /\ unawaited' = unawaited /\ asked' = asked
          /\ retData' = <<>> /\ request'.n = request.n
          /\ inbox # <<>> /\ Len(inbox') = Len(inbox) - HEAD
          /\ \A k \in 1..Len(inbox') :
               \E l \in 1..Len(inbox) : inbox'[k] = inbox[l]
      BY <1>0, <1>4, <2>2, HeadStep
    <3>2. call = "head" BY <1>4 DEF sendReadsHead
    <3>3. asked = <<>> /\ Len(inbox) = AnswerLength
      BY <1>0, <3>1, <3>2 DEF Alone
    <3>4. Len(inbox') + Len(retData') = BODY
      BY <3>1, <3>3, LengthsAreNat
    <3>5. \A k \in 1..Len(inbox') : inbox'[k].req = request.n
      BY <1>0, <3>1 DEF Alone
    <3> QED BY <3>1, <3>3, <3>4, <3>5 DEF Alone
  <2> QED BY <2>1, <2>2
<1>5. CASE sendReadsBody
  <2>1. /\ call = "body" /\ request' = request /\ asked' = asked
        /\ unawaited' = unawaited
    BY <1>5 DEF sendReadsBody
  <2>2. /\ call' = "none" => Len(retData') = BODY
        /\ call' # "none" => call' = "body"
        /\ Len(inbox') + Len(retData') = Len(inbox) + Len(retData)
        /\ \A k \in 1..Len(inbox') :
             \E l \in 1..Len(inbox) : inbox'[k] = inbox[l]
    BY <1>0, <1>5, BodyStep
  <2>3. asked = <<>> /\ Len(inbox') + Len(retData') = BODY
    BY <1>0, <2>1, <2>2 DEF Alone
  <2>4. \A k \in 1..Len(inbox') : inbox'[k].req = request'.n
    BY <1>0, <2>1, <2>2 DEF Alone
  <2>5. inbox' \in Seq(Octet) /\ Len(inbox') \in Nat
    <3>1. SyncTypeOK' BY SyncTypesStep
    <3> QED BY <3>1 DEF SyncTypeOK
  <2>6. call' = "none" => inbox' = <<>>
    <3> SUFFICES ASSUME call' = "none" PROVE inbox' = <<>>
      OBVIOUS
    <3>1. Len(inbox') = 0 BY <2>2, <2>3, <2>5, LengthsAreNat
    <3> QED BY <2>5, <3>1
  <2> QED BY <2>1, <2>2, <2>3, <2>4, <2>6 DEF Alone
<1>6. CASE Answer
  <2>1. /\ asked # <<>> /\ asked' = Tail(asked) /\ UNCHANGED local
        /\ unawaited' = unawaited
        /\ inbox' = inbox \o Bytes(Head(asked).n, Head(asked).id)
    BY <1>6 DEF Answer
  <2>2. call' = call /\ request' = request /\ retData' = retData
    BY <2>1 DEF local
  <2>3. /\ call = "head" /\ inbox = <<>> /\ Len(asked) = 1
        /\ Head(asked).n = request.n
    BY <1>0, <2>1 DEF Alone
  <2> DEFINE Ask == [n : Nat, id : MessageIds]
  <2>4. Head(asked) \in Ask /\ asked' = <<>>
    <3>1. asked \in Seq(Ask) BY DEF SyncTypeOK
    <3> HIDE DEF Ask
    <3> QED BY <2>1, <2>3, <3>1
  <2> DEFINE a == Head(asked)
             b == Bytes(a.n, a.id)
  <2>5. a.n \in Nat /\ a.id \in MessageIds
    BY <2>4
  <2>6. /\ b \in Seq(Octet) /\ Len(b) = AnswerLength
        /\ \A k \in 1..AnswerLength : b[k].req = a.n
    BY <2>5, BytesOfAnswer
  <2>7. a.n = request.n BY <2>3
  <2>8. inbox' = <<>> \o b BY <2>1, <2>3
  <2> HIDE DEF a, b
  <2>9. <<>> \o b = b BY <2>6
  <2> QED BY <2>2, <2>3, <2>4, <2>6, <2>7, <2>8, <2>9 DEF Alone
<1>7. CASE PeerClose
  BY <1>0, <1>7 DEF PeerClose
<1>8. CASE UNCHANGED syncVars
  BY <1>8 DEF syncVars, local, Alone
<1> QED
  BY <1>1, <1>2, <1>3, <1>4, <1>5, <1>6, <1>7, <1>8 DEF SyncNext, Sending

(* What send() returns is the whole body of one answer of the kind that was *)
(* asked for, in however many pieces it came and whatever was left unread.  *)
(* It is the answer to the very request, unless one was made on the         *)
(* connection whose answer nobody waited for.                               *)
THEOREM SyncAnswerIsWhole == SyncSpec => AnswerIsWhole
<1> DEFINE Returning == ~rough /\ call = "body" /\ call' = "none"
           Done == /\ ret' /\ Complete(request.retId)'
                   /\ ~unawaited => retData'[1].req = request.n
<1>1. SyncTypeOK /\ Whole /\ Alone /\ [SyncNext]_syncVars
      => [Returning => Done]_syncVars
  <2> SUFFICES ASSUME SyncTypeOK, Whole, Alone, SyncNext, Returning PROVE Done
    OBVIOUS
  <2>1. sendReadsBody
    BY DEF SyncNext, Sending, closeconnect, connectBegins, connect,
           connectFails, sendFails, send, sendReadsHead, Answer, PeerClose, local
  <2>2. /\ Len(retData') = BODY /\ ret' = TRUE /\ inbox # <<>>
        /\ \A k \in 1..Len(retData') :
             /\ retData'[k].req = inbox[1].req /\ retData'[k].id = request.retId
             /\ retData'[k].part = HEAD + k
    BY <2>1, BodyStep
  <2>3. request' = request
    BY <2>1 DEF sendReadsBody
  <2>4. 1 \in 1..BODY
    BY LengthsAreNat
  <2>5. Complete(request.retId)'
    BY <2>2, <2>3, <2>4 DEF Complete
  <2>6. ASSUME ~unawaited PROVE retData'[1].req = request.n
    <3>1. 1 \in 1..Len(inbox) BY <2>2 DEF SyncTypeOK
    <3>2. inbox[1].req = request.n BY <2>6, <3>1 DEF Alone
    <3> QED BY <2>2, <2>4, <3>2
  <2> QED BY <2>2, <2>5, <2>6
<1>2. SyncSpec => [][Returning => Done]_syncVars
  BY <1>1, SyncTypesInit, SyncTypesStep, ApartInit, ApartStep, WholeInit,
     WholeStep, AloneInit, AloneStep, PTL DEF SyncSpec
<1> QED BY <1>2 DEF AnswerIsWhole
=============================================================================
