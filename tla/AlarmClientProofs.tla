-------------------------- MODULE AlarmClientProofs --------------------------
(***************************************************************************)
(* The client is never given up (NeverAbandoned) and never connects twice  *)
(* in a second (AttemptsApart), for all connections, times and answers.    *)
(* Both follow from one invariant about the timers, Timers: away from      *)
(* connect() some timer is set; in connect() the reconnect timer is not;   *)
(* and when that timer has run out, a second has passed since connect().   *)
(***************************************************************************)
EXTENDS AlarmClient, TLAPS

(* Some timer is set, or the address cannot be tried. *)
Armed == m_nextConnect # NotSet \/ m_lastHeartbeat # NotSet \/ m_serverAddr = "malformed"

Clocks ==
  /\ DOMAIN at = Threads
  /\ m_nextConnect \in Int /\ m_nextConnect >= NotSet
  /\ m_lastHeartbeat \in Int

Timers ==
  /\ Clocks
  /\ at[Ui].op # "connect" => Armed
  /\ at[Ui].op = "connect" => m_nextConnect = NotSet
  /\ m_nextConnect = Due => ticked = TRUE

(* The io thread and the network touch neither the timers nor the dialog's  *)
(* place in its code.                                                       *)
LEMMA NetworkStep ==
  ASSUME Timers,
         IoHandler \/ \E c \in Conns : Network(c),
         UNCHANGED <<dialogVars, history>>
  PROVE  Timers'
<1>1. DOMAIN at' = Threads /\ at'[Ui] = at[Ui]
  <2>1. CASE IoHandler
    BY <2>1, ClientAssumption
    DEF IoHandler, HandlerStep, StartRead, CloseCheck, CloseSet, CloseSocket,
        CloseNotify, AnnounceConnect, Return, Goto, Timers, Clocks
  <2>2. ASSUME NEW c \in Conns, Network(c)
        PROVE  DOMAIN at' = Threads /\ at'[Ui] = at[Ui]
    BY <2>2, ClientAssumption
    DEF Network, ReadCompletes, HandReadHead, HandReadBody, HandReadError,
        ConnectCompletes, handleConnect, handleConnectFailed, PeerGone, ReadArrives,
        Goto, Timers, Clocks
  <2> QED BY <2>1, <2>2
<1> QED BY <1>1 DEF Timers, Clocks, Armed, dialogVars, history

(* Where a step of the dialog takes it. *)
LEMMA UiGoes ==
  ASSUME Clocks, NEW step, Goto(Ui, step)
  PROVE  DOMAIN at' = Threads /\ at'[Ui] = step
BY ClientAssumption DEF Clocks, Goto

(* No step of update() or connect() breaks the invariant. *)
LEMMA OnTimerStep == Timers /\ OnTimer => Timers'
<1> SUFFICES ASSUME Timers, OnTimer PROVE Timers' OBVIOUS
<1>0. Clocks BY DEF Timers
<1>a. CloseWait \in Nat /\ ConnectWait \in Nat /\ RetryWait \in Nat
  BY AlarmAssumption
<1>1. CASE UpdatePacks
  <2>1. DOMAIN at' = Threads /\ at'[Ui].op # "connect" /\ at[Ui].op # "connect"
    BY <1>0, <1>1, UiGoes DEF UpdatePacks, TakePacks, Doing, Idle
  <2> QED BY <1>1, <2>1 DEF UpdatePacks, Timers, Clocks, Armed, history, NotSet
<1>2. CASE UpdateNew
  <2>1. DOMAIN at' = Threads /\ at'[Ui].op # "connect" /\ at[Ui].op # "connect"
    BY <1>0, <1>2, UiGoes DEF UpdateNew, TakeNew, Doing
  <2> QED BY <1>2, <2>1
          DEF UpdateNew, onConnect, Timers, Clocks, Armed, NotSet, Due
<1>3. CASE UpdateClosed
  <2>1. DOMAIN at' = Threads /\ at'[Ui].op # "connect" /\ at[Ui].op # "connect"
    BY <1>0, <1>3, UiGoes DEF UpdateClosed, TakeClosed, Doing
  <2> QED BY <1>a, <1>3, <2>1
          DEF UpdateClosed, onCloseConnect, Timers, Clocks, Armed, dialogVars,
              NotSet, Due
<1>4. CASE UpdateTimer
  <2>1. at[Ui].op = "timer" BY <1>4 DEF UpdateTimer
  <2>2. CASE m_nextConnect = Due
    <3>1. DOMAIN at' = Threads /\ at'[Ui].op = "connect"
      BY <1>0, <1>4, <2>2, UiGoes DEF UpdateTimer, Doing
    <3> QED BY <1>4, <2>2, <3>1 DEF UpdateTimer, Timers, Clocks, NotSet, Due
  <2>3. CASE m_nextConnect # Due
    <3>1. DOMAIN at' = Threads /\ at'[Ui].op = "heartbeat"
      BY <1>0, <1>4, <2>3, UiGoes DEF UpdateTimer, Doing
    <3> QED BY <1>4, <2>1, <2>3, <3>1
            DEF UpdateTimer, Timers, Clocks, Armed, history
  <2> QED BY <2>2, <2>3
<1>5. Connected => DOMAIN at' = Threads /\ at'[Ui].op # "connect"
  BY <1>0, UiGoes DEF Connected, Doing
<1>6. CASE LookupServer
  BY <1>5, <1>6 DEF LookupServer, Connected, Timers, Clocks, Armed, NotSet, Due
<1>7. CASE ConnectServer
  BY <1>a, <1>5, <1>7
  DEF ConnectServer, Connected, Timers, Clocks, Armed, NotSet, Due
<1>8. CASE ConnectServerFails
  BY <1>a, <1>5, <1>8
  DEF ConnectServerFails, Connected, Timers, Clocks, Armed, NotSet, Due
<1>9. CASE ConnectNowhere
  BY <1>5, <1>9
  DEF ConnectNowhere, Connected, Timers, Clocks, Armed, NotSet, Due
<1>10. CASE UpdateHeartbeat
  <2>1. DOMAIN at' = Threads /\ at'[Ui].op # "connect" /\ at[Ui].op # "connect"
    BY <1>0, <1>10, UiGoes DEF UpdateHeartbeat, Idle
  <2> QED BY <1>10, <2>1
          DEF UpdateHeartbeat, Timers, Clocks, Armed, history, NotSet, Due
<1> QED BY <1>1, <1>2, <1>3, <1>4, <1>6, <1>7, <1>8, <1>9, <1>10 DEF OnTimer

(* Nor does the passing of a second. *)
LEMMA TickStep == Timers /\ Tick => Timers'
<1> SUFFICES ASSUME Timers, Tick PROVE Timers' OBVIOUS
<1>1. at' = at /\ m_serverAddr' = m_serverAddr BY DEF Tick
<1>2. Clocks' BY <1>1, AlarmAssumption DEF Timers, Clocks, Tick, NotSet, Due
<1>3. m_nextConnect # NotSet => m_nextConnect' # NotSet
  BY DEF Tick, Timers, Clocks, NotSet, Due
<1>4. m_lastHeartbeat # NotSet => m_lastHeartbeat' # NotSet
  BY AlarmAssumption DEF Tick, Timers, Clocks, NotSet
<1>5. m_nextConnect = NotSet => m_nextConnect' = NotSet
  BY DEF Tick, NotSet, Due
<1>6. ticked' = TRUE BY DEF Tick
<1> QED BY <1>1, <1>2, <1>3, <1>4, <1>5, <1>6 DEF Timers, Armed

(* The dialog starts with its timer set to now.                             *)
LEMMA TimersInit == Init => Timers
BY ClientAssumption
DEF Init, ClientInit, ConnInit, Timers, Clocks, Armed, NotSet, Due, Idle

(* Every step, of the dialog, the clock or the network, keeps the timers.   *)
LEMMA TimersStep == Timers /\ [Next]_vars => Timers'
<1> SUFFICES ASSUME Timers, [Next]_vars PROVE Timers' OBVIOUS
<1>1. CASE OnTimer BY <1>1, OnTimerStep
<1>2. CASE Tick BY <1>2, TickStep
<1>3. CASE /\ IoHandler \/ \E c \in Conns : Network(c)
           /\ UNCHANGED <<dialogVars, history>>
  BY <1>3, NetworkStep
<1>4. CASE UNCHANGED vars
  BY <1>4 DEF vars, dialogVars, history, Timers, Clocks, Armed
<1> QED BY <1>1, <1>2, <1>3, <1>4 DEF Next

(* The timers are kept in every behaviour.                                  *)
LEMMA TimersAlways == Spec => []Timers
BY TimersInit, TimersStep, PTL DEF Spec

(* Whenever update() is over, a timer is set or the looked-up address       *)
(* cannot be tried: no behaviour of the network makes the client stop.      *)
THEOREM AlarmClientNeverAbandoned == Spec => []NeverAbandoned
<1>1. Timers => NeverAbandoned
  BY DEF Timers, Armed, NeverAbandoned, Idle
<1> QED BY <1>1, TimersAlways, PTL

(* Two connect()s are at least a second apart.                              *)
THEOREM AlarmClientAttemptsApart == Spec => AttemptsApart
<1>1. ASSUME Timers, [Next]_vars, at'[Ui].op = "connect", at[Ui].op # "connect"
      PROVE  ticked
  <2>1. m_nextConnect = Due
    <3>1. Next BY <1>1 DEF vars
    <3>2. CASE OnTimer
      BY <1>1, <3>2, ClientAssumption
      DEF OnTimer, UpdatePacks, TakePacks, UpdateNew, TakeNew, UpdateClosed,
          TakeClosed, UpdateTimer, LookupServer, ConnectServer,
          ConnectServerFails, ConnectNowhere, Connected, UpdateHeartbeat, Goto,
          Doing, Idle, Timers, Clocks
    <3>3. CASE Tick BY <1>1, <3>3 DEF Tick
    <3>4. CASE IoHandler \/ \E c \in Conns : Network(c)
      <4>1. at'[Ui] = at[Ui]
        BY <1>1, <3>4, ClientAssumption
        DEF IoHandler, HandlerStep, StartRead, CloseCheck, CloseSet,
            CloseSocket, CloseNotify, AnnounceConnect, Return, Network,
            ReadCompletes, HandReadHead, HandReadBody, HandReadError,
            ConnectCompletes, handleConnect, handleConnectFailed, PeerGone,
            ReadArrives, Goto, Timers, Clocks
      <4> QED BY <1>1, <4>1
    <3> QED BY <3>1, <3>2, <3>3, <3>4 DEF Next
  <2> QED BY <1>1, <2>1 DEF Timers
<1>2. Timers /\ [Next]_vars
        => [at'[Ui].op = "connect" /\ at[Ui].op # "connect" => ticked]_vars
  BY <1>1
<1> QED BY <1>2, TimersAlways, PTL DEF Spec, AttemptsApart
-----------------------------------------------------------------------------
(* HeartbeatIsRegistered.  A connection that is announced, or about to be,  *)
(* is registered when the announcement is taken, for the address it was     *)
(* made to is still known: only a disconnection that crosses it empties     *)
(* m_serverAddr.  That a connect that is pending fails does not help, so    *)
(* the invariant says that m_pConnect is registered or being announced.     *)

IoAnnounces ==
  at[Io].op = "announce" \/ (at[Io].op = "startRead" /\ at[Io].next = "announce")

Announcing == IoAnnounces \/ m_NewConnectCollect # <<>>

Pending == \E c \in Conns : m_Socket[c] = "pending"

(* Where the io thread may be: only startRead() is followed by another step.*)
Handlers == {"startRead", "announce", "closeCheck", "closeSet", "closeNotify",
             "closeSocket"}
IoPlace ==
  \/ at[Io] = Idle
  \/ /\ at[Io] \in [op : Handlers, conn : Conns, next : {"idle", "announce"}]
     /\ at[Io].op # "startRead" => at[Io].next = "idle"

Shapes ==
  /\ DOMAIN at = Threads /\ IoPlace
  /\ DOMAIN m_Socket = Conns /\ DOMAIN reading = Conns
  /\ m_IP \in [Conns -> Keys] /\ m_NewConnectCollect \in Seq(Keys)

(* Before the first connection there is nothing to hear of.                 *)
NotYetConnected ==
  m_pConnect = None =>
    /\ m_lastHeartbeat = NotSet /\ m_NewConnectCollect = <<>>
    /\ m_ReceivePackCollect = <<>>
    /\ at[Io] = Idle /\ \A c \in Conns : reading[c] = "none"

AddressKnown == Pending \/ Announcing => m_serverAddr # "unknown"

Registered == m_pConnect # None => m_pConnect = registered \/ Announcing

Registrations ==
  /\ Shapes /\ NotYetConnected /\ crossed \in BOOLEAN
  /\ crossed = FALSE => AddressKnown /\ Registered

(* What Connecting says, in the invariant's words.                          *)
LEMMA ConnectingIs == Shapes => (Connecting <=> Pending \/ Announcing)
<1> SUFFICES ASSUME Shapes PROVE Connecting <=> Pending \/ Announcing
  OBVIOUS
<1>1. CASE at[Io] = Idle
  <2>1. ~IoAnnounces
    BY <1>1 DEF IoAnnounces, Idle
  <2> QED BY <1>1, <2>1 DEF Connecting, Pending, Announcing
<1>2. CASE at[Io] # Idle
  <2>1. IoAnnounces <=> "announce" \in {at[Io].op, at[Io].next}
    BY <1>2 DEF Shapes, IoPlace, IoAnnounces
  <2> QED BY <1>2, <2>1 DEF Connecting, Pending, Announcing
<1> QED BY <1>1, <1>2

(* Nothing has been connected to before the dialog's first timer.           *)
LEMMA RegistrationsInit == Init => Registrations
<1> SUFFICES ASSUME Init PROVE Registrations
  OBVIOUS
<1>1. Shapes /\ at[Io] = Idle
  BY ClientAssumption DEF Init, ClientInit, ConnInit, Shapes, IoPlace, Keys
<1>2. ~Pending /\ ~Announcing
  BY <1>1 DEF Init, ClientInit, ConnInit, Pending, Announcing, IoAnnounces, Idle
<1> QED BY <1>1, <1>2
        DEF Init, ClientInit, ConnInit, Registrations, NotYetConnected, AddressKnown,
            Registered

(* A step that leaves what the invariant speaks of, or only ends a pending  *)
(* connect.                                                                 *)
LEMMA RestRegisters ==
  ASSUME Registrations, Shapes',
         UNCHANGED <<m_serverAddr, m_lastHeartbeat, registered, crossed, m_pConnect,
                     m_NewConnectCollect>>,
         m_ReceivePackCollect' \in {m_ReceivePackCollect, <<>>},
         IoAnnounces' <=> IoAnnounces,
         at[Io] = Idle => at'[Io] = Idle,
         \A c \in Conns : /\ m_Socket'[c] = "pending" => m_Socket[c] = "pending"
                          /\ reading[c] = "none" => reading'[c] = "none"
  PROVE  Registrations'
BY DEF Registrations, NotYetConnected, AddressKnown, Registered, Pending, Announcing

(* A running handler of the io thread goes on.                              *)
LEMMA IoHandlerRegisters ==
  ASSUME Registrations, IoHandler, UNCHANGED <<dialogVars, history>>
  PROVE  Registrations'
<1>0. Shapes /\ Io \in Threads
  BY ClientAssumption DEF Registrations
<1>1. /\ at[Io].op \in Handlers /\ at[Io] # Idle /\ at[Io].conn \in Conns
      /\ at[Io] \in [op : Handlers, conn : Conns, next : {"idle", "announce"}]
      /\ at[Io].op # "startRead" => at[Io].next = "idle"
  BY <1>0 DEF IoHandler, HandlerStep, StartRead, CloseCheck, CloseSet, CloseSocket,
     CloseNotify, AnnounceConnect, Shapes, IoPlace, Idle, Handlers
<1>2. m_pConnect # None
  BY <1>1 DEF Registrations, NotYetConnected
<1>3. CASE StartRead(Io) /\ UNCHANGED clientVars
  <2>1. /\ m_IP' \in [Conns -> Keys] /\ DOMAIN reading' = Conns
        /\ UNCHANGED <<m_Socket, m_ReceivePackCollect>>
    BY <1>0, <1>1, <1>3, ConnectionAssumption DEF StartRead, Shapes, Keys
  <2>2. /\ DOMAIN at' = Threads
        /\ at'[Io] = IF at[Io].next = "idle" THEN Idle
                      ELSE Doing(at[Io].next, at[Io].conn, "idle")
    BY <1>0, <1>3 DEF StartRead, Return, Goto, Shapes
  <2>3. IoPlace' /\ (IoAnnounces' <=> IoAnnounces)
    BY <1>1, <1>3, <2>2 DEF StartRead, IoPlace, IoAnnounces, Doing, Idle, Handlers
  <2>4. Shapes'
    BY <1>0, <1>3, <2>1, <2>2, <2>3 DEF Shapes, clientVars
  <2> QED BY <1>2, <1>3, <2>1, <2>3, <2>4
          DEF Registrations, NotYetConnected, AddressKnown, Registered, Pending,
              Announcing, clientVars, dialogVars, history
<1>4. CASE CloseCheck(Io) /\ UNCHANGED clientVars
  <2>1. /\ DOMAIN at' = Threads
        /\ at'[Io] = Idle \/ at'[Io] = [at[Io] EXCEPT !.op = "closeSet"]
    BY <1>0, <1>1, <1>4 DEF CloseCheck, Return, Goto, Shapes
  <2>2. IoPlace' /\ ~IoAnnounces /\ ~IoAnnounces'
    BY <1>1, <1>4, <2>1 DEF CloseCheck, IoPlace, IoAnnounces, Idle, Handlers
  <2> QED BY <1>0, <1>1, <1>4, <2>1, <2>2, RestRegisters
          DEF CloseCheck, Shapes, connVars, clientVars, dialogVars, history
<1>5. CASE (CloseSet(Io) \/ CloseNotify(Io, TRUE)) /\ UNCHANGED clientVars
  <2>1. /\ DOMAIN at' = Threads
        /\ \E op \in {"closeNotify", "closeSocket"} : at'[Io] = [at[Io] EXCEPT !.op = op]
    BY <1>0, <1>5 DEF CloseSet, CloseNotify, Goto, Shapes
  <2>2. IoPlace' /\ ~IoAnnounces /\ ~IoAnnounces'
    BY <1>1, <1>5, <2>1 DEF CloseSet, CloseNotify, IoPlace, IoAnnounces, Idle, Handlers
  <2> QED BY <1>0, <1>1, <1>5, <2>1, <2>2, RestRegisters
          DEF CloseSet, CloseNotify, Shapes, clientVars, dialogVars, history
<1>6. CASE CloseSocket(Io) /\ UNCHANGED clientVars
  <2>1. DOMAIN at' = Threads /\ at'[Io] = Idle
    BY <1>0, <1>1, <1>6 DEF CloseSocket, Return, Goto, Shapes
  <2>2. IoPlace' /\ ~IoAnnounces /\ ~IoAnnounces'
    BY <1>1, <1>6, <2>1 DEF CloseSocket, IoPlace, IoAnnounces, Idle
  <2>3. /\ DOMAIN m_Socket' = Conns
        /\ \A c \in Conns : m_Socket'[c] = "pending" => m_Socket[c] = "pending"
    BY <1>0, <1>1, <1>6 DEF CloseSocket, Shapes
  <2> QED BY <1>0, <1>1, <1>6, <2>1, <2>2, <2>3, RestRegisters
          DEF CloseSocket, Shapes, clientVars, dialogVars, history
<1>7. CASE AnnounceConnect
  <2>1. DOMAIN at' = Threads /\ at'[Io] = Idle /\ IoAnnounces
    BY <1>0, <1>7 DEF AnnounceConnect, Goto, Shapes, IoAnnounces
  <2>2. m_NewConnectCollect' \in Seq(Keys) /\ m_NewConnectCollect' # <<>>
    <3>1. m_IP[at[Io].conn] \in Keys /\ m_NewConnectCollect \in Seq(Keys)
      BY <1>0, <1>1 DEF Shapes
    <3> QED BY <1>7, <3>1 DEF AnnounceConnect
  <2>3. Shapes'
    BY <1>0, <1>7, <2>1, <2>2 DEF AnnounceConnect, Shapes, IoPlace, connVars
  <2> QED BY <1>2, <1>7, <2>1, <2>2, <2>3
          DEF Registrations, NotYetConnected, AddressKnown, Registered, Pending,
              Announcing, AnnounceConnect, connVars, dialogVars, history
<1> QED BY <1>3, <1>4, <1>5, <1>6, <1>7 DEF IoHandler, HandlerStep

(* A connect or a read completes, or the peer goes away.                    *)
LEMMA NetworkRegisters ==
  ASSUME Registrations, NEW c \in Conns, Network(c), UNCHANGED <<dialogVars, history>>
  PROVE  Registrations'
<1>0. Shapes /\ Io \in Threads
  BY ClientAssumption DEF Registrations
<1>1. CASE PeerGone(c) /\ UNCHANGED clientVars
  BY <1>0, <1>1, RestRegisters
     DEF PeerGone, Shapes, IoPlace, IoAnnounces, clientVars, dialogVars, history
<1>2. CASE (ReadArrives(c) \/ HandReadHead(Io, c)) /\ UNCHANGED clientVars
  <2>1. DOMAIN reading' = Conns /\ m_pConnect # None /\ UNCHANGED at
    BY <1>0, <1>2 DEF ReadArrives, HandReadHead, Shapes, Registrations, NotYetConnected
  <2> QED BY <1>0, <1>2, <2>1
          DEF ReadArrives, HandReadHead, Registrations, NotYetConnected, AddressKnown, Registered,
              Shapes, IoPlace, IoAnnounces, Pending, Announcing, clientVars, dialogVars,
              history
<1>3. CASE (HandReadBody(Io, c) \/ HandReadError(Io, c)) /\ UNCHANGED clientVars
  <2>1. /\ DOMAIN reading' = Conns /\ DOMAIN at' = Threads /\ m_pConnect # None
        /\ at[Io] = Idle /\ UNCHANGED <<m_Socket, m_IP>>
        /\ \E op \in {"startRead", "closeCheck"} : at'[Io] = Doing(op, c, "idle")
    BY <1>0, <1>3 DEF HandReadBody, HandReadError, Goto, Shapes, Registrations,
                      NotYetConnected
  <2>2. IoPlace' /\ ~IoAnnounces /\ ~IoAnnounces'
    BY <2>1 DEF IoPlace, IoAnnounces, Doing, Idle, Handlers
  <2> QED BY <1>0, <1>3, <2>1, <2>2
          DEF Registrations, NotYetConnected, AddressKnown, Registered, Shapes, Pending,
              Announcing, clientVars, dialogVars, history
<1>4. CASE handleConnect(c)
  <2>1. /\ DOMAIN m_Socket' = Conns /\ DOMAIN at' = Threads /\ c # None
        /\ m_pConnect' = c /\ at'[Io] = Doing("startRead", c, "announce") /\ Pending
    BY <1>0, <1>4, ClientAssumption DEF handleConnect, Goto, Shapes, Pending
  <2>2. IoPlace' /\ IoAnnounces'
    BY <2>1 DEF IoPlace, IoAnnounces, Doing, Handlers
  <2> QED BY <1>0, <1>4, <2>1, <2>2
          DEF handleConnect, Registrations, NotYetConnected, AddressKnown, Registered,
              Shapes, Announcing, dialogVars, history
<1>5. CASE handleConnectFailed(c)
  <2>1. /\ DOMAIN m_Socket' = Conns
        /\ \A d \in Conns : m_Socket'[d] = "pending" => m_Socket[d] = "pending"
    BY <1>0, <1>5 DEF handleConnectFailed, Shapes
  <2> QED BY <1>0, <1>5, <2>1, RestRegisters
          DEF handleConnectFailed, Shapes, IoPlace, IoAnnounces, dialogVars, history
<1> QED BY <1>1, <1>2, <1>3, <1>4, <1>5 DEF Network, ReadCompletes, ConnectCompletes

(* The dialog's steps leave the io thread where it is.                      *)
LEMMA UiLeavesIo ==
  ASSUME Shapes, NEW step, Goto(Ui, step)
  PROVE  DOMAIN at' = Threads /\ at'[Io] = at[Io] /\ IoPlace' /\ IoAnnounces' = IoAnnounces
<1>1. DOMAIN at' = Threads /\ at'[Io] = at[Io]
  BY ClientAssumption DEF Shapes, Goto
<1> QED BY <1>1 DEF Shapes, IoPlace, IoAnnounces

(* The callbacks of update().                                               *)
LEMMA CallbacksRegister ==
  ASSUME Registrations, UpdatePacks \/ UpdateNew \/ UpdateClosed
  PROVE  Registrations'
<1>0. Shapes
  BY DEF Registrations
<1>1. DOMAIN at' = Threads /\ at'[Io] = at[Io] /\ IoPlace' /\ IoAnnounces' = IoAnnounces
  BY <1>0, UiLeavesIo DEF UpdatePacks, TakePacks, UpdateNew, TakeNew, UpdateClosed,
     TakeClosed
<1>2. CASE UpdatePacks
  <2>1. Shapes' /\ (m_pConnect = None => m_ReceivePackCollect = <<>>)
    BY <1>0, <1>1, <1>2 DEF UpdatePacks, TakePacks, Shapes, clientVars, Registrations,
       NotYetConnected
  <2> QED BY <1>1, <1>2, <2>1
          DEF UpdatePacks, TakePacks, clientVars, Registrations, NotYetConnected,
              AddressKnown, Registered, Pending, Announcing, history
<1>3. CASE UpdateNew
  <2>1. m_NewConnectCollect' = <<>> /\ UNCHANGED <<connVars, m_pConnect>>
    BY <1>3 DEF UpdateNew, TakeNew
  <2>2. Shapes'
    BY <1>0, <1>1, <2>1 DEF Shapes, connVars
  <2>3. CASE m_NewConnectCollect = <<>>
    BY <1>1, <1>3, <2>1, <2>2, <2>3
    DEF UpdateNew, connVars, Registrations, NotYetConnected, AddressKnown, Registered,
        Pending, Announcing
  <2>4. CASE m_NewConnectCollect # <<>>
    <3>1. onConnect /\ UNCHANGED m_serverAddr /\ m_pConnect # None
      BY <1>3, <2>4 DEF UpdateNew, Registrations, NotYetConnected
    <3>2. crossed = FALSE => m_serverAddr # "unknown"
      BY <2>4 DEF Registrations, AddressKnown, Announcing
    <3>3. crossed' = (crossed /\ m_serverAddr = "unknown")
      BY <3>1 DEF onConnect
    <3>4. crossed' \in BOOLEAN /\ (crossed' = FALSE => m_serverAddr # "unknown")
      <4>1. crossed \in BOOLEAN
        BY DEF Registrations
      <4> QED BY <3>2, <3>3, <4>1, Zenon
    <3> QED BY <1>1, <2>1, <2>2, <3>1, <3>4
            DEF onConnect, connVars, Registrations, NotYetConnected, AddressKnown,
                Registered, Pending, Announcing
  <2> QED BY <2>3, <2>4
<1>4. CASE UpdateClosed
  <2>1. /\ UNCHANGED <<m_Socket, m_IP, reading, m_ReceivePackCollect, m_pConnect,
                       m_NewConnectCollect, registered>>
    BY <1>4 DEF UpdateClosed, TakeClosed
  <2>2. Shapes' /\ (Connecting <=> Pending \/ Announcing)
    BY <1>0, <1>1, <2>1, ConnectingIs DEF Shapes
  <2>3. /\ \/ m_serverAddr' = m_serverAddr /\ crossed' = crossed
           \/ crossed' = (crossed \/ Connecting)
        /\ m_lastHeartbeat' \in {m_lastHeartbeat, NotSet}
    BY <1>4 DEF UpdateClosed, onCloseConnect, dialogVars
  <2>4. /\ crossed' \in BOOLEAN
        /\ crossed' = FALSE => crossed = FALSE /\ (m_serverAddr' = m_serverAddr \/ ~Connecting)
    <3>1. crossed \in BOOLEAN
      BY DEF Registrations
    <3> QED BY <2>3, <3>1, Zenon
  <2> QED BY <1>1, <2>1, <2>2, <2>3, <2>4
          DEF Registrations, NotYetConnected, AddressKnown, Registered, Pending, Announcing
<1> QED BY <1>2, <1>3, <1>4

(* connect(), the timer and the heartbeat; a connection that is made anew   *)
(* is pending, and not the one m_pConnect refers to.                        *)
LEMMA ConnectRegisters ==
  ASSUME Registrations,
         \/ UpdateTimer \/ LookupServer \/ ConnectServer \/ ConnectServerFails
         \/ ConnectNowhere \/ UpdateHeartbeat
  PROVE  Registrations'
<1>0. Shapes
  BY DEF Registrations
<1>1. DOMAIN at' = Threads /\ at'[Io] = at[Io] /\ IoPlace' /\ IoAnnounces' = IoAnnounces
  BY <1>0, UiLeavesIo DEF UpdateTimer, LookupServer, ConnectServer, ConnectServerFails,
     ConnectNowhere, Connected, UpdateHeartbeat
<1>2. CASE \/ UpdateTimer \/ ConnectNowhere \/ UpdateHeartbeat \/ ConnectServerFails
  <2>1. UNCHANGED <<m_serverAddr, m_lastHeartbeat, registered, crossed, m_pConnect,
                    m_NewConnectCollect, connVars>>
    BY <1>2 DEF UpdateTimer, ConnectNowhere, UpdateHeartbeat, ConnectServerFails,
       Connected, connectFails, clientVars, history
  <2> QED BY <1>0, <1>1, <2>1, RestRegisters DEF Shapes, connVars
<1>3. CASE LookupServer
  <2>1. /\ UNCHANGED <<m_lastHeartbeat, registered, crossed, m_pConnect,
                       m_NewConnectCollect, connVars>>
        /\ m_serverAddr = "unknown"
    BY <1>3 DEF LookupServer, Connected, clientVars
  <2>2. crossed = FALSE => ~Pending /\ ~Announcing
    BY <2>1 DEF Registrations, AddressKnown
  <2> QED BY <1>0, <1>1, <2>1, <2>2
          DEF Shapes, Registrations, NotYetConnected, AddressKnown, Registered, Pending,
              Announcing, connVars
<1>4. ASSUME NEW c \in Conns, ConnectServer, connect(c),
             registered' = IF registered = c THEN None ELSE registered
      PROVE  Registrations'
  <2>1. /\ UNCHANGED <<m_serverAddr, m_lastHeartbeat, crossed, reading,
                       m_ReceivePackCollect, m_pConnect, m_NewConnectCollect>>
        /\ m_serverAddr = "address" /\ m_pConnect # c
        /\ DOMAIN m_Socket' = Conns /\ m_IP' \in [Conns -> Keys]
    BY <1>0, <1>4 DEF ConnectServer, Connected, connect, Unused, Shapes, Keys
  <2> QED BY <1>0, <1>1, <1>4, <2>1
          DEF Shapes, Registrations, NotYetConnected, AddressKnown, Registered, Announcing
<1> QED BY <1>2, <1>3, <1>4 DEF ConnectServer

(* Every step keeps the registrations.                                      *)
LEMMA RegistrationsStep == Registrations /\ [Next]_vars => Registrations'
<1> SUFFICES ASSUME Registrations, [Next]_vars PROVE Registrations'
  OBVIOUS
<1>0. Shapes
  BY DEF Registrations
<1>1. CASE OnTimer
  BY <1>1, CallbacksRegister, ConnectRegisters DEF OnTimer
<1>2. CASE Tick
  <2>1. m_lastHeartbeat = NotSet => m_lastHeartbeat' = NotSet
    BY <1>2, AlarmAssumption DEF Tick, NotSet
  <2> QED BY <1>0, <1>2, <2>1
          DEF Tick, Shapes, IoPlace, IoAnnounces, Registrations, NotYetConnected,
              AddressKnown, Registered, Pending, Announcing, connVars, clientVars
<1>3. CASE /\ IoHandler \/ \E c \in Conns : Network(c)
           /\ UNCHANGED <<dialogVars, history>>
  BY <1>3, IoHandlerRegisters, NetworkRegisters
<1>4. CASE UNCHANGED vars
  BY <1>0, <1>4, RestRegisters
     DEF vars, connVars, clientVars, dialogVars, history, Shapes, IoPlace, IoAnnounces
<1> QED BY <1>1, <1>2, <1>3, <1>4 DEF Next

(* Once the heartbeat runs, the connection it runs on is registered or a    *)
(* connection is being made, unless a disconnection crossed one: for any    *)
(* number of connections alive at a time.                                   *)
THEOREM AlarmClientHeartbeatIsRegistered == Spec => []HeartbeatIsRegistered
<1>1. Registrations => HeartbeatIsRegistered
  BY ConnectingIs
     DEF Registrations, NotYetConnected, Registered, HeartbeatIsRegistered
<1> QED BY <1>1, RegistrationsInit, RegistrationsStep, PTL DEF Spec
=============================================================================
