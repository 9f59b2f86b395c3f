----------------------------- MODULE AlarmClient -----------------------------
(***************************************************************************)
(* AlarmClientDlg.cpp: how the dialog keeps a registered connection to the *)
(* alarm server alive.  OnTimer calls update() on the thread Ui: first     *)
(* NetworkClient::update() with its callbacks, then the reconnect timer,   *)
(* then the heartbeat.                                                     *)
(* time(NULL) is not a variable: m_nextConnect is how many seconds ahead   *)
(* the time it holds is, m_lastHeartbeat how many seconds ago.  Both stop  *)
(* where the code makes no further difference.                             *)
(***************************************************************************)
EXTENDS NetworkClient, Integers

CONSTANTS HeartbeatAfter,  \* 15 s, then a heartbeat is sent
          DeadAfter,       \* 30 s, then the connection is given up
          ConnectWait,     \* 10 s, for a connect to succeed
          RetryWait,       \* 5 s, after a connect that failed at once
          CloseWait,       \* 1 s, after a disconnection
          Answers          \* what the lookup of the server may yield: an
                           \* address, "unknown" when it fails, or "malformed"

ASSUME AlarmAssumption ==
  /\ HeartbeatAfter \in Nat /\ DeadAfter \in Nat
  /\ ConnectWait \in Nat /\ RetryWait \in Nat /\ CloseWait \in Nat
  /\ Answers \subseteq {"unknown", "address", "malformed"}

VARIABLES m_serverAddr,     \* "unknown" until looked up
          m_nextConnect,    \* when connect() is due
          m_lastHeartbeat,  \* since when nothing was heard of the server
          m_heartbeatSend,  \* a heartbeat waits for its answer
          registered,       \* the last connection FN_ADDCLIENT was sent on
          crossed,          \* since the last registration, a disconnection
                            \* was reported while a connection was being made
          ticked            \* the time has changed since the last connect()

dialogVars == <<m_serverAddr, m_nextConnect, m_lastHeartbeat, m_heartbeatSend>>
history == <<registered, crossed, ticked>>
vars == <<connVars, at, clientVars, dialogVars, history>>

NotSet == -2     \* a time of 0
Due == -1        \* m_nextConnect has passed
-----------------------------------------------------------------------------
(* processHeartBeat(), if the server answered one among the packs.          *)
UpdatePacks ==
  /\ TakePacks
  /\ \/ /\ m_ReceivePackCollect # <<>>
        /\ m_lastHeartbeat' = 0
        /\ m_heartbeatSend' = FALSE
     \/ UNCHANGED <<m_lastHeartbeat, m_heartbeatSend>>
  /\ UNCHANGED <<m_serverAddr, m_nextConnect, history>>

(* Mutant: registers only when isConnect() says so. *)
onConnect_IfConnected ==
  /\ m_lastHeartbeat' = 0
  /\ m_nextConnect' = NotSet
  /\ registered' = IF m_serverAddr # "unknown" /\ m_isConnect
                   THEN m_pConnect ELSE registered
  /\ crossed' = (crossed /\ m_serverAddr = "unknown")

(* onConnect() registers on whatever m_pConnect is by then.                 *)
onConnect ==
  /\ m_lastHeartbeat' = 0
  /\ m_nextConnect' = NotSet
  /\ registered' = IF m_serverAddr # "unknown"
                   THEN m_pConnect ELSE registered
  /\ crossed' = (crossed /\ m_serverAddr = "unknown")

UpdateNew ==
  /\ TakeNew
  /\ IF m_NewConnectCollect # <<>> THEN onConnect
     ELSE UNCHANGED <<m_lastHeartbeat, m_nextConnect, registered, crossed>>
  /\ UNCHANGED <<m_serverAddr, m_heartbeatSend, ticked>>

(* A connection is being made, or is made and not yet announced.            *)
Connecting ==
  \/ \E c \in Conns : m_Socket[c] = "pending"
  \/ at[Io] # Idle /\ "announce" \in {at[Io].op, at[Io].next}
  \/ m_NewConnectCollect # <<>>

(* Mutant: onCloseConnect() without the reconnect timer. *)
onCloseConnect_NoTimer ==
  /\ m_lastHeartbeat' = NotSet
  /\ m_heartbeatSend' = FALSE
  /\ m_serverAddr' = "unknown"
  /\ UNCHANGED m_nextConnect

(* onCloseConnect(), of whichever connection it is.                         *)
onCloseConnect ==
  /\ m_lastHeartbeat' = NotSet
  /\ m_heartbeatSend' = FALSE
  /\ m_serverAddr' = "unknown"
  /\ m_nextConnect' = CloseWait

UpdateClosed ==
  /\ TakeClosed("timer")
  /\ IF m_CloseConnectCollect # <<>>
     THEN onCloseConnect /\ crossed' = (crossed \/ Connecting)
     ELSE UNCHANGED <<dialogVars, crossed>>
  /\ UNCHANGED <<registered, ticked>>
-----------------------------------------------------------------------------
(* Mutant: the timer stays set while connect() runs. *)
UpdateTimer_Keeps ==
  /\ at[Ui].op = "timer"
  /\ IF m_nextConnect = Due
     THEN Goto(Ui, Doing("connect", None, "idle"))
     ELSE Goto(Ui, Doing("heartbeat", None, "idle"))
  /\ UNCHANGED <<connVars, clientVars, dialogVars, history>>

(* The reconnect timer of update().                                         *)
UpdateTimer ==
  /\ at[Ui].op = "timer"
  /\ IF m_nextConnect = Due
     THEN m_nextConnect' = NotSet /\ Goto(Ui, Doing("connect", None, "idle"))
     ELSE UNCHANGED m_nextConnect /\ Goto(Ui, Doing("heartbeat", None, "idle"))
  /\ UNCHANGED <<connVars, clientVars, m_serverAddr, m_lastHeartbeat,
                 m_heartbeatSend, history>>

(* connect() ends and the time of it is remembered.                         *)
Connected ==
  /\ at[Ui].op = "connect"
  /\ Goto(Ui, Doing("heartbeat", None, "idle"))
  /\ ticked' = FALSE
  /\ UNCHANGED <<m_lastHeartbeat, m_heartbeatSend, crossed>>

(* connect() without an address asks the lookup server, synchronously.      *)
LookupServer ==
  /\ Connected
  /\ m_serverAddr = "unknown"
  /\ m_serverAddr' \in Answers
  /\ m_nextConnect' = 0
  /\ UNCHANGED <<connVars, clientVars, registered>>

ConnectServer ==
  /\ Connected
  /\ m_serverAddr = "address"
  /\ \E c \in Conns : connect(c) /\ registered' = IF registered = c THEN None ELSE registered
  /\ m_nextConnect' = ConnectWait
  /\ UNCHANGED m_serverAddr

ConnectServerFails ==
  /\ Connected
  /\ m_serverAddr = "address"
  /\ connectFails
  /\ m_nextConnect' = RetryWait
  /\ UNCHANGED <<m_serverAddr, registered>>

(* An address that is not "ip:port" is neither tried nor looked up again.   *)
ConnectNowhere ==
  /\ Connected
  /\ m_serverAddr = "malformed"
  /\ UNCHANGED <<connVars, clientVars, m_serverAddr, m_nextConnect, registered>>

(* Mutant: a heartbeat is sent without noting so. *)
UpdateHeartbeat_Forgets ==
  /\ at[Ui].op = "heartbeat"
  /\ m_nextConnect' = IF m_lastHeartbeat > DeadAfter /\ m_heartbeatSend
                      THEN 0 ELSE m_nextConnect
  /\ Goto(Ui, Idle)
  /\ UNCHANGED <<connVars, clientVars, m_serverAddr, m_lastHeartbeat,
                 m_heartbeatSend, history>>

(* The heartbeat of update(): a silent server is connected to anew, by a    *)
(* timer that replaces the one connect() has just set.                      *)
UpdateHeartbeat ==
  LET sent == m_heartbeatSend \/ m_lastHeartbeat > HeartbeatAfter
      dead == sent /\ m_lastHeartbeat > DeadAfter
  IN  /\ at[Ui].op = "heartbeat"
      /\ m_heartbeatSend' = (sent /\ ~dead)
      /\ m_nextConnect' = IF dead THEN 0 ELSE m_nextConnect
      /\ Goto(Ui, Idle)
      /\ UNCHANGED <<connVars, clientVars, m_serverAddr, m_lastHeartbeat, history>>

OnTimer == \/ UpdatePacks \/ UpdateNew \/ UpdateClosed \/ UpdateTimer
           \/ LookupServer \/ ConnectServer \/ ConnectServerFails
           \/ ConnectNowhere \/ UpdateHeartbeat

(* A second passes.                                                         *)
Tick ==
  /\ m_nextConnect' = IF m_nextConnect > Due THEN m_nextConnect - 1
                      ELSE m_nextConnect
  /\ m_lastHeartbeat' = IF m_lastHeartbeat \in 0..DeadAfter
                        THEN m_lastHeartbeat + 1 ELSE m_lastHeartbeat
  /\ ticked' = TRUE
  /\ UNCHANGED <<connVars, at, clientVars, m_serverAddr, m_heartbeatSend,
                 registered, crossed>>
-----------------------------------------------------------------------------
Init ==
  /\ ClientInit
  /\ m_serverAddr = "unknown"
  /\ m_nextConnect = 0
  /\ m_lastHeartbeat = NotSet
  /\ m_heartbeatSend = FALSE
  /\ registered = None
  /\ crossed = FALSE
  /\ ticked = TRUE

Network(c) == \/ ReadCompletes(c) \/ ConnectCompletes(c)
              \/ (PeerGone(c) \/ ReadArrives(c)) /\ UNCHANGED clientVars

Next == \/ OnTimer
        \/ Tick
        \/ (IoHandler \/ \E c \in Conns : Network(c))
             /\ UNCHANGED <<dialogVars, history>>

(* The window's timer fires again and again, and time passes.  A second may *)
(* end while update() runs, but not always: update() returns at once and    *)
(* the timer then waits for its period.  The network and the io thread may  *)
(* do nothing at all.                                                       *)
Fairness == WF_vars(OnTimer) /\ SF_vars(at[Ui] = Idle /\ Tick)

Spec == Init /\ [][Next]_vars /\ Fairness
-----------------------------------------------------------------------------
(* The variables keep their types.                                          *)
TypeOK ==
  /\ m_Socket \in [Conns -> {"none", "pending", "open", "closed"}]
  /\ peer \in [Conns -> {"none", "up", "eof", "reset"}]
  /\ m_pConnect \in Conns \cup {None}
  /\ m_isConnect \in BOOLEAN /\ m_isFinishConnect \in BOOLEAN
  /\ m_serverAddr \in {"unknown", "address", "malformed"}
  /\ m_nextConnect \in NotSet..(CloseWait + ConnectWait + RetryWait)
  /\ m_lastHeartbeat \in {NotSet} \cup 0..(DeadAfter + 1)
  /\ m_heartbeatSend \in BOOLEAN
  /\ registered \in Conns \cup {None}
  /\ crossed \in BOOLEAN /\ ticked \in BOOLEAN

(* Between two runs of update() a timer is set, the reconnect timer or the  *)
(* heartbeat's, unless the lookup gave an address that cannot be tried:     *)
(* whatever the network did, the client is not given up.                    *)
NeverAbandoned ==
  at[Ui] = Idle =>
    m_nextConnect # NotSet \/ m_lastHeartbeat # NotSet \/ m_serverAddr = "malformed"

(* Once the heartbeat runs, the connection it runs on, the one established  *)
(* last, is registered with the server or another is being made, unless     *)
(* since the last registration a disconnection, be it of a connection that  *)
(* has been superseded, was reported while a connection was being made: it  *)
(* empties m_serverAddr, and onConnect() then does not register.            *)
HeartbeatIsRegistered ==
  at[Ui] = Idle /\ m_lastHeartbeat # NotSet /\ ~crossed =>
    m_pConnect = registered \/ Connecting

(* connect() is called once a second at most, also with a silent server     *)
(* and an address that cannot be tried: the comparison is with a later time.*)
AttemptsApart ==
  [][at'[Ui].op = "connect" /\ at[Ui].op # "connect" => ticked]_vars

(* A server that is silent for too long is answered by a connect() or is    *)
(* heard of again, even if the network never reports that it has gone.      *)
SilenceReconnects ==
  (m_lastHeartbeat > DeadAfter) ~>
    (at[Ui].op = "connect" \/ m_lastHeartbeat \in 0..HeartbeatAfter)
=============================================================================
