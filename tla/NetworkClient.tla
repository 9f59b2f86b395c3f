---------------------------- MODULE NetworkClient ----------------------------
(***************************************************************************)
(* NetWorkClient.cpp: one client, its io_service thread Io, and the thread *)
(* Ui on which its owner calls connect() and update().  Each connect() has *)
(* a Connection of its own; the last one established is m_pConnect.  An    *)
(* owner conjoins to each step of update() what its callbacks do: TakePacks*)
(* fires messages, TakeNew onConnect, TakeClosed onCloseConnect.           *)
(***************************************************************************)
EXTENDS Connection

CONSTANTS Io, Ui, None

ASSUME ClientAssumption ==
  /\ Threads = {Io, Ui}
  /\ Io # Ui
  /\ \A c \in Conns : IoOf[c] = Io
  /\ None \notin Conns \cup Threads

VARIABLES m_pConnect,          \* the connection to the server, or None
          m_isConnect,
          m_isFinishConnect,
          m_NewConnectCollect  \* keys of connections not yet announced

clientVars == <<m_pConnect, m_isConnect, m_isFinishConnect, m_NewConnectCollect>>
-----------------------------------------------------------------------------
(* Connection objects nobody refers to any more are gone: a pending         *)
(* connect, an outstanding read, a running handler and m_pConnect refer.    *)
Unused(c) ==
  /\ m_Socket[c] # "pending" /\ reading[c] = "none" /\ m_pConnect # c
  /\ \A t \in Threads : at[t] # Idle => at[t].conn # c
  /\ \A i \in DOMAIN m_ReceivePackCollect : m_ReceivePackCollect[i].conn # c

(* connect() makes a new Connection, in the place of an unused one.         *)
connect(c) ==
  /\ Unused(c)
  /\ m_Socket' = [m_Socket EXCEPT ![c] = "pending"]
  /\ peer' = [peer EXCEPT ![c] = "none"]
  /\ m_IP' = [m_IP EXCEPT ![c] = NoIP]
  /\ m_isClose' = [m_isClose EXCEPT ![c] = FALSE]
  /\ received' = [received EXCEPT ![c] = 0]
  /\ m_isConnect' = FALSE
  /\ m_isFinishConnect' = FALSE
  /\ UNCHANGED <<reading, m_ReceivePackCollect, m_CloseConnectCollect,
                 m_pConnect, m_NewConnectCollect>>

(* connect() whose host cannot be resolved: the exception is caught.        *)
connectFails ==
  /\ m_isConnect' = FALSE
  /\ m_isFinishConnect' = TRUE
  /\ UNCHANGED <<connVars, m_pConnect, m_NewConnectCollect>>

(* handleConnect(), up to startRead().                                      *)
handleConnect(c) ==
  /\ at[Io] = Idle
  /\ m_Socket[c] = "pending"
  /\ m_Socket' = [m_Socket EXCEPT ![c] = "open"]
  /\ peer' = [peer EXCEPT ![c] = "up"]
  /\ m_isFinishConnect' = TRUE
  /\ m_isConnect' = TRUE
  /\ m_pConnect' = c
  /\ Goto(Io, Doing("startRead", c, "announce"))
  /\ UNCHANGED <<m_IP, m_isClose, reading, received, m_ReceivePackCollect,
                 m_CloseConnectCollect, m_NewConnectCollect>>

handleConnectFailed(c) ==
  /\ at[Io] = Idle
  /\ m_Socket[c] = "pending"
  /\ m_Socket' = [m_Socket EXCEPT ![c] = "closed"]
  /\ m_isFinishConnect' = TRUE
  /\ m_isConnect' = FALSE
  /\ UNCHANGED <<peer, m_IP, m_isClose, reading, received,
                 m_ReceivePackCollect, m_CloseConnectCollect, at, m_pConnect,
                 m_NewConnectCollect>>

AnnounceConnect ==
  /\ at[Io].op = "announce"
  /\ m_NewConnectCollect' = Append(m_NewConnectCollect, m_IP[at[Io].conn])
  /\ Goto(Io, Idle)
  /\ UNCHANGED <<connVars, m_pConnect, m_isConnect, m_isFinishConnect>>
-----------------------------------------------------------------------------
(* update() keeps the lock of the received packs to its end.                *)
PackLockFree == at[Ui].op \notin {"takeNew", "takeClosed"}

TakePacks ==
  /\ at[Ui] = Idle
  /\ m_ReceivePackCollect' = <<>>
  /\ Goto(Ui, Doing("takeNew", None, "idle"))
  /\ UNCHANGED <<m_Socket, peer, m_IP, m_isClose, reading, received,
                 m_CloseConnectCollect, clientVars>>

TakeNew ==
  /\ at[Ui].op = "takeNew"
  /\ m_NewConnectCollect' = <<>>
  /\ Goto(Ui, Doing("takeClosed", None, "idle"))
  /\ UNCHANGED <<connVars, m_pConnect, m_isConnect, m_isFinishConnect>>

(* The owner goes on with step after.                                       *)
TakeClosed(after) ==
  /\ at[Ui].op = "takeClosed"
  /\ m_CloseConnectCollect' = <<>>
  /\ m_isConnect' = (m_isConnect /\ m_CloseConnectCollect = <<>>)
  /\ Goto(Ui, Doing(after, None, "idle"))
  /\ UNCHANGED <<m_Socket, peer, m_IP, m_isClose, reading, received,
                 m_ReceivePackCollect, m_pConnect, m_isFinishConnect,
                 m_NewConnectCollect>>
-----------------------------------------------------------------------------
ClientInit ==
  /\ ConnInit
  /\ m_Socket = [c \in Conns |-> "none"]
  /\ m_pConnect = None
  /\ m_isConnect = FALSE
  /\ m_isFinishConnect = FALSE
  /\ m_NewConnectCollect = <<>>

(* A step of a running io handler.                                          *)
IoHandler ==
  \/ HandlerStep(Io, TRUE) /\ UNCHANGED clientVars
  \/ AnnounceConnect

(* A completion on the io_service.                                          *)
ReadCompletes(c) ==
  /\ \/ HandReadHead(Io, c) \/ HandReadError(Io, c)
     \/ PackLockFree /\ HandReadBody(Io, c)
  /\ UNCHANGED clientVars

ConnectCompletes(c) == handleConnect(c) \/ handleConnectFailed(c)
=============================================================================
