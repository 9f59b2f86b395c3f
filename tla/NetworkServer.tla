--------------------------- MODULE NetworkServer ---------------------------
(***************************************************************************)
(* NetworkServer.cpp: accepting and opening connections on the io threads, *)
(* the table of connections, the queues through which the io threads tell  *)
(* update() of new and closed connections, and update() itself, called by  *)
(* the main thread.  User threads call closeConnect() and getConnectByIP().*)
(***************************************************************************)
EXTENDS Connection, FiniteSets, Picked

CONSTANTS Accepted,     \* the connections the acceptor creates; the others
                        \* are created by connect()
          Asked,        \* the key each of those is given, "host:port" as asked
          AcceptIo,     \* the io_service thread of the acceptor
          Main,         \* the thread that calls update()
          Users,        \* threads calling closeConnect and getConnectByIP
          None

ASSUME ServerAssumption ==
  /\ Accepted \subseteq Conns
  /\ Asked \in [Conns \ Accepted -> Addresses]
  /\ {AcceptIo, Main} \cup Users \subseteq Threads
  /\ None \notin Conns \cup Threads

VARIABLES m_ConnectCollect,     \* the table: key to connection, or None
          m_NewConnectCollect,  \* keys of connections not yet announced
          connLock,             \* holder of m_ConnectCollect_Mutex
          closeLock,            \* holder of m_CloseConnectCollect_Mutex
          closeit,              \* update()'s position in the closed queue
          dispatched,           \* packs handed to the listeners, per connection
          told                  \* what listeners were told about each key

serverVars == <<m_ConnectCollect, m_NewConnectCollect, connLock, closeLock,
                closeit, dispatched, told>>
vars == <<connVars, at, serverVars>>

IoThreads == {IoOf[c] : c \in Conns} \cup {AcceptIo}
-----------------------------------------------------------------------------
(* waitConnect(): a fresh Connection for the acceptor, while there is one. *)
waitConnect(socket) ==
  LET fresh == {c \in Accepted : socket[c] = "none"} IN
  IF fresh = {} THEN m_Socket' = socket
  ELSE \E c \in fresh : m_Socket' = [socket EXCEPT ![c] = "pending"]

(* Mutant: connect() without setIP(). *)
connect_NoKey(t, c) ==
  /\ at[t] = Idle /\ t = Main
  /\ c \notin Accepted /\ m_Socket[c] = "none"
  /\ m_Socket' = [m_Socket EXCEPT ![c] = "pending"]
  /\ UNCHANGED <<peer, m_IP, m_isClose, reading, received,
                 m_ReceivePackCollect, m_CloseConnectCollect, at, serverVars>>

(* connect(): the key as asked is set before the connection exists. *)
connect(t, c) ==
  /\ at[t] = Idle /\ t = Main
  /\ c \notin Accepted /\ m_Socket[c] = "none"
  /\ m_Socket' = [m_Socket EXCEPT ![c] = "pending"]
  /\ m_IP' = [m_IP EXCEPT ![c] = Asked[c]]
  /\ UNCHANGED <<peer, m_isClose, reading, received, m_ReceivePackCollect,
                 m_CloseConnectCollect, at, serverVars>>

(* connect() to a host resolve() does not know: its exception destroys the  *)
(* Connection and reaches the caller.                                       *)
connectThrows(t, c) ==
  /\ at[t] = Idle /\ t = Main
  /\ c \notin Accepted /\ m_Socket[c] = "none"
  /\ m_Socket' = [m_Socket EXCEPT ![c] = "closed"]
  /\ UNCHANGED <<peer, m_IP, m_isClose, reading, received,
                 m_ReceivePackCollect, m_CloseConnectCollect, at, serverVars>>

(* The thread whose io_service completes an accept or a connect. *)
ConnectIo(c) == IF c \in Accepted THEN AcceptIo ELSE IoOf[c]

(* handleConnect() without an error, up to startRead(). *)
handleConnect(t, c) ==
  /\ at[t] = Idle /\ t = ConnectIo(c)
  /\ m_Socket[c] = "pending"
  /\ m_Socket' = [m_Socket EXCEPT ![c] = "open"]
  /\ peer' = [peer EXCEPT ![c] = "up"]
  /\ Goto(t, Doing("startRead", c, "insert"))
  /\ UNCHANGED <<m_IP, m_isClose, reading, received, m_ReceivePackCollect,
                 m_CloseConnectCollect, serverVars>>

(* Mutant: the return that is commented out in handleConnect's error path. *)
handleConnectFailed_Returns(t, c) ==
  /\ at[t] = Idle /\ t = ConnectIo(c)
  /\ m_Socket[c] = "pending"
  /\ m_Socket' = [m_Socket EXCEPT ![c] = "open"]
  /\ Goto(t, Doing("closeCheck", c, "idle"))
  /\ UNCHANGED <<peer, m_IP, m_isClose, reading, received,
                 m_ReceivePackCollect, m_CloseConnectCollect, serverVars>>

(* handleConnect() with an error closes the Connection it was given. *)
handleConnectFailed(t, c) ==
  /\ at[t] = Idle /\ t = ConnectIo(c)
  /\ m_Socket[c] = "pending"
  /\ m_Socket' = [m_Socket EXCEPT ![c] = "open"]
  /\ Goto(t, Doing("closeCheck", c, "waitConnect"))
  /\ UNCHANGED <<peer, m_IP, m_isClose, reading, received,
                 m_ReceivePackCollect, m_CloseConnectCollect, serverVars>>

(* insert() does not replace an entry that is already there. *)
InsertConnect(t) ==
  LET c == at[t].conn IN
  /\ at[t].op = "insert"
  /\ connLock = None
  /\ m_ConnectCollect' =
       [m_ConnectCollect EXCEPT ![m_IP[c]] = IF @ = None THEN c ELSE @]
  /\ Goto(t, Doing("announce", c, "idle"))
  /\ UNCHANGED <<connVars, m_NewConnectCollect, connLock, closeLock, closeit,
                 dispatched, told>>

AnnounceConnect(t) ==
  LET c == at[t].conn IN
  /\ at[t].op = "announce"
  /\ m_NewConnectCollect' = Append(m_NewConnectCollect, m_IP[c])
  /\ Goto(t, Doing("waitConnect", c, "idle"))
  /\ UNCHANGED <<connVars, m_ConnectCollect, connLock, closeLock, closeit,
                 dispatched, told>>

WaitConnect(t) ==
  /\ at[t].op = "waitConnect"
  /\ waitConnect(m_Socket)
  /\ Goto(t, Idle)
  /\ UNCHANGED <<peer, m_IP, m_isClose, reading, received,
                 m_ReceivePackCollect, m_CloseConnectCollect, serverVars>>
-----------------------------------------------------------------------------
(* update(), one action per lock it takes.  The queue of new connections is *)
(* read, broadcast and cleared under its lock, which nobody holds together  *)
(* with another: that part is one step.                                     *)

PacksOf(c) == [conn : {c}, n : Nat]

(* Mutant: only the first pack of the queue is dispatched. *)
UpdatePacks_OnlyFirst(t) ==
  /\ at[t] = Idle /\ t = Main
  /\ dispatched' =
       [c \in Conns |-> dispatched[c] \o
          (IF m_ReceivePackCollect = <<>> THEN <<>>
           ELSE Picked(<<Head(m_ReceivePackCollect)>>, PacksOf(c)))]
  /\ m_ReceivePackCollect' = <<>>
  /\ Goto(t, Doing("updateNew", None, "idle"))
  /\ UNCHANGED <<m_Socket, peer, m_IP, m_isClose, reading, received,
                 m_CloseConnectCollect, m_ConnectCollect, m_NewConnectCollect,
                 connLock, closeLock, closeit, told>>

UpdatePacks(t) ==
  /\ at[t] = Idle /\ t = Main
  /\ dispatched' =
       [c \in Conns |-> dispatched[c] \o Picked(m_ReceivePackCollect, PacksOf(c))]
  /\ m_ReceivePackCollect' = <<>>
  /\ Goto(t, Doing("updateNew", None, "idle"))
  /\ UNCHANGED <<m_Socket, peer, m_IP, m_isClose, reading, received,
                 m_CloseConnectCollect, m_ConnectCollect, m_NewConnectCollect,
                 connLock, closeLock, closeit, told>>

(* How listeners learn of the keys in a queue. *)
Told(event, queue) ==
  [k \in Keys |-> told[k] \o [i \in 1..Len(Picked(queue, {k})) |-> event]]

(* Mutant: the queue of new connections is not cleared. *)
UpdateNew_Keeps(t) ==
  /\ at[t].op = "updateNew"
  /\ told' = Told("connect", m_NewConnectCollect)
  /\ Goto(t, Doing("updateClose", None, "idle"))
  /\ UNCHANGED <<connVars, m_ConnectCollect, m_NewConnectCollect, connLock,
                 closeLock, closeit, dispatched>>

UpdateNew(t) ==
  /\ at[t].op = "updateNew"
  /\ told' = Told("connect", m_NewConnectCollect)
  /\ m_NewConnectCollect' = <<>>
  /\ Goto(t, Doing("updateClose", None, "idle"))
  /\ UNCHANGED <<connVars, m_ConnectCollect, connLock, closeLock, closeit,
                 dispatched>>

UpdateCloseLock(t) ==
  /\ at[t].op = "updateClose"
  /\ closeLock = None
  /\ closeLock' = t
  /\ closeit' = 1
  /\ Goto(t, Doing("updateEach", None, "idle"))
  /\ UNCHANGED <<connVars, m_ConnectCollect, m_NewConnectCollect, connLock,
                 dispatched, told>>

(* onCloseConnect for the next key, then the wait for the table's lock. *)
UpdateTellClose(t) ==
  /\ at[t].op = "updateEach"
  /\ closeit <= Len(m_CloseConnectCollect)
  /\ told' = Told("close", <<m_CloseConnectCollect[closeit]>>)
  /\ Goto(t, Doing("updateErase", None, "idle"))
  /\ UNCHANGED <<connVars, m_ConnectCollect, m_NewConnectCollect, connLock,
                 closeLock, closeit, dispatched>>

(* Mutant: the closed connection is not taken out of the table. *)
UpdateErase_Leaves(t) ==
  /\ at[t].op = "updateErase"
  /\ connLock = None
  /\ closeit' = closeit + 1
  /\ Goto(t, Doing("updateEach", None, "idle"))
  /\ UNCHANGED <<connVars, m_ConnectCollect, m_NewConnectCollect, connLock,
                 closeLock, dispatched, told>>

UpdateErase(t) ==
  /\ at[t].op = "updateErase"
  /\ connLock = None
  /\ m_ConnectCollect' =
       [m_ConnectCollect EXCEPT ![m_CloseConnectCollect[closeit]] = None]
  /\ closeit' = closeit + 1
  /\ Goto(t, Doing("updateEach", None, "idle"))
  /\ UNCHANGED <<connVars, m_NewConnectCollect, connLock, closeLock,
                 dispatched, told>>

UpdateCloseUnlock(t) ==
  /\ at[t].op = "updateEach"
  /\ closeit > Len(m_CloseConnectCollect)
  /\ m_CloseConnectCollect' = <<>>
  /\ closeLock' = None
  /\ closeit' = 1
  /\ Goto(t, Idle)
  /\ UNCHANGED <<m_Socket, peer, m_IP, m_isClose, reading, received,
                 m_ReceivePackCollect, m_ConnectCollect, m_NewConnectCollect,
                 connLock, dispatched, told>>

update(t) == \/ UpdatePacks(t) \/ UpdateNew(t) \/ UpdateCloseLock(t)
             \/ UpdateTellClose(t) \/ UpdateErase(t) \/ UpdateCloseUnlock(t)
-----------------------------------------------------------------------------
(* closeConnect(): close() runs with the table's lock held.  The name given *)
(* is resolved to an address first: neither the empty key nor one with a    *)
(* host's name in it can be asked for.                                      *)
Numeric == {Address[c] : c \in Conns}

closeConnect(u, k) ==
  /\ at[u] = Idle
  /\ connLock = None
  /\ m_ConnectCollect[k] # None
  /\ connLock' = u
  /\ Goto(u, Doing("closeCheck", m_ConnectCollect[k], "unlock"))
  /\ UNCHANGED <<connVars, m_ConnectCollect, m_NewConnectCollect, closeLock,
                 closeit, dispatched, told>>

CloseConnectUnlock(u) ==
  /\ at[u].op = "unlock"
  /\ connLock' = None
  /\ Goto(u, Idle)
  /\ UNCHANGED <<connVars, m_ConnectCollect, m_NewConnectCollect, closeLock,
                 closeit, dispatched, told>>

(* getConnectByIP(): the call, and its return once it had the table's lock. *)
getConnectByIP(u) ==
  /\ at[u] = Idle
  /\ Goto(u, Doing("lookup", None, "idle"))
  /\ UNCHANGED <<connVars, serverVars>>

Lookup(u) ==
  /\ at[u].op = "lookup"
  /\ connLock = None
  /\ Goto(u, Idle)
  /\ UNCHANGED <<connVars, serverVars>>
-----------------------------------------------------------------------------
(* start() has created the acceptor, posted its accept and run the pool. *)
Init ==
  /\ ConnInit
  /\ m_Socket \in [Conns -> {"none", "pending"}]
  /\ Cardinality({c \in Conns : m_Socket[c] = "pending"}) = 1
  /\ \A c \in Conns : m_Socket[c] = "pending" => c \in Accepted
  /\ m_ConnectCollect = [k \in Keys |-> None]
  /\ m_NewConnectCollect = <<>>
  /\ connLock = None
  /\ closeLock = None
  /\ closeit = 1
  /\ dispatched = [c \in Conns |-> <<>>]
  /\ told = [k \in Keys |-> <<>>]

(* The handlers of one io_service, and close() wherever it is called from. *)
Handler(t) ==
  \/ HandlerStep(t, closeLock = None) /\ UNCHANGED serverVars
  \/ InsertConnect(t) \/ AnnounceConnect(t) \/ WaitConnect(t)

ReadCompletes(t, c) == HandRead(t, c) /\ UNCHANGED serverVars

Next ==
  \/ \E t \in Threads :
       \/ Handler(t) \/ update(t)
       \/ \E c \in Conns : \/ ReadCompletes(t, c)
                           \/ connect(t, c) \/ connectThrows(t, c)
                           \/ handleConnect(t, c) \/ handleConnectFailed(t, c)
  \/ \E u \in Users : \/ getConnectByIP(u) \/ Lookup(u) \/ CloseConnectUnlock(u)
                      \/ \E k \in Numeric : closeConnect(u, k)
  \/ \E c \in Conns : (PeerGone(c) \/ ReadArrives(c)) /\ UNCHANGED serverVars

(* A started handler is run to its end, update() is called again and again, *)
(* the handler of a completed or failed read runs, and an outgoing connect  *)
(* completes.  Strong fairness where a step waits for a lock: update()      *)
(* holds it for a moment once per frame.  Nobody has to connect, to send or *)
(* to leave.                                                                *)
Fairness ==
  /\ SF_vars(update(Main))
  /\ \A t \in Threads : SF_vars(Handler(t))
  /\ \A t \in IoThreads, c \in Conns :
       SF_vars(ReadCompletes(t, c))
  /\ \A t \in IoThreads, c \in Conns \ Accepted :
       SF_vars(handleConnect(t, c) \/ handleConnectFailed(t, c))
  /\ \A u \in Users : SF_vars(Lookup(u)) /\ SF_vars(CloseConnectUnlock(u))

Spec == Init /\ [][Next]_vars /\ Fairness
-----------------------------------------------------------------------------
(* The variables keep their types. *)
TypeOK ==
  /\ m_Socket \in [Conns -> {"none", "pending", "open", "closed"}]
  /\ peer \in [Conns -> {"none", "up", "eof", "reset"}]
  /\ m_IP \in [Conns -> Keys]
  /\ m_isClose \in [Conns -> BOOLEAN]
  /\ reading \in [Conns -> {"none", "head", "gotHead", "body", "gotBody"}]
  /\ received \in [Conns -> Nat]
  /\ m_ReceivePackCollect \in Seq([conn : Conns, n : Nat])
  /\ m_CloseConnectCollect \in Seq(Addresses)
  /\ m_NewConnectCollect \in Seq(Keys)
  /\ m_ConnectCollect \in [Keys -> Conns \cup {None}]
  /\ connLock \in Users \cup {None}
  /\ closeLock \in {Main, None}
  /\ closeit \in 1..(Len(m_CloseConnectCollect) + 1)

Doers(c, ops) == {t \in Threads : at[t].op \in ops /\ at[t].conn = c}

(* The packs of each connection are handed to the listeners once each and   *)
(* in the order they were read, whatever the io threads and update() do:    *)
(* those dispatched and those queued are all that were received.            *)
PacksInOrder ==
  \A c \in Conns :
    dispatched[c] \o Picked(m_ReceivePackCollect, PacksOf(c))
      = [n \in 1..received[c] |-> [conn |-> c, n |-> n]]

(* A connection that reads packs can be found in the table from the end of  *)
(* its handleConnect's insertion until it is closed: it can be answered.    *)
ReadingIsListed ==
  \A c \in Conns :
    /\ reading[c] # "none" /\ ~m_isClose[c]
    /\ Doers(c, {"insert"}) = {}
    => \E k \in Keys : m_ConnectCollect[k] = c

(* A closed connection still in the table is on its way out: its closing is *)
(* being notified, or is queued where update() has yet to come.             *)
ClosedLeavesTable ==
  \A k \in Keys :
    LET c == m_ConnectCollect[k] IN
    c # None /\ m_isClose[c] =>
      \/ Doers(c, {"closeNotify"}) # {}
      \/ \E i \in closeit..Len(m_CloseConnectCollect) :
           m_CloseConnectCollect[i] = k

Times(event, k) == Len(Picked(told[k], {event}))

(* The keys a connection may have: the one asked for and the numeric one.   *)
KeysOf(c) == IF c \in Accepted THEN {Address[c]} ELSE {Asked[c], Address[c]}

(* Listeners hear of a connection at most once and of its end at most once, *)
(* both under the key it then keeps although startRead() may have changed   *)
(* it, and of the end only when it was closed (each key used by one         *)
(* connection).                                                             *)
ToldOnce ==
  \A c \in Conns : \A k \in KeysOf(c) :
    /\ Times("connect", k) <= 1
    /\ Times("close", k) <= 1
    /\ Times("close", k) = 1 => m_isClose[c]
    /\ Times("connect", k) + Times("close", k) > 0 => k = m_IP[c]

(* Threads that race through close() notify the owner once each at most: a  *)
(* later closeConnect() of the same connection is stopped by m_isClose.     *)
ClosedOncePerThread ==
  \A c \in Conns : \A k \in KeysOf(c) :
    LET next == IF at[Main].op = "updateErase" THEN closeit + 1 ELSE closeit
        queued == {i \in next..Len(m_CloseConnectCollect) :
                     m_CloseConnectCollect[i] = k}
    IN  Times("close", k) + Cardinality(queued) <= Cardinality(Users) + 1

(* The acceptor is never left without an accept while it could have one:    *)
(* handleConnect reaches waitConnect on every path, failed accepts included.*)
AcceptPosted ==
  \/ \A c \in Accepted : m_Socket[c] # "none"
  \/ \E c \in Accepted : m_Socket[c] = "pending"
  \/ \E t \in Threads : \/ at[t].op \in {"insert", "announce", "waitConnect"}
                        \/ at[t].op # "idle" /\ at[t].next \in {"insert", "waitConnect"}

(* When the other end of a connection that waits for more from it goes      *)
(* away, the listeners are told and the table forgets the connection.       *)
CloseReported ==
  \A c \in Conns :
    (peer[c] \in {"eof", "reset"} /\ reading[c] \in {"head", "body"}) ~>
      Times("close", Address[c]) > 0 /\ m_ConnectCollect[Address[c]] # c

(* Whoever called connect() hears of the failure under the key asked for,   *)
(* or of the connection under the key it can then be found by, which is not *)
(* the one asked for when that had a host's name in it.                     *)
ConnectAnswered ==
  \A c \in Conns \ Accepted :
    (m_Socket[c] = "pending") ~>
      \/ peer[c] = "none" /\ Times("close", Asked[c]) > 0
      \/ peer[c] # "none" /\ m_IP[c] \in KeysOf(c) /\ Times("connect", m_IP[c]) > 0

(* The comments of NetworkServer::update: it takes the connections that     *)
(* left out of the normal collection.                                       *)
ClosedIsDelisted ==
  \A c \in Conns :
    (m_isClose[c] /\ m_ConnectCollect[Address[c]] = c) ~>
      (m_ConnectCollect[Address[c]] # c)

(* The comment of getConnectByIP calls it a thread-safe function: a call    *)
(* returns.                                                                 *)
LookupReturns ==
  \A u \in Users : (at[u].op = "lookup") ~> (at[u].op # "lookup")
=============================================================================
