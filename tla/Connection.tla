----------------------------- MODULE Connection -----------------------------
(***************************************************************************)
(* The life of Connection objects as seen by whoever owns them (a          *)
(* NetworkServer or a NetworkClient): reading packs and closing.  Handlers *)
(* run on io_service threads, one at a time per thread; other threads may  *)
(* call close().  A handler is cut into steps where it takes a lock or     *)
(* reads what another thread writes.                                       *)
(* A peer's end of stream (eof) is placed after the data it sent; a reset  *)
(* may come at any moment and takes the remote endpoint away.              *)
(***************************************************************************)
EXTENDS Naturals, Sequences

CONSTANTS Conns,        \* Connection objects that can be created
          Addresses,    \* keys of connections: "ip:port", or "name:port"
          NoIP,         \* m_IP before it is known, the empty string
          Address,      \* each connection's remote endpoint, "ip:port"
          Threads,      \* all threads
          IoOf,         \* the io_service thread each connection's reads run on
          Heads,        \* heads peers send: "good", or also "bad"
          Endings,      \* how each connection's peer may leave: "eof", "reset"
          MaxPacks      \* bound on the packs each connection's peer sends

ASSUME ConnectionAssumption ==
  /\ NoIP \notin Addresses
  /\ Address \in [Conns -> Addresses]
  /\ IoOf \in [Conns -> Threads]
  /\ Heads \subseteq {"good", "bad"}
  /\ Endings \in [Conns -> SUBSET {"eof", "reset"}]
  /\ MaxPacks \in [Conns -> Nat]

VARIABLES m_Socket,       \* "none", "pending" (accept or connect), "open", "closed"
          peer,           \* the other end: "none", "up", "eof" or "reset"
          m_IP,           \* the key under which the owner knows the connection
          m_isClose,      \* close() has been entered
          reading,        \* the outstanding async_read: "none", "head" or "body",
                          \* "gotHead" or "gotBody" while its handler is queued
          received,       \* packs read so far
          m_ReceivePackCollect,   \* the owner's queue of received packs
          m_CloseConnectCollect,  \* the owner's queue of closed connections
          at              \* what each thread is doing, to which connection

connVars == <<m_Socket, peer, m_IP, m_isClose, reading, received,
              m_ReceivePackCollect, m_CloseConnectCollect>>

Keys == Addresses \cup {NoIP}

Idle == [op |-> "idle"]
(* The thread is at step op of a handler of c, and does next when done. *)
Doing(op, c, next) == [op |-> op, conn |-> c, next |-> next]

Goto(t, step) == at' = [at EXCEPT ![t] = step]

(* Where the thread goes on after the function it is in. *)
Return(t) == Goto(t, IF at[t].next = "idle" THEN Idle
                     ELSE Doing(at[t].next, at[t].conn, "idle"))
-----------------------------------------------------------------------------
(* Mutant: startRead() forgets to set m_IP. *)
StartRead_NoAddress(t) ==
  LET c == at[t].conn IN
  /\ at[t].op = "startRead"
  /\ IF m_Socket[c] = "open" /\ peer[c] # "reset"
     THEN reading' = [reading EXCEPT ![c] = "head"]
     ELSE UNCHANGED reading
  /\ Return(t)
  /\ UNCHANGED <<m_Socket, peer, m_IP, m_isClose, received,
                 m_ReceivePackCollect, m_CloseConnectCollect>>

(* startRead(): without a remote endpoint the exception is swallowed and no *)
(* read is started, nor is anybody told.                                    *)
StartRead(t) ==
  LET c == at[t].conn IN
  /\ at[t].op = "startRead"
  /\ IF m_Socket[c] = "open" /\ peer[c] # "reset"
     THEN /\ m_IP' = [m_IP EXCEPT ![c] = Address[c]]
          /\ reading' = [reading EXCEPT ![c] = "head"]
     ELSE UNCHANGED <<m_IP, reading>>
  /\ Return(t)
  /\ UNCHANGED <<m_Socket, peer, m_isClose, received, m_ReceivePackCollect,
                 m_CloseConnectCollect>>

(* A whole head or body has come: its handler is queued, whatever becomes   *)
(* of the socket until it runs.                                             *)
ReadArrives(c) ==
  /\ m_Socket[c] = "open" /\ peer[c] = "up"
  /\ \/ /\ reading[c] = "head" /\ received[c] < MaxPacks[c]
        /\ reading' = [reading EXCEPT ![c] = "gotHead"]
     \/ reading[c] = "body" /\ reading' = [reading EXCEPT ![c] = "gotBody"]
  /\ UNCHANGED <<m_Socket, peer, m_IP, m_isClose, received,
                 m_ReceivePackCollect, m_CloseConnectCollect, at>>

(* A complete head has been read; only a good one starts the next read. *)
HandReadHead(t, c) ==
  /\ at[t] = Idle /\ IoOf[c] = t
  /\ reading[c] = "gotHead"
  /\ \E head \in Heads :
       reading' = [reading EXCEPT ![c] = IF head = "good" THEN "body" ELSE "none"]
  /\ UNCHANGED <<m_Socket, peer, m_IP, m_isClose, received,
                 m_ReceivePackCollect, m_CloseConnectCollect, at>>

(* A complete body has been read: the pack goes to the owner (addPack), and *)
(* the next head is awaited.                                                *)
HandReadBody(t, c) ==
  /\ at[t] = Idle /\ IoOf[c] = t
  /\ reading[c] = "gotBody"
  /\ received' = [received EXCEPT ![c] = @ + 1]
  /\ m_ReceivePackCollect' =
       Append(m_ReceivePackCollect, [conn |-> c, n |-> received[c] + 1])
  /\ reading' = [reading EXCEPT ![c] = "none"]
  /\ Goto(t, Doing("startRead", c, "idle"))
  /\ UNCHANGED <<m_Socket, peer, m_IP, m_isClose, m_CloseConnectCollect>>

(* Mutant: a failed read only ends, as a failed write does. *)
HandReadError_Drops(t, c) ==
  /\ at[t] = Idle /\ IoOf[c] = t
  /\ reading[c] \in {"head", "body"}
  /\ m_Socket[c] = "closed" \/ peer[c] \in {"eof", "reset"}
  /\ reading' = [reading EXCEPT ![c] = "none"]
  /\ UNCHANGED <<m_Socket, peer, m_IP, m_isClose, received,
                 m_ReceivePackCollect, m_CloseConnectCollect, at>>

(* Either handler with an error: the peer is gone or the socket is closed. *)
HandReadError(t, c) ==
  /\ at[t] = Idle /\ IoOf[c] = t
  /\ reading[c] \in {"head", "body"}
  /\ m_Socket[c] = "closed" \/ peer[c] \in {"eof", "reset"}
  /\ reading' = [reading EXCEPT ![c] = "none"]
  /\ Goto(t, Doing("closeCheck", c, "idle"))
  /\ UNCHANGED <<m_Socket, peer, m_IP, m_isClose, received,
                 m_ReceivePackCollect, m_CloseConnectCollect>>

(* Mutant: close() without the test of m_isClose. *)
CloseCheck_Always(t) ==
  /\ at[t].op = "closeCheck"
  /\ Goto(t, [at[t] EXCEPT !.op = "closeSet"])
  /\ UNCHANGED connVars

(* close(): m_isClose is read, then written, without a lock. *)
CloseCheck(t) ==
  /\ at[t].op = "closeCheck"
  /\ IF m_isClose[at[t].conn] THEN Return(t)
     ELSE Goto(t, [at[t] EXCEPT !.op = "closeSet"])
  /\ UNCHANGED connVars

CloseSet(t) ==
  LET c == at[t].conn IN
  /\ at[t].op = "closeSet"
  /\ m_isClose' = [m_isClose EXCEPT ![c] = TRUE]
  /\ Goto(t, [at[t] EXCEPT !.op = IF m_IP[c] # NoIP THEN "closeNotify"
                                                    ELSE "closeSocket"])
  /\ UNCHANGED <<m_Socket, peer, m_IP, reading, received,
                 m_ReceivePackCollect, m_CloseConnectCollect>>

(* notifyCloseConnect(), under the owner's m_CloseConnectCollect_Mutex. *)
CloseNotify(t, lockFree) ==
  /\ at[t].op = "closeNotify"
  /\ lockFree
  /\ m_CloseConnectCollect' = Append(m_CloseConnectCollect, m_IP[at[t].conn])
  /\ Goto(t, [at[t] EXCEPT !.op = "closeSocket"])
  /\ UNCHANGED <<m_Socket, peer, m_IP, m_isClose, reading, received,
                 m_ReceivePackCollect>>

CloseSocket(t) ==
  LET c == at[t].conn IN
  /\ at[t].op = "closeSocket"
  /\ m_Socket' = [m_Socket EXCEPT ![c] = "closed"]
  /\ Return(t)
  /\ UNCHANGED <<peer, m_IP, m_isClose, reading, received,
                 m_ReceivePackCollect, m_CloseConnectCollect>>

(* The other end closes or resets an established connection. *)
PeerGone(c) ==
  /\ peer[c] = "up"
  /\ \E how \in Endings[c] : peer' = [peer EXCEPT ![c] = how]
  /\ UNCHANGED <<m_Socket, m_IP, m_isClose, reading, received,
                 m_ReceivePackCollect, m_CloseConnectCollect, at>>
-----------------------------------------------------------------------------
ConnInit ==
  /\ peer = [c \in Conns |-> "none"]
  /\ m_IP = [c \in Conns |-> NoIP]
  /\ m_isClose = [c \in Conns |-> FALSE]
  /\ reading = [c \in Conns |-> "none"]
  /\ received = [c \in Conns |-> 0]
  /\ m_ReceivePackCollect = <<>>
  /\ m_CloseConnectCollect = <<>>
  /\ at = [t \in Threads |-> Idle]

(* A step of a running handler that is the Connection's own. *)
HandlerStep(t, closeLockFree) ==
  \/ StartRead(t) \/ CloseCheck(t) \/ CloseSet(t) \/ CloseSocket(t)
  \/ CloseNotify(t, closeLockFree)

(* A completed read starts a handler. *)
HandRead(t, c) == HandReadHead(t, c) \/ HandReadBody(t, c) \/ HandReadError(t, c)
=============================================================================
