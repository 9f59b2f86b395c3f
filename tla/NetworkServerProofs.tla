------------------------- MODULE NetworkServerProofs -------------------------
(***************************************************************************)
(* The server, for any connections, endpoints and threads, any number of   *)
(* packs and any way in which peers send and leave.                        *)
(***************************************************************************)
EXTENDS NetworkServer, BasicLemmas, FiniteSetTheorems, SequenceTheorems

CloseOps == {"closeCheck", "closeSet", "closeNotify", "closeSocket"}
UpdateOps == {"updateNew", "updateClose", "updateEach", "updateErase"}
PackType == [conn : Conns, n : Nat]

(* The steps a thread may be at. *)
Steps ==
  [op : {"startRead"}, conn : Conns, next : {"insert", "idle"}]
    \cup [op : CloseOps, conn : Conns, next : {"idle", "waitConnect", "unlock"}]
    \cup [op : {"insert", "announce", "waitConnect", "unlock"}, conn : Conns,
          next : {"idle"}]
    \cup [op : UpdateOps \cup {"lookup"}, conn : {None}, next : {"idle"}]

(* Types, and what each thread's step says of the queues. *)
Typed ==
  /\ TypeOK
  /\ at \in [Threads -> {Idle} \cup Steps]
  /\ dispatched \in [Conns -> Seq(PackType)]
  /\ told \in [Keys -> Seq({"connect", "close"})]
  /\ \A t \in Threads : at[t].op \in UpdateOps => t = Main
  /\ \A t \in Threads :
       at[t].op = "unlock" \/ (at[t].op \in CloseOps /\ at[t].next = "unlock")
         => t \in Users
  /\ at[Main].op = "updateErase" => closeit <= Len(m_CloseConnectCollect)
  /\ at[Main].op \notin {"updateEach", "updateErase"} => closeit = 1
  /\ \A t \in Threads : at[t].op = "closeNotify" => m_IP[at[t].conn] # NoIP

(* What a thread's place holds, and what is left of it when the step in it  *)
(* changes.                                                                 *)
LEMMA Places ==
  ASSUME Typed, NEW t \in Threads
  PROVE  /\ at[t].op = "idle" <=> at[t] = Idle
         /\ at[t] # Idle => at[t] \in Steps
         /\ at[t].op = "startRead" =>
              at[t].conn \in Conns /\ at[t].next \in {"insert", "idle"}
         /\ at[t].op \in CloseOps =>
              /\ at[t].conn \in Conns
              /\ at[t].next \in {"idle", "waitConnect", "unlock"}
              /\ \A o : [at[t] EXCEPT !.op = o] = Doing(o, at[t].conn, at[t].next)
         /\ at[t].op \in {"insert", "announce", "waitConnect", "unlock"} =>
              at[t].conn \in Conns /\ at[t].next = "idle"
         /\ at[t].op \in UpdateOps \cup {"lookup"} =>
              at[t].conn = None /\ at[t].next = "idle"
<1>1. at[t] \in {Idle} \cup Steps
  BY DEF Typed
<1>2. CASE at[t] = Idle
  BY <1>2 DEF Idle, CloseOps, UpdateOps
<1>3. CASE at[t] \in [op : {"startRead"}, conn : Conns, next : {"insert", "idle"}]
  BY <1>3 DEF Idle, CloseOps, UpdateOps, Steps
<1>4. CASE at[t] \in [op : CloseOps, conn : Conns,
                     next : {"idle", "waitConnect", "unlock"}]
  <2>1. /\ at[t].op \in CloseOps /\ at[t].conn \in Conns
        /\ at[t].next \in {"idle", "waitConnect", "unlock"}
        /\ \A o : [at[t] EXCEPT !.op = o] = Doing(o, at[t].conn, at[t].next)
    BY <1>4 DEF Doing
  <2> QED BY <1>4, <2>1 DEF CloseOps, UpdateOps, Idle, Steps
<1>5. CASE at[t] \in [op : {"insert", "announce", "waitConnect", "unlock"},
                     conn : Conns, next : {"idle"}]
  BY <1>5 DEF Idle, CloseOps, UpdateOps, Steps
<1>6. CASE at[t] \in [op : UpdateOps \cup {"lookup"}, conn : {None}, next : {"idle"}]
  BY <1>6 DEF Idle, CloseOps, UpdateOps, Steps
<1> QED BY <1>1, <1>2, <1>3, <1>4, <1>5, <1>6 DEF Steps

(* Where Return() leads. *)
LEMMA Returns ==
  ASSUME Typed, NEW t \in Threads, Return(t),
         at[t].op = "startRead" \/ at[t].op \in CloseOps
  PROVE  /\ at[t].conn \in Conns
         /\ at[t].next \in {"idle", "insert", "waitConnect", "unlock"}
         /\ at[t].next = "insert" => at[t].op = "startRead"
         /\ at[t].op = "startRead" => at[t].next \in {"idle", "insert"}
         /\ \E X \in {Idle} \cup Steps :
              /\ at' = [at EXCEPT ![t] = X] /\ X.op = at[t].next
              /\ X.op # "idle" => X.conn = at[t].conn /\ X.next = "idle"
<1>1. /\ at[t].conn \in Conns
      /\ at[t].next \in {"idle", "insert", "waitConnect", "unlock"}
      /\ at[t].next = "insert" => at[t].op = "startRead"
      /\ at[t].op = "startRead" => at[t].next \in {"idle", "insert"}
  BY Places DEF CloseOps
<1>2. CASE at[t].next = "idle"
  <2>1. at' = [at EXCEPT ![t] = Idle] /\ Idle.op = "idle"
    BY <1>2 DEF Return, Goto, Idle
  <2> QED BY <1>1, <1>2, <2>1
<1>3. CASE at[t].next # "idle"
  <2> DEFINE X == Doing(at[t].next, at[t].conn, "idle")
  <2>1. at' = [at EXCEPT ![t] = X]
    BY <1>3 DEF Return, Goto
  <2>2. X \in Steps /\ X.op = at[t].next /\ X.conn = at[t].conn /\ X.next = "idle"
    BY <1>1, <1>3 DEF Doing, Steps
  <2> HIDE DEF X
  <2> QED BY <1>1, <2>1, <2>2
<1> QED BY <1>2, <1>3

-----------------------------------------------------------------------------
(* The constants, as the proofs use them. *)
LEMMA Constants ==
  /\ Address \in [Conns -> Addresses] /\ IoOf \in [Conns -> Threads]
  /\ NoIP \notin Addresses /\ NoIP \in Keys
  /\ \A c \in Conns : Address[c] \in Keys /\ Address[c] # NoIP
  /\ Main \in Threads /\ AcceptIo \in Threads /\ Users \subseteq Threads
  /\ None \notin Conns /\ None \notin Threads
  /\ Accepted \subseteq Conns
  /\ \A c \in Conns \ Accepted : Asked[c] \in Keys /\ Asked[c] # NoIP
  /\ Numeric \subseteq Addresses
  /\ \A c \in Conns : /\ Address[c] \in KeysOf(c) /\ KeysOf(c) \subseteq Addresses
                       /\ KeysOf(c) \subseteq Keys /\ NoIP \notin KeysOf(c)
                       /\ c \notin Accepted => Asked[c] \in KeysOf(c)
BY ConnectionAssumption, ServerAssumption
   DEF ConnectionAssumption, ServerAssumption, Keys, Numeric, KeysOf

LEMMA KeysAre ==
  \A c \in Conns :
    /\ Address[c] \in KeysOf(c)
    /\ \A k : k \in KeysOf(c) => k \in Addresses /\ k \in Keys /\ k # NoIP
BY ConnectionAssumption, ServerAssumption
   DEF ConnectionAssumption, ServerAssumption, Keys, KeysOf

(* Nothing has been opened, read or closed in the beginning. *)
LEMMA TypedInit == Init => Typed
<1> SUFFICES ASSUME Init PROVE Typed OBVIOUS
<1>1. TypeOK
  <2>1. /\ m_Socket \in [Conns -> {"none", "pending", "open", "closed"}]
        /\ peer \in [Conns -> {"none", "up", "eof", "reset"}]
        /\ m_IP \in [Conns -> Keys]
        /\ reading \in [Conns -> {"none", "head", "gotHead", "body", "gotBody"}]
        /\ received \in [Conns -> Nat]
    BY Constants DEF Init, ConnInit
  <2>2. m_isClose \in [Conns -> BOOLEAN]
    BY DEF Init, ConnInit
  <2>3. /\ m_ReceivePackCollect \in Seq([conn : Conns, n : Nat])
        /\ m_CloseConnectCollect \in Seq(Addresses)
        /\ m_NewConnectCollect \in Seq(Keys)
        /\ Len(m_CloseConnectCollect) = 0
    <3>1. \A S : <<>> \in Seq(S)
      OBVIOUS
    <3> QED BY <3>1 DEF Init, ConnInit
  <2>4. /\ m_ConnectCollect \in [Keys -> Conns \cup {None}]
        /\ connLock \in Users \cup {None} /\ closeLock \in {Main, None}
        /\ closeit \in 1..(Len(m_CloseConnectCollect) + 1)
    BY <2>3 DEF Init
  <2> QED BY <2>1, <2>2, <2>3, <2>4 DEF TypeOK
<1>2. at = [t \in Threads |-> Idle] /\ \A t \in Threads : at[t].op = "idle"
  BY DEF Init, ConnInit, Idle
<1>3. /\ dispatched \in [Conns -> Seq(PackType)]
      /\ told \in [Keys -> Seq({"connect", "close"})]
  <2>1. \A S : <<>> \in Seq(S)
    OBVIOUS
  <2> QED BY <2>1 DEF Init
<1> QED BY <1>1, <1>2, <1>3, Constants DEF Init, Typed, UpdateOps, CloseOps

(* A thread that moves from its place to X keeps the types, if X fits in with *)
(* what it leaves behind.                                                     *)
LEMMA TypedMove ==
  ASSUME Typed, NEW t \in Threads, NEW X \in {Idle} \cup Steps,
         at' = [at EXCEPT ![t] = X], TypeOK',
         dispatched' \in [Conns -> Seq(PackType)],
         told' \in [Keys -> Seq({"connect", "close"})],
         X.op \in UpdateOps => t = Main,
         X.op = "unlock" \/ (X.op \in CloseOps /\ X.next = "unlock") => t \in Users,
         IF X.op \in UpdateOps \/ at[t].op \in UpdateOps
         THEN /\ X.op = "updateErase" => closeit' <= Len(m_CloseConnectCollect')
              /\ X.op \notin {"updateEach", "updateErase"} => closeit' = 1
         ELSE /\ closeit' = closeit
              /\ Len(m_CloseConnectCollect) <= Len(m_CloseConnectCollect'),
         X.op = "closeNotify" => m_IP'[X.conn] # NoIP,
         \A c \in Conns : m_IP[c] # NoIP => m_IP'[c] # NoIP
  PROVE  Typed'
<1>1. \A u \in Threads : at'[u] = IF u = t THEN X ELSE at[u]
  BY DEF Typed
<1>2. at' \in [Threads -> {Idle} \cup Steps]
  BY DEF Typed
<1>3. /\ \A u \in Threads : at'[u].op \in UpdateOps => u = Main
      /\ \A u \in Threads :
           at'[u].op = "unlock" \/ (at'[u].op \in CloseOps /\ at'[u].next = "unlock")
             => u \in Users
  BY <1>1 DEF Typed
<1>4. /\ at'[Main].op = "updateErase" => closeit' <= Len(m_CloseConnectCollect')
      /\ at'[Main].op \notin {"updateEach", "updateErase"} => closeit' = 1
  <2>1. /\ closeit \in Nat /\ closeit' \in Nat
        /\ Len(m_CloseConnectCollect) \in Nat /\ Len(m_CloseConnectCollect') \in Nat
    BY DEF Typed, TypeOK
  <2>2. CASE t = Main
    BY <1>1, <2>1, <2>2, Constants DEF Typed, UpdateOps
  <2>3. CASE t # Main
    <3>1. X.op \notin UpdateOps /\ at[t].op \notin UpdateOps
      BY <2>3 DEF Typed
    <3> QED BY <1>1, <2>1, <2>3, <3>1, Constants DEF Typed
  <2> QED BY <2>2, <2>3
<1>5. \A u \in Threads : at'[u].op = "closeNotify" => m_IP'[at'[u].conn] # NoIP
  <2> SUFFICES ASSUME NEW u \in Threads, at'[u].op = "closeNotify"
               PROVE  m_IP'[at'[u].conn] # NoIP
    OBVIOUS
  <2>1. CASE u = t
    BY <1>1, <2>1
  <2>2. CASE u # t
    BY <1>1, <2>2, Places DEF Typed, CloseOps
  <2> QED BY <2>1, <2>2
<1> QED BY <1>2, <1>3, <1>4, <1>5 DEF Typed

(* A step outside update() that tells nobody anything. *)
LEMMA TypedQuiet ==
  ASSUME Typed, NEW t \in Threads, NEW X \in {Idle} \cup Steps,
         at' = [at EXCEPT ![t] = X], TypeOK',
         dispatched' = dispatched, told' = told, closeit' = closeit,
         X.op \notin UpdateOps, at[t].op \notin UpdateOps,
         X.op = "unlock" \/ (X.op \in CloseOps /\ X.next = "unlock") => t \in Users,
         Len(m_CloseConnectCollect) <= Len(m_CloseConnectCollect'),
         X.op # "closeNotify",
         \A c \in Conns : m_IP[c] # NoIP => m_IP'[c] # NoIP
  PROVE  Typed'
<1>1. /\ dispatched' \in [Conns -> Seq(PackType)]
      /\ told' \in [Keys -> Seq({"connect", "close"})]
  BY DEF Typed
<1> QED BY <1>1, TypedMove

(* The steps of a handler that are the Connection's own.                    *)
LEMMA HandlerTyped ==
  ASSUME Typed, NEW t \in Threads,
         HandlerStep(t, closeLock = None) /\ UNCHANGED serverVars
  PROVE  Typed'
<1> USE DEF serverVars, connVars
<1>0. /\ m_ConnectCollect' = m_ConnectCollect
      /\ m_NewConnectCollect' = m_NewConnectCollect /\ connLock' = connLock
      /\ closeLock' = closeLock /\ closeit' = closeit
      /\ dispatched' = dispatched /\ told' = told
      /\ dispatched \in [Conns -> Seq(PackType)]
      /\ told \in [Keys -> Seq({"connect", "close"})]
      /\ m_ReceivePackCollect' = m_ReceivePackCollect /\ peer' = peer
      /\ received' = received
  BY DEF Typed, HandlerStep, StartRead, CloseCheck, CloseSet, CloseNotify, CloseSocket
<1>1. CASE StartRead(t)
  <2>1. at[t].conn \in Conns
    BY <1>1, Places DEF StartRead
  <2>2. /\ m_IP' \in [Conns -> Keys] /\ reading' \in [Conns -> {"none", "head", "gotHead", "body", "gotBody"}]
        /\ \A c \in Conns : m_IP[c] # NoIP => m_IP'[c] # NoIP
    <3>1. m_IP \in [Conns -> Keys] /\ reading \in [Conns -> {"none", "head", "gotHead", "body", "gotBody"}]
          /\ at[t].conn \in Conns
      BY <2>1 DEF Typed, TypeOK
    <3>2. CASE m_IP' = m_IP /\ reading' = reading
      BY <3>1, <3>2
    <3>3. CASE /\ m_IP' = [m_IP EXCEPT ![at[t].conn] = Address[at[t].conn]]
               /\ reading' = [reading EXCEPT ![at[t].conn] = "head"]
      <4> DEFINE c == at[t].conn
      <4>1. c \in Conns /\ Address[c] \in Keys /\ Address[c] # NoIP
        BY <3>1, Constants
      <4> HIDE DEF c
      <4>2. /\ m_IP' = [m_IP EXCEPT ![c] = Address[c]]
            /\ reading' = [reading EXCEPT ![c] = "head"]
        BY <3>3 DEF c
      <4> QED BY <3>1, <4>1, <4>2
    <3> QED BY <1>1, <3>2, <3>3 DEF StartRead
  <2>3. TypeOK'
    BY <1>0, <1>1, <2>2 DEF StartRead, Typed, TypeOK
  <2>4. PICK X \in {Idle} \cup Steps :
          at' = [at EXCEPT ![t] = X] /\ X.op \in {"idle", "insert"}
    BY <1>1, Returns DEF StartRead
  <2>5. X.op \notin UpdateOps /\ X.op # "unlock" /\ X.op \notin CloseOps
        /\ X.op # "closeNotify"
    BY <2>4 DEF UpdateOps, CloseOps
  <2>6. m_CloseConnectCollect' = m_CloseConnectCollect
    BY <1>1 DEF StartRead
  <2>7. at[t].op \notin UpdateOps
    BY <1>1 DEF StartRead, UpdateOps
  <2>8. Len(m_CloseConnectCollect) \in Nat
    BY DEF Typed, TypeOK
  <2>9. /\ Len(m_CloseConnectCollect) <= Len(m_CloseConnectCollect')
        /\ dispatched' = dispatched /\ told' = told /\ closeit' = closeit
        /\ at' = [at EXCEPT ![t] = X]
    BY <1>0, <2>4, <2>6, <2>8
  <2> HIDE DEF serverVars, connVars
  <2> QED BY <2>2, <2>3, <2>5, <2>7, <2>9, TypedQuiet
<1>2. CASE CloseCheck(t)
  <2>0. at[t].op \in CloseOps
    BY <1>2 DEF CloseCheck, CloseOps
  <2>1. TypeOK'
    BY <1>0, <1>2 DEF CloseCheck, Typed, TypeOK
  <2>2. PICK X \in {Idle} \cup Steps :
          /\ at' = [at EXCEPT ![t] = X]
          /\ \/ X.op \in {"idle", "waitConnect"}
             \/ X.op = "unlock" /\ at[t].next = "unlock"
             \/ X.op = "closeSet" /\ X.next = at[t].next
    <3>1. CASE m_isClose[at[t].conn]
      BY <1>2, <2>0, <3>1, Returns DEF CloseCheck, CloseOps
    <3>2. CASE ~m_isClose[at[t].conn]
      <4> DEFINE X == Doing("closeSet", at[t].conn, at[t].next)
      <4>1. at' = [at EXCEPT ![t] = X]
        BY <1>2, <2>0, <3>2, Places DEF CloseCheck, Goto
      <4>2. X \in Steps /\ X.op = "closeSet" /\ X.next = at[t].next
        BY <2>0, Places DEF Doing, Steps, CloseOps
      <4> HIDE DEF X
      <4> QED BY <4>1, <4>2
    <3> QED BY <3>1, <3>2
  <2>3. at[t].next = "unlock" => t \in Users
    BY <2>0 DEF Typed
  <2>4. at[t].op \notin UpdateOps /\ Len(m_CloseConnectCollect) \in Nat
    BY <2>0 DEF UpdateOps, CloseOps, Typed, TypeOK
  <2>5. /\ m_CloseConnectCollect' = m_CloseConnectCollect /\ m_IP' = m_IP
        /\ reading' = reading
    BY <1>2 DEF CloseCheck
  <2> HIDE DEF serverVars, connVars
  <2> QED BY <1>0, <2>1, <2>2, <2>3, <2>4, <2>5, TypedMove DEF UpdateOps, CloseOps, Typed
<1>3. CASE CloseSet(t) \/ CloseNotify(t, closeLock = None)
  <2>0. at[t].op \in CloseOps /\ at[t].conn \in Conns
    BY <1>3, Places DEF CloseSet, CloseNotify, CloseOps
  <2>1. PICK o \in {"closeNotify", "closeSocket"} :
          /\ at' = [at EXCEPT ![t] = Doing(o, at[t].conn, at[t].next)]
          /\ o = "closeNotify" => m_IP[at[t].conn] # NoIP
    BY <1>3, <2>0, Places DEF CloseSet, CloseNotify, Goto
  <2> DEFINE X == Doing(o, at[t].conn, at[t].next)
  <2>2. /\ X \in {Idle} \cup Steps /\ X.op = o /\ X.next = at[t].next
        /\ X.conn = at[t].conn
    BY <2>0, Places DEF Doing, Steps, CloseOps
  <2>3. /\ m_CloseConnectCollect' \in Seq(Addresses)
        /\ Len(m_CloseConnectCollect') \in Nat /\ Len(m_CloseConnectCollect) \in Nat
        /\ Len(m_CloseConnectCollect) <= Len(m_CloseConnectCollect')
    <3>1. CASE CloseSet(t)
      BY <3>1 DEF CloseSet, Typed, TypeOK
    <3>2. CASE CloseNotify(t, closeLock = None)
      <4>1. m_IP[at[t].conn] \in Addresses
        BY <2>0, <3>2 DEF CloseNotify, Typed, TypeOK, Keys
      <4> QED BY <3>2, <4>1 DEF CloseNotify, Typed, TypeOK
    <3> QED BY <1>3, <3>1, <3>2
  <2>4. m_isClose' \in [Conns -> BOOLEAN] /\ m_IP' = m_IP /\ reading' = reading
        /\ m_Socket' = m_Socket
    BY <1>3, <2>0 DEF CloseSet, CloseNotify, Typed, TypeOK
  <2>5. closeit \in 1..(Len(m_CloseConnectCollect') + 1)
    BY <2>3 DEF Typed, TypeOK
  <2>6. TypeOK'
    BY <1>0, <2>3, <2>4, <2>5 DEF Typed, TypeOK
  <2>7. at[t].op \notin UpdateOps /\ (at[t].next = "unlock" => t \in Users)
    BY <2>0 DEF UpdateOps, CloseOps, Typed
  <2>8. X.op = "closeNotify" => m_IP'[X.conn] # NoIP
    BY <2>1, <2>2, <2>4
  <2>9. at' = [at EXCEPT ![t] = X]
    BY <2>1
  <2> HIDE DEF X
  <2> QED BY <1>0, <2>2, <2>3, <2>4, <2>6, <2>7, <2>8, <2>9, TypedMove
          DEF UpdateOps, CloseOps
<1>4. CASE CloseSocket(t)
  <2>0. at[t].op \in CloseOps /\ at[t].conn \in Conns
    BY <1>4, Places DEF CloseSocket, CloseOps
  <2>1. m_Socket' \in [Conns -> {"none", "pending", "open", "closed"}]
    BY <1>4, <2>0 DEF CloseSocket, Typed, TypeOK
  <2>2. TypeOK'
    BY <1>0, <1>4, <2>1 DEF CloseSocket, Typed, TypeOK
  <2>a. Return(t) /\ at[t].next \in {"idle", "waitConnect", "unlock"}
    BY <1>4, <2>0, Places DEF CloseSocket
  <2>b. PICK X \in {Idle} \cup Steps : at' = [at EXCEPT ![t] = X] /\ X.op = at[t].next
    BY <2>0, <2>a, Returns
  <2>3. X.op \in {"idle", "waitConnect"} \/ (X.op = "unlock" /\ at[t].next = "unlock")
    BY <2>a, <2>b
  <2>4. X.op \notin UpdateOps /\ X.op \notin CloseOps /\ X.op # "closeNotify"
    BY <2>3 DEF UpdateOps, CloseOps
  <2>5. at[t].op \notin UpdateOps /\ (at[t].next = "unlock" => t \in Users)
    BY <2>0 DEF UpdateOps, CloseOps, Typed
  <2>6. /\ m_CloseConnectCollect' = m_CloseConnectCollect /\ m_IP' = m_IP
        /\ reading' = reading /\ Len(m_CloseConnectCollect) \in Nat
    BY <1>4 DEF CloseSocket, Typed, TypeOK
  <2>7. /\ X.op = "unlock" \/ (X.op \in CloseOps /\ X.next = "unlock") => t \in Users
        /\ \A c \in Conns : m_IP[c] # NoIP => m_IP'[c] # NoIP
        /\ Len(m_CloseConnectCollect) <= Len(m_CloseConnectCollect')
        /\ dispatched' = dispatched /\ told' = told /\ closeit' = closeit
        /\ at' = [at EXCEPT ![t] = X]
    BY <1>0, <2>b, <2>3, <2>4, <2>5, <2>6
  <2> HIDE DEF serverVars, connVars
  <2> QED BY <2>2, <2>4, <2>5, <2>7, TypedQuiet
<1> QED BY <1>1, <1>2, <1>3, <1>4 DEF HandlerStep

(* Reads that complete. *)
LEMMA ReadTyped ==
  ASSUME Typed, NEW t \in Threads, NEW c \in Conns, ReadCompletes(t, c)
  PROVE  Typed'
<1> USE DEF serverVars, ReadCompletes, HandRead
<1>0. /\ m_ConnectCollect' = m_ConnectCollect /\ m_Socket' = m_Socket
      /\ m_NewConnectCollect' = m_NewConnectCollect /\ connLock' = connLock
      /\ closeLock' = closeLock /\ closeit' = closeit
      /\ dispatched' = dispatched /\ told' = told
      /\ dispatched \in [Conns -> Seq(PackType)]
      /\ told \in [Keys -> Seq({"connect", "close"})]
      /\ m_CloseConnectCollect' = m_CloseConnectCollect /\ peer' = peer
      /\ m_IP' = m_IP /\ m_isClose' = m_isClose
      /\ Len(m_CloseConnectCollect) \in Nat
  BY DEF Typed, TypeOK, HandReadHead, HandReadBody, HandReadError
<1>1. /\ reading' \in [Conns -> {"none", "head", "gotHead", "body", "gotBody"}]
      /\ received' \in [Conns -> Nat]
      /\ m_ReceivePackCollect' \in Seq([conn : Conns, n : Nat])
  <2>1. CASE HandReadHead(t, c)
    BY <2>1 DEF HandReadHead, Typed, TypeOK
  <2>2. CASE HandReadBody(t, c)
    <3>1. received[c] \in Nat /\ received[c] + 1 \in Nat
      BY DEF Typed, TypeOK
    <3>2. [conn |-> c, n |-> received[c] + 1] \in [conn : Conns, n : Nat]
      BY <3>1
    <3>3. m_ReceivePackCollect' \in Seq([conn : Conns, n : Nat])
      BY <2>2, <3>2 DEF HandReadBody, Typed, TypeOK
    <3>4. received' \in [Conns -> Nat]
      BY <2>2, <3>1 DEF HandReadBody, Typed, TypeOK
    <3>5. reading' \in [Conns -> {"none", "head", "gotHead", "body", "gotBody"}]
      BY <2>2 DEF HandReadBody, Typed, TypeOK
    <3> QED BY <3>3, <3>4, <3>5
  <2>3. CASE HandReadError(t, c)
    BY <2>3 DEF HandReadError, Typed, TypeOK
  <2> QED BY <2>1, <2>2, <2>3
<1>2. TypeOK'
  BY <1>0, <1>1 DEF Typed, TypeOK
<1>3. PICK X \in {Idle} \cup Steps :
        /\ at' = [at EXCEPT ![t] = X]
        /\ X.op \in {"idle", "startRead"} \/ (X.op = "closeCheck" /\ X.next = "idle")
  <2>1. CASE HandReadHead(t, c)
    <3>1. at' = [at EXCEPT ![t] = Idle] /\ Idle.op = "idle"
      BY <2>1 DEF HandReadHead, Typed, Idle
    <3> QED BY <3>1
  <2>2. CASE HandReadBody(t, c)
    <3> DEFINE X == Doing("startRead", c, "idle")
    <3>1. at' = [at EXCEPT ![t] = X] /\ X \in Steps /\ X.op = "startRead"
      BY <2>2 DEF HandReadBody, Goto, Doing, Steps
    <3> HIDE DEF X
    <3> QED BY <3>1
  <2>3. CASE HandReadError(t, c)
    <3> DEFINE X == Doing("closeCheck", c, "idle")
    <3>1. /\ at' = [at EXCEPT ![t] = X] /\ X \in Steps
          /\ X.op = "closeCheck" /\ X.next = "idle"
      BY <2>3 DEF HandReadError, Goto, Doing, Steps, CloseOps
    <3> HIDE DEF X
    <3> QED BY <3>1
  <2> QED BY <2>1, <2>2, <2>3
<1>4. at[t] = Idle /\ at[t].op \notin UpdateOps
  BY DEF HandReadHead, HandReadBody, HandReadError, Idle, UpdateOps
<1>5. X.op \notin UpdateOps /\ X.op # "unlock" /\ X.op # "closeNotify"
      /\ ~(X.op \in CloseOps /\ X.next = "unlock")
  BY <1>3 DEF UpdateOps, CloseOps
<1>6. \A d \in Conns : m_IP[d] # NoIP => m_IP'[d] # NoIP
  BY <1>0
<1>7. Len(m_CloseConnectCollect) <= Len(m_CloseConnectCollect')
  BY <1>0
<1>8. /\ X.op = "unlock" \/ (X.op \in CloseOps /\ X.next = "unlock") => t \in Users
      /\ dispatched' = dispatched /\ told' = told /\ closeit' = closeit
      /\ at[t].op \notin UpdateOps
      /\ at' = [at EXCEPT ![t] = X]
  BY <1>0, <1>3, <1>4, <1>5
<1> HIDE DEF serverVars, ReadCompletes, HandRead
<1> QED BY <1>2, <1>5, <1>6, <1>7, <1>8, TypedQuiet

(* A connection that only changes hands with its peer. *)
LEMMA StillTyped ==
  ASSUME Typed, NEW c \in Conns,
         \/ (PeerGone(c) \/ ReadArrives(c)) /\ UNCHANGED serverVars
         \/ \E t \in Threads : connect(t, c) \/ connectThrows(t, c)
  PROVE  Typed'
<1>1. /\ m_Socket' \in [Conns -> {"none", "pending", "open", "closed"}]
      /\ peer' \in [Conns -> {"none", "up", "eof", "reset"}]
      /\ m_IP' \in [Conns -> Keys]
      /\ reading' \in [Conns -> {"none", "head", "gotHead", "body", "gotBody"}]
      /\ \A d \in Conns : m_IP[d] # NoIP => m_IP'[d] # NoIP
  <2>1. CASE PeerGone(c)
    <3>1. PICK how \in {"eof", "reset"} : peer' = [peer EXCEPT ![c] = how]
      BY <2>1, ConnectionAssumption DEF PeerGone, ConnectionAssumption
    <3> QED BY <2>1, <3>1 DEF PeerGone, Typed, TypeOK
  <2>2. CASE ReadArrives(c)
    BY <2>2 DEF ReadArrives, Typed, TypeOK
  <2>3. CASE \E t \in Threads : connect(t, c)
    BY <2>3, Constants DEF connect, Typed, TypeOK
  <2>4. CASE \E t \in Threads : connectThrows(t, c)
    BY <2>4 DEF connectThrows, Typed, TypeOK
  <2> QED BY <2>1, <2>2, <2>3, <2>4
<1>2. /\ m_isClose' = m_isClose /\ received' = received
      /\ m_ReceivePackCollect' = m_ReceivePackCollect
      /\ m_CloseConnectCollect' = m_CloseConnectCollect /\ at' = at
      /\ UNCHANGED <<m_ConnectCollect, m_NewConnectCollect, connLock, closeLock,
                     closeit, dispatched, told>>
  BY DEF PeerGone, ReadArrives, connect, connectThrows, serverVars
<1>3. TypeOK'
  BY <1>1, <1>2 DEF Typed, TypeOK
<1>4. \A t \in Threads : at[t].op = "closeNotify" => m_IP'[at[t].conn] # NoIP
  BY <1>1, Places DEF Typed, CloseOps
<1> QED BY <1>2, <1>3, <1>4 DEF Typed

(* The server's own steps, outside update(). *)
LEMMA ServerTyped ==
  ASSUME Typed, NEW t \in Threads, NEW X \in {Idle} \cup Steps,
         at' = [at EXCEPT ![t] = X], at[t].op \notin UpdateOps,
         X.op \in {"idle", "startRead", "closeCheck", "announce", "waitConnect", "lookup"},
         X.op = "closeCheck" /\ X.next = "unlock" => t \in Users,
         m_Socket' \in [Conns -> {"none", "pending", "open", "closed"}],
         peer' \in [Conns -> {"none", "up", "eof", "reset"}],
         m_ConnectCollect' \in [Keys -> Conns \cup {None}],
         m_NewConnectCollect' \in Seq(Keys),
         connLock' \in Users \cup {None},
         UNCHANGED <<m_IP, m_isClose, reading, received, m_ReceivePackCollect,
                     m_CloseConnectCollect, closeLock, closeit, dispatched, told>>
  PROVE  Typed'
<1>1. TypeOK'
  BY DEF Typed, TypeOK
<1>2. /\ X.op \notin UpdateOps /\ X.op # "closeNotify" /\ X.op # "unlock"
      /\ X.op \in CloseOps /\ X.next = "unlock" => t \in Users
  BY DEF UpdateOps, CloseOps
<1>3. /\ \A c \in Conns : m_IP[c] # NoIP => m_IP'[c] # NoIP
      /\ Len(m_CloseConnectCollect) <= Len(m_CloseConnectCollect')
  BY DEF Typed, TypeOK
<1> QED BY <1>1, <1>2, <1>3, TypedQuiet

(* Accepting and opening connections. *)
LEMMA ConnectTyped ==
  ASSUME Typed, NEW t \in Threads,
         \/ \E c \in Conns : handleConnect(t, c) \/ handleConnectFailed(t, c)
         \/ InsertConnect(t) \/ AnnounceConnect(t) \/ WaitConnect(t)
  PROVE  Typed'
<1>0. /\ m_Socket \in [Conns -> {"none", "pending", "open", "closed"}]
      /\ peer \in [Conns -> {"none", "up", "eof", "reset"}]
      /\ m_ConnectCollect \in [Keys -> Conns \cup {None}]
      /\ m_NewConnectCollect \in Seq(Keys)
      /\ connLock \in Users \cup {None}
      /\ m_IP \in [Conns -> Keys]
  BY DEF Typed, TypeOK
<1>1. ASSUME NEW c \in Conns, handleConnect(t, c) PROVE Typed'
  <2> DEFINE X == Doing("startRead", c, "insert")
  <2>1. X \in Steps /\ X.op = "startRead"
    BY DEF Doing, Steps
  <2>2. at' = [at EXCEPT ![t] = X] /\ at[t].op \notin UpdateOps
    BY <1>1 DEF handleConnect, Goto, Idle, UpdateOps
  <2>3. /\ m_Socket' \in [Conns -> {"none", "pending", "open", "closed"}]
        /\ peer' \in [Conns -> {"none", "up", "eof", "reset"}]
    BY <1>0, <1>1 DEF handleConnect
  <2> HIDE DEF X
  <2> QED BY <1>0, <1>1, <2>1, <2>2, <2>3, ServerTyped DEF handleConnect, serverVars
<1>2. ASSUME NEW c \in Conns, handleConnectFailed(t, c) PROVE Typed'
  <2> DEFINE X == Doing("closeCheck", c, "waitConnect")
  <2>1. X \in Steps /\ X.op = "closeCheck" /\ X.next # "unlock"
    BY DEF Doing, Steps, CloseOps
  <2>2. at' = [at EXCEPT ![t] = X] /\ at[t].op \notin UpdateOps
    BY <1>2 DEF handleConnectFailed, Goto, Idle, UpdateOps
  <2>3. m_Socket' \in [Conns -> {"none", "pending", "open", "closed"}]
    BY <1>0, <1>2 DEF handleConnectFailed
  <2> HIDE DEF X
  <2> QED BY <1>0, <1>2, <2>1, <2>2, <2>3, ServerTyped DEF handleConnectFailed, serverVars
<1>3. CASE InsertConnect(t)
  <2> DEFINE c == at[t].conn
             X == Doing("announce", c, "idle")
  <2>0. c \in Conns
    BY <1>3, Places DEF InsertConnect
  <2>1. X \in Steps /\ X.op = "announce"
    BY <2>0 DEF Doing, Steps
  <2>2. at' = [at EXCEPT ![t] = X] /\ at[t].op \notin UpdateOps
    BY <1>3 DEF InsertConnect, Goto, UpdateOps
  <2>3. m_ConnectCollect' \in [Keys -> Conns \cup {None}]
    <3> HIDE DEF c
    <3>1. m_ConnectCollect' =
            [m_ConnectCollect EXCEPT ![m_IP[c]] =
               IF m_ConnectCollect[m_IP[c]] = None THEN c ELSE m_ConnectCollect[m_IP[c]]]
      BY <1>3 DEF InsertConnect, c
    <3>2. m_IP[c] \in Keys
      BY <1>0, <2>0
    <3> QED BY <1>0, <2>0, <3>1, <3>2
  <2> HIDE DEF X, c
  <2> QED BY <1>0, <1>3, <2>1, <2>2, <2>3, ServerTyped DEF InsertConnect, connVars
<1>4. CASE AnnounceConnect(t)
  <2> DEFINE c == at[t].conn
             X == Doing("waitConnect", c, "idle")
  <2>0. c \in Conns
    BY <1>4, Places DEF AnnounceConnect
  <2>1. X \in Steps /\ X.op = "waitConnect"
    BY <2>0 DEF Doing, Steps
  <2>2. at' = [at EXCEPT ![t] = X] /\ at[t].op \notin UpdateOps
    BY <1>4 DEF AnnounceConnect, Goto, UpdateOps
  <2>3. m_NewConnectCollect' \in Seq(Keys)
    BY <1>0, <1>4, <2>0 DEF AnnounceConnect
  <2> HIDE DEF X, c
  <2> QED BY <1>0, <1>4, <2>1, <2>2, <2>3, ServerTyped DEF AnnounceConnect, connVars
<1>5. CASE WaitConnect(t)
  <2>1. at' = [at EXCEPT ![t] = Idle] /\ at[t].op \notin UpdateOps /\ Idle.op = "idle"
    BY <1>5 DEF WaitConnect, Goto, UpdateOps, Idle
  <2>2. m_Socket' \in [Conns -> {"none", "pending", "open", "closed"}]
    BY <1>0, <1>5 DEF WaitConnect, waitConnect
  <2> QED BY <1>0, <1>5, <2>1, <2>2, ServerTyped DEF WaitConnect, serverVars
<1> QED BY <1>1, <1>2, <1>3, <1>4, <1>5

(* What user threads do. *)
LEMMA UserTyped ==
  ASSUME Typed, NEW u \in Users,
         \/ getConnectByIP(u) \/ Lookup(u) \/ CloseConnectUnlock(u)
         \/ \E k \in Numeric : closeConnect(u, k)
  PROVE  Typed'
<1>0. /\ m_Socket \in [Conns -> {"none", "pending", "open", "closed"}]
      /\ peer \in [Conns -> {"none", "up", "eof", "reset"}]
      /\ m_ConnectCollect \in [Keys -> Conns \cup {None}]
      /\ m_NewConnectCollect \in Seq(Keys)
      /\ connLock \in Users \cup {None}
      /\ u \in Threads
  BY Constants DEF Typed, TypeOK
<1>1. CASE getConnectByIP(u)
  <2> DEFINE X == Doing("lookup", None, "idle")
  <2>1. X \in Steps /\ X.op = "lookup"
    BY DEF Doing, Steps
  <2>2. at' = [at EXCEPT ![u] = X] /\ at[u].op \notin UpdateOps
    BY <1>1 DEF getConnectByIP, Goto, Idle, UpdateOps
  <2> HIDE DEF X
  <2> QED BY <1>0, <1>1, <2>1, <2>2, ServerTyped DEF getConnectByIP, serverVars, connVars
<1>2. CASE Lookup(u) \/ CloseConnectUnlock(u)
  <2>1. at' = [at EXCEPT ![u] = Idle] /\ at[u].op \notin UpdateOps /\ Idle.op = "idle"
    BY <1>2 DEF Lookup, CloseConnectUnlock, Goto, Idle, UpdateOps
  <2>2. /\ connLock' \in Users \cup {None}
        /\ UNCHANGED <<m_Socket, peer, m_IP, m_isClose, reading, received,
                       m_ReceivePackCollect, m_CloseConnectCollect, closeLock,
                       closeit, dispatched, told, m_ConnectCollect, m_NewConnectCollect>>
    BY <1>0, <1>2 DEF Lookup, CloseConnectUnlock, serverVars, connVars
  <2> QED BY <1>0, <2>1, <2>2, ServerTyped
<1>3. ASSUME NEW k \in Numeric, closeConnect(u, k) PROVE Typed'
  <2> DEFINE c == m_ConnectCollect[k]
             X == Doing("closeCheck", c, "unlock")
  <2>0. c \in Conns
    BY <1>0, <1>3, Constants DEF closeConnect, Keys
  <2>1. X \in Steps /\ X.op = "closeCheck"
    BY <2>0 DEF Doing, Steps, CloseOps
  <2>2. at' = [at EXCEPT ![u] = X] /\ at[u].op \notin UpdateOps
    BY <1>3 DEF closeConnect, Goto, Idle, UpdateOps
  <2>3. /\ connLock' \in Users \cup {None}
        /\ UNCHANGED <<m_Socket, peer, m_IP, m_isClose, reading, received,
                       m_ReceivePackCollect, m_CloseConnectCollect, closeLock,
                       closeit, dispatched, told, m_ConnectCollect, m_NewConnectCollect>>
    BY <1>3 DEF closeConnect, connVars
  <2> HIDE DEF X, c
  <2> QED BY <1>0, <2>1, <2>2, <2>3, ServerTyped
<1> QED BY <1>1, <1>2, <1>3

(* What listeners are told keeps its type. *)
LEMMA ToldType ==
  ASSUME told \in [Keys -> Seq({"connect", "close"})], NEW q \in Seq(Keys)
  PROVE  /\ Told("connect", q) \in [Keys -> Seq({"connect", "close"})]
         /\ Told("close", q) \in [Keys -> Seq({"connect", "close"})]
<1> DEFINE E == {"connect", "close"}
<1>1. "connect" \in E /\ "close" \in E
  OBVIOUS
<1> HIDE DEF E
<1>2. \A n \in Nat, e \in E : [i \in 1..n |-> e] \in Seq(E)
  OBVIOUS
<1>3. \A p, r \in Seq(E) : p \o r \in Seq(E)
  OBVIOUS
<1>4. \A k \in Keys : Len(Picked(q, {k})) \in Nat
  <2> SUFFICES ASSUME NEW k \in Keys PROVE Len(Picked(q, {k})) \in Nat
    OBVIOUS
  <2>1. Picked(q, {k}) \in Seq(Keys \cap {k})
    BY PickedType
  <2> QED BY <2>1
<1>5. ASSUME NEW e \in E PROVE Told(e, q) \in [Keys -> Seq(E)]
  <2>1. \A k \in Keys : [i \in 1..Len(Picked(q, {k})) |-> e] \in Seq(E)
    BY <1>2, <1>4
  <2>2. told \in [Keys -> Seq(E)]
    BY DEF E
  <2>3. \A k \in Keys : told[k] \o [i \in 1..Len(Picked(q, {k})) |-> e] \in Seq(E)
    BY <1>3, <2>1, <2>2
  <2> QED BY <2>3 DEF Told
<1> QED BY <1>1, <1>5 DEF E

(* The pieces of update(). *)
LEMMA UpdateTyped ==
  ASSUME Typed, NEW t \in Threads, update(t)
  PROVE  Typed'
<1>0. /\ t = Main /\ Idle \in {Idle} \cup Steps /\ Idle.op = "idle"
      /\ \A o \in UpdateOps : /\ Doing(o, None, "idle") \in Steps
                              /\ Doing(o, None, "idle").op = o
  BY DEF update, UpdatePacks, UpdateNew, UpdateCloseLock, UpdateTellClose, UpdateErase,
         UpdateCloseUnlock, Typed, UpdateOps, Doing, Steps, Idle
<1>1. /\ UNCHANGED <<m_Socket, peer, m_IP, m_isClose, reading, received>>
      /\ closeit \in Nat /\ Len(m_CloseConnectCollect) \in Nat
      /\ m_CloseConnectCollect \in Seq(Addresses)
      /\ \A S : <<>> \in Seq(S)
      /\ Len(<<>>) = 0
  BY DEF update, UpdatePacks, UpdateNew, UpdateCloseLock, UpdateTellClose, UpdateErase,
         UpdateCloseUnlock, connVars, Typed, TypeOK
<1>2. ASSUME NEW X \in {Idle} \cup Steps, at' = [at EXCEPT ![t] = X],
             X.op \in UpdateOps \cup {"idle"}, X.op \in UpdateOps \/ at[t].op \in UpdateOps,
             m_ReceivePackCollect' \in Seq([conn : Conns, n : Nat]),
             m_CloseConnectCollect' \in Seq(Addresses),
             m_NewConnectCollect' \in Seq(Keys),
             m_ConnectCollect' \in [Keys -> Conns \cup {None}],
             connLock' = connLock, closeLock' \in {Main, None},
             closeit' \in 1..(Len(m_CloseConnectCollect') + 1),
             dispatched' \in [Conns -> Seq(PackType)],
             told' \in [Keys -> Seq({"connect", "close"})],
             X.op = "updateErase" => closeit' <= Len(m_CloseConnectCollect'),
             X.op \notin {"updateEach", "updateErase"} => closeit' = 1
      PROVE  Typed'
  <2>1. TypeOK'
    BY <1>1, <1>2 DEF Typed, TypeOK
  <2>2. /\ X.op # "unlock" /\ X.op \notin CloseOps /\ X.op # "closeNotify"
        /\ \A c \in Conns : m_IP[c] # NoIP => m_IP'[c] # NoIP
    BY <1>1, <1>2 DEF UpdateOps, CloseOps
  <2> QED BY <1>0, <1>2, <2>1, <2>2, TypedMove
<1>3. CASE UpdatePacks(t)
  <2>1. dispatched' \in [Conns -> Seq(PackType)]
    <3>1. \A c \in Conns : Picked(m_ReceivePackCollect, PacksOf(c)) \in Seq(PackType)
      <4> SUFFICES ASSUME NEW c \in Conns
                   PROVE  Picked(m_ReceivePackCollect, PacksOf(c)) \in Seq(PackType)
        OBVIOUS
      <4>1. m_ReceivePackCollect \in Seq(PackType)
        BY DEF Typed, TypeOK, PackType
      <4>2. Picked(m_ReceivePackCollect, PacksOf(c)) \in Seq(PackType \cap PacksOf(c))
        BY <4>1, PickedType
      <4> QED BY <4>2
    <3>2. \A p, q \in Seq(PackType) : p \o q \in Seq(PackType)
      OBVIOUS
    <3>3. dispatched \in [Conns -> Seq(PackType)]
      BY DEF Typed
    <3>4. dispatched' = [c \in Conns |-> dispatched[c] \o
                          Picked(m_ReceivePackCollect, PacksOf(c))]
      BY <1>3 DEF UpdatePacks
    <3> QED BY <3>1, <3>2, <3>3, <3>4
  <2>2. /\ at' = [at EXCEPT ![t] = Doing("updateNew", None, "idle")]
        /\ m_ReceivePackCollect' \in Seq([conn : Conns, n : Nat])
        /\ closeit = 1
    BY <1>0, <1>1, <1>3 DEF UpdatePacks, Goto, Typed, Idle
  <2> QED
    BY <1>0, <1>1, <1>2, <1>3, <2>1, <2>2 DEF UpdatePacks, UpdateOps, Typed, TypeOK
<1>4. CASE UpdateNew(t)
  <2>1. told' \in [Keys -> Seq({"connect", "close"})]
    BY <1>4, ToldType DEF UpdateNew, Typed, TypeOK
  <2>2. at' = [at EXCEPT ![t] = Doing("updateClose", None, "idle")] /\ closeit = 1
    BY <1>0, <1>4 DEF UpdateNew, Goto, Typed
  <2> QED
    BY <1>0, <1>1, <1>2, <1>4, <2>1, <2>2
       DEF UpdateNew, UpdateOps, Typed, TypeOK, connVars
<1>5. CASE UpdateCloseLock(t)
  <2>1. at' = [at EXCEPT ![t] = Doing("updateEach", None, "idle")]
    BY <1>5 DEF UpdateCloseLock, Goto
  <2> QED
    BY <1>0, <1>1, <1>2, <1>5, <2>1
       DEF UpdateCloseLock, UpdateOps, Typed, TypeOK, connVars
<1>6. CASE UpdateTellClose(t)
  <2>1. told' \in [Keys -> Seq({"connect", "close"})]
    <3>1. closeit \in 1..Len(m_CloseConnectCollect)
      BY <1>1, <1>6 DEF UpdateTellClose, Typed, TypeOK
    <3>2. m_CloseConnectCollect[closeit] \in Keys
      BY <1>1, <3>1 DEF Keys
    <3> DEFINE q == <<m_CloseConnectCollect[closeit]>>
    <3>3. q \in Seq(Keys)
      BY <3>2
    <3> HIDE DEF q
    <3>4. Told("close", q) \in [Keys -> Seq({"connect", "close"})]
      BY <3>3, ToldType DEF Typed
    <3> QED BY <1>6, <3>4 DEF UpdateTellClose, q
  <2>2. at' = [at EXCEPT ![t] = Doing("updateErase", None, "idle")]
    BY <1>6 DEF UpdateTellClose, Goto
  <2> QED
    BY <1>0, <1>1, <1>2, <1>6, <2>1, <2>2
       DEF UpdateTellClose, UpdateOps, Typed, TypeOK, connVars
<1>7. CASE UpdateErase(t)
  <2>1. closeit' \in 1..(Len(m_CloseConnectCollect') + 1)
    BY <1>0, <1>1, <1>7 DEF UpdateErase, Typed, TypeOK, connVars
  <2>2. at' = [at EXCEPT ![t] = Doing("updateEach", None, "idle")]
    BY <1>7 DEF UpdateErase, Goto
  <2>3. m_ConnectCollect' \in [Keys -> Conns \cup {None}]
    BY <1>7 DEF UpdateErase, Typed, TypeOK
  <2> QED
    BY <1>0, <1>1, <1>2, <1>7, <2>1, <2>2, <2>3
       DEF UpdateErase, UpdateOps, Typed, TypeOK, connVars
<1>8. CASE UpdateCloseUnlock(t)
  <2>1. at' = [at EXCEPT ![t] = Idle] /\ at[t].op \in UpdateOps
    BY <1>8 DEF UpdateCloseUnlock, Goto, UpdateOps
  <2>2. /\ m_CloseConnectCollect' \in Seq(Addresses)
        /\ closeit' \in 1..(Len(m_CloseConnectCollect') + 1)
        /\ closeit' = 1
    BY <1>1, <1>8 DEF UpdateCloseUnlock
  <2>3. /\ m_ReceivePackCollect' \in Seq([conn : Conns, n : Nat])
        /\ m_NewConnectCollect' \in Seq(Keys)
        /\ m_ConnectCollect' \in [Keys -> Conns \cup {None}]
        /\ connLock' = connLock /\ closeLock' \in {Main, None}
        /\ dispatched' \in [Conns -> Seq(PackType)]
        /\ told' \in [Keys -> Seq({"connect", "close"})]
    BY <1>8 DEF UpdateCloseUnlock, Typed, TypeOK
  <2>4. Idle.op # "updateErase"
    BY <1>0
  <2> QED
    BY <1>0, <1>2, <2>1, <2>2, <2>3, <2>4
<1> QED BY <1>3, <1>4, <1>5, <1>6, <1>7, <1>8 DEF update

(* Every step keeps the types. *)
LEMMA TypedStep == Typed /\ [Next]_vars => Typed'
<1> SUFFICES ASSUME Typed, [Next]_vars PROVE Typed'
  OBVIOUS
<1>1. CASE UNCHANGED vars
  BY <1>1 DEF vars, connVars, serverVars, Typed, TypeOK
<1>2. ASSUME NEW t \in Threads, Handler(t) PROVE Typed'
  BY <1>2, HandlerTyped, ConnectTyped DEF Handler
<1>3. ASSUME NEW t \in Threads, NEW c \in Conns,
             \/ ReadCompletes(t, c) \/ connect(t, c) \/ connectThrows(t, c)
             \/ handleConnect(t, c) \/ handleConnectFailed(t, c)
      PROVE  Typed'
  BY <1>3, ReadTyped, StillTyped, ConnectTyped
<1> QED BY <1>1, <1>2, <1>3, StillTyped, UserTyped, UpdateTyped DEF Next
-----------------------------------------------------------------------------
(* The variables keep their types: a thread always is where its handler    *)
(* goes, update() stays within the queue it walks, and what the listeners  *)
(* are handed are packs and keys.                                          *)
THEOREM ServerTypes == Spec => []TypeOK
<1>1. Typed => TypeOK
  BY DEF Typed
<1> QED BY <1>1, TypedInit, TypedStep, PTL DEF Spec

-----------------------------------------------------------------------------
Busy(t, c) == at[t].op # "idle" /\ at[t].conn = c
Opening(t, c) == Busy(t, c) /\ at[t].op = "startRead" /\ at[t].next = "insert"
Rereading(t, c) == Busy(t, c) /\ at[t].op = "startRead" /\ at[t].next = "idle"
Entering(t, c) == Busy(t, c) /\ at[t].op \in {"insert", "announce"}
Closing(t, c) == Busy(t, c) /\ at[t].op \in CloseOps
InTable(c) == \E k \in Keys : m_ConnectCollect[k] = c

(* A connection that is read has the numeric key, and each is found under   *)
(* no other key than its own.                                               *)
Keyed(c) ==
  /\ m_IP[c] \in KeysOf(c) \cup {NoIP}
  /\ reading[c] # "none" => m_IP[c] = Address[c]
  /\ \A t \in Threads : Rereading(t, c) => m_IP[c] = Address[c]
  /\ \A k \in Keys : m_ConnectCollect[k] = c => k = m_IP[c]

(* Before its accept or connect completes no thread deals with it.          *)
Unborn(c) ==
  m_Socket[c] \in {"none", "pending"} =>
    /\ peer[c] = "none" /\ m_isClose[c] = FALSE
    /\ \A t \in Threads : ~Busy(t, c)

(* One that was never established is only closed by the failed handler.     *)
Unmet(c) ==
  peer[c] = "none" =>
    /\ reading[c] = "none"
    /\ ~InTable(c)
    /\ \A t \in Threads : Busy(t, c) =>
         \/ at[t].op \in CloseOps /\ at[t].next = "waitConnect"
         \/ at[t].op = "waitConnect"

(* While handleConnect starts its first read no other thread knows it.      *)
Opened(c) ==
  \A t \in Threads : Opening(t, c) =>
    /\ reading[c] = "none" /\ m_isClose[c] = FALSE
    /\ ~InTable(c)
    /\ \A u \in Threads : Busy(u, c) => u = t

(* Who may be in its close(): the failed handler's thread, the thread of    *)
(* its reads, and the users, and the latter ones have its key to report.    *)
Closers(c) ==
  \A t \in Threads :
    /\ Closing(t, c) /\ at[t].next = "waitConnect"
         => peer[c] = "none" /\ t = ConnectIo(c)
    /\ Closing(t, c) /\ at[t].next # "waitConnect"
         => /\ peer[c] # "none" /\ m_IP[c] # NoIP
            /\ at[t].next = "idle" => t = IoOf[c]
    /\ Busy(t, c) /\ at[t].op \in {"closeNotify", "closeSocket"} => m_isClose[c] = TRUE

(* handleConnect's insertion and announcement run once.                     *)
Entered(c) ==
  \A t, u \in Threads : Entering(t, c) /\ Entering(u, c) => t = u

LifeOf(c) == Keyed(c) /\ Unborn(c) /\ Unmet(c) /\ Opened(c) /\ Closers(c) /\ Entered(c)

Life == Typed /\ \A c \in Conns : LifeOf(c)

(* Nothing that LifeOf says of a connection is disturbed by a step which    *)
(* leaves it alone, or takes it out of the table, or has a thread leave it. *)
LEMMA LifeElsewhere ==
  ASSUME NEW c \in Conns, LifeOf(c),
         /\ m_IP'[c] = m_IP[c] /\ m_isClose'[c] = m_isClose[c]
         /\ reading'[c] = reading[c] /\ peer'[c] = peer[c],
         m_Socket'[c] \in {"none", "pending"} => m_Socket[c] \in {"none", "pending"},
         \A k \in Keys : m_ConnectCollect'[k] = c => m_ConnectCollect[k] = c,
         \A u \in Threads : Busy(u, c)' => at'[u] = at[u]
  PROVE  LifeOf(c)'
<1> USE DEF LifeOf, Busy, InTable
<1>1. Keyed(c)'
  BY DEF Keyed, Rereading
<1>2. Unborn(c)'
  BY DEF Unborn
<1>3. Unmet(c)'
  BY DEF Unmet
<1>4. Opened(c)'
  BY DEF Opened, Opening
<1>5. Closers(c)'
  BY DEF Closers, Closing
<1>6. Entered(c)'
  BY DEF Entered, Entering
<1> QED BY <1>1, <1>2, <1>3, <1>4, <1>5, <1>6

LEMMA LifeInit == Init => Life
<1> SUFFICES ASSUME Init PROVE \A c \in Conns : LifeOf(c)
  BY TypedInit DEF Life
<1>1. \A t \in Threads : at[t].op = "idle"
  BY DEF Init, ConnInit, Idle
<1>2. \A k \in Keys : m_ConnectCollect[k] = None
  BY DEF Init
<1>3. \A c \in Conns : ~InTable(c)
  BY <1>2, Constants DEF InTable
<1> SUFFICES ASSUME NEW c \in Conns PROVE LifeOf(c)
  OBVIOUS
<1>4. m_IP[c] = NoIP /\ m_isClose[c] = FALSE /\ reading[c] = "none" /\ peer[c] = "none"
  BY DEF Init, ConnInit
<1> QED BY <1>1, <1>3, <1>4 DEF LifeOf, Keyed, Unborn, Unmet, Opened, Closers, Entered,
              Busy, Opening, Rereading, Entering, Closing, InTable

(* A step of thread t in a handler of c leaves the other connections alone. *)
LEMMA LifeMove ==
  ASSUME Life, NEW t \in Threads, NEW c \in Conns, NEW X,
         at' = [at EXCEPT ![t] = X], X.op # "idle" => X.conn = c,
         \A d \in Conns : d # c =>
           /\ m_IP'[d] = m_IP[d] /\ m_isClose'[d] = m_isClose[d]
           /\ reading'[d] = reading[d] /\ peer'[d] = peer[d]
           /\ m_Socket'[d] = m_Socket[d]
           /\ \A k \in Keys : m_ConnectCollect'[k] = d => m_ConnectCollect[k] = d,
         LifeOf(c)'
  PROVE  \A d \in Conns : LifeOf(d)'
<1> SUFFICES ASSUME NEW d \in Conns, d # c PROVE LifeOf(d)'
  OBVIOUS
<1>1. \A u \in Threads : at'[u] = IF u = t THEN X ELSE at[u]
  BY DEF Life, Typed
<1>2. \A u \in Threads : Busy(u, d)' => at'[u] = at[u]
  BY <1>1 DEF Busy
<1> QED BY <1>2, LifeElsewhere DEF Life

(* The handler of an established connection begins: no thread knew it yet.  *)
LEMMA LifeHandleConnect ==
  ASSUME Life, NEW t \in Threads, NEW c \in Conns, handleConnect(t, c)
  PROVE  \A d \in Conns : LifeOf(d)'
<1> DEFINE X == Doing("startRead", c, "insert")
<1>0. LifeOf(c) /\ Typed
  BY DEF Life
<1>1. /\ at' = [at EXCEPT ![t] = X]
      /\ X.op = "startRead" /\ X.conn = c /\ X.next = "insert"
  BY DEF handleConnect, Goto, Doing
<1> HIDE DEF X
<1>2. \A u \in Threads : at'[u] = IF u = t THEN X ELSE at[u]
  BY <1>1 DEF Life, Typed
<1>3. /\ m_Socket[c] = "pending" /\ m_Socket' = [m_Socket EXCEPT ![c] = "open"]
      /\ peer' = [peer EXCEPT ![c] = "up"]
      /\ UNCHANGED <<m_IP, m_isClose, reading, m_ConnectCollect>>
  BY DEF handleConnect, serverVars
<1>4. peer'[c] = "up" /\ m_Socket'[c] = "open"
  BY <1>3 DEF Life, Typed, TypeOK
<1>5. LifeOf(c)'
  <2> USE <1>0, <1>1, <1>2, <1>3, <1>4 DEF LifeOf, Busy, InTable
  <2>0. /\ \A u \in Threads : Busy(u, c)' <=> u = t
        /\ reading[c] = "none" /\ m_isClose[c] = FALSE /\ ~InTable(c)
    BY DEF Unborn, Unmet
  <2>1. Keyed(c)'
    BY <2>0 DEF Keyed, Rereading
  <2>2. Unborn(c)' /\ Unmet(c)'
    BY DEF Unborn, Unmet
  <2>3. Opened(c)'
    BY <2>0 DEF Opened, Opening
  <2>4. Closers(c)'
    BY <2>0 DEF Closers, Closing, CloseOps
  <2>5. Entered(c)'
    BY <2>0 DEF Entered, Entering
  <2> QED BY <2>1, <2>2, <2>3, <2>4, <2>5
<1> QED BY <1>1, <1>3, <1>5, LifeMove DEF Life, Typed, TypeOK

(* The handler of a failed one closes it, and it alone.                     *)
LEMMA LifeHandleConnectFailed ==
  ASSUME Life, NEW t \in Threads, NEW c \in Conns, handleConnectFailed(t, c)
  PROVE  \A d \in Conns : LifeOf(d)'
<1> DEFINE X == Doing("closeCheck", c, "waitConnect")
<1>0. LifeOf(c) /\ Typed
  BY DEF Life
<1>1. /\ at' = [at EXCEPT ![t] = X] /\ t = ConnectIo(c)
      /\ X.op = "closeCheck" /\ X.conn = c /\ X.next = "waitConnect"
  BY DEF handleConnectFailed, Goto, Doing
<1> HIDE DEF X
<1>2. \A u \in Threads : at'[u] = IF u = t THEN X ELSE at[u]
  BY <1>1 DEF Life, Typed
<1>3. /\ m_Socket[c] = "pending" /\ m_Socket' = [m_Socket EXCEPT ![c] = "open"]
      /\ UNCHANGED <<peer, m_IP, m_isClose, reading, m_ConnectCollect>>
  BY DEF handleConnectFailed, serverVars
<1>4. m_Socket'[c] = "open"
  BY <1>3 DEF Life, Typed, TypeOK
<1>5. LifeOf(c)'
  <2> USE <1>0, <1>1, <1>2, <1>3, <1>4 DEF LifeOf, Busy, InTable
  <2>0. /\ \A u \in Threads : Busy(u, c)' <=> u = t
        /\ reading[c] = "none" /\ m_isClose[c] = FALSE /\ ~InTable(c)
        /\ peer[c] = "none"
    BY DEF Unborn, Unmet
  <2>1. Keyed(c)'
    BY <2>0 DEF Keyed, Rereading
  <2>2. Unborn(c)' /\ Unmet(c)'
    BY <2>0 DEF Unborn, Unmet, CloseOps
  <2>3. Opened(c)'
    BY <2>0 DEF Opened, Opening
  <2>4. Closers(c)'
    BY <2>0 DEF Closers, Closing, CloseOps
  <2>5. Entered(c)'
    BY <2>0 DEF Entered, Entering
  <2> QED BY <2>1, <2>2, <2>3, <2>4, <2>5
<1> QED BY <1>1, <1>3, <1>5, LifeMove DEF Life, Typed, TypeOK

(* startRead() in handleConnect is alone with the connection; in a handler  *)
(* of a read it finds the key in its place.                                 *)
LEMMA LifeStartRead ==
  ASSUME Life, NEW t \in Threads, StartRead(t), UNCHANGED m_ConnectCollect
  PROVE  \A d \in Conns : LifeOf(d)'
<1>0. Typed /\ at[t].op = "startRead" /\ at[t].conn \in Conns
  BY Places DEF Life, StartRead
<1>1. PICK c \in Conns : c = at[t].conn /\ Address[c] # NoIP
  BY <1>0, Constants
<1>2. PICK X \in {Idle} \cup Steps :
        /\ at' = [at EXCEPT ![t] = X]
        /\ X.op = at[t].next
        /\ X.op # "idle" => X.conn = c /\ X.next = "idle"
  BY <1>0, <1>1, Returns DEF StartRead
<1>3. /\ \A u \in Threads : at'[u] = IF u = t THEN X ELSE at[u]
      /\ at[t].next \in {"insert", "idle"} /\ LifeOf(c)
      /\ X.op = at[t].next
      /\ X.op # "idle" => X.conn = c /\ X.next = "idle"
  BY <1>0, <1>1, <1>2, Places DEF Life, Typed
<1>4. /\ UNCHANGED <<m_Socket, peer, m_isClose, m_ConnectCollect>>
      /\ \/ UNCHANGED <<m_IP, reading>>
         \/ /\ m_IP' = [m_IP EXCEPT ![c] = Address[c]]
            /\ reading' = [reading EXCEPT ![c] = "head"]
  BY <1>1 DEF StartRead
<1>5. /\ \A d \in Conns : d # c => m_IP'[d] = m_IP[d] /\ reading'[d] = reading[d]
      /\ \/ m_IP'[c] = m_IP[c] /\ reading'[c] = reading[c]
         \/ m_IP'[c] = Address[c] /\ reading'[c] = "head"
  BY <1>0, <1>1, <1>4 DEF Typed, TypeOK
<1>6. LifeOf(c)'
  <2>0. /\ at[t].op = "startRead" /\ at[t].conn = c /\ at[t].next \in {"insert", "idle"}
        /\ m_ConnectCollect' = m_ConnectCollect
        /\ m_Socket'[c] = m_Socket[c] /\ peer'[c] = peer[c] /\ m_isClose'[c] = m_isClose[c]
    BY <1>0, <1>1, <1>3, <1>4
  <2> USE <1>1, <1>3, <1>5, <2>0 DEF LifeOf, Busy
  <2>1. /\ peer[c] # "none" /\ m_Socket[c] \notin {"none", "pending"}
    BY DEF Unmet, Unborn, CloseOps
  <2>2. \A u \in Threads : ~Opening(u, c)'
    BY DEF Opened, Opening
  <2>3. \A u \in Threads : Rereading(u, c)' => Rereading(u, c)
    BY DEF Rereading
  <2>4. \A u \in Threads : Closing(u, c)' => u # t
    BY DEF CloseOps, Closing
  <2>5. \A u \in Threads : Entering(u, c)' /\ u # t =>
          Entering(u, c) /\ at[t].next = "idle"
    BY DEF Entering, Opened, Opening
  <2>6. m_IP'[c] = m_IP[c] \/ Opening(t, c)
    BY DEF Keyed, Rereading, Opening
  <2>7. Opening(t, c) => ~InTable(c) /\ \A u \in Threads : Busy(u, c) => u = t
    BY DEF Opened
  <2>8. Keyed(c)'
    BY <2>3, <2>6, <2>7, Constants DEF Keyed, InTable, KeysOf
  <2>9. Unborn(c)' /\ Unmet(c)'
    BY <2>1 DEF Unborn, Unmet
  <2>10. Opened(c)'
    BY <2>2 DEF Opened
  <2>11. Closers(c)'
    BY <2>4, <2>6, <2>7 DEF Closers, Closing, CloseOps
  <2>12. Entered(c)'
    BY <2>5 DEF Entered, Entering
  <2> QED BY <2>8, <2>9, <2>10, <2>11, <2>12
<1>7. \A d \in Conns : d # c =>
        /\ m_IP'[d] = m_IP[d] /\ m_isClose'[d] = m_isClose[d]
        /\ reading'[d] = reading[d] /\ peer'[d] = peer[d]
        /\ m_Socket'[d] = m_Socket[d]
        /\ \A k \in Keys : m_ConnectCollect'[k] = d => m_ConnectCollect[k] = d
  BY <1>4, <1>5
<1>8. /\ at' = [at EXCEPT ![t] = X]
      /\ X.op # "idle" => X.conn = c
  BY <1>2
<1> QED BY <1>1, <1>6, <1>7, <1>8, LifeMove

(* The steps of close(): the flag is set by a thread that is in it.         *)
LEMMA LifeClose ==
  ASSUME Life, NEW t \in Threads,
         \/ CloseCheck(t) \/ CloseSet(t) \/ CloseNotify(t, closeLock = None)
         \/ CloseSocket(t),
         UNCHANGED m_ConnectCollect
  PROVE  \A d \in Conns : LifeOf(d)'
<1>0. Typed /\ at[t].op \in CloseOps /\ at[t].conn \in Conns
  BY Places DEF Life, CloseCheck, CloseSet, CloseNotify, CloseSocket, CloseOps
<1>1. PICK c \in Conns : c = at[t].conn
  BY <1>0
<1>a. at[t].next \in {"idle", "waitConnect", "unlock"}
  BY <1>0, Places
<1>2. PICK X \in {Idle} \cup Steps :
        /\ at' = [at EXCEPT ![t] = X]
        /\ X.op # "idle" => X.conn = c
        /\ \/ X.op = at[t].next
           \/ X.op = "closeSet" /\ X.next = at[t].next
           \/ /\ X.op \in {"closeNotify", "closeSocket"} /\ X.next = at[t].next
              /\ m_isClose'[c] = TRUE
  <2> DEFINE Moved ==
        \E X \in {Idle} \cup Steps :
          /\ at' = [at EXCEPT ![t] = X]
          /\ X.op # "idle" => X.conn = c
          /\ \/ X.op = at[t].next
             \/ X.op = "closeSet" /\ X.next = at[t].next
             \/ /\ X.op \in {"closeNotify", "closeSocket"} /\ X.next = at[t].next
                /\ m_isClose'[c] = TRUE
  <2> SUFFICES Moved
    OBVIOUS
  <2>1. CASE Return(t)
    BY <1>0, <1>1, <2>1, Returns
  <2>2. ASSUME NEW o \in CloseOps, at' = [at EXCEPT ![t] = Doing(o, c, at[t].next)],
               o = "closeSet" \/ (o \in {"closeNotify", "closeSocket"} /\ m_isClose'[c] = TRUE)
        PROVE  Moved
    <3> DEFINE X == Doing(o, c, at[t].next)
    <3>1. X \in Steps /\ X.op = o /\ X.conn = c /\ X.next = at[t].next
      BY <1>1, <1>a DEF Doing, Steps
    <3> HIDE DEF X
    <3> QED BY <2>2, <3>1 DEF X
  <2> HIDE DEF Moved
  <2>3. \A o : [at[t] EXCEPT !.op = o] = Doing(o, c, at[t].next)
    BY <1>0, <1>1, Places
  <2>4. CASE CloseCheck(t)
    <3>1. CASE ~m_isClose[at[t].conn]
      <4>1. at' = [at EXCEPT ![t] = Doing("closeSet", c, at[t].next)]
        BY <2>3, <2>4, <3>1 DEF CloseCheck, Goto
      <4>2. "closeSet" \in CloseOps
        BY DEF CloseOps
      <4> QED BY <2>2, <4>1, <4>2
    <3> QED BY <2>1, <2>4, <3>1 DEF CloseCheck
  <2>5. CASE CloseSet(t)
    <3>1. m_isClose'[c] = TRUE
      BY <1>0, <1>1, <2>5 DEF CloseSet, Typed, TypeOK
    <3>2. PICK o \in {"closeNotify", "closeSocket"} :
            at' = [at EXCEPT ![t] = Doing(o, c, at[t].next)]
      BY <2>3, <2>5 DEF CloseSet, Goto
    <3>3. o \in CloseOps
      BY DEF CloseOps
    <3> QED BY <2>2, <3>1, <3>2, <3>3
  <2>6. CASE CloseNotify(t, closeLock = None)
    <3>1. m_isClose'[c] = TRUE
      BY <1>0, <1>1, <2>6 DEF CloseNotify, Life, LifeOf, Closers, Busy
    <3>2. PICK o \in {"closeNotify", "closeSocket"} :
            at' = [at EXCEPT ![t] = Doing(o, c, at[t].next)]
      BY <2>3, <2>6 DEF CloseNotify, Goto
    <3>3. o \in CloseOps
      BY DEF CloseOps
    <3> QED BY <2>2, <3>1, <3>2, <3>3
  <2> QED BY <2>1, <2>4, <2>5, <2>6 DEF CloseSocket
<1>3. \A u \in Threads : at'[u] = IF u = t THEN X ELSE at[u]
  BY <1>2 DEF Life, Typed
<1>4. /\ UNCHANGED <<peer, m_IP, reading, m_ConnectCollect>>
      /\ m_Socket' = m_Socket \/ m_Socket' = [m_Socket EXCEPT ![c] = "closed"]
      /\ m_isClose' = m_isClose \/ m_isClose' = [m_isClose EXCEPT ![c] = TRUE]
  BY <1>1 DEF CloseCheck, CloseSet, CloseNotify, CloseSocket, connVars
<1>5. /\ \A d \in Conns : d # c => m_Socket'[d] = m_Socket[d] /\ m_isClose'[d] = m_isClose[d]
      /\ m_Socket'[c] = m_Socket[c] \/ m_Socket'[c] = "closed"
      /\ m_isClose[c] = TRUE => m_isClose'[c] = TRUE
  <2>a. DOMAIN m_Socket = Conns /\ DOMAIN m_isClose = Conns
    BY DEF Life, Typed, TypeOK
  <2>1. /\ \A d \in Conns : d # c => m_Socket'[d] = m_Socket[d]
        /\ m_Socket'[c] = m_Socket[c] \/ m_Socket'[c] = "closed"
    BY <1>0, <1>4, <2>a
  <2>2. /\ \A d \in Conns : d # c => m_isClose'[d] = m_isClose[d]
        /\ m_isClose[c] = TRUE => m_isClose'[c] = TRUE
    BY <1>0, <1>4, <2>a
  <2> QED BY <2>1, <2>2
<1>6. LifeOf(c)'
  <2>a. /\ at[t].op \in CloseOps /\ at[t].conn = c /\ LifeOf(c)
        /\ UNCHANGED <<peer, m_IP, reading, m_ConnectCollect>>
    BY <1>0, <1>1, <1>4 DEF Life
  <2>b. /\ X.op # "idle" => X.conn = c
        /\ \/ X.op = at[t].next
           \/ X.op = "closeSet" /\ X.next = at[t].next
           \/ /\ X.op \in {"closeNotify", "closeSocket"} /\ X.next = at[t].next
              /\ m_isClose'[c] = TRUE
    BY <1>2
  <2> USE <1>1, <1>a, <1>3, <1>5, <2>a, <2>b DEF LifeOf, Busy
  <2>1. m_Socket[c] \notin {"none", "pending"} /\ Closing(t, c)
    BY DEF Unborn, CloseOps, Closing
  <2>2. \A u \in Threads : ~Opening(u, c)'
    BY DEF Opened, Opening, CloseOps
  <2>3. \A u \in Threads : Rereading(u, c)' => Rereading(u, c)
    BY DEF Rereading
  <2>4. \A u \in Threads : Entering(u, c)' => Entering(u, c)
    BY DEF Entering
  <2>5. Closing(t, c)' => at'[t].next = at[t].next
    BY DEF Closing, CloseOps
  <2>6. Keyed(c)'
    BY <2>3 DEF Keyed
  <2>7. Unborn(c)'
    BY <2>1 DEF Unborn
  <2>8. Unmet(c)'
    <3> SUFFICES ASSUME peer[c] = "none", NEW u \in Threads, Busy(u, c)'
                 PROVE  \/ at'[u].op \in CloseOps /\ at'[u].next = "waitConnect"
                        \/ at'[u].op = "waitConnect"
      BY DEF Unmet, InTable
    <3>1. CASE u = t
      <4>1. at[t].next = "waitConnect"
        BY DEF Unmet, CloseOps
      <4> QED BY <3>1, <4>1 DEF CloseOps
    <3>2. CASE u # t
      BY <3>2 DEF Unmet
    <3> QED BY <3>1, <3>2
  <2>9. Opened(c)'
    BY <2>2 DEF Opened
  <2>10. Closers(c)'
    <3> SUFFICES ASSUME NEW u \in Threads
                 PROVE  /\ Closing(u, c)' /\ at'[u].next = "waitConnect"
                             => peer[c] = "none" /\ u = ConnectIo(c)
                        /\ Closing(u, c)' /\ at'[u].next # "waitConnect"
                             => /\ peer[c] # "none" /\ m_IP[c] # NoIP
                                /\ at'[u].next = "idle" => u = IoOf[c]
                        /\ Busy(u, c)' /\ at'[u].op \in {"closeNotify", "closeSocket"}
                             => m_isClose'[c] = TRUE
      BY DEF Closers, ConnectIo
    <3>1. CASE u = t
      <4>1. Busy(t, c)' /\ at'[t].op \in {"closeNotify", "closeSocket"} => m_isClose'[c] = TRUE
        BY DEF CloseOps
      <4> QED BY <2>1, <2>5, <3>1, <4>1 DEF Closers
    <3>2. CASE u # t
      BY <3>2 DEF Closers, Closing
    <3> QED BY <3>1, <3>2
  <2>11. Entered(c)'
    BY <2>4 DEF Entered
  <2> QED BY <2>6, <2>7, <2>8, <2>9, <2>10, <2>11
<1>7. \A d \in Conns : d # c =>
        /\ m_IP'[d] = m_IP[d] /\ m_isClose'[d] = m_isClose[d]
        /\ reading'[d] = reading[d] /\ peer'[d] = peer[d]
        /\ m_Socket'[d] = m_Socket[d]
        /\ \A k \in Keys : m_ConnectCollect'[k] = d => m_ConnectCollect[k] = d
  BY <1>4, <1>5
<1>8. /\ at' = [at EXCEPT ![t] = X]
      /\ X.op # "idle" => X.conn = c
  BY <1>2
<1> QED BY <1>1, <1>6, <1>7, <1>8, LifeMove

(* The insertion enters the connection under its own key, and it alone.     *)
LEMMA LifeInsert ==
  ASSUME Life, NEW t \in Threads, InsertConnect(t) \/ AnnounceConnect(t)
  PROVE  \A d \in Conns : LifeOf(d)'
<1>0. /\ Typed /\ at[t].op \in {"insert", "announce"}
      /\ at[t].conn \in Conns /\ at[t].next = "idle"
  BY Places DEF Life, InsertConnect, AnnounceConnect
<1>1. PICK c \in Conns : c = at[t].conn
  BY <1>0
<1>2. PICK X \in Steps :
        /\ at' = [at EXCEPT ![t] = X] /\ X.conn = c /\ X.next = "idle"
        /\ \/ X.op = "announce" /\ at[t].op = "insert"
           \/ X.op = "waitConnect"
  <2>1. ASSUME NEW o \in {"announce", "waitConnect"}
        PROVE  /\ Doing(o, c, "idle") \in Steps /\ Doing(o, c, "idle").op = o
               /\ Doing(o, c, "idle").conn = c /\ Doing(o, c, "idle").next = "idle"
    BY DEF Doing, Steps
  <2> QED BY <1>1, <2>1 DEF InsertConnect, AnnounceConnect, Goto
<1>3. \A u \in Threads : at'[u] = IF u = t THEN X ELSE at[u]
  BY <1>2 DEF Life, Typed
<1>4. /\ UNCHANGED <<m_Socket, peer, m_IP, m_isClose, reading>>
      /\ \A k \in Keys : \/ m_ConnectCollect'[k] = m_ConnectCollect[k]
                         \/ k = m_IP[c] /\ m_ConnectCollect'[k] = c
  <2>1. CASE InsertConnect(t)
    <3>1. m_ConnectCollect' =
            [m_ConnectCollect EXCEPT ![m_IP[c]] =
               IF m_ConnectCollect[m_IP[c]] = None THEN c ELSE m_ConnectCollect[m_IP[c]]]
      BY <1>1, <2>1 DEF InsertConnect
    <3>2. m_ConnectCollect \in [Keys -> Conns \cup {None}]
      BY <1>0 DEF Typed, TypeOK
    <3> QED BY <2>1, <3>1, <3>2 DEF InsertConnect, connVars
  <2> QED BY <2>1 DEF InsertConnect, AnnounceConnect, connVars
<1>5. LifeOf(c)'
  <2>0. /\ at[t].op \in {"insert", "announce"} /\ at[t].conn = c /\ LifeOf(c)
        /\ X.op \in {"announce", "waitConnect"} /\ X.conn = c
    BY <1>0, <1>1, <1>2 DEF Life
  <2> USE <1>3, <1>4, <2>0 DEF LifeOf, Busy
  <2>1. peer[c] # "none" /\ m_Socket[c] \notin {"none", "pending"}
    BY DEF Unmet, Unborn, CloseOps
  <2>2. \A u \in Threads : ~Opening(u, c)'
    BY DEF Opened, Opening
  <2>3. \A u \in Threads : Rereading(u, c)' => Rereading(u, c)
    BY DEF Rereading
  <2>4. \A u \in Threads : Closing(u, c)' => u # t
    BY DEF CloseOps, Closing
  <2>5. \A u \in Threads : Entering(u, c)' => Entering(u, c)
    BY DEF Entering
  <2>6. Keyed(c)'
    BY <2>3 DEF Keyed
  <2>7. Unborn(c)' /\ Unmet(c)'
    BY <2>1 DEF Unborn, Unmet
  <2>8. Opened(c)'
    BY <2>2 DEF Opened
  <2>9. Closers(c)'
    BY <2>4 DEF Closers, Closing
  <2>10. Entered(c)'
    BY <2>5 DEF Entered
  <2> QED BY <2>6, <2>7, <2>8, <2>9, <2>10
<1>6. \A d \in Conns : d # c =>
        /\ m_IP'[d] = m_IP[d] /\ m_isClose'[d] = m_isClose[d]
        /\ reading'[d] = reading[d] /\ peer'[d] = peer[d]
        /\ m_Socket'[d] = m_Socket[d]
        /\ \A k \in Keys : m_ConnectCollect'[k] = d => m_ConnectCollect[k] = d
  BY <1>4
<1> QED BY <1>2, <1>5, <1>6, LifeMove

(* A read completes for a connection nobody is opening, and which has its   *)
(* key.                                                                     *)
LEMMA LifeRead ==
  ASSUME Life, NEW t \in Threads, NEW c \in Conns, ReadCompletes(t, c)
  PROVE  \A d \in Conns : LifeOf(d)'
<1> USE DEF ReadCompletes, HandRead
<1>0. /\ Typed /\ at[t] = Idle /\ t = IoOf[c] /\ reading[c] # "none"
      /\ UNCHANGED <<m_Socket, peer, m_IP, m_isClose, m_ConnectCollect>>
  BY DEF Life, HandReadHead, HandReadBody, HandReadError, serverVars
<1>1. PICK X \in {Idle} \cup Steps :
        /\ at' = [at EXCEPT ![t] = X]
        /\ X.op # "idle" => X.conn = c /\ X.next = "idle"
        /\ X.op \in {"idle", "startRead", "closeCheck"}
  <2>1. CASE HandReadHead(t, c)
    <3>1. at' = [at EXCEPT ![t] = Idle] /\ Idle.op = "idle"
      BY <1>0, <2>1 DEF HandReadHead, Typed, Idle
    <3> QED BY <3>1
  <2>2. CASE HandReadBody(t, c) \/ HandReadError(t, c)
    <3>1. PICK o \in {"startRead", "closeCheck"} : at' = [at EXCEPT ![t] = Doing(o, c, "idle")]
      BY <2>2 DEF HandReadBody, HandReadError, Goto
    <3> DEFINE X == Doing(o, c, "idle")
    <3>2. X \in Steps /\ X.op = o /\ X.conn = c /\ X.next = "idle"
      BY DEF Doing, Steps, CloseOps
    <3> HIDE DEF X
    <3> QED BY <3>1, <3>2 DEF X
  <2> QED BY <2>1, <2>2
<1>2. \A u \in Threads : at'[u] = IF u = t THEN X ELSE at[u]
  BY <1>1 DEF Life, Typed
<1>3. \A d \in Conns : d # c => reading'[d] = reading[d]
  BY <1>0 DEF Typed, TypeOK, HandReadHead, HandReadBody, HandReadError
<1>4. LifeOf(c)'
  <2>0. /\ LifeOf(c) /\ at[t].op = "idle" /\ t = IoOf[c] /\ reading[c] # "none"
        /\ X.op # "idle" => X.conn = c /\ X.next = "idle"
        /\ X.op \in {"idle", "startRead", "closeCheck"}
        /\ UNCHANGED <<m_Socket, peer, m_IP, m_isClose, m_ConnectCollect>>
    BY <1>0, <1>1 DEF Life, Idle
  <2> HIDE DEF ReadCompletes, HandRead
  <2> USE <1>2, <2>0 DEF LifeOf, Busy
  <2>1. /\ peer[c] # "none" /\ m_Socket[c] \notin {"none", "pending"}
        /\ m_IP[c] # NoIP /\ m_IP[c] = Address[c]
    BY Constants DEF Unmet, Unborn, Keyed
  <2>2. \A u \in Threads : ~Opening(u, c)'
    BY DEF Opened, Opening
  <2>3. \A u \in Threads : Entering(u, c)' => Entering(u, c)
    BY DEF Entering
  <2>4. Keyed(c)'
    BY <2>1 DEF Keyed
  <2>5. Unborn(c)' /\ Unmet(c)'
    BY <2>1 DEF Unborn, Unmet
  <2>6. Opened(c)'
    BY <2>2 DEF Opened
  <2>7. Closers(c)'
    BY <2>1 DEF Closers, Closing
  <2>8. Entered(c)'
    BY <2>3 DEF Entered
  <2> QED BY <2>4, <2>5, <2>6, <2>7, <2>8
<1>5. \A d \in Conns : d # c =>
        /\ m_IP'[d] = m_IP[d] /\ m_isClose'[d] = m_isClose[d]
        /\ reading'[d] = reading[d] /\ peer'[d] = peer[d]
        /\ m_Socket'[d] = m_Socket[d]
        /\ \A k \in Keys : m_ConnectCollect'[k] = d => m_ConnectCollect[k] = d
  BY <1>0, <1>3
<1>6. /\ at' = [at EXCEPT ![t] = X]
      /\ X.op # "idle" => X.conn = c
  BY <1>1
<1> QED BY <1>4, <1>5, <1>6, LifeMove

(* closeConnect() finds a connection that has its key and is not opening.   *)
LEMMA LifeCloseConnect ==
  ASSUME Life, NEW t \in Users, NEW k \in Numeric, closeConnect(t, k)
  PROVE  \A d \in Conns : LifeOf(d)'
<1>0. /\ Typed /\ at[t] = Idle /\ t \in Threads /\ k \in Keys
      /\ UNCHANGED <<m_Socket, peer, m_IP, m_isClose, reading, m_ConnectCollect>>
      /\ m_ConnectCollect[k] \in Conns
  BY Constants DEF Life, closeConnect, connVars, Keys, Typed, TypeOK
<1>1. PICK c \in Conns : c = m_ConnectCollect[k]
  BY <1>0
<1> DEFINE X == Doing("closeCheck", c, "unlock")
<1>2. /\ at' = [at EXCEPT ![t] = X]
      /\ X.op = "closeCheck" /\ X.conn = c /\ X.next = "unlock"
  BY <1>1 DEF closeConnect, Goto, Doing
<1> HIDE DEF X
<1>3. \A u \in Threads : at'[u] = IF u = t THEN X ELSE at[u]
  BY <1>2 DEF Life, Typed
<1>4. LifeOf(c)'
  <2>0. LifeOf(c) /\ at[t].op = "idle"
    BY <1>0 DEF Life, Idle
  <2> USE <1>0, <1>1, <1>2, <1>3, <2>0 DEF LifeOf, Busy
  <2>1. /\ InTable(c) /\ k # NoIP
    BY Constants DEF InTable
  <2>2. /\ peer[c] # "none" /\ m_Socket[c] \notin {"none", "pending"}
        /\ m_IP[c] # NoIP
    BY <2>1 DEF Unmet, Unborn, Keyed
  <2>3. \A u \in Threads : ~Opening(u, c)'
    BY <2>1 DEF Opened, Opening
  <2>4. \A u \in Threads : Entering(u, c)' => Entering(u, c)
    BY DEF Entering
  <2>5. Keyed(c)'
    BY <2>2 DEF Keyed, KeysOf, Rereading
  <2>6. Unborn(c)' /\ Unmet(c)'
    BY <2>2 DEF Unborn, Unmet
  <2>7. Opened(c)'
    BY <2>3 DEF Opened
  <2>8. Closers(c)'
    BY <2>2 DEF Closers, Closing
  <2>9. Entered(c)'
    BY <2>4 DEF Entered
  <2> QED BY <2>5, <2>6, <2>7, <2>8, <2>9
<1> QED BY <1>0, <1>2, <1>4, LifeMove

(* A thread that leaves its connection, or deals with none.                 *)
LEMMA LifeLeave ==
  ASSUME Life, NEW t \in Threads,
         \/ WaitConnect(t) \/ update(t)
         \/ getConnectByIP(t) \/ Lookup(t) \/ CloseConnectUnlock(t)
  PROVE  \A d \in Conns : LifeOf(d)'
<1> SUFFICES ASSUME NEW c \in Conns PROVE LifeOf(c)'
  OBVIOUS
<1>0. /\ Typed /\ LifeOf(c)
      /\ UNCHANGED <<peer, m_IP, m_isClose, reading>>
  BY DEF Life, WaitConnect, update, getConnectByIP, Lookup, CloseConnectUnlock,
         UpdatePacks, UpdateNew, UpdateCloseLock, UpdateTellClose, UpdateErase,
         UpdateCloseUnlock, connVars
<1>1. PICK X : at' = [at EXCEPT ![t] = X] /\ (X.op = "idle" \/ X.conn = None)
  <2>1. Idle.op = "idle" /\ \A o : Doing(o, None, "idle").conn = None
    BY DEF Idle, Doing
  <2> QED
    BY <2>1 DEF WaitConnect, update, getConnectByIP, Lookup, CloseConnectUnlock, Goto,
         UpdatePacks, UpdateNew, UpdateCloseLock, UpdateTellClose, UpdateErase,
         UpdateCloseUnlock
<1>2. \A u \in Threads : Busy(u, c)' => at'[u] = at[u]
  BY <1>0, <1>1, Constants DEF Busy, Typed
<1>3. m_Socket'[c] \in {"none", "pending"} => m_Socket[c] \in {"none", "pending"}
  <2>1. CASE WaitConnect(t)
    BY <1>0, <2>1 DEF WaitConnect, waitConnect, Typed, TypeOK
  <2>2. CASE m_Socket' = m_Socket
    BY <2>2
  <2> QED
    BY <2>1, <2>2 DEF update, getConnectByIP, Lookup, CloseConnectUnlock,
         UpdatePacks, UpdateNew, UpdateCloseLock, UpdateTellClose, UpdateErase,
         UpdateCloseUnlock, connVars
<1>4. \A k \in Keys : m_ConnectCollect'[k] = c => m_ConnectCollect[k] = c
  <2>1. CASE UpdateErase(t)
    BY <1>0, <2>1, Constants DEF UpdateErase, Typed, TypeOK
  <2>2. CASE m_ConnectCollect' = m_ConnectCollect
    BY <2>2
  <2> QED
    BY <2>1, <2>2 DEF WaitConnect, update, getConnectByIP, Lookup, CloseConnectUnlock,
         UpdatePacks, UpdateNew, UpdateCloseLock, UpdateTellClose, UpdateCloseUnlock,
         serverVars
<1> QED BY <1>0, <1>2, <1>3, <1>4, LifeElsewhere

(* A peer that leaves ends its connection in one way or the other.          *)
LEMMA EndingsAre == \A c \in Conns : \A how \in Endings[c] : how \in {"eof", "reset"}
  BY ConnectionAssumption DEF ConnectionAssumption

(* A connection changes hands with its peer, or its opening begins.         *)
LEMMA LifePeer ==
  ASSUME Life, NEW c \in Conns,
         \/ (PeerGone(c) \/ ReadArrives(c)) /\ UNCHANGED serverVars
         \/ \E t \in Threads : connect(t, c) \/ connectThrows(t, c)
  PROVE  \A d \in Conns : LifeOf(d)'
<1>0. /\ Typed
      /\ UNCHANGED <<at, m_isClose, m_ConnectCollect>>
  BY DEF Life, PeerGone, ReadArrives, connect, connectThrows, serverVars
<1>1. \A d \in Conns : d # c =>
        /\ m_IP'[d] = m_IP[d] /\ peer'[d] = peer[d] /\ m_Socket'[d] = m_Socket[d]
        /\ reading'[d] = reading[d]
  BY <1>0 DEF PeerGone, ReadArrives, connect, connectThrows, Typed, TypeOK
<1>2. ASSUME NEW d \in Conns, d # c PROVE LifeOf(d)'
  BY <1>0, <1>1, <1>2, LifeElsewhere DEF Life
<1>3. LifeOf(c)'
  <2>1. LifeOf(c)
    BY DEF Life
  <2>2. CASE PeerGone(c)
    <3>1. peer[c] = "up" /\ m_Socket' = m_Socket /\ m_IP' = m_IP /\ reading' = reading
      BY <2>2 DEF PeerGone
    <3>2. peer'[c] # "none"
      <4>1. PICK how \in Endings[c] : peer' = [peer EXCEPT ![c] = how]
        BY <2>2 DEF PeerGone
      <4>2. peer \in [Conns -> {"none", "up", "eof", "reset"}]
        BY <1>0 DEF Typed, TypeOK
      <4> QED BY <4>1, <4>2, EndingsAre
    <3>3. Keyed(c)'
      BY <1>0, <2>1, <3>1 DEF LifeOf, Keyed, KeysOf, Rereading, Busy
    <3> QED
      BY <1>0, <2>1, <3>1, <3>2, <3>3 DEF LifeOf, Unborn, Unmet, Opened, Closers, Entered,
           Busy, Opening, Entering, Closing, InTable
  <2>3. CASE \E t \in Threads : connect(t, c) \/ connectThrows(t, c)
    <3>1. /\ m_Socket[c] = "none" /\ peer' = peer /\ reading' = reading
          /\ m_IP'[c] \in KeysOf(c) \cup {m_IP[c]}
      BY <1>0, <2>3, Constants DEF connect, connectThrows, KeysOf, Typed, TypeOK
    <3>2. /\ \A t \in Threads : ~Busy(t, c)
          /\ peer[c] = "none" /\ m_isClose[c] = FALSE /\ ~InTable(c) /\ reading[c] = "none"
      BY <2>1, <3>1 DEF LifeOf, Unborn, Unmet
    <3> QED
      BY <1>0, <2>1, <3>1, <3>2 DEF LifeOf, Keyed, Unborn, Unmet, Opened, Closers, Entered,
           Busy, Opening, Rereading, Entering, Closing, InTable, KeysOf
  <2>4. CASE ReadArrives(c)
    <3>1. /\ m_Socket' = m_Socket /\ m_IP' = m_IP /\ peer' = peer
          /\ reading[c] # "none"
      BY <2>4 DEF ReadArrives
    <3> QED
      BY <1>0, <2>1, <3>1 DEF LifeOf, Keyed, Unborn, Unmet, Opened, Closers, Entered,
           Busy, Opening, Rereading, Entering, Closing, InTable, KeysOf
  <2> QED BY <2>2, <2>3, <2>4
<1> QED BY <1>2, <1>3

LEMMA LifeStep == Life /\ [Next]_vars => Life'
<1> SUFFICES ASSUME Life, [Next]_vars PROVE \A d \in Conns : LifeOf(d)'
  BY TypedStep DEF Life
<1>1. CASE UNCHANGED vars
  <2>1. UNCHANGED <<m_Socket, peer, m_IP, m_isClose, reading, m_ConnectCollect, at>>
    BY <1>1 DEF vars, connVars, serverVars
  <2> QED BY <2>1, LifeElsewhere DEF Life
<1>2. ASSUME NEW t \in Threads, Handler(t) PROVE \A d \in Conns : LifeOf(d)'
  <2>1. UNCHANGED serverVars => UNCHANGED m_ConnectCollect
    BY DEF serverVars
  <2> QED BY <1>2, <2>1, LifeStartRead, LifeClose, LifeInsert, LifeLeave
             DEF Handler, HandlerStep
<1>3. ASSUME NEW t \in Threads, NEW c \in Conns,
             \/ ReadCompletes(t, c) \/ connect(t, c) \/ connectThrows(t, c)
             \/ handleConnect(t, c) \/ handleConnectFailed(t, c)
      PROVE  \A d \in Conns : LifeOf(d)'
  BY <1>3, LifeRead, LifePeer, LifeHandleConnect, LifeHandleConnectFailed
<1>4. ASSUME NEW u \in Users,
             \/ getConnectByIP(u) \/ Lookup(u) \/ CloseConnectUnlock(u)
             \/ \E k \in Numeric : closeConnect(u, k)
      PROVE  \A d \in Conns : LifeOf(d)'
  BY <1>4, LifeLeave, LifeCloseConnect, Constants
<1> QED BY <1>1, <1>2, <1>3, <1>4, LifePeer, LifeLeave DEF Next

-----------------------------------------------------------------------------
(* A thread on its way to waitConnect().                                    *)
Coming(t) == \/ at[t].op \in {"insert", "announce", "waitConnect"}
             \/ at[t].op # "idle" /\ at[t].next \in {"insert", "waitConnect"}

(* Only a completed accept and waitConnect() itself can take an accept or   *)
(* the thread that will post one away.                                      *)
LEMMA PostedStays ==
  ASSUME Life, [Next]_vars, \A t \in Threads : ~WaitConnect(t),
         \A t \in Threads, c \in Conns : ~handleConnect(t, c) /\ ~handleConnectFailed(t, c)
  PROVE  /\ \A c \in Accepted : m_Socket'[c] = "none" => m_Socket[c] = "none"
         /\ \A c \in Accepted : m_Socket[c] = "pending" => m_Socket'[c] = "pending"
         /\ \A t \in Threads : Coming(t) => Coming(t)'
<1> DEFINE Sockets ==
             /\ \A c \in Accepted : m_Socket'[c] = "none" => m_Socket[c] = "none"
             /\ \A c \in Accepted : m_Socket[c] = "pending" => m_Socket'[c] = "pending"
           Threadwise == \A t \in Threads : Coming(t) => Coming(t)'
<1>0. Typed /\ m_Socket \in [Conns -> {"none", "pending", "open", "closed"}]
  BY DEF Life, Typed, TypeOK
<1>1. m_Socket' = m_Socket => Sockets
  OBVIOUS
<1>2. at' = at => Threadwise
  BY DEF Coming
<1>3. ASSUME NEW t \in Threads, NEW X, at' = [at EXCEPT ![t] = X], ~Coming(t)
      PROVE  Threadwise
  BY <1>0, <1>3 DEF Coming, Typed
<1>4. ASSUME NEW t \in Threads, NEW X, at' = [at EXCEPT ![t] = X],
             X.op \in {"insert", "announce", "waitConnect"}
      PROVE  Threadwise
  BY <1>0, <1>4 DEF Coming, Typed
<1>5. ASSUME NEW t \in Threads, at[t].op \in {"idle", "unlock", "lookup"} \cup UpdateOps
      PROVE  ~Coming(t)
  BY <1>5, <1>0, Places DEF Coming, UpdateOps
<1> HIDE DEF Sockets, Threadwise
<1>6. ASSUME NEW t \in Threads, at[t].op = "startRead" \/ at[t].op \in CloseOps,
             Return(t)
      PROVE  Threadwise
  <2>1. PICK X \in {Idle} \cup Steps :
          /\ at' = [at EXCEPT ![t] = X]
          /\ X.op = at[t].next
    BY <1>0, <1>6, Returns
  <2>2. Coming(t) => X.op \in {"insert", "waitConnect"}
    BY <1>6, <2>1 DEF Coming, CloseOps
  <2> QED BY <1>3, <1>4, <2>1, <2>2
<1>7. ASSUME NEW t \in Threads, NEW o \in CloseOps, at[t].op \in CloseOps,
             Goto(t, [at[t] EXCEPT !.op = o])
      PROVE  Threadwise
  <2> DEFINE X == Doing(o, at[t].conn, at[t].next)
  <2>1. at' = [at EXCEPT ![t] = X]
    BY <1>0, <1>7, Places DEF Goto
  <2>2. X.op = o /\ X.next = at[t].next /\ o # "idle"
    BY DEF Doing, CloseOps
  <2> HIDE DEF X
  <2>3. \A u \in Threads : at'[u] = IF u = t THEN X ELSE at[u]
    BY <1>0, <2>1 DEF Typed
  <2>4. at[t].op \notin {"insert", "announce", "waitConnect"}
    BY <1>7 DEF CloseOps
  <2> QED BY <2>2, <2>3, <2>4 DEF Coming, Threadwise
<1>8. CASE UNCHANGED vars
  BY <1>1, <1>2, <1>8 DEF vars, connVars, Sockets, Threadwise
<1>9. ASSUME NEW t \in Threads, Handler(t) PROVE Sockets /\ Threadwise
  <2>1. CASE StartRead(t)
    BY <1>1, <1>6, <2>1 DEF StartRead
  <2>2. CASE CloseCheck(t)
    BY <1>1, <1>6, <1>7, <2>2 DEF CloseCheck, connVars, CloseOps
  <2>3. CASE CloseSet(t) \/ CloseNotify(t, closeLock = None)
    BY <1>1, <1>7, <2>3 DEF CloseSet, CloseNotify, CloseOps
  <2>4. CASE CloseSocket(t)
    <3>1. at[t].op \in CloseOps /\ at[t].op # "idle" /\ at[t].conn \in Conns
      BY <1>0, <2>4, Places DEF CloseSocket, CloseOps
    <3>2. m_Socket[at[t].conn] \notin {"none", "pending"}
      BY <3>1 DEF Life, LifeOf, Unborn, Busy
    <3>3. Sockets
      BY <1>0, <2>4, <3>1, <3>2, Constants DEF CloseSocket, Sockets
    <3> QED BY <1>6, <2>4, <3>1, <3>3 DEF CloseSocket
  <2>5. CASE InsertConnect(t) \/ AnnounceConnect(t)
    <3>1. \A o, c : Doing(o, c, "idle").op = o
      BY DEF Doing
    <3> QED BY <1>1, <1>4, <2>5, <3>1 DEF InsertConnect, AnnounceConnect, connVars, Goto
  <2> QED BY <1>9, <2>1, <2>2, <2>3, <2>4, <2>5 DEF Handler, HandlerStep
<1>10. ASSUME NEW t \in Threads, update(t) PROVE Sockets /\ Threadwise
  <2>1. at[t].op \in {"idle", "unlock", "lookup"} \cup UpdateOps
    BY <1>10 DEF update, UpdatePacks, UpdateNew, UpdateCloseLock, UpdateTellClose,
         UpdateErase, UpdateCloseUnlock, UpdateOps, Idle
  <2>2. \E X : at' = [at EXCEPT ![t] = X]
    BY <1>10 DEF update, UpdatePacks, UpdateNew, UpdateCloseLock, UpdateTellClose,
         UpdateErase, UpdateCloseUnlock, Goto
  <2>3. m_Socket' = m_Socket
    BY <1>10 DEF update, UpdatePacks, UpdateNew, UpdateCloseLock, UpdateTellClose,
         UpdateErase, UpdateCloseUnlock, connVars
  <2> QED BY <1>1, <1>3, <1>5, <2>1, <2>2, <2>3
<1>11. ASSUME NEW t \in Threads, NEW c \in Conns,
              ReadCompletes(t, c) \/ connect(t, c) \/ connectThrows(t, c)
       PROVE  Sockets /\ Threadwise
  <2>1. at[t] = Idle /\ at[t].op = "idle"
    BY <1>11 DEF ReadCompletes, HandRead, HandReadHead, HandReadBody, HandReadError,
         connect, connectThrows, Idle
  <2>2. at' = at \/ \E X : at' = [at EXCEPT ![t] = X]
    BY <1>11 DEF ReadCompletes, HandRead, HandReadHead, HandReadBody, HandReadError,
         connect, connectThrows, Goto
  <2>3. Sockets
    <3>1. CASE ReadCompletes(t, c)
      BY <1>1, <3>1 DEF ReadCompletes, HandRead, HandReadHead, HandReadBody, HandReadError
    <3>2. CASE connect(t, c) \/ connectThrows(t, c)
      BY <1>0, <3>2, Constants DEF connect, connectThrows, Sockets
    <3> QED BY <1>11, <3>1, <3>2
  <2> QED BY <1>2, <1>3, <1>5, <2>1, <2>2, <2>3
<1>12. ASSUME NEW t \in Users,
              \/ getConnectByIP(t) \/ Lookup(t) \/ CloseConnectUnlock(t)
              \/ \E k \in Numeric : closeConnect(t, k)
       PROVE  Sockets /\ Threadwise
  <2>1. t \in Threads /\ at[t].op \in {"idle", "unlock", "lookup"} \cup UpdateOps
    BY <1>12, Constants DEF getConnectByIP, Lookup, CloseConnectUnlock, closeConnect, Idle
  <2>2. \E X : at' = [at EXCEPT ![t] = X]
    BY <1>12 DEF getConnectByIP, Lookup, CloseConnectUnlock, closeConnect, Goto
  <2>3. m_Socket' = m_Socket
    BY <1>12 DEF getConnectByIP, Lookup, CloseConnectUnlock, closeConnect, connVars
  <2> QED BY <1>1, <1>3, <1>5, <2>1, <2>2, <2>3
<1>13. ASSUME NEW c \in Conns, PeerGone(c) \/ ReadArrives(c) PROVE Sockets /\ Threadwise
  BY <1>1, <1>2, <1>13 DEF PeerGone, ReadArrives
<1> QED BY <1>8, <1>9, <1>10, <1>11, <1>12, <1>13 DEF Next, Sockets, Threadwise

(* The acceptor is never left without an accept while it could have one:    *)
(* the handler of every completed accept, successful or failed, goes on to  *)
(* waitConnect(), and nothing else takes a pending accept away.             *)
THEOREM ServerAcceptPosted == Spec => []AcceptPosted
<1>1. Init => AcceptPosted
  <2> SUFFICES ASSUME Init PROVE AcceptPosted
    OBVIOUS
  <2>1. Cardinality({}) = 0
    BY FS_EmptySet
  <2> DEFINE P == {c \in Conns : m_Socket[c] = "pending"}
  <2>2. P # {}
    <3>1. Cardinality(P) = 1
      BY DEF Init
    <3> HIDE DEF P
    <3> QED BY <2>1, <3>1
  <2> QED BY <2>2 DEF Init, AcceptPosted
<1>2. Life /\ AcceptPosted /\ [Next]_vars => AcceptPosted'
  <2> SUFFICES ASSUME Life, AcceptPosted, [Next]_vars PROVE AcceptPosted'
    OBVIOUS
  <2>0. Typed /\ m_Socket \in [Conns -> {"none", "pending", "open", "closed"}]
    BY DEF Life, Typed, TypeOK
  <2>1. ASSUME NEW t \in Threads, WaitConnect(t) PROVE AcceptPosted'
    <3>1. CASE \A c \in Accepted : m_Socket[c] # "none"
      <4>1. m_Socket' = m_Socket
        BY <2>1, <3>1 DEF WaitConnect, waitConnect
      <4> QED BY <3>1, <4>1 DEF AcceptPosted
    <3>2. CASE \E c \in Accepted : m_Socket[c] = "none"
      <4>1. PICK c \in Accepted : m_Socket' = [m_Socket EXCEPT ![c] = "pending"]
        BY <2>1, <3>2 DEF WaitConnect, waitConnect
      <4> QED BY <2>0, <4>1, Constants DEF AcceptPosted
    <3> QED BY <3>1, <3>2
  <2>2. ASSUME NEW t \in Threads, NEW c \in Conns,
               handleConnect(t, c) \/ handleConnectFailed(t, c)
        PROVE  AcceptPosted'
    <3>1. PICK o \in {"startRead", "closeCheck"}, n \in {"insert", "waitConnect"} :
            at' = [at EXCEPT ![t] = Doing(o, c, n)]
      BY <2>2 DEF handleConnect, handleConnectFailed, Goto
    <3> DEFINE X == Doing(o, c, n)
    <3>2. X.op # "idle" /\ X.next = n
      BY DEF Doing
    <3> HIDE DEF X
    <3>3. at'[t] = X
      BY <2>0, <3>1 DEF Typed, X
    <3> QED BY <3>2, <3>3 DEF AcceptPosted
  <2>3. CASE /\ \A t \in Threads : ~WaitConnect(t)
             /\ \A t \in Threads, c \in Conns :
                  ~handleConnect(t, c) /\ ~handleConnectFailed(t, c)
    BY <2>3, PostedStays DEF AcceptPosted, Coming
  <2> QED BY <2>1, <2>2, <2>3
<1> QED BY <1>1, <1>2, LifeInit, LifeStep, PTL DEF Spec
-----------------------------------------------------------------------------
(* The packs a connection has been read, in their order.                    *)
Numbered(c, r) == [n \in 1..r |-> [conn |-> c, n |-> n]]

(* One more pack read is one more at the end.                               *)
LEMMA NumberedNext ==
  ASSUME NEW c \in Conns, NEW r \in Nat,
         NEW D \in Seq(PackType), NEW P \in Seq(PackType), D \o P = Numbered(c, r)
  PROVE  D \o Append(P, [conn |-> c, n |-> r + 1]) = Numbered(c, r + 1)
<1> DEFINE e == [conn |-> c, n |-> r + 1]
           N == Numbered(c, r)
<1>1. e \in PackType
  BY DEF PackType
<1>2. r \in Nat /\ r + 1 \in Nat
  OBVIOUS
<1>3. \A q \in Nat : Numbered(c, q) \in Seq(PackType) /\ Len(Numbered(c, q)) = q
  <2> SUFFICES ASSUME NEW q \in Nat
               PROVE  Numbered(c, q) \in Seq(PackType) /\ Len(Numbered(c, q)) = q
    OBVIOUS
  <2>1. q \in Nat /\ \A n \in 1..q : [conn |-> c, n |-> n] \in PackType
    BY DEF PackType
  <2>2. \A f : f \in [1..q -> PackType] => f \in Seq(PackType) /\ Len(f) = q
    BY <2>1
  <2>3. Numbered(c, q) \in [1..q -> PackType]
    BY <2>1 DEF Numbered
  <2> QED BY <2>2, <2>3
<1>a. \A q \in Nat : \A n \in 1..q : Numbered(c, q)[n] = [conn |-> c, n |-> n]
  BY DEF Numbered
<1> HIDE DEF e
<1>4. D \o Append(P, e) = Append(D \o P, e)
  BY <1>1, AppendConcat, SMTT(30)
<1>5. Append(N, e) = Numbered(c, r + 1)
  <2> DEFINE M == Numbered(c, r + 1)
  <2>1. /\ N \in Seq(PackType) /\ Len(N) = r
        /\ M \in Seq(PackType) /\ Len(M) = r + 1
    BY <1>2, <1>3, Constants
  <2>2. \A n \in 1..(r + 1) : M[n] = IF n = r + 1 THEN e ELSE N[n]
    <3>1. \A n \in 1..(r + 1) : M[n] = [conn |-> c, n |-> n]
      BY <1>2, <1>a
    <3>2. \A n \in 1..r : N[n] = [conn |-> c, n |-> n]
      BY <1>2, <1>a
    <3>3. \A n \in 1..(r + 1) : n # r + 1 => n \in 1..r
      BY <1>2
    <3> HIDE DEF M, N
    <3> QED BY <3>1, <3>2, <3>3 DEF e
  <2> HIDE DEF N, M
  <2>3. /\ Append(N, e) \in Seq(PackType) /\ Len(Append(N, e)) = r + 1
        /\ \A n \in 1..(r + 1) : Append(N, e)[n] = IF n = r + 1 THEN e ELSE N[n]
    BY <1>1, <1>2, <2>1
  <2>4. Append(N, e) = M
    BY <2>1, <2>2, <2>3, SeqEqual
  <2> QED BY <2>4 DEF M
<1> QED BY <1>4, <1>5 DEF e

(* The packs of each connection are handed to the listeners once each and   *)
(* in the order they were read, with any number of io threads appending to  *)
(* the queue that update() takes.                                           *)
THEOREM ServerPacksInOrder == Spec => []PacksInOrder
<1> DEFINE Kept(c) == dispatched[c] \o Picked(m_ReceivePackCollect, PacksOf(c))
<1>1. Init => PacksInOrder
  <2> SUFFICES ASSUME Init, NEW c \in Conns PROVE Kept(c) = Numbered(c, received[c])
    BY DEF PacksInOrder, Numbered
  <2>1. dispatched[c] = <<>> /\ m_ReceivePackCollect = <<>> /\ received[c] = 0
    BY DEF Init, ConnInit
  <2>2. Picked(<<>>, PacksOf(c)) = <<>> /\ <<>> \o <<>> = <<>>
    BY PickedEmpty
  <2>3. Numbered(c, 0) = <<>>
    BY DEF Numbered
  <2> QED BY <2>1, <2>2, <2>3
<1>2. Typed /\ PacksInOrder /\ [Next]_vars => PacksInOrder'
  <2> SUFFICES ASSUME Typed, PacksInOrder, [Next]_vars, NEW c \in Conns
               PROVE  Kept(c)' = Numbered(c, received'[c])
    BY DEF PacksInOrder, Numbered
  <2>0. /\ m_ReceivePackCollect \in Seq(PackType) /\ dispatched[c] \in Seq(PackType)
        /\ Kept(c) = Numbered(c, received[c])
        /\ received[c] \in Nat
        /\ Picked(m_ReceivePackCollect, PacksOf(c)) \in Seq(PackType)
    <3>1. m_ReceivePackCollect \in Seq(PackType)
      BY DEF Typed, TypeOK, PackType
    <3>2. Picked(m_ReceivePackCollect, PacksOf(c)) \in Seq(PackType \cap PacksOf(c))
      BY <3>1, PickedType
    <3>3. Picked(m_ReceivePackCollect, PacksOf(c)) \in Seq(PackType)
      BY <3>2
    <3>4. Kept(c) = Numbered(c, received[c])
      BY DEF PacksInOrder, Numbered
    <3>5. dispatched[c] \in Seq(PackType) /\ received[c] \in Nat
      BY DEF Typed, TypeOK
    <3> HIDE DEF Kept
    <3> QED BY <3>1, <3>3, <3>4, <3>5
  <2>1. CASE UNCHANGED <<received, m_ReceivePackCollect, dispatched>>
    BY <2>0, <2>1
  <2>2. ASSUME NEW t \in Threads, NEW d \in Conns, HandReadBody(t, d),
               dispatched' = dispatched
        PROVE  Kept(c)' = Numbered(c, received'[c])
    <3> DEFINE e == [conn |-> d, n |-> received[d] + 1]
    <3>a. /\ received' = [received EXCEPT ![d] = received[d] + 1]
          /\ m_ReceivePackCollect' = Append(m_ReceivePackCollect, e)
      BY <2>2 DEF HandReadBody
    <3>b. received[d] \in Nat
      BY DEF Typed, TypeOK
    <3>1. /\ received[d] \in Nat /\ received[d] + 1 \in Nat
          /\ received' = [received EXCEPT ![d] = received[d] + 1]
          /\ m_ReceivePackCollect' = Append(m_ReceivePackCollect, e)
      BY <3>a, <3>b
    <3>2. e \in PackType /\ (e \in PacksOf(c) <=> c = d)
      BY <3>1 DEF PackType, PacksOf
    <3>3. received'[c] = IF c = d THEN received[c] + 1 ELSE received[c]
      BY <3>1 DEF Typed, TypeOK
    <3>4. Picked(m_ReceivePackCollect', PacksOf(c)) =
            IF e \in PacksOf(c)
            THEN Append(Picked(m_ReceivePackCollect, PacksOf(c)), e)
            ELSE Picked(m_ReceivePackCollect, PacksOf(c))
      <4> HIDE DEF e
      <4> QED BY <2>0, <3>1, <3>2, PickedAppend
    <3>5. CASE c = d
      <4>1. dispatched[c] \o Append(Picked(m_ReceivePackCollect, PacksOf(c)), e)
              = Numbered(c, received[c] + 1)
        BY <2>0, <3>1, <3>5, NumberedNext
      <4> HIDE DEF e
      <4> QED BY <2>2, <3>2, <3>3, <3>4, <3>5, <4>1
    <3>6. CASE c # d
      <4> HIDE DEF e
      <4> QED BY <2>0, <2>2, <3>2, <3>3, <3>4, <3>6
    <3> QED BY <3>5, <3>6
  <2>3. ASSUME NEW t \in Threads, UpdatePacks(t)
        PROVE  Kept(c)' = Numbered(c, received'[c])
    <3>1. /\ dispatched'[c] = Kept(c) /\ m_ReceivePackCollect' = <<>>
          /\ received' = received
      BY <2>3 DEF UpdatePacks
    <3>2. Picked(<<>>, PacksOf(c)) = <<>>
      BY PickedEmpty
    <3>3. Kept(c) \o <<>> = Kept(c)
      BY <2>0
    <3> HIDE DEF Kept
    <3>4. Kept(c)' = Kept(c)
      BY <3>1, <3>2, <3>3 DEF Kept
    <3> QED BY <2>0, <3>1, <3>4
  <2>4. ASSUME NEW t \in Threads, Handler(t)
        PROVE  UNCHANGED <<received, m_ReceivePackCollect, dispatched>>
    BY <2>4 DEF Handler, HandlerStep, StartRead, CloseCheck, CloseSet, CloseNotify,
       CloseSocket, InsertConnect, AnnounceConnect, WaitConnect, connVars, serverVars
  <2>5. ASSUME NEW t \in Threads, update(t), ~UpdatePacks(t)
        PROVE  UNCHANGED <<received, m_ReceivePackCollect, dispatched>>
    BY <2>5 DEF update, UpdateNew, UpdateCloseLock, UpdateTellClose, UpdateErase,
       UpdateCloseUnlock, connVars
  <2>6. ASSUME NEW t \in Threads, NEW d \in Conns,
               \/ connect(t, d) \/ connectThrows(t, d)
               \/ handleConnect(t, d) \/ handleConnectFailed(t, d)
               \/ ReadCompletes(t, d) /\ ~HandReadBody(t, d)
               \/ (PeerGone(d) \/ ReadArrives(d)) /\ UNCHANGED serverVars
        PROVE  UNCHANGED <<received, m_ReceivePackCollect, dispatched>>
    BY <2>6 DEF connect, connectThrows, handleConnect, handleConnectFailed, ReadCompletes,
       HandRead, HandReadHead, HandReadError, PeerGone, ReadArrives, serverVars
  <2>7. ASSUME NEW u \in Users,
               \/ getConnectByIP(u) \/ Lookup(u) \/ CloseConnectUnlock(u)
               \/ \E k \in Numeric : closeConnect(u, k)
        PROVE  UNCHANGED <<received, m_ReceivePackCollect, dispatched>>
    BY <2>7 DEF getConnectByIP, Lookup, CloseConnectUnlock, closeConnect, connVars, serverVars
  <2>8. CASE UNCHANGED vars
    BY <2>1, <2>8 DEF vars, connVars, serverVars
  <2>9. ASSUME NEW t \in Threads, NEW d \in Conns, ReadCompletes(t, d), HandReadBody(t, d)
        PROVE  Kept(c)' = Numbered(c, received'[c])
    BY <2>2, <2>9 DEF ReadCompletes, serverVars
  <2> HIDE DEF Kept
  <2>10. ASSUME NEW t \in Threads
         PROVE  \A d \in Conns : (PeerGone(d) \/ ReadArrives(d)) /\ UNCHANGED serverVars
                  => Kept(c)' = Numbered(c, received'[c])
    BY <2>1, <2>6
  <2> QED BY <2>1, <2>3, <2>4, <2>5, <2>6, <2>7, <2>8, <2>9, <2>10, Constants DEF Next
<1> HIDE DEF Kept
<1> QED BY <1>1, <1>2, TypedInit, TypedStep, PTL DEF Spec
-----------------------------------------------------------------------------
(* What is queued for update() is the key of a connection that was closed.  *)
QueuedClosed ==
  \A i \in 1..Len(m_CloseConnectCollect) :
    \E d \in Conns : m_CloseConnectCollect[i] \in KeysOf(d) /\ m_isClose[d] = TRUE

(* What a step may do to the flags and to the queue of closed connections.  *)
LEMMA CloseEffects ==
  ASSUME Life, [Next]_vars
  PROVE  /\ \A c \in Conns : m_isClose[c] = TRUE => m_isClose'[c] = TRUE
         /\ \/ m_CloseConnectCollect' = m_CloseConnectCollect
            \/ m_CloseConnectCollect' = <<>>
            \/ \E c \in Conns :
                 /\ m_isClose[c] = TRUE /\ m_IP[c] \in KeysOf(c)
                 /\ m_CloseConnectCollect' = Append(m_CloseConnectCollect, m_IP[c])
<1> DEFINE Flags == \A c \in Conns : m_isClose[c] = TRUE => m_isClose'[c] = TRUE
           Added == \E c \in Conns :
                      /\ m_isClose[c] = TRUE /\ m_IP[c] \in KeysOf(c)
                      /\ m_CloseConnectCollect' = Append(m_CloseConnectCollect, m_IP[c])
           Same == UNCHANGED <<m_isClose, m_CloseConnectCollect>>
<1>0. Typed /\ m_isClose \in [Conns -> BOOLEAN]
  BY DEF Life, Typed, TypeOK
<1>1. m_isClose' = m_isClose => Flags
  OBVIOUS
<1> HIDE DEF Flags, Added
<1>2. ASSUME NEW t \in Threads, Handler(t)
      PROVE  Flags /\ (m_CloseConnectCollect' = m_CloseConnectCollect \/ Added)
  <2>1. CASE CloseSet(t)
    <3>1. at[t].conn \in Conns
      BY <1>0, <2>1, Places DEF CloseSet, CloseOps
    <3> QED BY <1>0, <2>1, <3>1 DEF CloseSet, Flags
  <2>2. CASE CloseNotify(t, closeLock = None)
    <3>1. PICK c \in Conns : c = at[t].conn
      BY <1>0, <2>2, Places DEF CloseNotify, CloseOps
    <3>2. at[t].op = "closeNotify" /\ at[t].op # "idle"
      BY <2>2 DEF CloseNotify
    <3>3. m_isClose[c] = TRUE /\ m_IP[c] \in KeysOf(c)
      BY <1>0, <3>1, <3>2 DEF Life, LifeOf, Closers, Keyed, Busy, Typed
    <3> QED BY <1>1, <2>2, <3>1, <3>3 DEF CloseNotify, Added
  <2>3. CASE ~CloseSet(t) /\ ~CloseNotify(t, closeLock = None)
    <3>1. Same
      BY <1>2, <2>3 DEF Handler, HandlerStep, StartRead, CloseCheck, CloseSocket,
         InsertConnect, AnnounceConnect, WaitConnect, connVars
    <3> QED BY <1>1, <3>1
  <2> QED BY <2>1, <2>2, <2>3
<1>3. ASSUME NEW t \in Threads, update(t)
      PROVE  /\ m_isClose' = m_isClose
             /\ \/ m_CloseConnectCollect' = m_CloseConnectCollect
                \/ m_CloseConnectCollect' = <<>>
  BY <1>3 DEF update, UpdatePacks, UpdateNew, UpdateCloseLock, UpdateTellClose,
     UpdateErase, UpdateCloseUnlock, connVars
<1>4. ASSUME NEW t \in Threads, NEW d \in Conns,
             \/ connect(t, d) \/ connectThrows(t, d)
             \/ handleConnect(t, d) \/ handleConnectFailed(t, d)
             \/ ReadCompletes(t, d)
      PROVE  Same
  BY <1>4 DEF connect, connectThrows, handleConnect, handleConnectFailed, ReadCompletes, HandRead,
     HandReadHead, HandReadBody, HandReadError
<1>5. ASSUME NEW u \in Users,
             \/ getConnectByIP(u) \/ Lookup(u) \/ CloseConnectUnlock(u)
             \/ \E k \in Numeric : closeConnect(u, k)
      PROVE  Same
  BY <1>5 DEF getConnectByIP, Lookup, CloseConnectUnlock, closeConnect, connVars
<1>6. ASSUME NEW d \in Conns, PeerGone(d) \/ ReadArrives(d) PROVE Same
  BY <1>6 DEF PeerGone, ReadArrives
<1>7. CASE UNCHANGED vars
  BY <1>1, <1>7 DEF vars, connVars
<1> QED BY <1>1, <1>2, <1>3, <1>4, <1>5, <1>6, <1>7 DEF Next, Flags, Added

LEMMA QueuedStep == Life /\ QueuedClosed /\ [Next]_vars => QueuedClosed'
<1> SUFFICES ASSUME Life, QueuedClosed, [Next]_vars PROVE QueuedClosed'
  OBVIOUS
<1>0. m_CloseConnectCollect \in Seq(Addresses)
  BY DEF Life, Typed, TypeOK
<1>1. \A c \in Conns : m_isClose[c] = TRUE => m_isClose'[c] = TRUE
  BY CloseEffects
<1>2. CASE m_CloseConnectCollect' = m_CloseConnectCollect
  BY <1>1, <1>2 DEF QueuedClosed, KeysOf
<1>3. CASE m_CloseConnectCollect' = <<>>
  BY <1>3 DEF QueuedClosed
<1>4. ASSUME NEW c \in Conns, m_isClose[c] = TRUE, m_IP[c] \in KeysOf(c),
             m_CloseConnectCollect' = Append(m_CloseConnectCollect, m_IP[c])
      PROVE  QueuedClosed'
  <2>1. m_IP[c] \in Addresses
    BY <1>4, KeysAre
  <2>2. \A i \in 1..Len(m_CloseConnectCollect') :
          \/ i \in 1..Len(m_CloseConnectCollect)
             /\ m_CloseConnectCollect'[i] = m_CloseConnectCollect[i]
          \/ m_CloseConnectCollect'[i] = m_IP[c]
    BY <1>0, <1>4, <2>1
  <2>3. PICK q : q = m_CloseConnectCollect'
    OBVIOUS
  <2>4. PICK f : f = m_isClose'
    OBVIOUS
  <2>5. ASSUME NEW i \in 1..Len(q)
        PROVE  \E d \in Conns : q[i] \in KeysOf(d) /\ f[d] = TRUE
    <3>1. CASE q[i] = m_IP[c]
      BY <1>1, <1>4, <2>4, <3>1
    <3>2. CASE i \in 1..Len(m_CloseConnectCollect) /\ q[i] = m_CloseConnectCollect[i]
      <4>1. PICK d \in Conns : /\ m_CloseConnectCollect[i] \in KeysOf(d)
                              /\ m_isClose[d] = TRUE
        BY <3>2 DEF QueuedClosed
      <4> QED BY <1>1, <2>4, <3>2, <4>1
    <3>3. /\ i \in 1..Len(m_CloseConnectCollect')
          /\ q[i] = m_CloseConnectCollect'[i]
      BY <2>3
    <3> QED BY <2>2, <3>1, <3>2, <3>3
  <2> QED BY <2>3, <2>4, <2>5 DEF QueuedClosed, KeysOf
<1> QED BY <1>2, <1>3, <1>4, CloseEffects
-----------------------------------------------------------------------------
(* The case the table is made for: no two connections under one key.        *)
DistinctAddresses ==
  \A c, d \in Conns : \A k \in KeysOf(c) : k \in KeysOf(d) => c = d

Reads(c) == reading[c] # "none" \/ \E t \in Threads : Rereading(t, c)
Inserting(t, c) == Busy(t, c) /\ at[t].op = "insert"

(* A connection that reads, between two reads too, has its entry.           *)
ListedOf(c) ==
  Reads(c) /\ m_isClose[c] = FALSE /\ (\A t \in Threads : ~Inserting(t, c))
    => m_ConnectCollect[Address[c]] = c
Listed == \A c \in Conns : ListedOf(c)

(* What a place says. *)
LEMMA DoingIs ==
  /\ Idle.op = "idle"
  /\ \A o, c, n : /\ Doing(o, c, n).op = o
                  /\ Doing(o, c, n).conn = c
                  /\ Doing(o, c, n).next = n
BY DEF Idle, Doing

(* Steps that neither start a read nor insert.                              *)
LEMMA ListedKept ==
  ASSUME NEW c \in Conns, ListedOf(c),
         \A u \in Threads : at[u].op = "insert" => at'[u] = at[u],
         \A u \in Threads : Rereading(u, c)' => at'[u] = at[u] \/ reading[c] # "none",
         reading'[c] # "none" => reading[c] # "none",
         m_isClose[c] = TRUE => m_isClose'[c] = TRUE, m_isClose[c] \in BOOLEAN,
         m_isClose[c] = FALSE /\ m_ConnectCollect[Address[c]] = c
           => m_ConnectCollect'[Address[c]] = c
  PROVE  ListedOf(c)'
<1> SUFFICES ASSUME Reads(c)', m_isClose'[c] = FALSE,
                    \A u \in Threads : ~Inserting(u, c)'
             PROVE  m_ConnectCollect'[Address[c]] = c
  BY DEF ListedOf
<1>1. Reads(c)
  BY DEF Reads, Rereading, Busy
<1>2. m_isClose[c] = FALSE
  OBVIOUS
<1>3. \A u \in Threads : ~Inserting(u, c)
  BY DEF Inserting, Busy
<1> QED BY <1>1, <1>2, <1>3 DEF ListedOf

(* startRead() of a new connection hands on to its insertion.               *)
LEMMA ListedStartRead ==
  ASSUME Life, Listed, NEW t \in Threads, StartRead(t), UNCHANGED m_ConnectCollect
  PROVE  Listed'
<1> SUFFICES ASSUME NEW c \in Conns PROVE ListedOf(c)'
  BY DEF Listed
<1>0. Typed /\ at[t].op = "startRead" /\ at[t].conn \in Conns /\ LifeOf(c) /\ ListedOf(c)
  BY Places DEF Life, StartRead, Listed
<1>1. PICK d \in Conns : d = at[t].conn
  BY <1>0
<1>2. PICK X \in {Idle} \cup Steps :
        /\ at' = [at EXCEPT ![t] = X]
        /\ X.op = at[t].next
        /\ X.op # "idle" => X.conn = d /\ X.next = "idle"
  BY <1>0, <1>1, Returns DEF StartRead
<1>3. /\ \A u \in Threads : at'[u] = IF u = t THEN X ELSE at[u]
      /\ at[t].next \in {"insert", "idle"}
  BY <1>0, <1>2, Places DEF Typed
<1>4. /\ m_isClose' = m_isClose
      /\ reading'[c] = reading[c] \/ c = d
  BY <1>0, <1>1 DEF StartRead, Typed, TypeOK
<1> SUFFICES ASSUME Reads(c)', m_isClose'[c] = FALSE,
                    \A u \in Threads : ~Inserting(u, c)'
             PROVE  m_ConnectCollect[Address[c]] = c
  BY DEF ListedOf
<1>5. \A u \in Threads : ~Inserting(u, c)
  <2>1. \A u \in Threads : Inserting(u, c) => Inserting(u, c)'
    BY <1>0, <1>3 DEF Inserting, Busy
  <2> QED BY <2>1
<1>6. Reads(c)
  <2>1. CASE c # d
    BY <1>0, <1>1, <1>2, <1>3, <1>4, <2>1 DEF Reads, Rereading, Busy
  <2>2. CASE c = d
    <3>1. at[t].next # "insert"
      BY <1>2, <1>3, <2>2 DEF Inserting, Busy
    <3> QED BY <1>0, <1>1, <1>3, <2>2, <3>1 DEF Reads, Rereading, Busy
  <2> QED BY <2>1, <2>2
<1> QED BY <1>0, <1>4, <1>5, <1>6 DEF ListedOf

(* The insertion finds no other connection under the key.                   *)
LEMMA ListedInsert ==
  ASSUME DistinctAddresses, Life, Listed, NEW t \in Threads, InsertConnect(t)
  PROVE  Listed'
<1> SUFFICES ASSUME NEW c \in Conns PROVE ListedOf(c)'
  BY DEF Listed
<1>0. /\ Typed /\ at[t].op = "insert" /\ at[t].conn \in Conns /\ LifeOf(c) /\ ListedOf(c)
      /\ UNCHANGED <<m_IP, reading, m_isClose>>
  BY Places DEF Life, InsertConnect, Listed, connVars
<1>1. PICK d \in Conns : d = at[t].conn
  BY <1>0
<1> DEFINE X == Doing("announce", d, "idle")
<1>2. at' = [at EXCEPT ![t] = X] /\ X.op = "announce"
  BY <1>1, DoingIs DEF InsertConnect, Goto
<1> HIDE DEF X
<1>3. \A u \in Threads : at'[u] = IF u = t THEN X ELSE at[u]
  BY <1>0, <1>2 DEF Typed
<1>4. /\ \A k \in Keys : m_ConnectCollect[k] # None => m_ConnectCollect'[k] = m_ConnectCollect[k]
      /\ m_ConnectCollect[m_IP[d]] = None => m_ConnectCollect'[m_IP[d]] = d
  <2>1. m_ConnectCollect' =
          [m_ConnectCollect EXCEPT ![m_IP[d]] =
             IF m_ConnectCollect[m_IP[d]] = None THEN d ELSE m_ConnectCollect[m_IP[d]]]
    BY <1>1 DEF InsertConnect
  <2>2. m_ConnectCollect \in [Keys -> Conns \cup {None}] /\ m_IP[d] \in Keys
    BY <1>0 DEF Typed, TypeOK
  <2> QED BY <2>1, <2>2
<1> SUFFICES ASSUME Reads(c)', m_isClose'[c] = FALSE,
                    \A u \in Threads : ~Inserting(u, c)'
             PROVE  m_ConnectCollect'[Address[c]] = c
  BY DEF ListedOf
<1>5. Reads(c)
  BY <1>0, <1>2, <1>3 DEF Reads, Rereading, Busy
<1>6. CASE \A u \in Threads : ~Inserting(u, c)
  BY <1>0, <1>4, <1>5, <1>6, Constants DEF ListedOf
<1>7. CASE \E u \in Threads : Inserting(u, c)
  <2>1. c = d
    BY <1>0, <1>1, <1>3, <1>7 DEF Inserting, Busy
  <2>2. m_IP[c] = Address[c]
    BY <1>0, <1>5 DEF LifeOf, Keyed, Reads
  <2>3. CASE m_ConnectCollect[Address[c]] = None
    BY <1>4, <2>1, <2>2, <2>3
  <2>4. CASE m_ConnectCollect[Address[c]] # None
    <3>1. PICK e \in Conns : e = m_ConnectCollect[Address[c]]
      BY <1>0, <2>4, Constants DEF Typed, TypeOK
    <3>2. Address[c] = m_IP[e] /\ m_IP[e] \in KeysOf(e) \cup {NoIP}
      BY <3>1, Constants DEF Life, LifeOf, Keyed
    <3>3. Address[c] \in KeysOf(c) /\ Address[c] # NoIP /\ Address[c] \in Keys
      BY KeysAre
    <3>4. c = e
      BY <3>2, <3>3 DEF DistinctAddresses
    <3> QED BY <1>4, <2>1, <2>2, <2>4, <3>1, <3>3, <3>4, Constants
  <2> QED BY <2>3, <2>4
<1> QED BY <1>6, <1>7

(* update() only takes connections out of the table that were closed.       *)
LEMMA ListedErase ==
  ASSUME DistinctAddresses, Life, QueuedClosed, NEW t \in Threads, UpdateErase(t),
         NEW c \in Conns, m_isClose[c] = FALSE, m_ConnectCollect[Address[c]] = c
  PROVE  m_ConnectCollect'[Address[c]] = c
<1>1. /\ closeit \in 1..Len(m_CloseConnectCollect)
      /\ m_ConnectCollect \in [Keys -> Conns \cup {None}]
  BY DEF Life, Typed, TypeOK, UpdateErase, UpdateOps
<1>2. PICK d \in Conns :
        m_CloseConnectCollect[closeit] \in KeysOf(d) /\ m_isClose[d] = TRUE
  BY <1>1 DEF QueuedClosed
<1>3. Address[c] # m_CloseConnectCollect[closeit]
  <2>1. Address[c] \in KeysOf(c) /\ c # d
    BY <1>2, KeysAre
  <2> QED BY <1>2, <2>1 DEF DistinctAddresses
<1> QED BY <1>1, <1>3, Constants DEF UpdateErase

LEMMA ListedStep ==
  DistinctAddresses /\ Life /\ QueuedClosed /\ Listed /\ [Next]_vars => Listed'
<1> SUFFICES ASSUME DistinctAddresses, Life, QueuedClosed, Listed, [Next]_vars PROVE Listed'
  OBVIOUS
<1>0. /\ Typed /\ \A c \in Conns : m_isClose[c] \in BOOLEAN /\ ListedOf(c)
      /\ \A c \in Conns : m_isClose[c] = TRUE => m_isClose'[c] = TRUE
  BY CloseEffects DEF Life, Typed, TypeOK, Listed
<1>1. ASSUME NEW t \in Threads, NEW X,
             at' = [at EXCEPT ![t] = X] \/ (at' = at /\ X = at[t]),
             at[t].op = "insert" => X = at[t],
             \A c \in Conns : \/ X = at[t] \/ X.op # "startRead" \/ X.next # "idle"
                              \/ X.conn # c \/ reading[c] # "none",
             \A c \in Conns : reading'[c] # "none" => reading[c] # "none",
             m_ConnectCollect' = m_ConnectCollect \/ UpdateErase(t)
      PROVE  Listed'
  <2>1. \A u \in Threads : at'[u] = IF u = t THEN X ELSE at[u]
    BY <1>0, <1>1 DEF Typed
  <2>2. ASSUME NEW c \in Conns, m_isClose[c] = FALSE, m_ConnectCollect[Address[c]] = c
        PROVE  m_ConnectCollect'[Address[c]] = c
    BY <1>1, <2>2, ListedErase
  <2> SUFFICES ASSUME NEW c \in Conns PROVE ListedOf(c)'
    BY DEF Listed
  <2>3. /\ ListedOf(c) /\ m_isClose[c] \in BOOLEAN
        /\ m_isClose[c] = TRUE => m_isClose'[c] = TRUE
        /\ reading'[c] # "none" => reading[c] # "none"
    BY <1>0, <1>1
  <2>4. m_isClose[c] = FALSE /\ m_ConnectCollect[Address[c]] = c
           => m_ConnectCollect'[Address[c]] = c
    BY <2>2
  <2>5. \A u \in Threads : at[u].op = "insert" => at'[u] = at[u]
    BY <1>1, <2>1
  <2>6. \A u \in Threads : Rereading(u, c)' => at'[u] = at[u] \/ reading[c] # "none"
    BY <1>1, <2>1 DEF Rereading, Busy
  <2> QED BY <2>3, <2>4, <2>5, <2>6, ListedKept
<1>a. ASSUME NEW t \in Threads, NEW X, at' = [at EXCEPT ![t] = X],
             at[t].op # "insert", X.op # "startRead" \/ X.next # "idle",
             reading' = reading,
             m_ConnectCollect' = m_ConnectCollect \/ UpdateErase(t)
      PROVE  Listed'
  BY <1>1, <1>a
<1>b. ASSUME at' = at, \A c \in Conns : reading'[c] # "none" => reading[c] # "none",
             m_ConnectCollect' = m_ConnectCollect
      PROVE  Listed'
  BY <1>1, <1>b, Constants
<1>2. ASSUME NEW t \in Threads, Handler(t) PROVE Listed'
  <2>1. CASE HandlerStep(t, closeLock = None) /\ UNCHANGED serverVars
    <3>0. m_ConnectCollect' = m_ConnectCollect
      BY <2>1 DEF serverVars
    <3>1. CASE StartRead(t)
      BY <3>0, <3>1, ListedStartRead
    <3>2. CASE ~StartRead(t)
      <4>1. at[t].op \in CloseOps /\ reading' = reading
        BY <2>1, <3>2 DEF HandlerStep, CloseCheck, CloseSet, CloseNotify, CloseSocket,
           CloseOps, connVars
      <4>2. ASSUME Return(t)
            PROVE  \E X : at' = [at EXCEPT ![t] = X] /\ X.op # "startRead"
        <5>1. PICK X \in {Idle} \cup Steps :
                /\ at' = [at EXCEPT ![t] = X]
                /\ X.op = at[t].next
          BY <1>0, <4>1, <4>2, Returns
        <5>2. at[t].next # "startRead"
          BY <1>0, <4>1, Places
        <5> QED BY <5>1, <5>2
      <4>3. ASSUME NEW o \in CloseOps, Goto(t, [at[t] EXCEPT !.op = o])
            PROVE  \E X : at' = [at EXCEPT ![t] = X] /\ X.op # "startRead"
        <5>1. at' = [at EXCEPT ![t] = Doing(o, at[t].conn, at[t].next)]
          BY <1>0, <4>1, <4>3, Places DEF Goto
        <5>2. Doing(o, at[t].conn, at[t].next).op # "startRead"
          BY DEF Doing, CloseOps
        <5> QED BY <5>1, <5>2
      <4>4. PICK X : at' = [at EXCEPT ![t] = X] /\ X.op # "startRead"
        BY <2>1, <3>2, <4>2, <4>3
           DEF HandlerStep, CloseCheck, CloseSet, CloseNotify, CloseSocket, CloseOps
      <4>5. at[t].op # "insert"
        BY <4>1 DEF CloseOps
      <4> QED BY <1>a, <3>0, <4>1, <4>4, <4>5
    <3> QED BY <3>1, <3>2
  <2>2. CASE InsertConnect(t)
    BY <2>2, ListedInsert
  <2>3. CASE AnnounceConnect(t) \/ WaitConnect(t)
    <3>1. PICK X : at' = [at EXCEPT ![t] = X] /\ X.op # "startRead"
      BY <2>3, DoingIs DEF AnnounceConnect, WaitConnect, Goto
    <3> QED BY <1>a, <2>3, <3>1 DEF AnnounceConnect, WaitConnect, connVars, serverVars
  <2> QED BY <1>2, <2>1, <2>2, <2>3 DEF Handler
<1>3. ASSUME NEW t \in Threads, update(t) PROVE Listed'
  <2>1. PICK X : at' = [at EXCEPT ![t] = X] /\ X.op # "startRead"
    BY <1>3, DoingIs DEF update, UpdatePacks, UpdateNew, UpdateCloseLock, UpdateTellClose,
       UpdateErase, UpdateCloseUnlock, Goto
  <2>2. at[t].op # "insert" /\ reading' = reading
    BY <1>3 DEF update, UpdatePacks, UpdateNew, UpdateCloseLock, UpdateTellClose,
       UpdateErase, UpdateCloseUnlock, Idle, connVars
  <2>3. m_ConnectCollect' = m_ConnectCollect \/ UpdateErase(t)
    BY <1>3 DEF update, UpdatePacks, UpdateNew, UpdateCloseLock, UpdateTellClose,
       UpdateCloseUnlock
  <2> QED BY <1>a, <2>1, <2>2, <2>3
<1>4. ASSUME NEW t \in Threads, NEW d \in Conns,
             \/ connect(t, d) \/ connectThrows(t, d)
             \/ handleConnect(t, d) \/ handleConnectFailed(t, d)
      PROVE  Listed'
  <2>1. \/ at' = at
        \/ \E X : at' = [at EXCEPT ![t] = X] /\ (X.op # "startRead" \/ X.next # "idle")
    BY <1>4, DoingIs DEF connect, connectThrows, handleConnect, handleConnectFailed, Goto
  <2>2. at[t].op # "insert" /\ reading' = reading /\ m_ConnectCollect' = m_ConnectCollect
    BY <1>4 DEF connect, connectThrows, handleConnect, handleConnectFailed, Idle, serverVars
  <2> QED BY <1>a, <1>b, <2>1, <2>2
<1>5. ASSUME NEW t \in Threads, NEW d \in Conns, ReadCompletes(t, d) PROVE Listed'
  <2>1. PICK X : \/ /\ at' = [at EXCEPT ![t] = X]
                    /\ X.op # "startRead" \/ X.conn = d
                 \/ at' = at /\ X = at[t]
    BY <1>5 DEF ReadCompletes, HandRead, HandReadHead, HandReadBody, HandReadError,
       Goto, Doing
  <2>2. /\ at[t].op # "insert" /\ m_ConnectCollect' = m_ConnectCollect
        /\ reading[d] # "none"
    BY <1>5 DEF ReadCompletes, HandRead, HandReadHead, HandReadBody, HandReadError, Idle,
       serverVars
  <2>3. \A c \in Conns : reading'[c] # "none" => reading[c] # "none"
    BY <1>0, <1>5 DEF ReadCompletes, HandRead, HandReadHead, HandReadBody, HandReadError,
       Typed, TypeOK
  <2> QED BY <1>1, <2>1, <2>2, <2>3
<1>6. ASSUME NEW u \in Users,
             \/ getConnectByIP(u) \/ Lookup(u) \/ CloseConnectUnlock(u)
             \/ \E k \in Numeric : closeConnect(u, k)
      PROVE  Listed'
  <2>1. PICK X : at' = [at EXCEPT ![u] = X] /\ X.op # "startRead"
    BY <1>6, DoingIs DEF getConnectByIP, Lookup, CloseConnectUnlock, closeConnect, Goto
  <2>2. /\ at[u].op # "insert" /\ reading' = reading
        /\ m_ConnectCollect' = m_ConnectCollect /\ u \in Threads
    BY <1>6, Constants DEF getConnectByIP, Lookup, CloseConnectUnlock, closeConnect, Idle,
       connVars, serverVars
  <2> QED BY <1>a, <2>1, <2>2
<1>7. CASE UNCHANGED <<at, reading, m_ConnectCollect>>
  BY <1>b, <1>7
<1>8. ASSUME NEW d \in Conns, PeerGone(d) \/ ReadArrives(d), UNCHANGED serverVars
      PROVE  Listed'
  <2>1. \A c \in Conns : reading'[c] # "none" => reading[c] # "none"
    BY <1>0, <1>8 DEF PeerGone, ReadArrives, Typed, TypeOK
  <2> QED BY <1>b, <1>8, <2>1 DEF PeerGone, ReadArrives, serverVars
<1>9. CASE UNCHANGED vars
  BY <1>7, <1>9 DEF vars, connVars, serverVars
<1> QED BY <1>2, <1>3, <1>4, <1>5, <1>6, <1>8, <1>9 DEF Next

(* A connection that reads packs can be found in the table from the end of  *)
(* its handleConnect's insertion until it is closed, when no two come from  *)
(* the same endpoint: update() erases closed ones only.                     *)
THEOREM ServerReadingIsListed == DistinctAddresses /\ Spec => []ReadingIsListed
<1>1. Init => QueuedClosed /\ Listed
  <2> SUFFICES ASSUME Init PROVE QueuedClosed /\ Listed
    OBVIOUS
  <2>1. Len(m_CloseConnectCollect) = 0
    BY DEF Init, ConnInit
  <2>2. /\ \A c \in Conns : reading[c] = "none"
        /\ \A t \in Threads : at[t].op = "idle"
    BY DEF Init, ConnInit, Idle
  <2> QED BY <2>1, <2>2 DEF QueuedClosed, Listed, ListedOf, Reads, Rereading, Busy
<1>2. Life /\ Listed => ReadingIsListed
  <2> SUFFICES ASSUME Life, Listed, NEW c \in Conns, reading[c] # "none", ~m_isClose[c],
                      Doers(c, {"insert"}) = {}
               PROVE  \E k \in Keys : m_ConnectCollect[k] = c
    BY DEF ReadingIsListed
  <2>1. m_isClose[c] = FALSE
    BY DEF Life, Typed, TypeOK
  <2>2. \A t \in Threads : ~Inserting(t, c)
    BY DEF Doers, Inserting, Busy
  <2>3. ListedOf(c) /\ Reads(c)
    BY DEF Listed, Reads
  <2> QED BY <2>1, <2>2, <2>3, Constants DEF ListedOf
<1>3. DistinctAddresses => DistinctAddresses'
  BY DEF DistinctAddresses, KeysOf
<1> QED BY <1>1, <1>2, <1>3, LifeInit, LifeStep, QueuedStep, ListedStep, PTL DEF Spec
-----------------------------------------------------------------------------
(* What the listeners have been told grows by what they are told.           *)
LEMMA TimesTold ==
  ASSUME told \in [Keys -> Seq({"connect", "close"})], NEW q \in Seq(Keys),
         NEW k \in Keys, NEW e \in {"connect", "close"}, told' = Told(e, q)
  PROVE  \A x \in {"connect", "close"} :
           /\ Times(x, k) \in Nat /\ Len(Picked(q, {k})) \in Nat
           /\ Times(x, k)' = Times(x, k) + (IF x = e THEN Len(Picked(q, {k})) ELSE 0)
<1> DEFINE E == {"connect", "close"}
           n == Len(Picked(q, {k}))
           added == [i \in 1..n |-> e]
           old == told[k]
<1> SUFFICES ASSUME NEW x \in E
             PROVE  /\ Times(x, k) \in Nat /\ n \in Nat
                    /\ Times(x, k)' = Times(x, k) + (IF x = e THEN n ELSE 0)
  OBVIOUS
<1>1. n \in Nat
  <2>1. Picked(q, {k}) \in Seq(Keys \cap {k})
    BY PickedType
  <2> QED BY <2>1
<1>2. told'[k] = old \o added
  BY DEF Told
<1>3. old \in Seq(E)
  OBVIOUS
<1> HIDE DEF E, n, old
<1>4. added \in Seq({e}) /\ added \in Seq(E) /\ Len(added) = n
  <2>1. e \in E
    BY DEF E
  <2> QED BY <1>1, <2>1
<1> HIDE DEF added
<1>5. Picked(old \o added, {x}) = Picked(old, {x}) \o Picked(added, {x})
  <2>1. \A r \in Seq(E) : Picked(old \o r, {x}) = Picked(old, {x}) \o Picked(r, {x})
    BY <1>3, PickedConcat
  <2> QED BY <1>4, <2>1, Zenon
<1>6. Picked(added, {x}) = IF x = e THEN added ELSE <<>>
  <2>1. CASE x = e
    BY <1>4, <2>1, PickedAll
  <2>2. CASE x # e
    <3>1. {e} \cap {x} = {}
      BY <2>2
    <3> QED BY <1>4, <2>2, <3>1, PickedNone
  <2> QED BY <2>1, <2>2
<1>7. Picked(old, {x}) \in Seq(E)
  <2>1. Picked(old, {x}) \in Seq(E \cap {x})
    BY <1>3, PickedType
  <2> QED BY <2>1
<1>8. \A p \in Seq(E), r \in Seq(E) : Len(p) \in Nat /\ Len(p \o r) = Len(p) + Len(r)
  OBVIOUS
<1>9. <<>> \in Seq(E) /\ Len(<<>>) = 0
  OBVIOUS
<1>10. Times(x, k) = Len(Picked(old, {x})) /\ Times(x, k)' = Len(Picked(old \o added, {x}))
  BY <1>2 DEF Times, old
<1>11. CASE x = e
  <2>1. Len(Picked(old, {x}) \o added) = Len(Picked(old, {x})) + n
    BY <1>4, <1>7, <1>8
  <2>2. Len(Picked(old, {x})) \in Nat
    BY <1>7, <1>8
  <2> QED BY <1>1, <1>5, <1>6, <1>10, <1>11, <2>1, <2>2
<1>12. CASE x # e
  <2>1. Len(Picked(old, {x}) \o <<>>) = Len(Picked(old, {x})) + 0
    BY <1>7, <1>8, <1>9
  <2>2. Len(Picked(old, {x})) \in Nat
    BY <1>7, <1>8
  <2> QED BY <1>1, <1>5, <1>6, <1>10, <1>12, <2>1, <2>2
<1> QED BY <1>11, <1>12

LEMMA TimesType ==
  ASSUME Typed, NEW k \in Keys, NEW x \in {"connect", "close"}
  PROVE  Times(x, k) \in Nat
<1>1. told[k] \in Seq({"connect", "close"})
  BY DEF Typed
<1>2. Picked(told[k], {x}) \in Seq({"connect", "close"} \cap {x})
  BY <1>1, PickedType
<1> QED BY <1>2 DEF Times

(* A queue of one. *)
LEMMA PickedOne ==
  ASSUME NEW x \in Keys, NEW k \in Keys
  PROVE  <<x>> \in Seq(Keys) /\ Len(Picked(<<x>>, {k})) = IF x = k THEN 1 ELSE 0
<1>1. <<>> \in Seq(Keys) /\ Append(<<>>, x) = <<x>> /\ <<x>> \in Seq(Keys)
  OBVIOUS
<1>2. Picked(Append(<<>>, x), {k}) =
        IF x \in {k} THEN Append(Picked(<<>>, {k}), x) ELSE Picked(<<>>, {k})
  BY <1>1, PickedAppend
<1>3. Picked(<<>>, {k}) = <<>> /\ Len(<<>>) = 0 /\ Len(<<x>>) = 1
  BY PickedEmpty
<1> QED BY <1>1, <1>2, <1>3

-----------------------------------------------------------------------------
(* The closed connections update() has yet to report, by key.               *)
NextClosed == IF at[Main].op = "updateErase" THEN closeit + 1 ELSE closeit
Queued(k) == {i \in NextClosed..Len(m_CloseConnectCollect) : m_CloseConnectCollect[i] = k}
Reported(k) == Times("close", k) + Cardinality(Queued(k))

LEMMA QueuedFinite ==
  ASSUME Typed, NEW k
  PROVE  /\ NextClosed \in Nat /\ Len(m_CloseConnectCollect) \in Nat
         /\ NextClosed <= Len(m_CloseConnectCollect) + 1
         /\ IsFiniteSet(Queued(k)) /\ Cardinality(Queued(k)) \in Nat
<1> DEFINE n == Len(m_CloseConnectCollect)
<1>1. closeit \in 1..(n + 1) /\ n \in Nat /\ (at[Main].op = "updateErase" => closeit <= n)
  BY DEF Typed, TypeOK
<1> HIDE DEF n
<1>2. NextClosed \in Nat /\ NextClosed <= n + 1
  BY <1>1 DEF NextClosed
<1>3. IsFiniteSet(NextClosed..n)
  BY <1>1, <1>2, FS_Interval
<1>4. Queued(k) \in SUBSET (NextClosed..n)
  BY DEF Queued, n
<1> QED BY <1>1, <1>2, <1>3, <1>4, FS_Subset, FS_CardinalityType DEF n

(* Steps that move neither the queue nor update() in it.                    *)
LEMMA ReportedKept ==
  ASSUME UNCHANGED <<told, closeit, m_CloseConnectCollect>>,
         (at'[Main].op = "updateErase") <=> (at[Main].op = "updateErase")
  PROVE  \A k : Reported(k)' = Reported(k)
BY DEF Reported, Times, Queued, NextClosed

(* Telling the listeners is what takes a key out of the queue.              *)
LEMMA ReportedTell ==
  ASSUME Typed, NEW t \in Threads, UpdateTellClose(t), NEW k \in Keys
  PROVE  Reported(k)' = Reported(k)
<1> DEFINE n == Len(m_CloseConnectCollect)
           x == m_CloseConnectCollect[closeit]
           Q == {i \in closeit..n : m_CloseConnectCollect[i] = k}
           R == {i \in (closeit + 1)..n : m_CloseConnectCollect[i] = k}
<1>1. /\ t = Main /\ closeit \in 1..n /\ n \in Nat
      /\ m_CloseConnectCollect \in Seq(Addresses)
      /\ at[Main].op = "updateEach"
      /\ UNCHANGED <<m_CloseConnectCollect, closeit>> /\ told' = Told("close", <<x>>)
  BY DEF Typed, TypeOK, UpdateTellClose, UpdateOps, connVars
<1>2. at'[Main].op = "updateErase"
  BY <1>1, DoingIs DEF UpdateTellClose, Goto, Typed
<1>3. Queued(k) = Q /\ Queued(k)' = R
  BY <1>1, <1>2 DEF Queued, NextClosed
<1>4. x \in Keys
  BY <1>1 DEF Keys
<1>5. R = Q \ {closeit} /\ (closeit \in Q <=> x = k)
  BY <1>1
<1>6. IsFiniteSet(Q) /\ Cardinality(Q) \in Nat
  BY <1>3, QueuedFinite
<1> HIDE DEF Q, R, x, n
<1>7. Cardinality(R) = IF x = k THEN Cardinality(Q) - 1 ELSE Cardinality(Q)
  BY <1>5, <1>6, FS_RemoveElement
<1>8. /\ <<x>> \in Seq(Keys)
      /\ Len(Picked(<<x>>, {k})) = IF x = k THEN 1 ELSE 0
  BY <1>4, PickedOne
<1> DEFINE q == <<x>>
<1>9. q \in Seq(Keys) /\ told' = Told("close", q) /\ told \in [Keys -> Seq({"connect", "close"})]
      /\ Len(Picked(q, {k})) = IF x = k THEN 1 ELSE 0
  BY <1>1, <1>8 DEF Typed
<1> HIDE DEF q
<1>10. /\ Times("close", k) \in Nat
       /\ Times("close", k)' = Times("close", k) + Len(Picked(q, {k}))
  BY <1>9, TimesTold
<1> QED BY <1>3, <1>6, <1>7, <1>9, <1>10 DEF Reported

(* A notification puts its key there. *)
LEMMA ReportedNotify ==
  ASSUME Typed, NEW k \in Keys, NEW a \in Addresses,
         m_CloseConnectCollect' = Append(m_CloseConnectCollect, a),
         UNCHANGED <<told, closeit>>,
         (at'[Main].op = "updateErase") <=> (at[Main].op = "updateErase")
  PROVE  Reported(k)' = IF a = k THEN Reported(k) + 1 ELSE Reported(k)
<1> DEFINE n == Len(m_CloseConnectCollect)
           Q == Queued(k)
<1>1. /\ m_CloseConnectCollect \in Seq(Addresses) /\ n \in Nat
      /\ NextClosed' = NextClosed /\ NextClosed \in Nat /\ NextClosed <= n + 1
      /\ IsFiniteSet(Q) /\ Cardinality(Q) \in Nat
      /\ Times("close", k)' = Times("close", k) /\ Times("close", k) \in Nat
  BY QueuedFinite, TimesType DEF Typed, TypeOK, NextClosed, Times
<1>2. /\ Len(m_CloseConnectCollect') = n + 1 /\ m_CloseConnectCollect'[n + 1] = a
      /\ \A i \in 1..n : m_CloseConnectCollect'[i] = m_CloseConnectCollect[i]
  BY <1>1
<1>3. n + 1 \notin Q
  BY <1>1 DEF Queued
<1>a. NextClosed # 0
  BY DEF NextClosed, Typed, TypeOK
<1>4. Queued(k)' = IF a = k THEN Q \cup {n + 1} ELSE Q
  <2>1. \A i : i \in NextClosed..(n + 1) <=> i \in NextClosed..n \/ i = n + 1
    BY <1>1
  <2>2. \A i \in NextClosed..n : i \in 1..n
    BY <1>1, <1>a
  <2>3. Queued(k)' = {i \in NextClosed..(n + 1) : m_CloseConnectCollect'[i] = k}
    BY <1>1, <1>2 DEF Queued
  <2>4. Q = {i \in NextClosed..n : m_CloseConnectCollect[i] = k}
    BY DEF Queued
  <2> HIDE DEF Q, n
  <2> QED BY <1>2, <2>1, <2>2, <2>3, <2>4
<1>5. Cardinality(Q \cup {n + 1}) = Cardinality(Q) + 1
  <2> HIDE DEF Q, n
  <2> QED BY <1>1, <1>3, FS_AddElement
<1>6. Reported(k) = Times("close", k) + Cardinality(Q)
  BY DEF Reported
<1>7. Reported(k)' = Times("close", k) + Cardinality(Queued(k)')
  BY <1>1 DEF Reported
<1> HIDE DEF n, Q
<1>8. CASE a = k
  BY <1>1, <1>4, <1>5, <1>6, <1>7, <1>8
<1>9. CASE a # k
  BY <1>4, <1>6, <1>7, <1>9
<1> QED BY <1>8, <1>9

(* All that update() does leaves the number as it is.                       *)
LEMMA ReportedUpdate ==
  ASSUME Typed, NEW t \in Threads, update(t), NEW k \in Keys
  PROVE  Reported(k)' = Reported(k)
<1>0. /\ t = Main /\ closeit \in Nat /\ closeit # 0
      /\ m_CloseConnectCollect \in Seq(Addresses) /\ Len(m_CloseConnectCollect) \in Nat
      /\ at \in [Threads -> {Idle} \cup Steps]
      /\ Main \in Threads
      /\ at[Main].op \notin {"updateEach", "updateErase"} => closeit = 1
  <2>1. closeit \in 1..(Len(m_CloseConnectCollect) + 1) /\ Len(m_CloseConnectCollect) \in Nat
    BY DEF Typed, TypeOK
  <2>2. t = Main
    BY DEF update, UpdatePacks, UpdateNew, UpdateCloseLock, UpdateTellClose, UpdateErase,
       UpdateCloseUnlock, Typed, UpdateOps
  <2>3. closeit \in Nat /\ closeit # 0
    BY <2>1
  <2> QED BY <2>1, <2>2, <2>3, Constants DEF Typed, TypeOK
<1>1. CASE UpdatePacks(t)
  <2>1. /\ at[Main].op # "updateErase" /\ at'[Main].op # "updateErase"
    BY <1>0, <1>1, DoingIs DEF UpdatePacks, Goto
  <2>2. UNCHANGED <<told, closeit, m_CloseConnectCollect>>
    BY <1>1 DEF UpdatePacks
  <2> QED BY <2>1, <2>2, ReportedKept
<1>2. CASE UpdateNew(t)
  <2>1. /\ at[Main].op # "updateErase" /\ at'[Main].op # "updateErase"
    BY <1>0, <1>2, DoingIs DEF UpdateNew, Goto
  <2>2. UNCHANGED <<closeit, m_CloseConnectCollect>>
    BY <1>2 DEF UpdateNew, connVars
  <2>3. Times("close", k)' = Times("close", k)
    <3>1. Times("close", k) \in Nat /\ Times("close", k)' = Times("close", k) + 0
      BY <1>2, TimesTold DEF UpdateNew, Typed, TypeOK
    <3> QED BY <3>1
  <2> QED BY <2>1, <2>2, <2>3 DEF Reported, Queued, NextClosed
<1>3. CASE UpdateCloseLock(t)
  <2>1. /\ at[Main].op # "updateErase" /\ at'[Main].op # "updateErase"
        /\ at[Main].op # "updateEach"
    BY <1>0, <1>3, DoingIs DEF UpdateCloseLock, Goto
  <2>2. UNCHANGED <<told, closeit, m_CloseConnectCollect>>
    BY <1>0, <1>3, <2>1 DEF UpdateCloseLock, connVars
  <2> QED BY <2>1, <2>2, ReportedKept
<1>4. CASE UpdateErase(t)
  <2>1. /\ at[Main].op = "updateErase" /\ at'[Main].op # "updateErase"
    BY <1>0, <1>4, DoingIs DEF UpdateErase, Goto
  <2>2. UNCHANGED <<told, m_CloseConnectCollect>> /\ closeit' = closeit + 1
    BY <1>4 DEF UpdateErase, connVars
  <2> QED BY <2>1, <2>2 DEF Reported, Times, Queued, NextClosed
<1>5. CASE UpdateCloseUnlock(t)
  <2>1. /\ at[Main].op # "updateErase" /\ at'[Main].op # "updateErase"
    BY <1>0, <1>5, DoingIs DEF UpdateCloseUnlock, Goto
  <2>2. /\ told' = told /\ closeit' = 1 /\ m_CloseConnectCollect' = <<>>
        /\ closeit > Len(m_CloseConnectCollect)
    BY <1>5 DEF UpdateCloseUnlock
  <2>3. Queued(k) = {}
    BY <1>0, <2>1, <2>2 DEF Queued, NextClosed
  <2>4. Queued(k)' = {}
    BY <2>1, <2>2 DEF Queued, NextClosed
  <2> QED BY <2>2, <2>3, <2>4 DEF Reported, Times
<1> QED BY <1>1, <1>2, <1>3, <1>4, <1>5, ReportedTell DEF update
-----------------------------------------------------------------------------
(* The threads that have passed the test of m_isClose and have yet to       *)
(* notify.                                                                  *)
InClose(c) == {t \in Threads : Busy(t, c) /\ at[t].op \in {"closeSet", "closeNotify"}}

(* The handler's thread is the only one of the server's own in a close().   *)
LEMMA ClosersFew ==
  ASSUME IsFiniteSet(Users), NEW w, NEW S, S \subseteq Users \cup {w}
  PROVE  IsFiniteSet(S) /\ Cardinality(S) \in Nat /\ Cardinality(S) <= Cardinality(Users) + 1
<1> DEFINE U == Users \cup {w}
<1>1. /\ IsFiniteSet(U) /\ Cardinality(U) \in Nat /\ Cardinality(Users) \in Nat
      /\ Cardinality(U) <= Cardinality(Users) + 1
  BY FS_AddElement, FS_CardinalityType
<1>2. S \in SUBSET U
  OBVIOUS
<1> HIDE DEF U
<1>3. IsFiniteSet(S) /\ Cardinality(S) <= Cardinality(U)
  BY <1>1, <1>2, FS_Subset
<1>4. Cardinality(S) \in Nat
  BY <1>3, FS_CardinalityType
<1> QED BY <1>1, <1>3, <1>4

FewClosers == \A c \in Conns : \E w : InClose(c) \subseteq Users \cup {w}

LEMMA CloserIs == Life => FewClosers
<1> SUFFICES ASSUME Life, NEW c \in Conns PROVE \E w : InClose(c) \subseteq Users \cup {w}
  BY DEF FewClosers
<1>1. ASSUME NEW t \in InClose(c)
      PROVE  IF peer[c] = "none" THEN t = ConnectIo(c) ELSE t = IoOf[c] \/ t \in Users
  <2>1. t \in Threads /\ Closing(t, c)
    BY <1>1 DEF InClose, Closing, CloseOps
  <2>2. at[t].next \in {"idle", "waitConnect", "unlock"} /\ (at[t].next = "unlock" => t \in Users)
    BY <2>1, Places DEF Life, Typed, Closing
  <2> QED BY <2>1, <2>2 DEF Life, LifeOf, Closers
<1>2. CASE peer[c] = "none"
  <2>1. InClose(c) \subseteq Users \cup {ConnectIo(c)}
    BY <1>1, <1>2
  <2> QED BY <2>1
<1>3. CASE peer[c] # "none"
  <2>1. InClose(c) \subseteq Users \cup {IoOf[c]}
    BY <1>1, <1>3
  <2> QED BY <2>1
<1> QED BY <1>2, <1>3

(* A connection that has yet to queue its announcement. *)
Unannounced(c) == \/ peer[c] = "none"
                  \/ \E t \in Threads : Opening(t, c) \/ Entering(t, c)

(* The key of a connection changes before anybody was told of it only.      *)
SameKeys ==
  \A c \in Conns : m_IP'[c] # m_IP[c] => m_isClose[c] = FALSE /\ Unannounced(c)

LEMMA KeyStays == Life /\ [Next]_vars => SameKeys
<1> SUFFICES ASSUME Life, [Next]_vars PROVE SameKeys
  OBVIOUS
<1>0. Typed /\ m_IP \in [Conns -> Keys]
  BY DEF Life, Typed, TypeOK
<1>1. CASE m_IP' = m_IP
  BY <1>1 DEF SameKeys
<1>2. ASSUME NEW t \in Threads, StartRead(t) PROVE SameKeys
  <2>1. PICK d \in Conns : d = at[t].conn
    BY <1>0, <1>2, Places DEF StartRead
  <2>2. /\ LifeOf(d) /\ Busy(t, d) /\ at[t].next \in {"insert", "idle"}
        /\ at[t].op = "startRead"
    BY <1>0, <1>2, <2>1, Places DEF Life, Busy, StartRead
  <2>3. m_IP' = [m_IP EXCEPT ![d] = Address[d]] \/ m_IP' = m_IP
    BY <1>2, <2>1 DEF StartRead
  <2>4. CASE at[t].next = "idle"
    <3>1. m_IP[d] = Address[d]
      BY <2>2, <2>4 DEF LifeOf, Keyed, Rereading
    <3> QED BY <1>0, <2>3, <3>1 DEF SameKeys
  <2>5. CASE at[t].next = "insert"
    <3>1. Opening(t, d)
      BY <2>2, <2>5 DEF Opening
    <3>2. m_isClose[d] = FALSE /\ Unannounced(d)
      BY <2>2, <3>1 DEF LifeOf, Opened, Unannounced
    <3> QED BY <1>0, <2>3, <3>2 DEF SameKeys
  <2> QED BY <2>2, <2>4, <2>5
<1>3. ASSUME NEW t \in Threads, NEW d \in Conns, connect(t, d) PROVE SameKeys
  <2>1. m_Socket[d] = "none" /\ m_IP' = [m_IP EXCEPT ![d] = Asked[d]]
    BY <1>3 DEF connect
  <2>2. m_isClose[d] = FALSE /\ Unannounced(d)
    BY <2>1 DEF Life, LifeOf, Unborn, Unannounced
  <2> QED BY <1>0, <2>1, <2>2 DEF SameKeys
<1>4. ASSUME NEW t \in Threads, Handler(t) PROVE SameKeys
  <2>1. CASE StartRead(t)
    BY <1>2, <2>1
  <2>2. CASE ~StartRead(t)
    BY <1>1, <1>4, <2>2 DEF Handler, HandlerStep, CloseCheck, CloseSet, CloseNotify,
       CloseSocket, InsertConnect, AnnounceConnect, WaitConnect, connVars
  <2> QED BY <2>1, <2>2
<1>5. ASSUME NEW t \in Threads, update(t) PROVE SameKeys
  BY <1>1, <1>5 DEF update, UpdatePacks, UpdateNew, UpdateCloseLock, UpdateTellClose,
     UpdateErase, UpdateCloseUnlock, connVars
<1>6. ASSUME NEW t \in Threads, NEW d \in Conns,
             \/ ReadCompletes(t, d) \/ connectThrows(t, d)
             \/ handleConnect(t, d) \/ handleConnectFailed(t, d)
      PROVE  SameKeys
  BY <1>1, <1>6 DEF ReadCompletes, HandRead, HandReadHead, HandReadBody, HandReadError,
     connectThrows, handleConnect, handleConnectFailed
<1>7. ASSUME NEW u \in Users,
             \/ getConnectByIP(u) \/ Lookup(u) \/ CloseConnectUnlock(u)
             \/ \E k \in Numeric : closeConnect(u, k)
      PROVE  SameKeys
  BY <1>1, <1>7 DEF getConnectByIP, Lookup, CloseConnectUnlock, closeConnect, connVars
<1>8. ASSUME NEW d \in Conns, PeerGone(d) \/ ReadArrives(d) PROVE SameKeys
  BY <1>1, <1>8 DEF PeerGone, ReadArrives
<1>9. CASE UNCHANGED vars
  BY <1>1, <1>9 DEF vars, connVars
<1> QED BY <1>3, <1>4, <1>5, <1>6, <1>7, <1>8, <1>9 DEF Next

(* Once the flag is set there are no more closings to come than threads     *)
(* that may be in close(), all under the key it then has, and before that   *)
(* there is none.                                                           *)
BudgetOf(c, k) ==
  /\ IF m_isClose[c] = TRUE
     THEN Reported(k) + Cardinality(InClose(c)) <= Cardinality(Users) + 1
     ELSE Reported(k) = 0
  /\ k # m_IP[c] => Reported(k) = 0
Budget == \A c \in Conns : \A k \in KeysOf(c) : BudgetOf(c, k)

(* Steps that report nothing and let nobody into a closed connection's      *)
(* close().                                                                 *)
LEMMA BudgetKept ==
  ASSUME Life, SameKeys, FewClosers', IsFiniteSet(Users),
         NEW c \in Conns, NEW k \in KeysOf(c), BudgetOf(c, k),
         Reported(k)' = Reported(k),
         m_isClose[c] = TRUE => InClose(c)' \subseteq InClose(c) /\ m_isClose'[c] = TRUE
  PROVE  BudgetOf(c, k)'
<1>1. /\ Reported(k) \in Nat /\ Cardinality(Users) \in Nat
  <2>1. Cardinality(Queued(k)) \in Nat /\ Times("close", k) \in Nat
    BY QueuedFinite, TimesType, KeysAre DEF Life
  <2> QED BY <2>1, FS_CardinalityType DEF Reported
<1>2. PICK w : InClose(c)' \subseteq Users \cup {w}
  BY DEF FewClosers
<1>3. /\ IsFiniteSet(InClose(c)') /\ Cardinality(InClose(c)') \in Nat
      /\ Cardinality(InClose(c)') <= Cardinality(Users) + 1
  BY <1>2, ClosersFew
<1>a. m_isClose[c] = TRUE => m_IP'[c] = m_IP[c]
  BY DEF SameKeys
<1>4. CASE m_isClose[c] = TRUE
  <2>1. PICK v : InClose(c) \subseteq Users \cup {v}
    BY CloserIs DEF FewClosers
  <2>2. IsFiniteSet(InClose(c)) /\ Cardinality(InClose(c)) \in Nat
    BY <2>1, ClosersFew
  <2> DEFINE S == InClose(c)
             T == InClose(c)'
  <2>3. T \in SUBSET S /\ IsFiniteSet(S)
    BY <1>4, <2>2
  <2> HIDE DEF S, T
  <2>4. Cardinality(T) <= Cardinality(S)
    BY <2>3, FS_Subset
  <2> QED BY <1>1, <1>3, <1>4, <1>a, <2>2, <2>4 DEF BudgetOf, S, T
<1>5. CASE m_isClose[c] # TRUE
  <2>1. Reported(k)' = 0
    BY <1>5 DEF BudgetOf
  <2> DEFINE r == Reported(k)'
             n == Cardinality(InClose(c)')
  <2>2. r = 0 /\ n \in Nat /\ n <= Cardinality(Users) + 1
    BY <1>3, <2>1
  <2>3. BudgetOf(c, k)' <=>
          /\ IF m_isClose'[c] = TRUE THEN r + n <= Cardinality(Users) + 1 ELSE r = 0
          /\ k # m_IP'[c] => r = 0
    BY DEF BudgetOf
  <2> HIDE DEF r, n
  <2> QED BY <2>2, <2>3
<1> QED BY <1>4, <1>5

(* A thread that moves anywhere but into the middle of close().             *)
LEMMA BudgetMove ==
  ASSUME Life, SameKeys, FewClosers', IsFiniteSet(Users), Budget, NEW t \in Threads, NEW X,
         at' = [at EXCEPT ![t] = X], X.op \notin {"closeSet", "closeNotify"},
         m_isClose' = m_isClose,
         \A k \in Keys : Reported(k)' = Reported(k)
  PROVE  Budget'
<1> SUFFICES ASSUME NEW c \in Conns, NEW k \in KeysOf(c) PROVE BudgetOf(c, k)'
  BY DEF Budget, KeysOf
<1>1. \A u \in Threads : at'[u] = IF u = t THEN X ELSE at[u]
  BY DEF Life, Typed
<1>2. InClose(c)' \subseteq InClose(c)
  BY <1>1 DEF InClose, Busy
<1>3. BudgetOf(c, k) /\ Reported(k)' = Reported(k)
  BY KeysAre DEF Budget
<1>4. m_isClose[c] = TRUE => InClose(c)' \subseteq InClose(c) /\ m_isClose'[c] = TRUE
  BY <1>2
<1> QED BY <1>3, <1>4, BudgetKept

(* One that also leaves the queue and the reports as they are.              *)
LEMMA BudgetQuiet ==
  ASSUME Life, SameKeys, FewClosers', IsFiniteSet(Users), Budget, NEW t \in Threads, NEW X,
         at' = [at EXCEPT ![t] = X],
         X.op \notin {"closeSet", "closeNotify", "updateErase"}, at[t].op # "updateErase",
         m_isClose' = m_isClose, told' = told, closeit' = closeit,
         m_CloseConnectCollect' = m_CloseConnectCollect
  PROVE  Budget'
<1>1. \A u \in Threads : at'[u] = IF u = t THEN X ELSE at[u]
  BY DEF Life, Typed
<1>2. (at'[Main].op = "updateErase") <=> (at[Main].op = "updateErase")
  BY <1>1, Constants
<1>3. \A k : Reported(k)' = Reported(k)
  BY <1>2, ReportedKept
<1>4. X.op \notin {"closeSet", "closeNotify"}
  OBVIOUS
<1> QED BY <1>3, <1>4, BudgetMove

(* The steps of close().                                                    *)
LEMMA BudgetClose ==
  ASSUME DistinctAddresses, Life, SameKeys, FewClosers', IsFiniteSet(Users), Budget,
         NEW t \in Threads,
         \/ CloseCheck(t) \/ CloseSet(t) \/ CloseNotify(t, closeLock = None)
         \/ CloseSocket(t),
         UNCHANGED serverVars
  PROVE  Budget'
<1>0. /\ Typed /\ at[t].op \in CloseOps /\ at[t].conn \in Conns
      /\ told' = told /\ closeit' = closeit /\ at[t].op # "updateErase"
      /\ at[t].next \in {"idle", "waitConnect", "unlock"}
  BY Places DEF Life, CloseCheck, CloseSet, CloseNotify, CloseSocket, CloseOps, serverVars
<1>1. PICK d \in Conns : d = at[t].conn
  BY <1>0
<1>2. ASSUME Return(t), m_isClose' = m_isClose,
             m_CloseConnectCollect' = m_CloseConnectCollect
      PROVE  Budget'
  <2>1. PICK X \in {Idle} \cup Steps :
          /\ at' = [at EXCEPT ![t] = X]
          /\ X.op = at[t].next
    BY <1>0, <1>2, Returns
  <2>2. X.op \notin {"closeSet", "closeNotify", "updateErase"}
    BY <1>0, <2>1
  <2> QED BY <1>0, <1>2, <2>1, <2>2, BudgetQuiet
<1>3. ASSUME NEW o \in CloseOps, Goto(t, [at[t] EXCEPT !.op = o])
      PROVE  /\ \A u \in Threads : u # t => at'[u] = at[u]
             /\ at'[t].op = o /\ at'[t].conn = d
             /\ (at'[Main].op = "updateErase") <=> (at[Main].op = "updateErase")
  <2> DEFINE X == Doing(o, d, at[t].next)
  <2>1. [at[t] EXCEPT !.op = o] = X
    BY <1>0, <1>1, Places
  <2>2. at' = [at EXCEPT ![t] = X]
    BY <1>3, <2>1 DEF Goto
  <2>3. X.op = o /\ X.conn = d
    BY DoingIs
  <2> HIDE DEF X
  <2>4. \A u \in Threads : at'[u] = IF u = t THEN X ELSE at[u]
    BY <1>0, <2>2 DEF Typed
  <2>5. X.op # "updateErase"
    BY <2>3 DEF CloseOps
  <2> QED BY <1>0, <2>3, <2>4, <2>5, Constants
<1>4. CASE CloseCheck(t)
  <2>1. m_isClose' = m_isClose /\ m_CloseConnectCollect' = m_CloseConnectCollect
    BY <1>4 DEF CloseCheck, connVars
  <2>2. CASE m_isClose[d]
    BY <1>1, <1>2, <1>4, <2>1, <2>2 DEF CloseCheck
  <2>3. CASE ~m_isClose[d]
    <3>1. Goto(t, [at[t] EXCEPT !.op = "closeSet"]) /\ "closeSet" \in CloseOps
      BY <1>1, <1>4, <2>3 DEF CloseCheck, CloseOps
    <3>2. /\ \A u \in Threads : u # t => at'[u] = at[u]
          /\ at'[t].conn = d
          /\ (at'[Main].op = "updateErase") <=> (at[Main].op = "updateErase")
      BY <1>3, <3>1
    <3>3. \A k : Reported(k)' = Reported(k)
      BY <1>0, <2>1, <3>2, ReportedKept
    <3> SUFFICES ASSUME NEW c \in Conns, NEW k \in KeysOf(c)
                 PROVE  BudgetOf(c, k)'
      BY DEF Budget, KeysOf
    <3>4. m_isClose[c] = TRUE => InClose(c)' \subseteq InClose(c) /\ m_isClose'[c] = TRUE
      BY <2>1, <2>3, <3>2 DEF InClose, Busy
    <3>5. BudgetOf(c, k) /\ Reported(k)' = Reported(k)
      BY <3>3 DEF Budget
    <3> QED BY <3>4, <3>5, BudgetKept
  <2> QED BY <2>2, <2>3
<1>5. CASE CloseSet(t)
  <2>1. PICK o \in {"closeNotify", "closeSocket"} : Goto(t, [at[t] EXCEPT !.op = o])
    BY <1>5 DEF CloseSet
  <2>2. o \in CloseOps
    BY DEF CloseOps
  <2>3. /\ \A u \in Threads : u # t => at'[u] = at[u]
        /\ at'[t].conn = d
        /\ (at'[Main].op = "updateErase") <=> (at[Main].op = "updateErase")
    BY <1>3, <2>1, <2>2
  <2>4. /\ at[t].op = "closeSet" /\ m_isClose' = [m_isClose EXCEPT ![d] = TRUE]
        /\ m_CloseConnectCollect' = m_CloseConnectCollect
    BY <1>1, <1>5 DEF CloseSet
  <2>5. \A k : Reported(k)' = Reported(k)
    BY <1>0, <2>3, <2>4, ReportedKept
  <2> SUFFICES ASSUME NEW c \in Conns, NEW k \in KeysOf(c)
               PROVE  BudgetOf(c, k)'
    BY DEF Budget, KeysOf
  <2>6. InClose(c)' \subseteq InClose(c)
    BY <1>1, <2>3, <2>4 DEF InClose, Busy
  <2>7. m_isClose[c] = TRUE => m_isClose'[c] = TRUE
    BY <1>0, <2>4 DEF Typed, TypeOK
  <2>8. BudgetOf(c, k) /\ Reported(k)' = Reported(k)
    BY <2>5 DEF Budget
  <2>9. m_isClose[c] = TRUE => InClose(c)' \subseteq InClose(c) /\ m_isClose'[c] = TRUE
    BY <2>6, <2>7
  <2> QED BY <2>8, <2>9, BudgetKept
<1>6. CASE CloseNotify(t, closeLock = None)
  <2>1. Goto(t, [at[t] EXCEPT !.op = "closeSocket"]) /\ "closeSocket" \in CloseOps
    BY <1>6 DEF CloseNotify, CloseOps
  <2>2. /\ \A u \in Threads : u # t => at'[u] = at[u]
        /\ at'[t].op = "closeSocket" /\ at'[t].conn = d
        /\ (at'[Main].op = "updateErase") <=> (at[Main].op = "updateErase")
    BY <1>3, <2>1
  <2>3. /\ at[t].op = "closeNotify" /\ m_isClose' = m_isClose
        /\ m_CloseConnectCollect' = Append(m_CloseConnectCollect, m_IP[d])
    BY <1>1, <1>6 DEF CloseNotify
  <2>4. m_IP[d] \in KeysOf(d) /\ m_isClose[d] = TRUE /\ m_IP[d] \in Addresses
    <3>1. at[t].op = "closeNotify" /\ at[t].op # "idle"
      BY <2>3
    <3>2. m_isClose[d] = TRUE /\ m_IP[d] \in KeysOf(d)
      BY <1>0, <1>1, <3>1 DEF Life, LifeOf, Keyed, Closers, Typed, Busy
    <3> QED BY <3>2, KeysAre
  <2>5. ASSUME NEW k \in Keys
        PROVE  Reported(k)' = IF k = m_IP[d] THEN Reported(k) + 1 ELSE Reported(k)
    BY <1>0, <2>2, <2>3, <2>4, ReportedNotify
  <2> SUFFICES ASSUME NEW c \in Conns, NEW k \in KeysOf(c)
               PROVE  BudgetOf(c, k)'
    BY DEF Budget, KeysOf
  <2>6. BudgetOf(c, k) /\ k \in Keys
    BY KeysAre DEF Budget
  <2>7. CASE k # m_IP[d]
    <3>1. InClose(c)' \subseteq InClose(c)
      BY <1>1, <2>2 DEF InClose, Busy
    <3>2. m_isClose[c] = TRUE => InClose(c)' \subseteq InClose(c) /\ m_isClose'[c] = TRUE
      BY <2>3, <3>1
    <3>3. Reported(k)' = Reported(k)
      BY <2>5, <2>6, <2>7
    <3> QED BY <2>6, <3>2, <3>3, BudgetKept
  <2>8. CASE k = m_IP[d]
    <3>0. c = d
      BY <2>4, <2>8 DEF DistinctAddresses
    <3> DEFINE S == InClose(c)
               r == Reported(k)
    <3>1. t \in S /\ InClose(c)' = S \ {t}
      BY <1>0, <1>1, <2>2, <2>3, <3>0 DEF InClose, Busy
    <3>2. PICK v : S \subseteq Users \cup {v}
      BY CloserIs DEF FewClosers
    <3>3. /\ r \in Nat /\ r + Cardinality(S) <= Cardinality(Users) + 1
      <4>1. Cardinality(Queued(k)) \in Nat /\ Times("close", k) \in Nat
        BY QueuedFinite, TimesType, KeysAre DEF Life
      <4> QED BY <2>4, <2>6, <3>0, <4>1 DEF Reported, BudgetOf
    <3>4. Reported(k)' = r + 1
      BY <2>5, <2>6, <2>8
    <3>5. BudgetOf(c, k)' <=> Reported(k)' + Cardinality(InClose(c)') <= Cardinality(Users) + 1
      <4>1. m_IP'[c] = k
        BY <1>6, <2>8, <3>0 DEF CloseNotify
      <4> QED BY <2>3, <2>4, <3>0, <4>1 DEF BudgetOf
    <3> DEFINE T == InClose(c)'
    <3>6. T = S \ {t}
      BY <3>1
    <3> HIDE DEF S, T, r
    <3>7. IsFiniteSet(S) /\ Cardinality(S) \in Nat
      BY <3>2, ClosersFew
    <3>8. Cardinality(T) = Cardinality(S) - 1
      BY <3>1, <3>6, <3>7, FS_RemoveElement
    <3>9. Cardinality(Users) \in Nat
      BY FS_CardinalityType
    <3>10. (r + 1) + Cardinality(T) <= Cardinality(Users) + 1
      BY <3>3, <3>7, <3>8, <3>9
    <3> QED BY <3>4, <3>5, <3>10 DEF T
  <2> QED BY <2>7, <2>8
<1>7. CASE CloseSocket(t)
  BY <1>2, <1>7 DEF CloseSocket
<1> QED BY <1>4, <1>5, <1>6, <1>7

(* The budget is kept by every step of the server. *)
LEMMA BudgetStep ==
  DistinctAddresses /\ IsFiniteSet(Users) /\ Life /\ SameKeys /\ FewClosers' /\ Budget
    /\ [Next]_vars => Budget'
<1> SUFFICES ASSUME DistinctAddresses, IsFiniteSet(Users), Life, SameKeys, FewClosers',
                    Budget, [Next]_vars
             PROVE  Budget'
  OBVIOUS
<1>0. /\ Typed /\ \A c \in Conns : \A k \in KeysOf(c) : BudgetOf(c, k)
      /\ Main \in Threads
  BY Constants DEF Life, Budget
<1>1. ASSUME UNCHANGED <<at, m_isClose, told, closeit, m_CloseConnectCollect>>
      PROVE  Budget'
  <2> SUFFICES ASSUME NEW c \in Conns, NEW k \in KeysOf(c)
               PROVE  BudgetOf(c, k)'
    BY DEF Budget, KeysOf
  <2>1. Reported(k)' = Reported(k)
    BY <1>1, ReportedKept
  <2>2. m_isClose[c] = TRUE => InClose(c)' \subseteq InClose(c) /\ m_isClose'[c] = TRUE
    BY <1>1 DEF InClose, Busy
  <2> QED BY <1>0, <2>1, <2>2, BudgetKept
<1>2. ASSUME NEW t \in Threads, Handler(t) PROVE Budget'
  <2>1. CASE HandlerStep(t, closeLock = None) /\ UNCHANGED serverVars
    <3>1. CASE StartRead(t)
      <4>1. PICK X \in {Idle} \cup Steps :
              /\ at' = [at EXCEPT ![t] = X]
              /\ X.op = at[t].next
        BY <1>0, <3>1, Returns DEF StartRead
      <4>2. at[t].op = "startRead" /\ at[t].next \in {"insert", "idle"}
        BY <1>0, <3>1, Places DEF StartRead
      <4>3. X.op \notin {"closeSet", "closeNotify", "updateErase"}
        BY <4>1, <4>2
      <4>4. UNCHANGED <<m_isClose, told, closeit, m_CloseConnectCollect>>
        BY <2>1, <3>1 DEF StartRead, serverVars
      <4> QED BY <4>1, <4>2, <4>3, <4>4, BudgetQuiet
    <3>2. CASE ~StartRead(t)
      BY <2>1, <3>2, BudgetClose DEF HandlerStep
    <3> QED BY <3>1, <3>2
  <2>2. CASE InsertConnect(t) \/ AnnounceConnect(t) \/ WaitConnect(t)
    <3>1. PICK X : /\ at' = [at EXCEPT ![t] = X]
                   /\ X.op \notin {"closeSet", "closeNotify", "updateErase"}
      BY <2>2, DoingIs DEF InsertConnect, AnnounceConnect, WaitConnect, Goto
    <3>2. /\ UNCHANGED <<m_isClose, told, closeit, m_CloseConnectCollect>>
          /\ at[t].op # "updateErase"
      BY <2>2 DEF InsertConnect, AnnounceConnect, WaitConnect, connVars, serverVars
    <3> QED BY <3>1, <3>2, BudgetQuiet
  <2> QED BY <1>2, <2>1, <2>2 DEF Handler
<1>3. ASSUME NEW t \in Threads, update(t) PROVE Budget'
  <2>1. PICK X : at' = [at EXCEPT ![t] = X] /\ X.op \notin {"closeSet", "closeNotify"}
    BY <1>3, DoingIs DEF update, UpdatePacks, UpdateNew, UpdateCloseLock, UpdateTellClose,
       UpdateErase, UpdateCloseUnlock, Goto
  <2>2. m_isClose' = m_isClose
    BY <1>3 DEF update, UpdatePacks, UpdateNew, UpdateCloseLock, UpdateTellClose,
       UpdateErase, UpdateCloseUnlock, connVars
  <2>3. \A k \in Keys : Reported(k)' = Reported(k)
    BY <1>0, <1>3, ReportedUpdate
  <2> QED BY <2>1, <2>2, <2>3, BudgetMove
<1>4. ASSUME NEW t \in Threads, NEW d \in Conns,
             \/ connect(t, d) \/ connectThrows(t, d)
             \/ handleConnect(t, d) \/ handleConnectFailed(t, d)
      PROVE  Budget'
  <2>1. \/ at' = at
        \/ \E X : /\ at' = [at EXCEPT ![t] = X]
                  /\ X.op \notin {"closeSet", "closeNotify", "updateErase"}
    BY <1>4, DoingIs
       DEF connect, connectThrows, handleConnect, handleConnectFailed, Goto
  <2>2. /\ UNCHANGED <<m_isClose, told, closeit, m_CloseConnectCollect>>
        /\ at[t].op # "updateErase"
    BY <1>4 DEF connect, connectThrows, handleConnect, handleConnectFailed, Idle, serverVars
  <2> QED BY <1>1, <2>1, <2>2, BudgetQuiet
<1>5. ASSUME NEW t \in Threads, NEW d \in Conns, ReadCompletes(t, d) PROVE Budget'
  <2>1. \/ at' = at
        \/ \E X : /\ at' = [at EXCEPT ![t] = X]
                  /\ X.op \notin {"closeSet", "closeNotify", "updateErase"}
    BY <1>5, DoingIs DEF ReadCompletes, HandRead, HandReadHead, HandReadBody,
       HandReadError, Goto
  <2>2. /\ UNCHANGED <<m_isClose, told, closeit, m_CloseConnectCollect>>
        /\ at[t].op # "updateErase"
    BY <1>5 DEF ReadCompletes, HandRead, HandReadHead, HandReadBody, HandReadError, Idle,
       serverVars
  <2> QED BY <1>1, <2>1, <2>2, BudgetQuiet
<1>6. ASSUME NEW u \in Users,
             \/ getConnectByIP(u) \/ Lookup(u) \/ CloseConnectUnlock(u)
             \/ \E k \in Numeric : closeConnect(u, k)
      PROVE  Budget'
  <2>1. PICK X : /\ at' = [at EXCEPT ![u] = X]
                 /\ X.op \notin {"closeSet", "closeNotify", "updateErase"}
    BY <1>6, DoingIs DEF getConnectByIP, Lookup, CloseConnectUnlock, closeConnect, Goto
  <2>2. /\ UNCHANGED <<m_isClose, told, closeit, m_CloseConnectCollect>>
        /\ at[u].op # "updateErase" /\ u \in Threads
    BY <1>6, Constants DEF getConnectByIP, Lookup, CloseConnectUnlock, closeConnect, Idle,
       connVars, serverVars
  <2> QED BY <2>1, <2>2, BudgetQuiet
<1>7. ASSUME NEW d \in Conns, PeerGone(d) \/ ReadArrives(d), UNCHANGED serverVars PROVE Budget'
  BY <1>1, <1>7 DEF PeerGone, ReadArrives, serverVars
<1>8. CASE UNCHANGED vars
  BY <1>1, <1>8 DEF vars, connVars, serverVars
<1> QED BY <1>2, <1>3, <1>4, <1>5, <1>6, <1>7, <1>8 DEF Next

LEMMA BudgetInit == Init => Budget
<1> SUFFICES ASSUME Init, NEW c \in Conns, NEW k \in KeysOf(c) PROVE BudgetOf(c, k)
  BY DEF Budget
<1>1. m_isClose[c] = FALSE /\ k \in Keys
  BY KeysAre DEF Init, ConnInit
<1>2. told[k] = <<>> /\ Len(m_CloseConnectCollect) = 0 /\ closeit = 1
  BY <1>1 DEF Init, ConnInit
<1>3. at[Main].op = "idle"
  BY Constants DEF Init, ConnInit, Idle
<1>4. Queued(k) = {}
  BY <1>2, <1>3 DEF Queued, NextClosed
<1>5. Times("close", k) = 0
  BY <1>2, PickedEmpty DEF Times
<1> QED BY <1>1, <1>4, <1>5, FS_EmptySet DEF BudgetOf, Reported

(* However many threads race through close(), and however often             *)
(* closeConnect() is called, the listeners hear of a connection's end at    *)
(* most once per thread that may have been in close() at the same time.     *)
THEOREM ServerClosedOncePerThread ==
  DistinctAddresses /\ IsFiniteSet(Users) /\ Spec => []ClosedOncePerThread
<1>1. IsFiniteSet(Users) /\ Life /\ Budget => ClosedOncePerThread
  <2> SUFFICES ASSUME IsFiniteSet(Users), Life, Budget,
                      NEW c \in Conns, NEW k \in KeysOf(c)
               PROVE  Times("close", k) + Cardinality(Queued(k))
                        <= Cardinality(Users) + 1
    BY DEF ClosedOncePerThread, Queued, NextClosed
  <2>1. BudgetOf(c, k) /\ Cardinality(Users) \in Nat
    BY FS_CardinalityType DEF Budget
  <2>2. Times("close", k) \in Nat /\ Cardinality(Queued(k)) \in Nat
    BY QueuedFinite, TimesType, KeysAre DEF Life
  <2>3. PICK w : InClose(c) \subseteq Users \cup {w}
    BY CloserIs DEF FewClosers
  <2>4. Cardinality(InClose(c)) \in Nat
    BY <2>3, ClosersFew
  <2> QED BY <2>1, <2>2, <2>4 DEF BudgetOf, Reported
<1>2. DistinctAddresses => DistinctAddresses'
  BY DEF DistinctAddresses, KeysOf
<1>3. IsFiniteSet(Users) => IsFiniteSet(Users)'
  OBVIOUS
<1> QED BY <1>1, <1>2, <1>3, LifeInit, LifeStep, KeyStays, BudgetInit, BudgetStep,
           CloserIs, PTL DEF Spec
-----------------------------------------------------------------------------
(* The pool has one thread: the acceptor's io_service is everybody's.       *)
OneIoThread == \A c \in Conns : IoOf[c] = AcceptIo

(* Then a connection is entered into the table before its first read can    *)
(* end, so nobody closes it while it is.                                    *)
FreshOf(c) ==
  \A t \in Threads :
    /\ Opening(t, c) \/ Inserting(t, c) => t = AcceptIo
    /\ Inserting(t, c) =>
         /\ m_isClose[c] = FALSE
         /\ ~InTable(c)
         /\ \A u \in Threads : Busy(u, c) => u = t
Fresh == \A c \in Conns : FreshOf(c)

(* Going on with a step of some connection. *)
LEMMA GoesOn ==
  ASSUME NEW t, NEW o, NEW c, NEW n, Goto(t, Doing(o, c, n))
  PROVE  \E X : at' = [at EXCEPT ![t] = X] /\ X.op = o /\ X.conn = c /\ X.next = n
<1> DEFINE X == Doing(o, c, n)
<1>1. at' = [at EXCEPT ![t] = X] /\ X.op = o /\ X.conn = c /\ X.next = n
  BY DoingIs DEF Goto
<1> HIDE DEF X
<1> QED BY <1>1

(* Steps that neither open nor start to insert a connection, nor touch the  *)
(* one another thread is inserting.                                         *)
LEMMA FreshMove ==
  ASSUME Life, Fresh, NEW t \in Threads, NEW X, at' = [at EXCEPT ![t] = X],
         X.op # "insert", X.op # "startRead" \/ X.next # "insert",
         \A c \in Conns : X.op # "idle" /\ X.conn = c =>
           Busy(t, c) \/ \A u \in Threads : ~Inserting(u, c),
         \A c \in Conns : \/ m_isClose'[c] = m_isClose[c]
                          \/ Busy(t, c) /\ at[t].op # "insert",
         \A c \in Conns, k \in Keys :
           m_ConnectCollect'[k] = c => m_ConnectCollect[k] = c \/ Inserting(t, c)
  PROVE  Fresh'
<1> SUFFICES ASSUME NEW c \in Conns PROVE FreshOf(c)'
  BY DEF Fresh
<1>0. FreshOf(c)
  BY DEF Fresh
<1>1. \A u \in Threads : at'[u] = IF u = t THEN X ELSE at[u]
  BY DEF Life, Typed
<1>2. ASSUME NEW u \in Threads, Opening(u, c)' \/ Inserting(u, c)'
      PROVE  u # t /\ (Opening(u, c) \/ Inserting(u, c))
  BY <1>1, <1>2 DEF Opening, Inserting, Busy
<1>3. ASSUME NEW u \in Threads, Inserting(u, c)'
      PROVE  /\ m_isClose'[c] = FALSE /\ ~InTable(c)'
             /\ \A v \in Threads : Busy(v, c)' => v = u
  <2>1. u # t /\ Inserting(u, c)
    BY <1>1, <1>3 DEF Inserting, Busy
  <2>2. /\ m_isClose[c] = FALSE /\ ~InTable(c) /\ ~Busy(t, c)
        /\ \A v \in Threads : Busy(v, c) => v = u
    BY <1>0, <2>1 DEF FreshOf
  <2>3. m_isClose'[c] = FALSE
    BY <2>2
  <2>4. ~InTable(c)'
    BY <2>2 DEF InTable, Inserting
  <2>5. ~Busy(t, c)'
    BY <1>1, <2>1, <2>2 DEF Busy
  <2>6. \A v \in Threads : Busy(v, c)' => v = u
    BY <1>1, <2>2, <2>5 DEF Busy
  <2> QED BY <2>3, <2>4, <2>6
<1> QED BY <1>0, <1>2, <1>3 DEF FreshOf

(* handleConnect's first read is started, and its key inserted next.        *)
LEMMA FreshStartRead ==
  ASSUME Life, Fresh, NEW t \in Threads, StartRead(t), UNCHANGED serverVars
  PROVE  Fresh'
<1>0. Typed /\ at[t].op = "startRead" /\ m_isClose' = m_isClose
  BY DEF Life, StartRead
<1>1. m_ConnectCollect' = m_ConnectCollect
  BY DEF serverVars
<1>2. PICK d \in Conns : d = at[t].conn
  BY <1>0, Places
<1>3. PICK X \in {Idle} \cup Steps :
        /\ at' = [at EXCEPT ![t] = X] /\ X.op = at[t].next
        /\ X.op # "idle" => X.conn = d /\ X.next = "idle"
  BY <1>0, <1>2, Returns DEF StartRead
<1>4. at[t].next \in {"insert", "idle"}
  BY <1>0, Places
<1>5. CASE at[t].next = "idle"
  BY <1>0, <1>1, <1>3, <1>5, FreshMove
<1>6. CASE at[t].next = "insert"
  <2> SUFFICES ASSUME NEW c \in Conns PROVE FreshOf(c)'
    BY DEF Fresh
  <2>1. FreshOf(c) /\ LifeOf(c) /\ FreshOf(d) /\ LifeOf(d)
    BY DEF Fresh, Life
  <2>2. \A u \in Threads : at'[u] = IF u = t THEN X ELSE at[u]
    BY <1>0, <1>3 DEF Typed
  <2>3. Opening(t, d)
    BY <1>0, <1>2, <1>6 DEF Opening, Busy
  <2>4. /\ t = AcceptIo /\ m_isClose[d] = FALSE /\ ~InTable(d)
        /\ \A u \in Threads : Busy(u, d) => u = t
    BY <2>1, <2>3 DEF FreshOf, LifeOf, Opened
  <2>5. CASE c = d
    <3>1. \A u \in Threads : Busy(u, c)' => u = t
      BY <1>3, <2>2, <2>4, <2>5 DEF Busy
    <3> QED BY <1>0, <1>1, <2>4, <2>5, <3>1 DEF FreshOf, Opening, Inserting, InTable
  <2>6. CASE c # d
    <3>1. \A u \in Threads : Busy(u, c)' => Busy(u, c) /\ at'[u] = at[u]
      BY <1>3, <2>2, <2>6 DEF Busy
    <3> QED BY <1>0, <1>1, <2>1, <3>1 DEF FreshOf, Opening, Inserting, InTable, Busy
  <2> QED BY <2>5, <2>6
<1> QED BY <1>4, <1>5, <1>6

(* The handler of an established connection runs on the acceptor's thread.  *)
LEMMA FreshOpen ==
  ASSUME OneIoThread, Life, Fresh, NEW t \in Threads, NEW d \in Conns, handleConnect(t, d)
  PROVE  Fresh'
<1> DEFINE X == Doing("startRead", d, "insert")
<1>1. /\ at' = [at EXCEPT ![t] = X] /\ t = AcceptIo
      /\ X.op = "startRead" /\ X.conn = d
  BY DoingIs DEF handleConnect, Goto, ConnectIo, OneIoThread
<1> HIDE DEF X
<1>2. /\ UNCHANGED <<m_isClose, m_ConnectCollect>>
      /\ m_Socket[d] = "pending" /\ at[t] = Idle
  BY DEF handleConnect, serverVars
<1> SUFFICES ASSUME NEW c \in Conns PROVE FreshOf(c)'
  BY DEF Fresh
<1>3. \A u \in Threads : at'[u] = IF u = t THEN X ELSE at[u]
  BY <1>1 DEF Life, Typed
<1>4. FreshOf(c)
  BY DEF Fresh
<1>5. CASE c = d
  <2>1. \A u \in Threads : Busy(u, c)' => u = t
    BY <1>2, <1>3, <1>5 DEF Life, LifeOf, Unborn, Busy
  <2>2. ~Inserting(t, c)'
    BY <1>1, <1>3 DEF Inserting
  <2>3. \A u \in Threads : Opening(u, c)' => u = AcceptIo
    BY <1>1, <2>1 DEF Opening
  <2>4. \A u \in Threads : ~Inserting(u, c)'
    BY <2>1, <2>2 DEF Inserting
  <2> QED BY <2>3, <2>4 DEF FreshOf
<1>6. CASE c # d
  <2>1. \A u \in Threads : Busy(u, c)' => Busy(u, c) /\ at'[u] = at[u]
    BY <1>1, <1>3, <1>6 DEF Busy
  <2> QED BY <1>2, <1>4, <2>1 DEF FreshOf, Opening, Inserting, InTable, Busy
<1> QED BY <1>5, <1>6

LEMMA FreshStep == OneIoThread /\ Life /\ Fresh /\ [Next]_vars => Fresh'
<1> SUFFICES ASSUME OneIoThread, Life, Fresh, [Next]_vars PROVE Fresh'
  OBVIOUS
<1>0. Typed /\ \A c \in Conns : FreshOf(c) /\ LifeOf(c)
  BY DEF Life, Fresh
<1>1. ASSUME UNCHANGED <<at, m_isClose, m_ConnectCollect>> PROVE Fresh'
  BY <1>1 DEF Fresh, FreshOf, Opening, Inserting, InTable, Busy
<1>2. ASSUME NEW t \in Threads, NEW X, at' = [at EXCEPT ![t] = X],
             X.op \notin {"insert", "startRead"},
             \A c \in Conns : X.op # "idle" /\ X.conn = c =>
               Busy(t, c) \/ \A u \in Threads : ~Inserting(u, c),
             m_isClose' = m_isClose, m_ConnectCollect' = m_ConnectCollect
      PROVE  Fresh'
  BY <1>2, FreshMove
<1>3. ASSUME NEW t \in Threads, HandlerStep(t, closeLock = None), ~StartRead(t),
             UNCHANGED serverVars
      PROVE  Fresh'
  <2>1. at[t].op \in CloseOps /\ m_ConnectCollect' = m_ConnectCollect
    BY <1>3 DEF HandlerStep, CloseCheck, CloseSet, CloseNotify, CloseSocket, CloseOps,
       serverVars
  <2>2. PICK d \in Conns : d = at[t].conn
    BY <1>0, <2>1, Places
  <2>3. ASSUME Return(t)
        PROVE  \E X : /\ at' = [at EXCEPT ![t] = X]
                      /\ X.op \notin {"insert", "startRead"}
                      /\ X.op # "idle" => X.conn = d
    <3>1. PICK X \in {Idle} \cup Steps :
            /\ at' = [at EXCEPT ![t] = X] /\ X.op = at[t].next
            /\ X.op # "idle" => X.conn = d
      BY <1>0, <2>1, <2>2, <2>3, Returns
    <3>2. at[t].next \notin {"insert", "startRead"}
      BY <1>0, <2>1, Places
    <3> QED BY <3>1, <3>2
  <2>4. ASSUME NEW o \in CloseOps, Goto(t, [at[t] EXCEPT !.op = o])
        PROVE  \E X : /\ at' = [at EXCEPT ![t] = X]
                      /\ X.op \notin {"insert", "startRead"}
                      /\ X.op # "idle" => X.conn = d
    <3> DEFINE X == Doing(o, d, at[t].next)
    <3>1. at' = [at EXCEPT ![t] = X]
      BY <1>0, <2>1, <2>2, <2>4, Places DEF Goto
    <3>2. X.op = o /\ X.conn = d
      BY DoingIs
    <3>3. o \notin {"insert", "startRead"}
      BY DEF CloseOps
    <3> HIDE DEF X
    <3> QED BY <3>1, <3>2, <3>3
  <2>5. PICK X : /\ at' = [at EXCEPT ![t] = X]
                 /\ X.op \notin {"insert", "startRead"}
                 /\ X.op # "idle" => X.conn = d
    BY <1>3, <2>3, <2>4
       DEF HandlerStep, CloseCheck, CloseSet, CloseNotify, CloseSocket, CloseOps
  <2>6. at[t].op \notin {"insert", "idle"}
    BY <2>1 DEF CloseOps
  <2>7. Busy(t, d)
    BY <2>2, <2>6 DEF Busy
  <2>8. \A c \in Conns : m_isClose'[c] = m_isClose[c] \/ c = d
    BY <1>0, <1>3, <2>2 DEF HandlerStep, CloseCheck, CloseSet, CloseNotify, CloseSocket,
       connVars, Typed, TypeOK
  <2>9. \A c \in Conns : X.op # "idle" /\ X.conn = c => Busy(t, c)
    BY <2>5, <2>7
  <2>10. \A c \in Conns : m_isClose'[c] = m_isClose[c] \/ (Busy(t, c) /\ at[t].op # "insert")
    BY <2>6, <2>7, <2>8
  <2> QED BY <2>1, <2>5, <2>9, <2>10, FreshMove
<1>4. ASSUME NEW t \in Threads, InsertConnect(t) PROVE Fresh'
  <2>1. at[t].op = "insert" /\ m_isClose' = m_isClose
    BY <1>4 DEF InsertConnect, connVars
  <2>2. PICK d \in Conns : d = at[t].conn
    BY <1>0, <2>1, Places
  <2>3. PICK X : at' = [at EXCEPT ![t] = X] /\ X.op = "announce" /\ X.conn = d
    <3>1. Goto(t, Doing("announce", d, "idle"))
      BY <1>4, <2>2 DEF InsertConnect
    <3> QED BY <3>1, GoesOn
  <2>4. Busy(t, d) /\ Inserting(t, d)
    BY <2>1, <2>2 DEF Busy, Inserting
  <2>5. ASSUME NEW c \in Conns, NEW k \in Keys, m_ConnectCollect'[k] = c
        PROVE  m_ConnectCollect[k] = c \/ c = d
    BY <1>0, <1>4, <2>2, <2>5 DEF InsertConnect, Typed, TypeOK
  <2>6. \A c \in Conns, k \in Keys :
          m_ConnectCollect'[k] = c => m_ConnectCollect[k] = c \/ Inserting(t, c)
    BY <2>4, <2>5
  <2>7. \A c \in Conns : X.op # "idle" /\ X.conn = c => Busy(t, c)
    BY <2>3, <2>4
  <2> QED BY <2>1, <2>3, <2>6, <2>7, FreshMove
<1>5. ASSUME NEW t \in Threads, AnnounceConnect(t) \/ WaitConnect(t) PROVE Fresh'
  <2>1. at[t].op \in {"announce", "waitConnect"} /\ UNCHANGED <<m_isClose, m_ConnectCollect>>
    BY <1>5 DEF AnnounceConnect, WaitConnect, connVars, serverVars
  <2>2. PICK X : /\ at' = [at EXCEPT ![t] = X]
                 /\ X.op \notin {"insert", "startRead"}
                 /\ X.op # "idle" => X.conn = at[t].conn
    BY <1>5, DoingIs DEF AnnounceConnect, WaitConnect, Goto
  <2>3. \A c \in Conns : X.op # "idle" /\ X.conn = c => Busy(t, c)
    BY <2>1, <2>2 DEF Busy
  <2> QED BY <1>2, <2>1, <2>2, <2>3
<1>6. ASSUME NEW t \in Threads, update(t) PROVE Fresh'
  <2>1. PICK X : /\ at' = [at EXCEPT ![t] = X]
                 /\ X.op \notin {"insert", "startRead"}
                 /\ X.op # "idle" => X.conn = None
    BY <1>6, DoingIs DEF update, UpdatePacks, UpdateNew, UpdateCloseLock, UpdateTellClose,
       UpdateErase, UpdateCloseUnlock, Goto
  <2>2. m_isClose' = m_isClose
    BY <1>6 DEF update, UpdatePacks, UpdateNew, UpdateCloseLock, UpdateTellClose,
       UpdateErase, UpdateCloseUnlock, connVars
  <2>3. \A c \in Conns, k \in Keys : m_ConnectCollect'[k] = c => m_ConnectCollect[k] = c
    BY <1>0, <1>6, Constants DEF update, UpdatePacks, UpdateNew, UpdateCloseLock,
       UpdateTellClose, UpdateErase, UpdateCloseUnlock, Typed, TypeOK
  <2>4. \A c \in Conns : X.op # "idle" /\ X.conn = c =>
          Busy(t, c) \/ \A u \in Threads : ~Inserting(u, c)
    BY <2>1, Constants
  <2>5. \A c \in Conns : \/ m_isClose'[c] = m_isClose[c]
                         \/ Busy(t, c) /\ at[t].op # "insert"
    BY <2>2
  <2>6. \A c \in Conns, k \in Keys :
          m_ConnectCollect'[k] = c => m_ConnectCollect[k] = c \/ Inserting(t, c)
    BY <2>3
  <2>7. at' = [at EXCEPT ![t] = X] /\ X.op # "insert" /\ X.op # "startRead"
    BY <2>1
  <2> QED BY <2>4, <2>5, <2>6, <2>7, FreshMove
<1>7. ASSUME NEW t \in Threads, NEW d \in Conns,
             connect(t, d) \/ connectThrows(t, d)
      PROVE  Fresh'
  BY <1>1, <1>7 DEF connect, connectThrows, serverVars
<1>8. ASSUME NEW t \in Threads, NEW d \in Conns, handleConnectFailed(t, d) PROVE Fresh'
  <2>1. PICK X : at' = [at EXCEPT ![t] = X] /\ X.op = "closeCheck" /\ X.conn = d
    <3>1. Goto(t, Doing("closeCheck", d, "waitConnect"))
      BY <1>8 DEF handleConnectFailed
    <3> QED BY <3>1, GoesOn
  <2>2. UNCHANGED <<m_isClose, m_ConnectCollect>> /\ m_Socket[d] = "pending"
    BY <1>8 DEF handleConnectFailed, serverVars
  <2>3. \A u \in Threads : ~Inserting(u, d)
    BY <1>0, <2>2 DEF LifeOf, Unborn, Inserting
  <2>4. \A c \in Conns : X.op # "idle" /\ X.conn = c => \A u \in Threads : ~Inserting(u, c)
    BY <2>1, <2>3
  <2> QED BY <1>2, <2>1, <2>2, <2>4
<1>9. ASSUME NEW t \in Threads, NEW d \in Conns, ReadCompletes(t, d) PROVE Fresh'
  <2>1. /\ UNCHANGED <<m_isClose, m_ConnectCollect>>
        /\ at[t] = Idle /\ IoOf[d] = t
    BY <1>9 DEF ReadCompletes, HandRead, HandReadHead, HandReadBody, HandReadError,
       serverVars
  <2>2. CASE at' = at
    BY <1>1, <2>1, <2>2
  <2>3. ASSUME NEW X, at' = [at EXCEPT ![t] = X], X.conn = d,
               X.op # "insert", X.op # "startRead" \/ X.next # "insert"
        PROVE  Fresh'
    <3>1. \A u \in Threads : ~Inserting(u, d)
      BY <1>0, <2>1, DoingIs DEF OneIoThread, FreshOf, Inserting, Busy
    <3>2. \A c \in Conns : X.op # "idle" /\ X.conn = c => \A u \in Threads : ~Inserting(u, c)
      BY <2>3, <3>1
    <3> QED BY <2>1, <2>3, <3>2, FreshMove
  <2>4. \/ at' = at
        \/ \E X : /\ at' = [at EXCEPT ![t] = X] /\ X.conn = d
                  /\ X.op # "insert"
                  /\ X.op # "startRead" \/ X.next # "insert"
    BY <1>9, DoingIs DEF ReadCompletes, HandRead, HandReadHead, HandReadBody,
       HandReadError, Goto
  <2> QED BY <2>2, <2>3, <2>4
<1>10. ASSUME NEW u \in Users, NEW k \in Numeric, closeConnect(u, k) PROVE Fresh'
  <2>1. /\ u \in Threads /\ k \in Keys
        /\ UNCHANGED <<m_isClose, m_ConnectCollect>> /\ m_ConnectCollect[k] # None
    BY <1>10, Constants DEF closeConnect, connVars, Keys
  <2>2. PICK d \in Conns : d = m_ConnectCollect[k]
    BY <1>0, <2>1 DEF Typed, TypeOK
  <2>3. PICK X : at' = [at EXCEPT ![u] = X] /\ X.op = "closeCheck" /\ X.conn = d
    <3>1. Goto(u, Doing("closeCheck", d, "unlock"))
      BY <1>10, <2>2 DEF closeConnect
    <3> QED BY <3>1, GoesOn
  <2>4. \A v \in Threads : ~Inserting(v, d)
    BY <1>0, <2>1, <2>2 DEF FreshOf, InTable
  <2>5. \A c \in Conns : X.op # "idle" /\ X.conn = c => \A v \in Threads : ~Inserting(v, c)
    BY <2>3, <2>4
  <2> QED BY <1>2, <2>1, <2>3, <2>5
<1>11. ASSUME NEW u \in Users, getConnectByIP(u) \/ Lookup(u) \/ CloseConnectUnlock(u)
       PROVE  Fresh'
  <2>1. u \in Threads /\ UNCHANGED <<m_isClose, m_ConnectCollect>>
    BY <1>11, Constants DEF getConnectByIP, Lookup, CloseConnectUnlock, connVars, serverVars
  <2>2. PICK X : /\ at' = [at EXCEPT ![u] = X] /\ X.op \notin {"insert", "startRead"}
                 /\ X.op # "idle" => X.conn = None
    BY <1>11, DoingIs DEF getConnectByIP, Lookup, CloseConnectUnlock, Goto
  <2>3. \A c \in Conns : X.op # "idle" => X.conn # c
    BY <2>2, Constants
  <2> QED BY <1>2, <2>1, <2>2, <2>3
<1>12. ASSUME NEW d \in Conns, PeerGone(d) \/ ReadArrives(d), UNCHANGED serverVars
       PROVE  Fresh'
  BY <1>1, <1>12 DEF PeerGone, ReadArrives, serverVars
<1>13. CASE UNCHANGED vars
  BY <1>1, <1>13 DEF vars, connVars, serverVars
<1>14. ASSUME NEW t \in Threads, Handler(t) PROVE Fresh'
  BY <1>3, <1>4, <1>5, <1>14, FreshStartRead DEF Handler, HandlerStep
<1> QED BY <1>6, <1>7, <1>8, <1>9, <1>10, <1>11, <1>12, <1>13, <1>14, FreshOpen DEF Next

(* A closed connection in the table is being notified, or is queued where   *)
(* update() has yet to come.                                                *)
Queueing(c, k) == \/ \E t \in Threads : Busy(t, c) /\ at[t].op = "closeNotify"
                  \/ \E i \in closeit..Len(m_CloseConnectCollect) :
                       m_CloseConnectCollect[i] = k
Leaves == \A c \in Conns, k \in Keys :
            m_ConnectCollect[k] = c /\ m_isClose[c] = TRUE => Queueing(c, k)

LEMMA LeavesKept ==
  ASSUME Life, Leaves, NEW t \in Threads, NEW X, at' = [at EXCEPT ![t] = X],
         at[t].op # "closeNotify", m_isClose' = m_isClose,
         \A c \in Conns, k \in Keys : m_ConnectCollect'[k] = c => m_ConnectCollect[k] = c,
         \A i \in closeit..Len(m_CloseConnectCollect) :
           /\ i \in closeit'..Len(m_CloseConnectCollect')
           /\ m_CloseConnectCollect'[i] = m_CloseConnectCollect[i]
  PROVE  Leaves'
<1> SUFFICES ASSUME NEW c \in Conns, NEW k \in Keys,
                    m_ConnectCollect'[k] = c, m_isClose'[c] = TRUE
             PROVE  Queueing(c, k)'
  BY DEF Leaves
<1>1. \A u \in Threads : at'[u] = IF u = t THEN X ELSE at[u]
  BY DEF Life, Typed
<1>2. Queueing(c, k)
  BY DEF Leaves
<1>3. CASE \E i \in closeit..Len(m_CloseConnectCollect) : m_CloseConnectCollect[i] = k
  BY <1>3 DEF Queueing
<1>4. CASE \E u \in Threads : Busy(u, c) /\ at[u].op = "closeNotify"
  BY <1>1, <1>4 DEF Queueing, Busy
<1> QED BY <1>2, <1>3, <1>4 DEF Queueing

(* One that leaves the queue alone too. *)
LEMMA LeavesQuiet ==
  ASSUME Life, Leaves, NEW t \in Threads, NEW X, at' = [at EXCEPT ![t] = X],
         at[t].op # "closeNotify",
         UNCHANGED <<m_isClose, m_ConnectCollect, m_CloseConnectCollect>>,
         closeit' = closeit
  PROVE  Leaves'
<1>1. \A c \in Conns, k \in Keys : m_ConnectCollect'[k] = c => m_ConnectCollect[k] = c
  OBVIOUS
<1>2. \A i \in closeit..Len(m_CloseConnectCollect) :
        /\ i \in closeit'..Len(m_CloseConnectCollect')
        /\ m_CloseConnectCollect'[i] = m_CloseConnectCollect[i]
  OBVIOUS
<1> QED BY <1>1, <1>2, LeavesKept

(* The flag is set by a thread that notifies next, the key being known.     *)
LEMMA LeavesSet ==
  ASSUME Life, Leaves, NEW t \in Threads, CloseSet(t), UNCHANGED serverVars
  PROVE  Leaves'
<1>0. /\ Typed /\ at[t].op = "closeSet" /\ at[t].op \in CloseOps
      /\ UNCHANGED <<m_ConnectCollect, closeit, m_CloseConnectCollect>>
  BY DEF Life, CloseSet, CloseOps, serverVars
<1>1. PICK d \in Conns : d = at[t].conn
  BY <1>0, Places
<1>2. m_isClose' = [m_isClose EXCEPT ![d] = TRUE]
  BY <1>1 DEF CloseSet
<1>3. PICK X : /\ at' = [at EXCEPT ![t] = X]
               /\ m_IP[d] # NoIP => X.op = "closeNotify" /\ X.conn = d
  <2> DEFINE o == IF m_IP[d] # NoIP THEN "closeNotify" ELSE "closeSocket"
  <2>1. [at[t] EXCEPT !.op = o] = Doing(o, d, at[t].next)
    BY <1>0, <1>1, Places
  <2>2. Goto(t, Doing(o, d, at[t].next))
    BY <1>1, <2>1 DEF CloseSet, Goto
  <2>3. m_IP[d] # NoIP => o = "closeNotify"
    OBVIOUS
  <2> HIDE DEF o
  <2> QED BY <2>2, <2>3, GoesOn
<1>4. \A u \in Threads : at'[u] = IF u = t THEN X ELSE at[u]
  BY <1>0, <1>3 DEF Typed
<1> SUFFICES ASSUME NEW c \in Conns, NEW k \in Keys,
                    m_ConnectCollect'[k] = c, m_isClose'[c] = TRUE
             PROVE  Queueing(c, k)'
  BY DEF Leaves
<1>5. CASE c # d
  <2>1. m_ConnectCollect[k] = c /\ m_isClose[c] = TRUE
    BY <1>0, <1>2, <1>5 DEF Typed, TypeOK
  <2>2. Queueing(c, k)
    BY <2>1 DEF Leaves
  <2>3. CASE \E i \in closeit..Len(m_CloseConnectCollect) : m_CloseConnectCollect[i] = k
    BY <1>0, <2>3 DEF Queueing
  <2>4. CASE \E u \in Threads : Busy(u, c) /\ at[u].op = "closeNotify"
    BY <1>0, <1>4, <2>4 DEF Queueing, Busy
  <2> QED BY <2>2, <2>3, <2>4 DEF Queueing
<1>6. CASE c = d
  <2>1. InTable(c) /\ LifeOf(c)
    BY <1>0, <1>6 DEF InTable, Life
  <2>2. Busy(t, c) /\ Closing(t, c)
    BY <1>0, <1>1, <1>6 DEF Busy, Closing
  <2>3. peer[c] # "none"
    BY <2>1 DEF LifeOf, Unmet
  <2>4. m_IP[c] # NoIP
    BY <2>1, <2>2, <2>3 DEF LifeOf, Closers
  <2>5. X.op = "closeNotify" /\ X.conn = c
    BY <1>3, <1>6, <2>4
  <2> QED BY <1>4, <2>5 DEF Queueing, Busy
<1> QED BY <1>5, <1>6

(* The notification puts the key under which it is in the table at the end  *)
(* of the queue.                                                            *)
LEMMA LeavesNotify ==
  ASSUME Life, Leaves, NEW t \in Threads, CloseNotify(t, closeLock = None),
         UNCHANGED serverVars
  PROVE  Leaves'
<1> DEFINE n == Len(m_CloseConnectCollect)
<1>a. Typed /\ m_CloseConnectCollect \in Seq(Addresses) /\ at \in [Threads -> {Idle} \cup Steps]
  BY DEF Life, Typed, TypeOK
<1>b. closeit \in 1..(n + 1) /\ n \in Nat
  BY DEF Life, Typed, TypeOK
<1>c. /\ at[t].op = "closeNotify" /\ at[t].op \in CloseOps
      /\ UNCHANGED <<m_ConnectCollect, m_isClose, closeit>>
  BY DEF CloseNotify, CloseOps, serverVars
<1>0. /\ Typed /\ at[t].op = "closeNotify" /\ at[t].op \in CloseOps
      /\ UNCHANGED <<m_ConnectCollect, m_isClose, closeit>>
      /\ m_CloseConnectCollect \in Seq(Addresses)
      /\ closeit \in 1..(n + 1) /\ n \in Nat
      /\ at \in [Threads -> {Idle} \cup Steps]
  BY <1>a, <1>b, <1>c, Zenon
<1>1. PICK d \in Conns : d = at[t].conn
  BY <1>0, Places
<1>2. LifeOf(d) /\ Closing(t, d) /\ Busy(t, d) /\ m_IP[d] # NoIP
  BY <1>0, <1>1 DEF Life, Closing, Busy, Typed
<1>3. m_IP[d] \in Addresses
  BY <1>2, KeysAre DEF LifeOf, Keyed
<1>4. m_CloseConnectCollect' = Append(m_CloseConnectCollect, m_IP[d])
  BY <1>1 DEF CloseNotify
<1>5. /\ Len(m_CloseConnectCollect') = n + 1 /\ m_CloseConnectCollect'[n + 1] = m_IP[d]
      /\ \A i \in 1..n : m_CloseConnectCollect'[i] = m_CloseConnectCollect[i]
  BY <1>0, <1>3, <1>4
<1>6. \A u \in Threads : u # t => at'[u] = at[u]
  BY <1>0 DEF CloseNotify, Goto
<1> SUFFICES ASSUME NEW c \in Conns, NEW k \in Keys,
                    m_ConnectCollect'[k] = c, m_isClose'[c] = TRUE
             PROVE  Queueing(c, k)'
  BY DEF Leaves
<1>7. Queueing(c, k) /\ m_ConnectCollect[k] = c
  BY <1>0 DEF Leaves
<1>8. CASE \E i \in closeit..n : m_CloseConnectCollect[i] = k
  <2>1. PICK i \in closeit..n : m_CloseConnectCollect[i] = k
    BY <1>8
  <2>2. i \in 1..n /\ i \in closeit'..Len(m_CloseConnectCollect')
    BY <1>0, <1>5
  <2> QED BY <1>5, <2>1, <2>2 DEF Queueing
<1>9. CASE \E u \in Threads : Busy(u, c) /\ at[u].op = "closeNotify" /\ u # t
  BY <1>6, <1>9 DEF Queueing, Busy
<1>10. CASE c = d
  <2>1. k = m_IP[d]
    BY <1>2, <1>7, <1>10 DEF LifeOf, Keyed
  <2>2. n + 1 \in closeit'..Len(m_CloseConnectCollect')
    BY <1>0, <1>5
  <2> QED BY <1>5, <2>1, <2>2 DEF Queueing
<1> QED BY <1>1, <1>7, <1>8, <1>9, <1>10 DEF Queueing, Busy

(* A connection enters the table open. *)
LEMMA LeavesInsert ==
  ASSUME Life, Fresh, Leaves, NEW t \in Threads, InsertConnect(t)
  PROVE  Leaves'
<1>0. /\ Typed /\ at[t].op = "insert"
      /\ UNCHANGED <<m_isClose, closeit, m_CloseConnectCollect>>
  BY DEF Life, InsertConnect, connVars
<1>1. PICK d \in Conns : d = at[t].conn
  BY <1>0, Places
<1>2. m_isClose[d] = FALSE
  BY <1>0, <1>1 DEF Fresh, FreshOf, Inserting, Busy
<1>3. \A u \in Threads : u # t => at'[u] = at[u]
  BY <1>0 DEF InsertConnect, Goto, Typed
<1> SUFFICES ASSUME NEW c \in Conns, NEW k \in Keys,
                    m_ConnectCollect'[k] = c, m_isClose'[c] = TRUE
             PROVE  Queueing(c, k)'
  BY DEF Leaves
<1>4. m_ConnectCollect[k] = c
  <2>1. c # d
    BY <1>0, <1>2
  <2> QED BY <1>0, <1>1, <2>1 DEF InsertConnect, Typed, TypeOK
<1>5. Queueing(c, k)
  BY <1>0, <1>4 DEF Leaves
<1>6. CASE \E i \in closeit..Len(m_CloseConnectCollect) : m_CloseConnectCollect[i] = k
  BY <1>0, <1>6 DEF Queueing
<1>7. CASE \E u \in Threads : Busy(u, c) /\ at[u].op = "closeNotify"
  BY <1>0, <1>3, <1>7 DEF Queueing, Busy
<1> QED BY <1>5, <1>6, <1>7 DEF Queueing

(* update() passes a key once its connection is out of the table, and       *)
(* clears the queue when it has passed them all.                            *)
LEMMA LeavesUpdate ==
  ASSUME Life, Leaves, NEW t \in Threads, update(t)
  PROVE  Leaves'
<1> DEFINE n == Len(m_CloseConnectCollect)
<1>0. /\ Typed /\ n \in Nat /\ closeit \in 1..(n + 1)
      /\ m_ConnectCollect \in [Keys -> Conns \cup {None}]
      /\ at \in [Threads -> {Idle} \cup Steps]
  <2>1. Typed
    BY DEF Life
  <2>2. n \in Nat /\ closeit \in 1..(n + 1)
    BY <2>1 DEF Typed, TypeOK
  <2>3. m_ConnectCollect \in [Keys -> Conns \cup {None}]
    BY <2>1 DEF Typed, TypeOK
  <2>4. at \in [Threads -> {Idle} \cup Steps]
    BY <2>1 DEF Typed, TypeOK
  <2> QED BY <2>1, <2>2, <2>3, <2>4
<1>1. PICK X : at' = [at EXCEPT ![t] = X]
  BY DEF update, UpdatePacks, UpdateNew, UpdateCloseLock, UpdateTellClose,
     UpdateErase, UpdateCloseUnlock, Goto
<1>2. at[t].op # "closeNotify" /\ m_isClose' = m_isClose
  BY DoingIs DEF update, UpdatePacks, UpdateNew, UpdateCloseLock, UpdateTellClose,
     UpdateErase, UpdateCloseUnlock, connVars
<1>3. CASE UpdatePacks(t) \/ UpdateNew(t) \/ UpdateTellClose(t)
  BY <1>1, <1>2, <1>3, LeavesQuiet DEF UpdatePacks, UpdateNew, UpdateTellClose, connVars
<1>4. CASE UpdateCloseLock(t)
  <2>1. closeit = 1
    BY <1>0, <1>4 DEF Typed, UpdateCloseLock, UpdateOps
  <2> QED BY <1>1, <1>2, <1>4, <2>1, LeavesQuiet DEF UpdateCloseLock, connVars
<1>5. CASE UpdateErase(t)
  <2>1. /\ m_CloseConnectCollect' = m_CloseConnectCollect /\ closeit' = closeit + 1
        /\ m_ConnectCollect' =
             [m_ConnectCollect EXCEPT ![m_CloseConnectCollect[closeit]] = None]
    BY <1>5 DEF UpdateErase, connVars
  <2>2. \A u \in Threads : u # t => at'[u] = at[u]
    BY <1>0, <1>1
  <2> SUFFICES ASSUME NEW c \in Conns, NEW k \in Keys,
                      m_ConnectCollect'[k] = c, m_isClose'[c] = TRUE
               PROVE  Queueing(c, k)'
    BY DEF Leaves
  <2>3. m_ConnectCollect[k] = c /\ m_CloseConnectCollect[closeit] # k
    BY <1>0, <2>1, Constants
  <2>4. Queueing(c, k)
    BY <1>2, <2>3 DEF Leaves
  <2>5. CASE \E i \in closeit..n : m_CloseConnectCollect[i] = k
    <3>1. PICK i \in closeit..n : m_CloseConnectCollect[i] = k
      BY <2>5
    <3>2. i # closeit
      BY <2>3, <3>1
    <3>3. i \in (closeit + 1)..n
      BY <1>0, <3>2
    <3> QED BY <2>1, <3>1, <3>3 DEF Queueing
  <2>6. CASE \E u \in Threads : Busy(u, c) /\ at[u].op = "closeNotify"
    BY <1>2, <2>2, <2>6 DEF Queueing, Busy
  <2> QED BY <2>4, <2>5, <2>6 DEF Queueing
<1>6. CASE UpdateCloseUnlock(t)
  <2>1. \A i : i \notin closeit..n
    BY <1>0, <1>6 DEF UpdateCloseUnlock
  <2>2. \A c \in Conns, k \in Keys : m_ConnectCollect'[k] = c => m_ConnectCollect[k] = c
    BY <1>6 DEF UpdateCloseUnlock
  <2> QED BY <1>1, <1>2, <2>1, <2>2, LeavesKept
<1> QED BY <1>3, <1>4, <1>5, <1>6 DEF update

LEMMA LeavesStep == Life /\ Fresh /\ Leaves /\ [Next]_vars => Leaves'
<1> SUFFICES ASSUME Life, Fresh, Leaves, [Next]_vars PROVE Leaves'
  OBVIOUS
<1>1. ASSUME UNCHANGED <<at, m_isClose, m_ConnectCollect, m_CloseConnectCollect, closeit>>
      PROVE  Leaves'
  BY <1>1 DEF Leaves, Queueing, Busy
<1>2. ASSUME NEW t \in Threads, Handler(t) PROVE Leaves'
  <2>1. CASE HandlerStep(t, closeLock = None) /\ UNCHANGED serverVars
    <3>1. CASE StartRead(t) \/ CloseCheck(t) \/ CloseSocket(t)
      <4>1. \E X : at' = [at EXCEPT ![t] = X]
        BY <3>1 DEF StartRead, CloseCheck, CloseSocket, Return, Goto
      <4>2. /\ at[t].op # "closeNotify"
            /\ UNCHANGED <<m_isClose, m_ConnectCollect, m_CloseConnectCollect>>
            /\ closeit' = closeit
        BY <2>1, <3>1 DEF StartRead, CloseCheck, CloseSocket, connVars, serverVars
      <4> QED BY <4>1, <4>2, LeavesQuiet
    <3> QED BY <2>1, <3>1, LeavesSet, LeavesNotify DEF HandlerStep
  <2>2. CASE InsertConnect(t)
    BY <2>2, LeavesInsert
  <2>3. CASE AnnounceConnect(t) \/ WaitConnect(t)
    <3>1. \E X : at' = [at EXCEPT ![t] = X]
      BY <2>3 DEF AnnounceConnect, WaitConnect, Goto
    <3>2. /\ at[t].op # "closeNotify"
          /\ UNCHANGED <<m_isClose, m_ConnectCollect, m_CloseConnectCollect>>
          /\ closeit' = closeit
      BY <2>3 DEF AnnounceConnect, WaitConnect, connVars, serverVars
    <3> QED BY <3>1, <3>2, LeavesQuiet
  <2> QED BY <1>2, <2>1, <2>2, <2>3 DEF Handler
<1>3. ASSUME NEW t \in Threads, NEW d \in Conns,
             \/ connect(t, d) \/ connectThrows(t, d) \/ ReadCompletes(t, d)
             \/ handleConnect(t, d) \/ handleConnectFailed(t, d)
      PROVE  Leaves'
  <2>1. at' = at \/ \E X : at' = [at EXCEPT ![t] = X]
    BY <1>3 DEF connect, connectThrows, handleConnect, handleConnectFailed, ReadCompletes,
       HandRead, HandReadHead, HandReadBody, HandReadError, Goto
  <2>2. /\ at[t].op # "closeNotify"
        /\ UNCHANGED <<m_isClose, m_ConnectCollect, m_CloseConnectCollect>>
        /\ closeit' = closeit
    BY <1>3, DoingIs DEF connect, connectThrows, handleConnect, handleConnectFailed,
       ReadCompletes, HandRead, HandReadHead, HandReadBody, HandReadError, serverVars
  <2> QED BY <1>1, <2>1, <2>2, LeavesQuiet
<1>4. ASSUME NEW u \in Users,
             \/ getConnectByIP(u) \/ Lookup(u) \/ CloseConnectUnlock(u)
             \/ \E k \in Numeric : closeConnect(u, k)
      PROVE  Leaves'
  <2>1. \E X : at' = [at EXCEPT ![u] = X]
    BY <1>4 DEF getConnectByIP, Lookup, CloseConnectUnlock, closeConnect, Goto
  <2>2. /\ at[u].op # "closeNotify" /\ u \in Threads
        /\ UNCHANGED <<m_isClose, m_ConnectCollect, m_CloseConnectCollect>>
        /\ closeit' = closeit
    BY <1>4, DoingIs, Constants DEF getConnectByIP, Lookup, CloseConnectUnlock,
       closeConnect, connVars, serverVars
  <2> QED BY <2>1, <2>2, LeavesQuiet
<1>5. ASSUME NEW d \in Conns, PeerGone(d) \/ ReadArrives(d), UNCHANGED serverVars
      PROVE  Leaves'
  BY <1>1, <1>5 DEF PeerGone, ReadArrives, serverVars
<1>6. CASE UNCHANGED vars
  BY <1>1, <1>6 DEF vars, connVars, serverVars
<1> QED BY <1>2, <1>3, <1>4, <1>5, <1>6, LeavesUpdate DEF Next

(* With one thread in the pool a closed connection still in the table is on *)
(* its way out: its closing is being notified, or queued where update() has *)
(* yet to come.  (With more, a read may fail between its start and the      *)
(* insertion of the key, which then stays for good.)                        *)
THEOREM ServerClosedLeavesTable == OneIoThread /\ Spec => []ClosedLeavesTable
<1>1. Init => Fresh /\ Leaves
  <2> SUFFICES ASSUME Init PROVE Fresh /\ Leaves
    OBVIOUS
  <2>1. \A t \in Threads : at[t].op = "idle"
    BY DEF Init, ConnInit, Idle
  <2>2. \A c \in Conns : m_isClose[c] = FALSE
    BY DEF Init, ConnInit
  <2> QED BY <2>1, <2>2 DEF Fresh, FreshOf, Opening, Inserting, Busy, Leaves
<1>2. Life /\ Leaves => ClosedLeavesTable
  <2> SUFFICES ASSUME Life, Leaves, NEW k \in Keys, NEW c \in Conns,
                      c = m_ConnectCollect[k], m_isClose[c]
               PROVE  \/ Doers(c, {"closeNotify"}) # {}
                      \/ \E i \in closeit..Len(m_CloseConnectCollect) :
                           m_CloseConnectCollect[i] = k
    BY DEF ClosedLeavesTable, Life, Typed, TypeOK
  <2>1. m_isClose[c] = TRUE
    BY DEF Life, Typed, TypeOK
  <2>2. Queueing(c, k)
    BY <2>1 DEF Leaves
  <2> QED BY <2>2 DEF Queueing, Doers, Busy
<1>3. OneIoThread => OneIoThread'
  BY DEF OneIoThread
<1> QED BY <1>1, <1>2, <1>3, LifeInit, LifeStep, FreshStep, LeavesStep, PTL DEF Spec
-----------------------------------------------------------------------------
(* The announcements of a key, those queued included.                       *)
Announced(k) == Times("connect", k) + Len(Picked(m_NewConnectCollect, {k}))
AnnouncedOnce ==
  \A c \in Conns : \A k \in KeysOf(c) :
    /\ Announced(k) \in {0, 1}
    /\ Unannounced(c) \/ k # m_IP[c] => Announced(k) = 0

(* Steps that announce nothing. *)
LEMMA AnnouncedKept ==
  ASSUME SameKeys, AnnouncedOnce, \A c \in Conns : Unannounced(c)' => Unannounced(c),
         \A k \in Keys : Announced(k)' = Announced(k)
  PROVE  AnnouncedOnce'
<1> SUFFICES ASSUME NEW c \in Conns, NEW k \in KeysOf(c)
             PROVE  /\ Announced(k)' \in {0, 1}
                    /\ Unannounced(c)' \/ k # m_IP'[c] => Announced(k)' = 0
  BY DEF AnnouncedOnce, KeysOf
<1>1. Announced(k)' = Announced(k)
  BY KeysAre
<1>2. Announced(k) \in {0, 1} /\ (Unannounced(c) \/ k # m_IP[c] => Announced(k) = 0)
  BY DEF AnnouncedOnce
<1>3. Unannounced(c)' => Unannounced(c)
  OBVIOUS
<1>4. m_IP'[c] # m_IP[c] => Unannounced(c)
  BY DEF SameKeys
<1> QED BY <1>1, <1>2, <1>3, <1>4

(* Those that begin no handleConnect either.                                *)
LEMMA AnnouncedMove ==
  ASSUME Life, SameKeys, AnnouncedOnce, NEW t \in Threads, NEW X, at' = [at EXCEPT ![t] = X],
         \A c \in Conns :
           /\ X.op \in {"startRead", "insert", "announce"} /\ X.conn = c
                => Unannounced(c) \/ (X.op = "startRead" /\ X.next # "insert")
           /\ peer'[c] = "none" => peer[c] = "none",
         \A k \in Keys : Announced(k)' = Announced(k)
  PROVE  AnnouncedOnce'
<1> SUFFICES ASSUME NEW c \in Conns, Unannounced(c)' PROVE Unannounced(c)
  BY AnnouncedKept
<1>1. \A u \in Threads : at'[u] = IF u = t THEN X ELSE at[u]
  BY DEF Life, Typed
<1>2. CASE peer'[c] = "none"
  BY <1>2 DEF Unannounced
<1>3. CASE \E u \in Threads : (Opening(u, c) \/ Entering(u, c))'
  <2>1. PICK u \in Threads : (Opening(u, c) \/ Entering(u, c))'
    BY <1>3
  <2>2. CASE u = t
    <3>1. /\ X.op \in {"startRead", "insert", "announce"} /\ X.conn = c
          /\ X.op = "startRead" => X.next = "insert"
      BY <1>1, <2>1, <2>2 DEF Opening, Entering, Busy
    <3> QED BY <3>1
  <2>3. CASE u # t
    BY <1>1, <2>1, <2>3 DEF Opening, Entering, Busy, Unannounced
  <2> QED BY <2>2, <2>3
<1> QED BY <1>2, <1>3 DEF Unannounced

(* One that leaves the reports and the queue of new connections alone.      *)
LEMMA AnnouncedQuiet ==
  ASSUME Life, SameKeys, AnnouncedOnce, NEW t \in Threads, NEW X, at' = [at EXCEPT ![t] = X],
         \A c \in Conns :
           X.op \in {"startRead", "insert", "announce"} /\ X.conn = c
             => Unannounced(c) \/ (X.op = "startRead" /\ X.next # "insert"),
         \A c \in Conns : peer'[c] = "none" => peer[c] = "none",
         told' = told, m_NewConnectCollect' = m_NewConnectCollect
  PROVE  AnnouncedOnce'
<1>1. \A k \in Keys : Announced(k)' = Announced(k)
  BY DEF Announced, Times
<1> QED BY <1>1, AnnouncedMove

(* The announcement itself: nobody else is opening the connection.          *)
LEMMA AnnouncedAnnounce ==
  ASSUME DistinctAddresses, Life, AnnouncedOnce, NEW t \in Threads, AnnounceConnect(t)
  PROVE  AnnouncedOnce'
<1>0. /\ Typed /\ at[t].op = "announce" /\ told' = told /\ peer' = peer /\ m_IP' = m_IP
      /\ m_NewConnectCollect \in Seq(Keys)
  BY DEF Life, Typed, TypeOK, AnnounceConnect, connVars
<1>1. PICK d \in Conns : d = at[t].conn
  BY <1>0, Places
<1>2. PICK X : at' = [at EXCEPT ![t] = X] /\ X.op = "waitConnect"
  <2>1. Goto(t, Doing("waitConnect", d, "idle"))
    BY <1>1 DEF AnnounceConnect
  <2> QED BY <2>1, GoesOn
<1>3. \A u \in Threads : at'[u] = IF u = t THEN X ELSE at[u]
  BY <1>0, <1>2 DEF Typed
<1>4. /\ LifeOf(d) /\ Busy(t, d) /\ Entering(t, d)
      /\ m_IP[d] \in KeysOf(d) \cup {NoIP} /\ m_IP[d] \in Keys
      /\ m_NewConnectCollect' = Append(m_NewConnectCollect, m_IP[d])
  BY <1>0, <1>1, Constants
     DEF Life, LifeOf, Keyed, Busy, Entering, AnnounceConnect, Typed, TypeOK
<1>5. ASSUME NEW k \in Keys
      PROVE  \/ Announced(k)' = Announced(k)
             \/ k = m_IP[d] /\ Announced(k)' = Announced(k) + 1
  <2> DEFINE P == Picked(m_NewConnectCollect, {k})
  <2>1. Picked(m_NewConnectCollect', {k}) =
          IF m_IP[d] = k THEN Append(P, m_IP[d]) ELSE P
    <3>1. m_NewConnectCollect \in Seq(Keys) /\ m_IP[d] \in Keys
      BY <1>0, <1>4
    <3>2. \A s \in Seq(Keys), e \in Keys :
            Picked(Append(s, e), {k}) =
              IF e \in {k} THEN Append(Picked(s, {k}), e) ELSE Picked(s, {k})
      BY PickedAppend
    <3>3. Picked(Append(m_NewConnectCollect, m_IP[d]), {k}) =
            IF m_IP[d] \in {k} THEN Append(P, m_IP[d]) ELSE P
      BY <3>1, <3>2, Zenon
    <3> QED BY <1>4, <3>3
  <2>2. P \in Seq(Keys)
    <3>1. P \in Seq(Keys \cap {k})
      BY <1>0, PickedType
    <3> QED BY <3>1
  <2>3. Times("connect", k) \in Nat /\ Times("connect", k)' = Times("connect", k)
    BY <1>0, TimesType DEF Times
  <2>4. Announced(k) = Times("connect", k) + Len(P)
        /\ Announced(k)' = Times("connect", k)' + Len(Picked(m_NewConnectCollect', {k}))
    BY DEF Announced
  <2> HIDE DEF P
  <2>6. Len(P) \in Nat /\ Len(Append(P, m_IP[d])) = Len(P) + 1
    BY <1>4, <2>2
  <2> QED BY <2>1, <2>3, <2>4, <2>6
<1> SUFFICES ASSUME NEW c \in Conns, NEW k \in KeysOf(c)
             PROVE  /\ Announced(k)' \in {0, 1}
                    /\ Unannounced(c)' \/ k # m_IP'[c] => Announced(k)' = 0
  BY DEF AnnouncedOnce, KeysOf
<1>6. /\ Announced(k) \in {0, 1}
      /\ Unannounced(c) \/ k # m_IP[c] => Announced(k) = 0
      /\ k \in Keys /\ k # NoIP
  BY KeysAre DEF AnnouncedOnce
<1>7. \A u \in Threads : (Opening(u, c) \/ Entering(u, c))' =>
        u # t /\ (Opening(u, c) \/ Entering(u, c))
  BY <1>2, <1>3 DEF Opening, Entering, Busy
<1>8. Unannounced(c)' => Unannounced(c)
  BY <1>0, <1>7 DEF Unannounced
<1>9. CASE k # m_IP[d]
  BY <1>0, <1>5, <1>6, <1>8, <1>9
<1>10. CASE k = m_IP[d]
  <2>0. c = d
    BY <1>4, <1>6, <1>10 DEF DistinctAddresses
  <2>1. Announced(k) = 0
    BY <1>4, <1>6, <2>0 DEF Unannounced
  <2>2. ~Unannounced(c)'
    <3>1. peer[c] # "none"
      BY <1>0, <1>4, <2>0 DEF LifeOf, Unmet, CloseOps
    <3>2. \A u \in Threads : ~Opening(u, c) \/ u = t
      BY <1>4, <2>0 DEF LifeOf, Opened
    <3>3. \A u \in Threads : ~Entering(u, c) \/ u = t
      BY <1>4, <2>0 DEF LifeOf, Entered
    <3> QED BY <1>0, <1>7, <3>1, <3>2, <3>3 DEF Unannounced
  <2>3. Announced(k)' \in {0, 1} /\ m_IP'[c] = k
    BY <1>0, <1>5, <1>6, <1>10, <2>0, <2>1
  <2> QED BY <2>2, <2>3
<1> QED BY <1>9, <1>10

(* update() tells the listeners what was queued and empties the queue.      *)
LEMMA AnnouncedTold ==
  ASSUME Typed, NEW t \in Threads, update(t), NEW k \in Keys
  PROVE  Announced(k)' = Announced(k)
<1> DEFINE q == m_NewConnectCollect
<1>0. /\ told \in [Keys -> Seq({"connect", "close"})] /\ q \in Seq(Keys)
  BY DEF Typed, TypeOK
<1>1. CASE UpdateNew(t)
  <2>1. told' = Told("connect", q) /\ m_NewConnectCollect' = <<>>
    BY <1>1 DEF UpdateNew
  <2>2. Picked(<<>>, {k}) = <<>> /\ Len(<<>>) = 0
    BY PickedEmpty
  <2>3. Announced(k)' = Times("connect", k)' + Len(Picked(m_NewConnectCollect', {k}))
        /\ Announced(k) = Times("connect", k) + Len(Picked(q, {k}))
    BY DEF Announced
  <2> HIDE DEF q
  <2>4. /\ Times("connect", k) \in Nat /\ Len(Picked(q, {k})) \in Nat
        /\ Times("connect", k)' = Times("connect", k) + Len(Picked(q, {k}))
    BY <1>0, <2>1, TimesTold
  <2> QED BY <2>1, <2>2, <2>3, <2>4
<1>2. CASE UpdateTellClose(t)
  <2> DEFINE x == m_CloseConnectCollect[closeit]
             r == <<x>>
  <2>1. told' = Told("close", r) /\ UNCHANGED m_NewConnectCollect
    BY <1>2 DEF UpdateTellClose
  <2>2. x \in Keys
    BY <1>2 DEF Typed, TypeOK, UpdateTellClose, Keys
  <2>3. r \in Seq(Keys)
    BY <2>2, <1>0, PickedOne
  <2> HIDE DEF r, x
  <2>4. Times("connect", k) \in Nat /\ Times("connect", k)' = Times("connect", k) + 0
    BY <1>0, <2>1, <2>3, TimesTold
  <2>5. Times("connect", k)' = Times("connect", k)
    BY <2>4
  <2> QED BY <2>1, <2>5 DEF Announced
<1>3. CASE ~UpdateNew(t) /\ ~UpdateTellClose(t)
  <2>1. told' = told /\ m_NewConnectCollect' = m_NewConnectCollect
    BY <1>3 DEF update, UpdatePacks, UpdateCloseLock, UpdateErase, UpdateCloseUnlock
  <2> QED BY <2>1 DEF Announced, Times
<1> QED BY <1>1, <1>2, <1>3

LEMMA AnnouncedStep ==
  DistinctAddresses /\ Life /\ SameKeys /\ AnnouncedOnce /\ [Next]_vars => AnnouncedOnce'
<1> SUFFICES ASSUME DistinctAddresses, Life, SameKeys, AnnouncedOnce, [Next]_vars
             PROVE  AnnouncedOnce'
  OBVIOUS
<1>0. Typed /\ \A c \in Conns : LifeOf(c)
  BY DEF Life
<1>1. ASSUME UNCHANGED <<at, told, m_NewConnectCollect>>,
             \A c \in Conns : peer'[c] = "none" => peer[c] = "none"
      PROVE  AnnouncedOnce'
  <2>1. \A c \in Conns : Unannounced(c)' => Unannounced(c)
    BY <1>1 DEF Unannounced, Opening, Entering, Busy
  <2>2. \A k \in Keys : Announced(k)' = Announced(k)
    BY <1>1 DEF Announced, Times
  <2> QED BY <2>1, <2>2, AnnouncedKept
<1>2. ASSUME NEW t \in Threads, NEW X, at' = [at EXCEPT ![t] = X],
             \/ X.op \notin {"startRead", "insert", "announce"}
             \/ \E c \in Conns : Unannounced(c) /\ X.conn = c
             \/ X.op = "startRead" /\ X.next # "insert",
             \A c \in Conns : peer'[c] = "none" => peer[c] = "none",
             told' = told, m_NewConnectCollect' = m_NewConnectCollect
      PROVE  AnnouncedOnce'
  <2>1. \A c \in Conns :
           X.op \in {"startRead", "insert", "announce"} /\ X.conn = c
             => Unannounced(c) \/ (X.op = "startRead" /\ X.next # "insert")
    BY <1>2
  <2> QED BY <1>2, <2>1, AnnouncedQuiet
<1>3. ASSUME NEW t \in Threads, HandlerStep(t, closeLock = None), UNCHANGED serverVars
      PROVE  AnnouncedOnce'
  <2>0. /\ told' = told /\ m_NewConnectCollect' = m_NewConnectCollect /\ peer' = peer
        /\ at[t].op = "startRead" \/ at[t].op \in CloseOps
    BY <1>3 DEF HandlerStep, StartRead, CloseCheck, CloseSet, CloseNotify, CloseSocket,
       CloseOps, connVars, serverVars
  <2>1. PICK d \in Conns : d = at[t].conn
    BY <1>0, <2>0, Places
  <2>2. ASSUME Return(t) PROVE AnnouncedOnce'
    <3>1. PICK X \in {Idle} \cup Steps :
            /\ at' = [at EXCEPT ![t] = X] /\ X.op = at[t].next
            /\ X.op # "idle" => X.conn = d
      BY <1>0, <2>0, <2>1, <2>2, Returns
    <3>2. CASE at[t].next = "insert"
      <4>1. at[t].op = "startRead"
        BY <1>0, <2>0, <2>2, <3>2, Returns
      <4>2. Unannounced(d) /\ X.conn = d
        BY <2>1, <3>1, <3>2, <4>1 DEF Unannounced, Opening, Busy
      <4> QED BY <1>2, <2>0, <3>1, <4>2
    <3>3. CASE at[t].next # "insert"
      <4>1. at[t].next \in {"idle", "insert", "waitConnect", "unlock"}
        BY <1>0, <2>0, <2>2, Returns
      <4>2. X.op \notin {"startRead", "insert", "announce"}
        BY <3>1, <3>3, <4>1
      <4> QED BY <1>2, <2>0, <3>1, <4>2
    <3> QED BY <3>2, <3>3
  <2>3. ASSUME NEW o \in CloseOps, Goto(t, [at[t] EXCEPT !.op = o]), at[t].op \in CloseOps
        PROVE  AnnouncedOnce'
    <3>1. Goto(t, Doing(o, d, at[t].next))
      BY <1>0, <2>1, <2>3, Places DEF Goto
    <3>2. PICK X : at' = [at EXCEPT ![t] = X] /\ X.op = o
      BY <3>1, GoesOn
    <3>3. X.op \notin {"startRead", "insert", "announce"}
      BY <3>2 DEF CloseOps
    <3> QED BY <1>2, <2>0, <3>2, <3>3
  <2> QED BY <1>3, <2>2, <2>3
          DEF HandlerStep, StartRead, CloseCheck, CloseSet, CloseNotify, CloseSocket, CloseOps
<1>4. ASSUME NEW t \in Threads, InsertConnect(t) \/ WaitConnect(t) PROVE AnnouncedOnce'
  <2>1. /\ told' = told /\ m_NewConnectCollect' = m_NewConnectCollect /\ peer' = peer
    BY <1>4 DEF InsertConnect, WaitConnect, connVars, serverVars
  <2>2. CASE InsertConnect(t)
    <3>1. PICK d \in Conns : d = at[t].conn
      BY <1>0, <2>2, Places DEF InsertConnect
    <3>2. Goto(t, Doing("announce", d, "idle")) /\ at[t].op = "insert"
      BY <2>2, <3>1 DEF InsertConnect
    <3>3. PICK X : at' = [at EXCEPT ![t] = X] /\ X.op = "announce" /\ X.conn = d
      BY <3>2, GoesOn
    <3>4. Unannounced(d) /\ X.conn = d
      BY <3>1, <3>2, <3>3 DEF Unannounced, Entering, Busy
    <3> QED BY <1>2, <2>1, <3>3, <3>4
  <2>3. CASE WaitConnect(t)
    <3>1. PICK X : at' = [at EXCEPT ![t] = X] /\ X.op = "idle"
      BY <2>3, DoingIs DEF WaitConnect, Goto
    <3> QED BY <1>2, <2>1, <3>1
  <2> QED BY <1>4, <2>2, <2>3
<1>5. ASSUME NEW t \in Threads, update(t) PROVE AnnouncedOnce'
  <2>1. PICK X : at' = [at EXCEPT ![t] = X] /\ X.op \notin {"startRead", "insert", "announce"}
    BY <1>5, DoingIs DEF update, UpdatePacks, UpdateNew, UpdateCloseLock, UpdateTellClose,
       UpdateErase, UpdateCloseUnlock, Goto
  <2>2. peer' = peer
    BY <1>5 DEF update, UpdatePacks, UpdateNew, UpdateCloseLock, UpdateTellClose,
       UpdateErase, UpdateCloseUnlock, connVars
  <2>3. \A k \in Keys : Announced(k)' = Announced(k)
    BY <1>0, <1>5, AnnouncedTold
  <2> QED BY <2>1, <2>2, <2>3, AnnouncedMove
<1>6. ASSUME NEW t \in Threads, NEW d \in Conns,
             connect(t, d) \/ connectThrows(t, d)
      PROVE  AnnouncedOnce'
  BY <1>1, <1>6 DEF connect, connectThrows, serverVars
<1>7. ASSUME NEW t \in Threads, NEW d \in Conns, handleConnect(t, d) PROVE AnnouncedOnce'
  <2>1. Goto(t, Doing("startRead", d, "insert"))
    BY <1>7 DEF handleConnect
  <2>2. PICK X : at' = [at EXCEPT ![t] = X] /\ X.op = "startRead" /\ X.conn = d
    BY <2>1, GoesOn
  <2>3. peer[d] = "none"
    BY <1>0, <1>7 DEF handleConnect, LifeOf, Unborn
  <2>4. Unannounced(d) /\ X.conn = d
    BY <2>2, <2>3 DEF Unannounced
  <2>5. /\ told' = told /\ m_NewConnectCollect' = m_NewConnectCollect
        /\ \A c \in Conns : peer'[c] = "none" => peer[c] = "none"
    BY <1>0, <1>7 DEF handleConnect, serverVars, Typed, TypeOK
  <2> QED BY <1>2, <2>2, <2>4, <2>5
<1>8. ASSUME NEW t \in Threads, NEW d \in Conns,
             handleConnectFailed(t, d) \/ ReadCompletes(t, d)
      PROVE  AnnouncedOnce'
  <2>1. \/ at' = at
        \/ \E X : /\ at' = [at EXCEPT ![t] = X]
                  /\ \/ X.op \notin {"startRead", "insert", "announce"}
                     \/ X.op = "startRead" /\ X.next # "insert"
    BY <1>8, DoingIs DEF handleConnectFailed, ReadCompletes, HandRead, HandReadHead,
       HandReadBody, HandReadError, Goto
  <2>2. told' = told /\ m_NewConnectCollect' = m_NewConnectCollect /\ peer' = peer
    BY <1>8 DEF handleConnectFailed, ReadCompletes, HandRead, HandReadHead,
       HandReadBody, HandReadError, serverVars
  <2> QED BY <1>1, <1>2, <2>1, <2>2
<1>9. ASSUME NEW u \in Users,
             \/ getConnectByIP(u) \/ Lookup(u) \/ CloseConnectUnlock(u)
             \/ \E k \in Numeric : closeConnect(u, k)
      PROVE  AnnouncedOnce'
  <2>1. PICK X : at' = [at EXCEPT ![u] = X] /\ X.op \notin {"startRead", "insert", "announce"}
    BY <1>9, DoingIs DEF getConnectByIP, Lookup, CloseConnectUnlock, closeConnect, Goto
  <2>2. /\ told' = told /\ m_NewConnectCollect' = m_NewConnectCollect /\ peer' = peer
        /\ u \in Threads
    BY <1>9, Constants DEF getConnectByIP, Lookup, CloseConnectUnlock, closeConnect,
       connVars, serverVars
  <2> QED BY <1>2, <2>1, <2>2
<1>10. ASSUME NEW d \in Conns, PeerGone(d) \/ ReadArrives(d), UNCHANGED serverVars
       PROVE  AnnouncedOnce'
  <2>0. peer \in [Conns -> {"none", "up", "eof", "reset"}]
    BY <1>0 DEF Typed, TypeOK
  <2>1. \A c \in Conns : peer'[c] = "none" => peer[c] = "none"
    <3>1. CASE PeerGone(d)
      <4>1. PICK how \in Endings[d] : peer' = [peer EXCEPT ![d] = how]
        BY <3>1 DEF PeerGone
      <4> QED BY <2>0, <4>1, EndingsAre
    <3>2. CASE ReadArrives(d)
      BY <3>2 DEF ReadArrives
    <3> QED BY <1>10, <3>1, <3>2
  <2> QED BY <1>1, <1>10, <2>1 DEF PeerGone, ReadArrives, serverVars
<1>11. CASE UNCHANGED vars
  BY <1>1, <1>11 DEF vars, connVars, serverVars
<1>12. ASSUME NEW t \in Threads, Handler(t) PROVE AnnouncedOnce'
  BY <1>3, <1>4, <1>12, AnnouncedAnnounce DEF Handler
<1> QED BY <1>5, <1>6, <1>7, <1>8, <1>9, <1>10, <1>11, <1>12 DEF Next

(* Listeners hear of a connection at most once, and of its end at most once *)
(* and only when it was closed, and of both under the key it then keeps,    *)
(* when nobody calls closeConnect().                                        *)
THEOREM ServerToldOnce == DistinctAddresses /\ Users = {} /\ Spec => []ToldOnce
<1>1. Init => AnnouncedOnce
  <2> SUFFICES ASSUME Init, NEW c \in Conns, NEW k \in KeysOf(c) PROVE Announced(k) = 0
    BY DEF AnnouncedOnce
  <2>1. told[k] = <<>> /\ m_NewConnectCollect = <<>>
    BY KeysAre DEF Init
  <2> QED BY <2>1, PickedEmpty DEF Announced, Times
<1>2. Users = {} => IsFiniteSet(Users) /\ Cardinality(Users) = 0
  BY FS_EmptySet
<1>3. Users = {} /\ Life /\ Budget /\ AnnouncedOnce => ToldOnce
  <2> SUFFICES ASSUME Users = {}, Life, Budget, AnnouncedOnce,
                      NEW c \in Conns, NEW k \in KeysOf(c)
               PROVE  /\ Times("connect", k) <= 1
                      /\ Times("close", k) <= 1
                      /\ Times("close", k) = 1 => m_isClose[c]
                      /\ Times("connect", k) + Times("close", k) > 0 => k = m_IP[c]
    BY DEF ToldOnce
  <2>1. /\ BudgetOf(c, k) /\ Announced(k) \in {0, 1}
        /\ k # m_IP[c] => Announced(k) = 0
    BY DEF Budget, AnnouncedOnce
  <2>2. /\ Times("close", k) \in Nat /\ Times("connect", k) \in Nat
        /\ Cardinality(Queued(k)) \in Nat
    BY QueuedFinite, TimesType, KeysAre DEF Life
  <2>3. PICK w : InClose(c) \subseteq Users \cup {w}
    BY CloserIs DEF FewClosers
  <2>4. Cardinality(InClose(c)) \in Nat
    BY <1>2, <2>3, ClosersFew
  <2>5. Len(Picked(m_NewConnectCollect, {k})) \in Nat
    <3>1. m_NewConnectCollect \in Seq(Keys)
      BY DEF Life, Typed, TypeOK
    <3>2. Picked(m_NewConnectCollect, {k}) \in Seq(Keys \cap {k})
      BY <3>1, PickedType
    <3> QED BY <3>2
  <2>6. Times("connect", k) <= 1
    BY <2>1, <2>2, <2>5 DEF Announced
  <2>7. /\ Times("close", k) <= 1
        /\ Times("close", k) = 1 => m_isClose[c] = TRUE
    BY <1>2, <2>1, <2>2, <2>4 DEF BudgetOf, Reported
  <2>8. Times("connect", k) + Times("close", k) > 0 => k = m_IP[c]
    BY <2>1, <2>2, <2>5 DEF Announced, BudgetOf, Reported
  <2> QED BY <2>6, <2>7, <2>8
<1>4. DistinctAddresses => DistinctAddresses'
  BY DEF DistinctAddresses, KeysOf
<1>5. IsFiniteSet(Users) => IsFiniteSet(Users)'
  OBVIOUS
<1>6. Users = {} => (Users = {})'
  OBVIOUS
<1> QED BY <1>1, <1>2, <1>3, <1>4, <1>5, <1>6, LifeInit, LifeStep, KeyStays, BudgetInit,
           BudgetStep, CloserIs, AnnouncedStep, PTL DEF Spec
=============================================================================
