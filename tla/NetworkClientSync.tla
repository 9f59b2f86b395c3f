-------------------------- MODULE NetworkClientSync --------------------------
(***************************************************************************)
(* NetworkClientSync.cpp: the client whose send() waits for the answer.    *)
(* The thread that calls it blocks in every call of the socket; the other  *)
(* end of the connection goes on meanwhile, and its answer arrives in any  *)
(* number of pieces.  Built without USETIMEOUT, as the project is.         *)
(* The bytes of an answer are HEAD bytes of its head, then its body's, each*)
(* of them tagged with the request that is answered and its place.         *)
(***************************************************************************)
EXTENDS Integers, Sequences

CONSTANTS MessageIds,   \* the kinds of requests and of their answers
          HEAD, BODY,   \* the lengths of an answer's head and body
          Lengths,      \* the lengths of a body a head may be taken to say
          MaxRequests   \* bound on the requests made

ASSUME SyncAssumption ==
  /\ HEAD \in Nat \ {0} /\ BODY \in Nat \ {0} /\ MaxRequests \in Nat
  /\ Lengths \subseteq Nat /\ BODY \in Lengths

VARIABLES socket,     \* "NULL", "new" (not connected) or "connected"
          sockets,    \* how many have been allocated and not deleted
          call,       \* what the calling thread is in
          request,    \* the request of send(): its number, the answer's kind
                      \* it awaits, and how much of the answer was read
          retData,    \* the body read so far
          requests,   \* how many requests were made
          ret,        \* what the last call returned
          peer,       \* the other end: "up", "closed" or "lost", when a
                      \* part of a request did not get there
          asked,      \* the requests it has not answered
          inbox,      \* the bytes it has sent, that were not read
          unawaited,  \* history: a request was made on this connection whose
                      \* answer nobody waited for
          rough       \* whether requests and heads may be cut in pieces, and
                      \* the other end may close a connection

local == <<call, request, retData, requests, ret>>
syncVars == <<socket, sockets, local, peer, asked, inbox, unawaited, rough>>

Bytes(n, id) ==
  [k \in 1..(HEAD + BODY) |-> [req |-> n, id |-> id, part |-> k]]

NoRequest == [n |-> 0, retId |-> "none", length |-> 0]
-----------------------------------------------------------------------------
(* closeconnect().                                                          *)
Disconnect ==
  /\ socket' = "NULL"
  /\ sockets' = IF socket # "NULL" THEN sockets - 1 ELSE sockets
  /\ peer' = "closed" /\ asked' = <<>> /\ inbox' = <<>>
  /\ unawaited' = FALSE

Returns(result) == call' = "none" /\ ret' = result

closeconnect ==
  /\ call = "none"
  /\ Disconnect
  /\ Returns(socket # "NULL")
  /\ UNCHANGED <<request, retData, requests>>

(* Mutant: the socket that is there is forgotten. *)
connectBegins_Forgets ==
  /\ call = "none"
  /\ call' = "connect"
  /\ socket' = "NULL" /\ peer' = "closed" /\ asked' = <<>> /\ inbox' = <<>>
  /\ unawaited' = FALSE
  /\ UNCHANGED <<sockets, request, retData, requests, ret>>

(* connect() first drops the connection that is there.                      *)
connectBegins ==
  /\ call = "none"
  /\ call' = "connect"
  /\ Disconnect
  /\ UNCHANGED <<request, retData, requests, ret>>

connect ==
  /\ call = "connect"
  /\ socket' = "connected" /\ sockets' = sockets + 1
  /\ peer' = "up" /\ asked' = <<>> /\ inbox' = <<>>
  /\ Returns(TRUE)
  /\ UNCHANGED <<request, retData, requests, unawaited>>

(* An address that is not found, or an exception on the way, leaves a       *)
(* socket that is not connected; a connect that is refused deletes it.      *)
connectFails ==
  /\ call = "connect"
  /\ \/ socket' = "new" /\ sockets' = sockets + 1
     \/ UNCHANGED <<socket, sockets>>
  /\ Returns(FALSE)
  /\ UNCHANGED <<request, retData, requests, peer, asked, inbox, unawaited>>
-----------------------------------------------------------------------------
(* Mutant: a request that cannot be written is given up without closing. *)
SendFails_KeepsSocket ==
  /\ Returns(FALSE)
  /\ UNCHANGED <<socket, sockets, request, retData, peer, asked, inbox, unawaited>>

SendFails ==
  /\ Disconnect
  /\ Returns(FALSE)
  /\ UNCHANGED <<request, retData>>

(* send() with a socket, as the program calls it: write_some() fails, which *)
(* it may whenever the socket is not connected or the other end is gone.    *)
sendFails ==
  /\ call = "none" /\ socket # "NULL" /\ requests < MaxRequests
  /\ socket = "new" \/ peer = "closed"
  /\ requests' = requests + 1
  /\ SendFails

(* write_some() hands the request over, or a part of it only, which is no   *)
(* error: the other end takes the next requests for the rest of it.  With   *)
(* noneedret that is all, else the head of the answer is read next.         *)
send ==
  /\ call = "none" /\ socket = "connected" /\ requests < MaxRequests
  /\ requests' = requests + 1
  /\ \E id \in MessageIds, noneedret \in BOOLEAN, whole \in BOOLEAN :
       /\ ~whole => rough
       /\ peer' = IF peer = "up" /\ ~whole THEN "lost" ELSE peer
       /\ asked' = IF peer = "up" /\ whole
                   THEN Append(asked, [n |-> requests', id |-> id]) ELSE asked
       /\ unawaited' = (unawaited \/ noneedret)
       /\ IF noneedret
          THEN Returns(TRUE) /\ UNCHANGED request
          ELSE /\ request' = [n |-> requests', retId |-> id, length |-> 0]
               /\ call' = "head" /\ UNCHANGED ret
  /\ retData' = <<>>
  /\ UNCHANGED <<socket, sockets, inbox>>

(* How many bytes read_some() may return: 0 and an error at the end of the  *)
(* stream; it waits while there is nothing.                                 *)
Available(n) ==
  IF inbox = <<>> THEN (IF peer = "closed" THEN {0} ELSE {})
  ELSE 1..(IF Len(inbox) < n THEN Len(inbox) ELSE n)

HeadLengths == IF rough THEN Available(HEAD)
               ELSE {n \in Available(HEAD) : n \in {0, HEAD}}

(* What a head says, of which n bytes were read: the rest is what the stack *)
(* held, if it is not the bytes of one head in their places.                *)
HeadIsWhole(n) == n = HEAD /\ \A k \in 1..n : inbox[k].part = k

HeadIs(n, id, length) ==
  IF HeadIsWhole(n) THEN id = inbox[1].id /\ length = BODY
  ELSE id \in MessageIds \cup {"other"} /\ length \in Lengths

(* The answer to something else closes the connection.  A length nobody     *)
(* sent may be more than new[] can give: the exception goes through send()  *)
(* and the client, a local variable of its caller, goes with it.           *)
ReadHead(n, id, length) ==
  /\ HeadIs(n, id, length)
  /\ \/ /\ id # request.retId \/ ~HeadIsWhole(n)
        /\ SendFails
     \/ /\ id = request.retId
        /\ request' = [request EXCEPT !.length = length]
        /\ call' = "body" /\ inbox' = SubSeq(inbox, n + 1, Len(inbox))
        /\ UNCHANGED <<socket, sockets, retData, ret, peer, asked, unawaited>>

sendReadsHead ==
  /\ call = "head"
  /\ \E n \in HeadLengths, id \in MessageIds \cup {"other"}, length \in Lengths :
       ReadHead(n, id, length)
  /\ UNCHANGED requests

(* Mutant: the body is what the first read_some() brings. *)
BodyRead_Once == TRUE

(* Mutant: the body is read past its end. *)
BodyRead_Beyond == Len(retData') > request.length

BodyRead == Len(retData') >= request.length

(* The loop that reads the body: an error does not end it.                  *)
sendReadsBody ==
  /\ call = "body"
  /\ \E n \in (IF request.length = Len(retData) THEN {0}
               ELSE Available(request.length - Len(retData))) :
       /\ retData' = retData \o SubSeq(inbox, 1, n)
       /\ inbox' = SubSeq(inbox, n + 1, Len(inbox))
  /\ IF BodyRead THEN Returns(TRUE) ELSE UNCHANGED <<call, ret>>
  /\ UNCHANGED <<socket, sockets, request, requests, peer, asked, unawaited>>
-----------------------------------------------------------------------------
(* The other end answers the requests in their order, or closes, which cuts *)
(* what it was sending.                                                     *)
Answer ==
  /\ asked # <<>> /\ peer # "closed"
  /\ inbox' = inbox \o Bytes(Head(asked).n, Head(asked).id)
  /\ asked' = Tail(asked)
  /\ UNCHANGED <<socket, sockets, local, peer, unawaited>>

PeerClose ==
  /\ rough
  /\ peer # "closed"
  /\ peer' = "closed" /\ asked' = <<>>
  /\ \E k \in 0..Len(inbox) : inbox' = SubSeq(inbox, 1, k)
  /\ UNCHANGED <<socket, sockets, local, unawaited>>

SyncInit ==
  /\ socket = "NULL" /\ sockets = 0
  /\ call = "none" /\ request = NoRequest /\ retData = <<>>
  /\ requests = 0 /\ ret = FALSE
  /\ peer = "closed" /\ asked = <<>> /\ inbox = <<>> /\ unawaited = FALSE
  /\ rough \in BOOLEAN

Sending == sendReadsHead \/ sendReadsBody

SyncNext == /\ \/ closeconnect \/ connectBegins \/ connect \/ connectFails
               \/ sendFails \/ send \/ Sending
               \/ Answer \/ PeerClose
            /\ UNCHANGED rough

(* A thread that is not waiting for bytes goes on; the other end answers.   *)
Fairness == /\ WF_syncVars(Sending /\ UNCHANGED rough)
            /\ WF_syncVars(Answer /\ UNCHANGED rough)

SyncSpec == SyncInit /\ [][SyncNext]_syncVars /\ Fairness
-----------------------------------------------------------------------------
(* No socket is lost: whatever fails, on the way to a connection or in a    *)
(* request, the one that exists is the one closeconnect() will delete.      *)
SocketsAccounted == sockets = IF socket = "NULL" THEN 0 ELSE 1

Complete(id) ==
  /\ Len(retData) = BODY
  /\ \A k \in 1..BODY : /\ retData[k].id = id
                        /\ retData[k].part = HEAD + k
                        /\ retData[k].req = retData[1].req

(* As long as heads come whole and the other end stays, what a request      *)
(* returns is all of the body of one answer of the kind that was asked for, *)
(* in however many pieces it came and whatever was left unread before it;   *)
(* and it is the answer to that very request, unless one was made on the    *)
(* connection whose answer nobody waited for.                               *)
AnswerIsWhole ==
  [][~rough /\ call = "body" /\ call' = "none" =>
       /\ ret' /\ Complete(request.retId)'
       /\ ~unawaited => retData'[1].req = request.n]_syncVars

(* A call that failed leaves no connection on which the rest of an answer   *)
(* could be taken for the next.                                             *)
FailureDisconnects ==
  [][/\ call' = "none" /\ ~ret'
     /\ call # "none" \/ requests' # requests
     => peer' = "closed" /\ inbox' = <<>>]_syncVars

(* With another end that answers and stays, a request returns.              *)
SendReturns ==
  ~rough /\ call \in {"head", "body"} ~> call = "none"
=============================================================================
