----------------------------- MODULE SendQueue -----------------------------
(***************************************************************************)
(* The send side of a Connection (Connection.cpp: send, doSend, handWrite). *)
(* Any thread may call send(); handWrite runs on an io_service thread when *)
(* an async_write completes.  Both hold m_SendPackCollect_Mutex for their  *)
(* whole body, so each is one step.  In between, the operating system      *)
(* reads the memory the outstanding async_write was given: a write is      *)
(* therefore modelled by WHERE it reads (the batch buffer or the pack at   *)
(* the head of the queue), and its bytes are looked up when they leave.    *)
(***************************************************************************)
EXTENDS Integers, FiniteSets, Sequences

CONSTANTS Packs,          \* the packets callers may send
          Size,           \* NetWorkPack::getSize() of each
          MAX_SEND_LEN,   \* largest batch, in bytes
          MaxSends        \* bound on the number of calls to send()

ASSUME SendQueueAssumption ==
  /\ Size \in [Packs -> Nat \ {0}]
  /\ MAX_SEND_LEN \in Nat \ {0}
  /\ MaxSends \in Nat

VARIABLES m_SendPackCollect, \* the queue
          m_Sending,         \* a write is outstanding
          m_iSendPackCount,  \* packs in the last write started
          m_pSendBuff,       \* packs last copied into the batch buffer
          m_iBuffSize,       \* bytes allocated for it, 0 before the first batch
          writes,            \* outstanding async_write operations
          accepted,          \* history: packs for which send() returned true
          wire,              \* history: packs that have left, in wire order
          failed             \* history: some write has completed with an error

memory == <<m_pSendBuff, m_iBuffSize>>
vars == <<m_SendPackCollect, m_Sending, m_iSendPackCount, m_pSendBuff,
          m_iBuffSize, writes, accepted, wire, failed>>

Write == [from : {"buff", "head"},  \* m_pSendBuff, or the queue's first pack
          len  : Nat,               \* packs the buffer given to asio spans
          sent : Nat]               \* packs of it already on the wire

(* The packs a write still refers to, as memory stands now. *)
Source(w) == IF w.from = "buff" THEN m_pSendBuff ELSE m_SendPackCollect

Without(s, i) == SubSeq(s, 1, i - 1) \o SubSeq(s, i + 1, Len(s))
-----------------------------------------------------------------------------
(* Batching (doSend). *)

PrefixSize(q) ==
  LET f[k \in 0..Len(q)] == IF k = 0 THEN 0 ELSE f[k - 1] + Size[q[k]]
  IN  f

(* Mutant: the limit is tested before the next pack's size is added. *)
IsBatch_LateTest(q, k) ==
  /\ k = 1 \/ PrefixSize(q)[k - 1] <= MAX_SEND_LEN
  /\ k < Len(q) => PrefixSize(q)[k] > MAX_SEND_LEN

(* The loop over the queue ends with m_iSendPackCount = k: k packs fit into *)
(* MAX_SEND_LEN bytes, or the first alone exceeds it, and k + 1 do not fit. *)
IsBatch(q, k) ==
  /\ k = 1 \/ PrefixSize(q)[k] <= MAX_SEND_LEN
  /\ k < Len(q) => PrefixSize(q)[k + 1] > MAX_SEND_LEN

(* The size of the batch buffer once a batch of n bytes has its place. *)
Grown(n) ==
  IF m_iBuffSize = 0
  THEN IF n < MAX_SEND_LEN THEN MAX_SEND_LEN ELSE n
  ELSE IF m_iBuffSize < n THEN n ELSE m_iBuffSize

NothingToSend(sending, q, ws) ==
  /\ sending \/ q = <<>>
  /\ m_Sending' = sending
  /\ m_SendPackCollect' = q
  /\ writes' = ws
  /\ UNCHANGED <<m_iSendPackCount, m_pSendBuff, m_iBuffSize>>

(* Mutant: the pack leaves the queue when its write starts. *)
SendOne_PopsEarly(q, ws) ==
  /\ IsBatch(q, 1)
  /\ m_iSendPackCount' = 1
  /\ m_SendPackCollect' = Tail(q)
  /\ writes' = Append(ws, [from |-> "head", len |-> 1, sent |-> 0])
  /\ UNCHANGED memory

(* A single pack is written from its own memory and stays in the queue. *)
SendOne(q, ws) ==
  /\ IsBatch(q, 1)
  /\ m_iSendPackCount' = 1
  /\ m_SendPackCollect' = q
  /\ writes' = Append(ws, [from |-> "head", len |-> 1, sent |-> 0])
  /\ UNCHANGED memory

(* Mutant: one pack of the batch stays in the queue. *)
SendBatch_ErasesOneLess(q, ws) ==
  \E k \in 2..Len(q) :
    /\ IsBatch(q, k)
    /\ m_iSendPackCount' = k
    /\ m_iBuffSize' = Grown(PrefixSize(q)[k])
    /\ m_pSendBuff' = SubSeq(q, 1, k)
    /\ writes' = Append(ws, [from |-> "buff", len |-> k, sent |-> 0])
    /\ m_SendPackCollect' = SubSeq(q, k, Len(q))

(* Several packs are copied into m_pSendBuff and leave the queue at once. *)
SendBatch(q, ws) ==
  \E k \in 2..Len(q) :
    /\ IsBatch(q, k)
    /\ m_iSendPackCount' = k
    /\ m_iBuffSize' = Grown(PrefixSize(q)[k])
    /\ m_pSendBuff' = SubSeq(q, 1, k)
    /\ writes' = Append(ws, [from |-> "buff", len |-> k, sent |-> 0])
    /\ m_SendPackCollect' = SubSeq(q, k + 1, Len(q))

(* Mutant: m_Sending is not consulted. *)
doSend_Unguarded(sending, q, ws) ==
  \/ q = <<>> /\ NothingToSend(sending, q, ws)
  \/ q # <<>> /\ m_Sending' = TRUE /\ (SendOne(q, ws) \/ SendBatch(q, ws))

(* doSend with m_Sending = sending, the queue q and ws outstanding writes. *)
doSend(sending, q, ws) ==
  \/ NothingToSend(sending, q, ws)
  \/ /\ ~sending
     /\ q # <<>>
     /\ m_Sending' = TRUE
     /\ SendOne(q, ws) \/ SendBatch(q, ws)
-----------------------------------------------------------------------------
Init == /\ m_SendPackCollect = <<>>
        /\ m_Sending = FALSE
        /\ m_iSendPackCount \in 0..1  \* the constructor leaves it unset
        /\ m_pSendBuff = <<>>
        /\ m_iBuffSize = 0
        /\ writes = <<>>
        /\ accepted = <<>>
        /\ wire = <<>>
        /\ failed = FALSE

(* send() with data: it never looks at the socket, and returns true. *)
Send(p) ==
  /\ Len(accepted) < MaxSends
  /\ accepted' = Append(accepted, p)
  /\ doSend(m_Sending, Append(m_SendPackCollect, p), writes)
  /\ UNCHANGED <<wire, failed>>

(* The pack that handWrite pops: the one written from the queue itself. *)
Popped(q) == IF q # <<>> /\ m_iSendPackCount = 1 THEN Tail(q) ELSE q

(* Mutant: handWrite does not go on with the queue. *)
HandWriteOk_NoResend(i) ==
  /\ writes[i].sent = writes[i].len
  /\ m_Sending' = FALSE
  /\ m_SendPackCollect' = Popped(m_SendPackCollect)
  /\ writes' = Without(writes, i)
  /\ UNCHANGED <<m_iSendPackCount, memory, accepted, wire, failed>>

(* handWrite without an error, once the whole buffer is on the wire. *)
HandWriteOk(i) ==
  /\ writes[i].sent = writes[i].len
  /\ doSend(FALSE, Popped(m_SendPackCollect), Without(writes, i))
  /\ UNCHANGED <<accepted, wire, failed>>

(* Mutant: a failed write frees the connection for the next one. *)
HandWriteError_Resets(i) ==
  /\ writes[i].sent < writes[i].len
  /\ writes' = Without(writes, i)
  /\ m_Sending' = FALSE
  /\ failed' = TRUE
  /\ UNCHANGED <<m_SendPackCollect, m_iSendPackCount, memory, accepted, wire>>

(* handWrite with an error does nothing: m_Sending stays true.  A write may *)
(* fail at any point, whether or not the socket can still carry bytes.      *)
HandWriteError(i) ==
  /\ writes[i].sent < writes[i].len
  /\ writes' = Without(writes, i)
  /\ failed' = TRUE
  /\ UNCHANGED <<m_SendPackCollect, m_Sending, m_iSendPackCount, memory,
                 accepted, wire>>

(* The next pack of a write leaves, read from memory as it is now. *)
Transmit(i) ==
  LET w == writes[i] IN
  /\ w.sent < w.len
  /\ w.sent < Len(Source(w))
  /\ wire' = Append(wire, Source(w)[w.sent + 1])
  /\ writes' = [writes EXCEPT ![i].sent = w.sent + 1]
  /\ UNCHANGED <<m_SendPackCollect, m_Sending, m_iSendPackCount, memory,
                 accepted, failed>>

Next == \/ \E p \in Packs : Send(p)
        \/ \E i \in DOMAIN writes :
             HandWriteOk(i) \/ HandWriteError(i) \/ Transmit(i)

(* The operating system goes on with a write and asio with its completion; *)
(* nobody has to call send(), and no write has to fail.                    *)
Fairness == /\ WF_vars(\E i \in DOMAIN writes : Transmit(i))
            /\ WF_vars(\E i \in DOMAIN writes : HandWriteOk(i))

Spec == Init /\ [][Next]_vars /\ Fairness
-----------------------------------------------------------------------------
(* The variables keep their types; the batch buffer, once allocated, never  *)
(* has to be allocated again, although doSend has a branch that does so.    *)
TypeOK == /\ m_SendPackCollect \in Seq(Packs)
          /\ m_Sending \in BOOLEAN
          /\ m_iSendPackCount \in Nat
          /\ m_pSendBuff \in Seq(Packs)
          /\ m_iBuffSize \in {0, MAX_SEND_LEN}
          /\ writes \in Seq(Write)
          /\ accepted \in Seq(Packs)
          /\ wire \in Seq(Packs)
          /\ failed \in BOOLEAN

(* What the peer receives is a prefix of what callers sent: no pack is lost *)
(* in the middle, repeated, overwritten in the shared batch buffer or sent  *)
(* after a failed write left a hole, however sends and completions mix.     *)
InOrder == /\ Len(wire) <= Len(accepted)
           /\ \A i \in 1..Len(wire) : wire[i] = accepted[i]

(* asio forbids a second async_write while one is running: the m_Sending    *)
(* flag is what keeps doSend, called from senders and from handWrite, from  *)
(* starting one.                                                            *)
OneWriteAtATime == Len(writes) <= 1

(* The memory an outstanding write reads still holds the packs it was given *)
(* - the next ones due on the wire - until the write completes: neither the *)
(* batch buffer nor the head of the queue is reused under it.               *)
WriteMemoryStable ==
  \A i \in DOMAIN writes :
    LET w == writes[i]
        base == Len(wire) - w.sent
    IN  /\ w.len >= 1 /\ w.len <= Len(Source(w))
        /\ base + w.len <= Len(accepted)
        /\ \A j \in 1..w.len : Source(w)[j] = accepted[base + j]

(* The packs accepted before the first one in the queue. *)
Ahead(w) == IF w.from = "buff" THEN Len(wire) - w.sent + w.len
                               ELSE Len(wire) - w.sent

(* The queue takes up where the write w, or its first pack, left off. *)
QueueContinues(w) ==
  /\ w.sent <= w.len /\ w.sent <= Len(wire)
  /\ w.len = m_iSendPackCount
  /\ w.from = "buff" <=> w.len > 1
  /\ Ahead(w) + Len(m_SendPackCollect) = Len(accepted)
  /\ \A j \in 1..Len(m_SendPackCollect) :
       m_SendPackCollect[j] = accepted[Ahead(w) + j]

(* Every accepted pack is in one place: on the wire, in the write that is    *)
(* outstanding, or waiting in the queue behind it, in the order of the       *)
(* calls.  An idle connection has nothing left to send; one whose write      *)
(* failed stays busy for ever and starts no other.                           *)
NothingMislaid ==
  /\ TypeOK /\ InOrder /\ OneWriteAtATime /\ WriteMemoryStable
  /\ \/ m_Sending
     \/ m_SendPackCollect = <<>> /\ writes = <<>> /\ ~failed /\ wire = accepted
  /\ m_Sending => (writes = <<>> <=> failed)
  /\ \A i \in DOMAIN writes : QueueContinues(writes[i])

(* A batch write spans at most MAX_SEND_LEN bytes and stays inside the      *)
(* buffer allocated for it, over any sequence of larger and smaller ones.   *)
BatchFitsBuffer ==
  \A i \in DOMAIN writes :
    writes[i].from = "buff" =>
      /\ PrefixSize(m_pSendBuff)[writes[i].len] <= MAX_SEND_LEN
      /\ PrefixSize(m_pSendBuff)[writes[i].len] <= m_iBuffSize

(* Whatever waits, the loop of doSend settles on exactly one batch, also at *)
(* the exact limit and when the first pack alone exceeds it: no waiting     *)
(* pack can block the queue.                                                *)
BatchIsUnique ==
  m_SendPackCollect # <<>> =>
    Cardinality({k \in 1..Len(m_SendPackCollect) :
                   IsBatch(m_SendPackCollect, k)}) = 1

(* Every pack send() accepted reaches the wire unless a write fails; no      *)
(* pack waits for a later send() to push it out.                            *)
EveryPackLeaves ==
  \A n \in 1..MaxSends : (Len(accepted) >= n) ~> (Len(wire) >= n \/ failed)

(* The send side implements a first-in first-out channel. *)
Channel == INSTANCE FifoChannel WITH delivered <- wire, up <- ~failed
ImplementsChannel == Channel!Spec
=============================================================================
