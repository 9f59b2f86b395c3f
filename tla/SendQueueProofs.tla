-------------------------- MODULE SendQueueProofs --------------------------
(***************************************************************************)
(* For every set of packs, size of packs, batch limit and number of calls: *)
(* the send side of a Connection keeps its invariants and implements the   *)
(* steps of a first-in first-out channel.                                  *)
(***************************************************************************)
EXTENDS SendQueue, BasicLemmas, SequenceTheorems, FiniteSetTheorems, TLAPS

(* The only write taken away leaves none.                                   *)
LEMMA WithoutOnly ==
  ASSUME NEW S, NEW s \in Seq(S), Len(s) = 1
  PROVE  Without(s, 1) = <<>>
<1>1. SubSeq(s, 1, 0) = <<>> /\ SubSeq(s, 2, 1) = <<>>
  OBVIOUS
<1> QED BY <1>1 DEF Without
-----------------------------------------------------------------------------
(* The sizes of the prefixes of a queue. *)

(* The recursive definition of PrefixSize defines a function: one exists for *)
(* every length, by induction.                                               *)
LEMMA PrefixSizeDef ==
  ASSUME NEW q \in Seq(Packs)
  PROVE  PrefixSize(q) =
           [k \in 0..Len(q) |->
              IF k = 0 THEN 0 ELSE PrefixSize(q)[k - 1] + Size[q[k]]]
<1> DEFINE Step(f, n) ==
             [k \in 0..n |-> IF k = 0 THEN 0 ELSE f[k - 1] + Size[q[k]]]
           Has == {n \in Nat : \E f : f = Step(f, n)}
<1>1. 0 \in Has
  <2>1. [k \in 0..0 |-> 0] = Step([k \in 0..0 |-> 0], 0)
    OBVIOUS
  <2> QED BY <2>1
<1>2. \A n \in Nat : n \in Has => n + 1 \in Has
  <2> SUFFICES ASSUME NEW n \in Nat, n \in Has
               PROVE  n + 1 \in Has
    OBVIOUS
  <2>0. PICK f : f = Step(f, n)
    OBVIOUS
  <2> DEFINE g == Step(f, n + 1)
  <2>1. \A k \in 0..n : g[k] = f[k]
    BY <2>0
  <2>2. ASSUME NEW k \in 0..(n + 1), k # 0 PROVE g[k - 1] = f[k - 1]
    <3> HIDE DEF g
    <3>1. k - 1 \in 0..n
      BY <2>2
    <3> QED BY <2>1, <3>1
  <2>3. Step(g, n + 1) = Step(f, n + 1)
    <3> HIDE DEF g
    <3> QED BY <2>2
  <2>4. g = Step(g, n + 1)
    BY <2>3
  <2> HIDE DEF g, Step
  <2> QED BY <2>4
<1>3. Len(q) \in Has
  <2> HIDE DEF Has
  <2>1. Nat \subseteq Has
    BY <1>1, <1>2, SetInduction
  <2> QED BY <2>1
<1>4. PrefixSize(q) = CHOOSE f : f = Step(f, Len(q))
  BY DEF PrefixSize
<1> QED BY <1>3, <1>4

(* Sizes of prefixes are natural numbers and grow with the prefix. *)
LEMMA PrefixSizeGrows ==
  ASSUME NEW q \in Seq(Packs)
  PROVE  /\ PrefixSize(q)[0] = 0
         /\ \A k \in 0..Len(q) : PrefixSize(q)[k] \in Nat
         /\ \A k \in 1..Len(q) :
              PrefixSize(q)[k] = PrefixSize(q)[k - 1] + Size[q[k]]
<1> DEFINE p == PrefixSize(q)
           Good == {n \in Nat : n <= Len(q) => p[n] \in Nat}
<1>1. p[0] = 0 /\ \A k \in 1..Len(q) : p[k] = p[k - 1] + Size[q[k]]
  BY PrefixSizeDef
<1> HIDE DEF p
<1>2. 0 \in Good
  BY <1>1
<1>3. \A n \in Nat : n \in Good => n + 1 \in Good
  <2> SUFFICES ASSUME NEW n \in Nat, n \in Good, n + 1 <= Len(q)
               PROVE  p[n + 1] \in Nat
    OBVIOUS
  <2>1. q[n + 1] \in Packs /\ Size[q[n + 1]] \in Nat
    BY SendQueueAssumption
  <2> QED BY <1>1, <2>1
<1>4. Nat \subseteq Good
  <2> HIDE DEF Good
  <2> QED BY <1>2, <1>3, SetInduction
<1> QED BY <1>1, <1>4 DEF p
-----------------------------------------------------------------------------
(* Type correctness. *)

(* The batch buffer is MAX_SEND_LEN long from its first use on.             *)
LEMMA GrownType ==
  ASSUME NEW n \in Nat, n <= MAX_SEND_LEN, m_iBuffSize \in {0, MAX_SEND_LEN}
  PROVE  Grown(n) = MAX_SEND_LEN
BY SendQueueAssumption DEF Grown

(* Starting a write keeps the types, whatever the queue holds. *)
LEMMA DoSendType ==
  ASSUME TypeOK, NEW q \in Seq(Packs), NEW ws \in Seq(Write),
         NEW sending \in BOOLEAN, doSend(sending, q, ws)
  PROVE  /\ m_SendPackCollect' \in Seq(Packs)
         /\ m_Sending' \in BOOLEAN
         /\ m_iSendPackCount' \in Nat
         /\ m_pSendBuff' \in Seq(Packs)
         /\ m_iBuffSize' \in {0, MAX_SEND_LEN}
         /\ writes' \in Seq(Write)
<1> USE DEF TypeOK
<1>1. CASE NothingToSend(sending, q, ws)
  BY <1>1 DEF NothingToSend
<1>2. CASE m_Sending' = TRUE /\ SendOne(q, ws)
  <2>1. [from |-> "head", len |-> 1, sent |-> 0] \in Write
    BY DEF Write
  <2> QED BY <1>2, <2>1 DEF SendOne, memory
<1>3. CASE m_Sending' = TRUE /\ SendBatch(q, ws)
  <2>1. PICK k \in 2..Len(q) :
          /\ IsBatch(q, k)
          /\ m_iSendPackCount' = k
          /\ m_iBuffSize' = Grown(PrefixSize(q)[k])
          /\ m_pSendBuff' = SubSeq(q, 1, k)
          /\ writes' = Append(ws, [from |-> "buff", len |-> k, sent |-> 0])
          /\ m_SendPackCollect' = SubSeq(q, k + 1, Len(q))
    BY <1>3 DEF SendBatch
  <2>2. [from |-> "buff", len |-> k, sent |-> 0] \in Write
    BY DEF Write
  <2>3. m_iBuffSize' \in {0, MAX_SEND_LEN}
    <3>1. PrefixSize(q)[k] \in Nat
      BY PrefixSizeGrows
    <3>2. Grown(PrefixSize(q)[k]) = MAX_SEND_LEN
      BY <2>1, <3>1, GrownType DEF IsBatch
    <3> QED BY <2>1, <3>2
  <2>4. SubSeq(q, 1, k) \in Seq(Packs) /\ SubSeq(q, k + 1, Len(q)) \in Seq(Packs)
    <3>1. q \in Seq(Packs) /\ k \in 2..Len(q)
      OBVIOUS
    <3> QED BY ONLY <3>1
  <2> QED BY <1>3, <2>1, <2>2, <2>3, <2>4
<1> QED BY <1>1, <1>2, <1>3 DEF doSend

(* Taking an element away leaves a sequence of the same kind.               *)
LEMMA WithoutType ==
  ASSUME NEW S, NEW s \in Seq(S), NEW i \in DOMAIN s
  PROVE  Without(s, i) \in Seq(S)
<1>1. SubSeq(s, 1, i - 1) \in Seq(S) /\ SubSeq(s, i + 1, Len(s)) \in Seq(S)
  OBVIOUS
<1> QED BY <1>1 DEF Without

(* handWrite() leaves a queue of packs.                                     *)
LEMMA PoppedType ==
  ASSUME NEW q \in Seq(Packs)
  PROVE  Popped(q) \in Seq(Packs)
BY DEF Popped

(* Every step keeps the types.                                              *)
LEMMA TypeStep == TypeOK /\ [Next]_vars => TypeOK'
<1> SUFFICES ASSUME TypeOK, [Next]_vars PROVE TypeOK'
  OBVIOUS
<1>1. ASSUME NEW p \in Packs, Send(p) PROVE TypeOK'
  <2>1. Append(m_SendPackCollect, p) \in Seq(Packs)
    BY DEF TypeOK
  <2>2. doSend(m_Sending, Append(m_SendPackCollect, p), writes)
        /\ m_Sending \in BOOLEAN /\ writes \in Seq(Write)
    BY <1>1 DEF Send, TypeOK
  <2>3. /\ m_SendPackCollect' \in Seq(Packs)
        /\ m_Sending' \in BOOLEAN
        /\ m_iSendPackCount' \in Nat
        /\ m_pSendBuff' \in Seq(Packs)
        /\ m_iBuffSize' \in {0, MAX_SEND_LEN}
        /\ writes' \in Seq(Write)
    BY <2>1, <2>2, DoSendType
  <2> QED BY <1>1, <2>3 DEF Send, TypeOK
<1>2. ASSUME NEW i \in DOMAIN writes, HandWriteOk(i) PROVE TypeOK'
  <2>1. Without(writes, i) \in Seq(Write)
    BY WithoutType DEF TypeOK
  <2>2. Popped(m_SendPackCollect) \in Seq(Packs)
    BY PoppedType DEF TypeOK
  <2> QED BY <1>2, <2>1, <2>2, DoSendType DEF HandWriteOk, TypeOK
<1>3. ASSUME NEW i \in DOMAIN writes, HandWriteError(i) PROVE TypeOK'
  BY <1>3, WithoutType DEF HandWriteError, TypeOK, memory
<1>4. ASSUME NEW i \in DOMAIN writes, Transmit(i) PROVE TypeOK'
  <2> DEFINE w == writes[i]
  <2>1. w \in Write /\ Source(w) \in Seq(Packs)
    BY DEF TypeOK, Source
  <2>2. Source(w)[w.sent + 1] \in Packs
    BY <1>4, <2>1 DEF Transmit, Write
  <2>3. [w EXCEPT !.sent = w.sent + 1] \in Write
    BY <2>1 DEF Write
  <2>4. writes' \in Seq(Write)
    BY <1>4, <2>3 DEF Transmit, TypeOK
  <2> QED BY <1>4, <2>2, <2>4 DEF Transmit, TypeOK, memory
<1>5. CASE UNCHANGED vars
  BY <1>5 DEF vars, TypeOK
<1> QED BY <1>1, <1>2, <1>3, <1>4, <1>5 DEF Next

(* The variables of the send side keep their types, for any packs, sizes    *)
(* and batch limit; in particular the batch buffer is allocated once.       *)
THEOREM SendQueueTypeOK == Spec => []TypeOK
<1>1. Init => TypeOK
  <2>1. <<>> \in Seq(Packs) /\ <<>> \in Seq(Write) /\ 0..1 \subseteq Nat
    OBVIOUS
  <2> QED BY <2>1, Zenon DEF Init, TypeOK
<1> QED BY <1>1, TypeStep, PTL DEF Spec
-----------------------------------------------------------------------------
(* Every accepted pack is accounted for. *)

(* With a single write, the invariant is about that write. *)
LEMMA OneWrite ==
  ASSUME TypeOK', InOrder', m_Sending', ~failed', NEW w \in Write,
         writes' = <<w>>, QueueContinues(w)',
         w.len >= 1 /\ w.len <= Len(Source(w)'),
         Len(wire') - w.sent + w.len <= Len(accepted'),
         \A j \in 1..w.len : Source(w)'[j] = accepted'[Len(wire') - w.sent + j]
  PROVE  NothingMislaid'
<1>1. Len(writes') = 1 /\ DOMAIN writes' = {1} /\ writes'[1] = w
  OBVIOUS
<1>2. Source(writes[1])' = Source(w)' /\ QueueContinues(writes[1])'
  BY <1>1 DEF Source, QueueContinues, Ahead
<1>3. WriteMemoryStable'
  BY <1>1, <1>2 DEF WriteMemoryStable
<1>4. OneWriteAtATime'
  BY <1>1 DEF OneWriteAtATime
<1>5. m_Sending' => (writes' = <<>> <=> failed')
  BY <1>1
<1>6. \A i \in DOMAIN writes' : QueueContinues(writes[i])'
  BY <1>1, <1>2
<1> QED BY <1>3, <1>4, <1>5, <1>6 DEF NothingMislaid

(* doSend on an idle connection: a queue that continues the wire is put     *)
(* into a write, and what remains continues that write.                     *)
LEMMA DoSendAccounts ==
  ASSUME TypeOK, TypeOK', NEW q \in Seq(Packs), doSend(FALSE, q, <<>>),
         wire' = wire, ~failed', InOrder',
         Len(wire) + Len(q) = Len(accepted'),
         \A j \in 1..Len(q) : q[j] = accepted'[Len(wire) + j]
  PROVE  NothingMislaid'
<1>1. /\ Len(wire) \in Nat /\ Len(q) \in Nat /\ Len(accepted') \in Nat
      /\ Len(m_SendPackCollect') \in Nat /\ Len(wire) - 0 = Len(wire)
  BY DEF TypeOK
<1>2. CASE NothingToSend(FALSE, q, <<>>)
  <2>1. q = <<>> /\ writes' = <<>> /\ m_SendPackCollect' = <<>> /\ ~m_Sending'
    BY <1>2 DEF NothingToSend
  <2>2. wire' = accepted'
    BY <2>1 DEF InOrder, TypeOK
  <2>3. WriteMemoryStable' /\ OneWriteAtATime'
    BY <2>1 DEF WriteMemoryStable, OneWriteAtATime
  <2> QED BY <2>1, <2>2, <2>3 DEF NothingMislaid
<1>3. CASE q # <<>> /\ m_Sending' = TRUE /\ SendOne(q, <<>>)
  <2> DEFINE w == [from |-> "head", len |-> 1, sent |-> 0]
  <2>1. writes' = <<w>> /\ m_SendPackCollect' = q /\ m_iSendPackCount' = 1
    BY <1>3 DEF SendOne
  <2>2. w \in Write /\ w.from = "head" /\ w.len = 1 /\ w.sent = 0 /\ Len(q) >= 1
    BY <1>3 DEF Write
  <2> HIDE DEF w
  <2>3. Source(w)' = q /\ Ahead(w)' = Len(wire)
    BY <1>1, <2>1, <2>2 DEF Source, Ahead
  <2>4. QueueContinues(w)'
    BY <1>1, <2>1, <2>2, <2>3 DEF QueueContinues
  <2> QED BY <1>1, <1>3, <2>1, <2>2, <2>3, <2>4, OneWrite
<1>4. CASE q # <<>> /\ m_Sending' = TRUE /\ SendBatch(q, <<>>)
  <2>1. PICK k \in 2..Len(q) :
          /\ m_iSendPackCount' = k
          /\ m_pSendBuff' = SubSeq(q, 1, k)
          /\ writes' = Append(<<>>, [from |-> "buff", len |-> k, sent |-> 0])
          /\ m_SendPackCollect' = SubSeq(q, k + 1, Len(q))
    BY <1>4 DEF SendBatch
  <2>9. k \in Nat /\ k <= Len(q)
    BY <1>1
  <2> DEFINE w == [from |-> "buff", len |-> k, sent |-> 0]
  <2>2. /\ writes' = <<w>> /\ w \in Write
        /\ w.from = "buff" /\ w.len = k /\ w.sent = 0 /\ k > 1
    BY <2>1 DEF Write
  <2> HIDE DEF w
  <2>3. Source(w)' = SubSeq(q, 1, k) /\ Ahead(w)' = Len(wire) + k
    BY <1>1, <2>9, <2>1, <2>2 DEF Source, Ahead
  <2>4. /\ Len(SubSeq(q, 1, k)) = k
        /\ \A j \in 1..k : SubSeq(q, 1, k)[j] = q[j]
        /\ Len(m_SendPackCollect') = Len(q) - k
        /\ \A j \in 1..(Len(q) - k) : m_SendPackCollect'[j] = q[k + j]
    BY <2>1
  <2>5. /\ Len(wire) + k <= Len(accepted')
        /\ \A j \in 1..k : SubSeq(q, 1, k)[j] = accepted'[Len(wire) + j]
    <3>1. Len(wire) + Len(q) = Len(accepted')
      OBVIOUS
    <3>2. Len(wire) + k <= Len(accepted')
      BY ONLY <1>1, <2>9, <3>1
    <3>3. ASSUME NEW j \in 1..k
          PROVE  SubSeq(q, 1, k)[j] = accepted'[Len(wire) + j]
      <4>1. j \in 1..Len(q)
        BY ONLY <1>1, <2>9
      <4>2. q[j] = accepted'[Len(wire) + j] /\ SubSeq(q, 1, k)[j] = q[j]
        BY <2>4, <4>1, Zenon
      <4> QED BY ONLY <4>2
    <3> QED BY ONLY <3>2, <3>3
  <2>6. \A j \in 1..Len(m_SendPackCollect') :
          m_SendPackCollect'[j] = accepted'[Len(wire) + k + j]
    <3> SUFFICES ASSUME NEW j \in 1..(Len(q) - k)
                 PROVE  m_SendPackCollect'[j] = accepted'[Len(wire) + k + j]
      BY <2>4
    <3>1. k + j \in 1..Len(q) /\ Len(wire) + (k + j) = Len(wire) + k + j
      BY <1>1
    <3> QED BY <2>4, <3>1
  <2>7. Len(wire) + k + Len(m_SendPackCollect') = Len(accepted')
    <3>1. /\ Len(wire) + Len(q) = Len(accepted')
          /\ Len(m_SendPackCollect') = Len(q) - k
      BY <2>4
    <3> QED BY ONLY <1>1, <2>9, <3>1
  <2>8. QueueContinues(w)'
    <3>1. /\ w.sent <= w.len /\ w.sent <= Len(wire')
          /\ w.len = m_iSendPackCount' /\ (w.from = "buff" <=> w.len > 1)
      BY <1>1, <2>9, <2>1, <2>2
    <3>2. /\ Ahead(w)' + Len(m_SendPackCollect') = Len(accepted')
          /\ \A j \in 1..Len(m_SendPackCollect') :
               m_SendPackCollect'[j] = accepted'[Ahead(w)' + j]
      BY <2>3, <2>6, <2>7
    <3> QED BY <3>1, <3>2, Zenon DEF QueueContinues
  <2>10. w.len >= 1 /\ w.len <= Len(Source(w)')
    BY ONLY <2>2, <2>3, <2>4, <2>9
  <2>11. Len(wire') - w.sent + w.len <= Len(accepted')
    <3>1. wire' = wire
      OBVIOUS
    <3> QED BY ONLY <1>1, <2>2, <2>5, <2>9, <3>1
  <2>12. \A j \in 1..w.len : Source(w)'[j] = accepted'[Len(wire') - w.sent + j]
    <3>1. wire' = wire /\ Len(wire') - w.sent = Len(wire)
      BY <1>1, <2>2
    <3> QED BY ONLY <2>2, <2>3, <2>5, <3>1
  <2>13. writes' = <<w>> /\ w \in Write /\ m_Sending' /\ QueueContinues(w)'
    BY ONLY <1>4, <2>2, <2>8
  <2> QED BY <2>10, <2>11, <2>12, <2>13, OneWrite
<1> QED BY <1>2, <1>3, <1>4 DEF doSend

(* What the invariant says while a write is outstanding. *)
LEMMA TheWrite ==
  ASSUME TypeOK, NothingMislaid, NEW i \in DOMAIN writes
  PROVE  /\ i = 1 /\ Len(writes) = 1 /\ writes = <<writes[1]>>
         /\ writes[1] \in Write /\ m_Sending /\ ~failed
         /\ QueueContinues(writes[1])
         /\ writes[1].len >= 1 /\ writes[1].len <= Len(Source(writes[1]))
         /\ Len(wire) - writes[1].sent + writes[1].len <= Len(accepted)
         /\ \A j \in 1..writes[1].len :
              Source(writes[1])[j] = accepted[Len(wire) - writes[1].sent + j]
<1>1. Len(writes) <= 1 /\ writes \in Seq(Write)
  BY DEF NothingMislaid, OneWriteAtATime, TypeOK
<1>2. i = 1 /\ Len(writes) = 1 /\ writes = <<writes[1]>> /\ writes[1] \in Write
      /\ writes # <<>>
  BY <1>1
<1>3. m_Sending /\ ~failed
  BY <1>2 DEF NothingMislaid
<1> QED BY <1>2, <1>3 DEF NothingMislaid, WriteMemoryStable

(* What appending an element leaves as it was.                              *)
LEMMA AppendFacts ==
  ASSUME NEW S, NEW s \in Seq(S), NEW e \in S
  PROVE  /\ Append(s, e) \in Seq(S) /\ Append(s, e) # <<>>
         /\ Len(s) \in Nat /\ Len(Append(s, e)) = Len(s) + 1
         /\ \A j \in 1..Len(s) : Append(s, e)[j] = s[j]
         /\ Append(s, e)[Len(s) + 1] = e
OBVIOUS

(* send() accounts for the pack it accepts: in the queue, or in the write it starts. *)
LEMMA SendAccounts ==
  ASSUME TypeOK, TypeOK', NothingMislaid, NEW p \in Packs, Send(p)
  PROVE  NothingMislaid'
<1> DEFINE q == Append(m_SendPackCollect, p)
<1>1. /\ accepted' = Append(accepted, p) /\ wire' = wire /\ failed' = failed
      /\ doSend(m_Sending, q, writes)
  BY DEF Send
<1>2. /\ Len(accepted') = Len(accepted) + 1
      /\ \A j \in 1..Len(accepted) : accepted'[j] = accepted[j]
      /\ accepted'[Len(accepted) + 1] = p
  BY <1>1, AppendFacts DEF TypeOK
<1>3. /\ q \in Seq(Packs) /\ q # <<>> /\ Len(q) = Len(m_SendPackCollect) + 1
      /\ \A j \in 1..Len(m_SendPackCollect) : q[j] = m_SendPackCollect[j]
      /\ q[Len(m_SendPackCollect) + 1] = p
  <2>1. m_SendPackCollect \in Seq(Packs)
    BY DEF TypeOK
  <2> QED BY <2>1, AppendFacts
<1>4. /\ Len(wire) \in Nat /\ Len(accepted) \in Nat
      /\ Len(m_SendPackCollect) \in Nat /\ Len(m_pSendBuff) \in Nat
  BY DEF TypeOK
<1>5. InOrder'
  <2>1. InOrder
    BY DEF NothingMislaid
  <2> QED BY <1>1, <1>2, <1>4, <2>1 DEF InOrder
<1> HIDE DEF q
<1>6. CASE ~m_Sending
  <2>1. /\ m_SendPackCollect = <<>> /\ writes = <<>> /\ ~failed
        /\ wire = accepted
    BY <1>6 DEF NothingMislaid
  <2>2. doSend(FALSE, q, <<>>)
    BY <1>1, <1>6, <2>1 DEF doSend, NothingToSend
  <2>3. Len(wire) + Len(q) = Len(accepted')
        /\ \A j \in 1..Len(q) : q[j] = accepted'[Len(wire) + j]
    <3>1. Len(m_SendPackCollect) = 0
      BY <2>1
    <3>2. Len(q) = 1 /\ q[1] = p
      BY <1>3, <3>1
    <3> QED BY <1>2, <1>4, <2>1, <3>2
  <2> QED BY <1>1, <1>3, <1>5, <2>1, <2>2, <2>3, DoSendAccounts
<1>7. CASE m_Sending
  <2>1. /\ m_SendPackCollect' = q /\ m_Sending' /\ writes' = writes
        /\ m_iSendPackCount' = m_iSendPackCount /\ m_pSendBuff' = m_pSendBuff
    BY <1>1, <1>7 DEF doSend, NothingToSend
  <2>2. CASE writes = <<>>
    <3>1. failed' /\ WriteMemoryStable' /\ OneWriteAtATime'
      BY <1>1, <1>7, <2>1, <2>2
         DEF NothingMislaid, WriteMemoryStable, OneWriteAtATime
    <3> QED BY <1>5, <2>1, <2>2, <3>1 DEF NothingMislaid
  <2>3. CASE writes # <<>>
    <3>0. PICK w : w = writes[1]
      OBVIOUS
    <3>1. 1 \in DOMAIN writes
      BY <2>3 DEF TypeOK
    <3>2. /\ writes' = <<w>> /\ w \in Write /\ ~failed' /\ QueueContinues(w)
          /\ w.len >= 1 /\ w.len <= Len(Source(w))
          /\ Len(wire) - w.sent + w.len <= Len(accepted)
          /\ \A j \in 1..w.len :
               Source(w)[j] = accepted[Len(wire) - w.sent + j]
      BY <1>1, <2>1, <3>0, <3>1, TheWrite
    <3>3. w.len \in Nat /\ w.sent \in Nat /\ w.sent <= Len(wire)
      BY <3>2 DEF Write, QueueContinues
    <3>4. /\ w.len <= Len(Source(w)')
          /\ \A j \in 1..w.len : Source(w)'[j] = Source(w)[j]
      <4>1. CASE w.from = "buff"
        BY <2>1, <3>2, <4>1 DEF Source
      <4>2. CASE w.from # "buff"
        <5>1. Source(w)' = q /\ Source(w) = m_SendPackCollect
          BY <2>1, <4>2 DEF Source
        <5> QED BY <1>3, <1>4, <3>2, <3>3, <5>1
      <4> QED BY <4>1, <4>2
    <3>5. /\ Len(wire') - w.sent + w.len <= Len(accepted')
          /\ \A j \in 1..w.len :
               Source(w)'[j] = accepted'[Len(wire') - w.sent + j]
      <4>1. Len(wire') - w.sent + w.len <= Len(accepted')
        <5>1. wire' = wire /\ Len(wire) - w.sent + w.len <= Len(accepted)
              /\ Len(accepted') = Len(accepted) + 1
          BY <1>1, <1>2, <3>2, Zenon
        <5> QED BY ONLY <1>4, <3>3, <5>1
      <4>2. ASSUME NEW j \in 1..w.len
            PROVE  Source(w)'[j] = accepted'[Len(wire') - w.sent + j]
        <5>1. Len(wire) - w.sent + j \in 1..Len(accepted) /\ wire' = wire
          <6>1. wire' = wire /\ Len(wire) - w.sent + w.len <= Len(accepted)
            BY <1>1, <3>2, Zenon
          <6>2. j \in Nat /\ 1 <= j /\ j <= w.len
            BY ONLY <3>3
          <6>3. Len(wire) \in Nat /\ Len(accepted) \in Nat
            BY <1>4
          <6> DEFINE m == Len(wire)  n == Len(accepted)
          <6>4. m \in Nat /\ n \in Nat /\ m - w.sent + w.len <= n
                /\ w.sent <= m
            BY <3>3, <6>1, <6>3
          <6> HIDE DEF m, n
          <6>5. m - w.sent + j \in 1..n
            BY ONLY <3>3, <6>2, <6>4
          <6> QED BY <6>1, <6>5 DEF m, n
        <5> QED BY <1>2, <3>2, <3>4, <5>1
      <4> QED BY <4>1, <4>2
    <3>6. Ahead(w)' = Ahead(w) /\ Ahead(w) \in Nat
      <4>1. Len(wire) - w.sent \in Nat /\ Len(wire) - w.sent + w.len \in Nat
        BY <1>4, <3>3
      <4> QED BY <1>1, <4>1 DEF Ahead
    <3>7. QueueContinues(w)'
      <4>1. /\ w.sent <= w.len /\ w.sent <= Len(wire')
            /\ w.len = m_iSendPackCount' /\ (w.from = "buff" <=> w.len > 1)
        BY <1>1, <2>1, <3>2 DEF QueueContinues
      <4>2. Ahead(w) + Len(m_SendPackCollect) = Len(accepted)
            /\ \A j \in 1..Len(m_SendPackCollect) :
                 m_SendPackCollect[j] = accepted[Ahead(w) + j]
        BY <3>2 DEF QueueContinues
      <4>3. Ahead(w)' + Len(m_SendPackCollect') = Len(accepted')
            /\ \A j \in 1..Len(m_SendPackCollect') :
                 m_SendPackCollect'[j] = accepted'[Ahead(w)' + j]
        <5>1. Ahead(w)' + Len(m_SendPackCollect') = Len(accepted')
          <6>1. /\ Len(accepted') = Len(accepted) + 1
                /\ Len(m_SendPackCollect') = Len(m_SendPackCollect) + 1
            BY <1>2, <1>3, <2>1, Zenon
          <6> QED BY ONLY <1>4, <3>6, <4>2, <6>1
        <5>2. ASSUME NEW j \in 1..Len(m_SendPackCollect')
              PROVE  m_SendPackCollect'[j] = accepted'[Ahead(w)' + j]
          <6>1. CASE j \in 1..Len(m_SendPackCollect)
            <7>1. Ahead(w) + j \in 1..Len(accepted)
              BY <1>4, <3>6, <4>2, <6>1
            <7> QED BY <1>2, <1>3, <2>1, <3>6, <4>2, <6>1, <7>1
          <6>2. CASE j = Len(m_SendPackCollect) + 1
            <7>0. Ahead(w) + Len(m_SendPackCollect) = Len(accepted)
              BY <4>2
            <7>1. Ahead(w)' + j = Len(accepted) + 1
              BY <1>4, <3>6, <6>2, <7>0
            <7> QED BY <1>2, <1>3, <2>1, <6>2, <7>1
          <6> QED BY <1>3, <1>4, <2>1, <6>1, <6>2
        <5> QED BY <5>1, <5>2
      <4> QED BY <4>1, <4>3, Zenon DEF QueueContinues
    <3> QED BY <1>5, <2>1, <3>2, <3>4, <3>5, <3>7, OneWrite
  <2> QED BY <2>2, <2>3
<1> QED BY <1>6, <1>7

(* What dropping the first element leaves.                                  *)
LEMMA TailFacts ==
  ASSUME NEW S, NEW s \in Seq(S), Len(s) >= 1
  PROVE  /\ s # <<>> /\ Tail(s) \in Seq(S) /\ Len(Tail(s)) = Len(s) - 1
         /\ \A j \in 1..(Len(s) - 1) : Tail(s)[j] = s[j + 1]
OBVIOUS

(* A completed write leaves a queue that continues the wire. *)
LEMMA HandWriteOkAccounts ==
  ASSUME TypeOK, TypeOK', NothingMislaid, NEW i \in DOMAIN writes,
         HandWriteOk(i)
  PROVE  NothingMislaid'
<1>0. PICK w : w = writes[1]
  OBVIOUS
<1>1. /\ i = 1 /\ Len(writes) = 1 /\ writes \in Seq(Write)
      /\ w \in Write /\ ~failed /\ QueueContinues(w)
      /\ w.len >= 1 /\ Len(wire) - w.sent + w.len <= Len(accepted)
  BY <1>0, TheWrite DEF TypeOK
<1> DEFINE q == Popped(m_SendPackCollect)
<1>2. /\ w.sent = w.len /\ doSend(FALSE, q, <<>>)
      /\ accepted' = accepted /\ wire' = wire /\ failed' = failed
  BY <1>0, <1>1, WithoutOnly DEF HandWriteOk
<1>3. /\ Len(wire) \in Nat /\ Len(accepted) \in Nat
      /\ m_SendPackCollect \in Seq(Packs) /\ Len(m_SendPackCollect) \in Nat
      /\ w.len \in Nat /\ w.sent \in Nat /\ w.sent <= Len(wire)
      /\ w.len = m_iSendPackCount /\ (w.from = "buff" <=> w.len > 1)
      /\ Ahead(w) + Len(m_SendPackCollect) = Len(accepted)
      /\ \A j \in 1..Len(m_SendPackCollect) :
           m_SendPackCollect[j] = accepted[Ahead(w) + j]
  <2>1. /\ w.sent <= Len(wire) /\ w.len = m_iSendPackCount
        /\ (w.from = "buff" <=> w.len > 1)
        /\ Ahead(w) + Len(m_SendPackCollect) = Len(accepted)
        /\ \A j \in 1..Len(m_SendPackCollect) :
             m_SendPackCollect[j] = accepted[Ahead(w) + j]
    BY <1>1, Zenon DEF QueueContinues
  <2>2. w \in Write
    BY <1>1
  <2>3. w.len \in Nat /\ w.sent \in Nat
    BY ONLY <2>2 DEF Write
  <2>4. /\ Len(wire) \in Nat /\ Len(accepted) \in Nat
        /\ m_SendPackCollect \in Seq(Packs) /\ Len(m_SendPackCollect) \in Nat
    BY DEF TypeOK
  <2> QED BY ONLY <2>1, <2>3, <2>4
<1>4. q \in Seq(Packs) /\ InOrder'
  BY <1>2, <1>3, PoppedType DEF NothingMislaid, InOrder
<1>5. CASE w.from = "buff"
  <2>1. q = m_SendPackCollect
    BY <1>3, <1>5 DEF Popped
  <2>2. Ahead(w) = Len(wire)
    BY <1>2, <1>3, <1>5 DEF Ahead
  <2> HIDE DEF q
  <2> QED BY <1>1, <1>2, <1>3, <1>4, <2>1, <2>2, DoSendAccounts
<1>6. CASE w.from # "buff"
  <2>1. w.len = 1 /\ m_iSendPackCount = 1
    BY <1>1, <1>3, <1>6
  <2>2. Ahead(w) = Len(wire) - 1
    BY <1>2, <1>3, <1>6, <2>1 DEF Ahead
  <2>3. Len(m_SendPackCollect) >= 1
    BY <1>1, <1>2, <1>3, <2>1, <2>2
  <2>4. /\ q = Tail(m_SendPackCollect) /\ Len(q) = Len(m_SendPackCollect) - 1
        /\ \A j \in 1..(Len(m_SendPackCollect) - 1) :
             q[j] = m_SendPackCollect[j + 1]
    BY <1>3, <2>1, <2>3, TailFacts DEF Popped
  <2> HIDE DEF q
  <2>5. Len(wire) + Len(q) = Len(accepted)
    BY <1>3, <2>2, <2>3, <2>4
  <2>6. ASSUME NEW j \in 1..Len(q) PROVE q[j] = accepted[Len(wire) + j]
    <3>1. Len(q) = Len(m_SendPackCollect) - 1
      BY <2>4
    <3>2. j \in 1..(Len(m_SendPackCollect) - 1)
      BY <3>1
    <3>3. j + 1 \in 1..Len(m_SendPackCollect)
      BY <1>3, <3>2
    <3>4. Ahead(w) + (j + 1) = Len(wire) + j
      BY <1>3, <2>2, <3>2
    <3> QED BY <1>3, <2>4, <3>2, <3>3, <3>4
  <2> QED BY <1>1, <1>2, <1>4, <2>5, <2>6, DoSendAccounts
<1> QED BY <1>5, <1>6

(* A failed write leaves its packs accounted for as unsent.                 *)
LEMMA HandWriteErrorAccounts ==
  ASSUME TypeOK, TypeOK', NothingMislaid, NEW i \in DOMAIN writes,
         HandWriteError(i)
  PROVE  NothingMislaid'
<1>1. i = 1 /\ Len(writes) = 1 /\ writes \in Seq(Write) /\ m_Sending
  BY TheWrite DEF TypeOK
<1>2. writes' = <<>> /\ failed' /\ m_Sending'
  BY <1>1, WithoutOnly DEF HandWriteError
<1>3. InOrder'
  BY DEF HandWriteError, NothingMislaid, InOrder
<1>4. WriteMemoryStable' /\ OneWriteAtATime'
  BY <1>2 DEF WriteMemoryStable, OneWriteAtATime
<1> QED BY <1>2, <1>3, <1>4 DEF NothingMislaid

(* The pack that leaves is the next one the callers sent. *)
LEMMA TransmitAccounts ==
  ASSUME TypeOK, TypeOK', NothingMislaid, NEW i \in DOMAIN writes,
         Transmit(i)
  PROVE  NothingMislaid'
<1>0. PICK w : w = writes[1]
  OBVIOUS
<1> DEFINE v == [w EXCEPT !.sent = w.sent + 1]
<1>1. /\ i = 1 /\ Len(writes) = 1 /\ writes = <<w>> /\ writes \in Seq(Write)
      /\ w \in Write /\ m_Sending /\ ~failed /\ QueueContinues(w)
      /\ w.len >= 1 /\ w.len <= Len(Source(w))
      /\ Len(wire) - w.sent + w.len <= Len(accepted)
      /\ \A j \in 1..w.len : Source(w)[j] = accepted[Len(wire) - w.sent + j]
  BY <1>0, TheWrite DEF TypeOK
<1>2. /\ w.sent < w.len /\ wire' = Append(wire, Source(w)[w.sent + 1])
      /\ writes' = <<v>> /\ m_Sending' /\ ~failed'
      /\ m_SendPackCollect' = m_SendPackCollect /\ m_pSendBuff' = m_pSendBuff
      /\ m_iSendPackCount' = m_iSendPackCount /\ accepted' = accepted
  BY <1>0, <1>1 DEF Transmit, memory
<1>3. /\ Len(wire) \in Nat /\ Len(accepted) \in Nat
      /\ w.len \in Nat /\ w.sent \in Nat /\ w.sent <= Len(wire)
      /\ w.len = m_iSendPackCount /\ (w.from = "buff" <=> w.len > 1)
  <2>1. w.sent <= Len(wire) /\ w.len = m_iSendPackCount
        /\ (w.from = "buff" <=> w.len > 1)
    BY <1>1, Zenon DEF QueueContinues
  <2>2. w \in Write
    BY <1>1
  <2>3. w.len \in Nat /\ w.sent \in Nat
    BY ONLY <2>2 DEF Write
  <2> QED BY <2>1, <2>3 DEF TypeOK
<1>4. v \in Write /\ v.from = w.from /\ v.len = w.len /\ v.sent = w.sent + 1
  <2>1. w \in Write
    BY <1>1
  <2> QED BY ONLY <2>1 DEF Write
<1> HIDE DEF v
<1>5. Source(w)[w.sent + 1] = accepted[Len(wire) + 1]
  <2>1. w.sent + 1 \in 1..w.len /\ Len(wire) - w.sent + (w.sent + 1) = Len(wire) + 1
    BY <1>2, <1>3
  <2> QED BY <1>1, <2>1
<1>6. /\ Len(wire) + 1 <= Len(accepted)
      /\ accepted[Len(wire) + 1] \in Packs
  <2>1. Len(wire) - w.sent + w.len <= Len(accepted) /\ w.sent < w.len
    BY <1>1, <1>2, Zenon
  <2>2. Len(wire) + 1 <= Len(accepted)
    BY ONLY <1>3, <2>1
  <2>3. Len(wire) + 1 \in 1..Len(accepted)
    BY ONLY <1>3, <2>2
  <2>4. accepted \in Seq(Packs)
    BY DEF TypeOK
  <2> QED BY ONLY <2>2, <2>3, <2>4
<1>7. /\ Len(wire') = Len(wire) + 1
      /\ \A j \in 1..Len(wire) : wire'[j] = wire[j]
      /\ wire'[Len(wire) + 1] = accepted[Len(wire) + 1]
  BY <1>2, <1>5, <1>6, AppendFacts DEF TypeOK
<1>8. InOrder'
  BY <1>2, <1>3, <1>6, <1>7 DEF NothingMislaid, InOrder
<1>9. Len(wire') - v.sent = Len(wire) - w.sent
  <2>1. Len(wire) \in Nat /\ w.sent \in Nat
    BY <1>3
  <2>2. Len(wire') = Len(wire) + 1 /\ v.sent = w.sent + 1
    BY <1>4, <1>7
  <2> QED BY <2>1, <2>2
<1>10. Source(v)' = Source(w) /\ Ahead(v)' = Ahead(w)
  BY <1>2, <1>4, <1>9 DEF Source, Ahead
<1>11. QueueContinues(v)'
  <2>1. /\ v.sent <= v.len /\ v.sent <= Len(wire')
        /\ v.len = m_iSendPackCount' /\ (v.from = "buff" <=> v.len > 1)
    BY <1>2, <1>3, <1>4, <1>7
  <2>2. /\ Ahead(v)' + Len(m_SendPackCollect') = Len(accepted')
        /\ \A j \in 1..Len(m_SendPackCollect') :
             m_SendPackCollect'[j] = accepted'[Ahead(v)' + j]
    BY <1>1, <1>2, <1>10 DEF QueueContinues
  <2> QED BY <2>1, <2>2, Zenon DEF QueueContinues
<1> QED BY <1>1, <1>2, <1>4, <1>8, <1>9, <1>10, <1>11, OneWrite

(* Every step accounts for every pack.                                      *)
LEMMA AccountsStep ==
  TypeOK /\ TypeOK' /\ NothingMislaid /\ [Next]_vars => NothingMislaid'
<1> SUFFICES ASSUME TypeOK, TypeOK', NothingMislaid, [Next]_vars
             PROVE  NothingMislaid'
  OBVIOUS
<1>1. ASSUME NEW p \in Packs, Send(p) PROVE NothingMislaid'
  BY <1>1, SendAccounts
<1>2. ASSUME NEW i \in DOMAIN writes, HandWriteOk(i) PROVE NothingMislaid'
  BY <1>2, HandWriteOkAccounts
<1>3. ASSUME NEW i \in DOMAIN writes, HandWriteError(i) PROVE NothingMislaid'
  BY <1>3, HandWriteErrorAccounts
<1>4. ASSUME NEW i \in DOMAIN writes, Transmit(i) PROVE NothingMislaid'
  BY <1>4, TransmitAccounts
<1>5. CASE UNCHANGED vars
  BY <1>5 DEF vars, NothingMislaid, InOrder, OneWriteAtATime,
              WriteMemoryStable, QueueContinues, Ahead, Source, TypeOK
<1> QED BY <1>1, <1>2, <1>3, <1>4, <1>5 DEF Next

(* Between callers of send(), completions of writes and the operating       *)
(* system reading the buffers, every accepted pack stays accounted for: the *)
(* inductive invariant of the send side.                                    *)
THEOREM SendQueueAccounts == Spec => []NothingMislaid
<1>1. Init => TypeOK /\ NothingMislaid
  <2> SUFFICES ASSUME Init PROVE TypeOK /\ NothingMislaid
    OBVIOUS
  <2>1. <<>> \in Seq(Packs) /\ <<>> \in Seq(Write) /\ 0..1 \subseteq Nat
    OBVIOUS
  <2>2. TypeOK
    BY <2>1, Zenon DEF Init, TypeOK
  <2>3. InOrder /\ OneWriteAtATime /\ WriteMemoryStable
    BY DEF Init, InOrder, OneWriteAtATime, WriteMemoryStable
  <2> QED BY <2>2, <2>3 DEF Init, NothingMislaid
<1> QED BY <1>1, TypeStep, AccountsStep, PTL DEF Spec

(* The peer receives a prefix of what callers sent, in their order. *)
THEOREM SendQueueInOrder == Spec => []InOrder
<1>1. NothingMislaid => InOrder
  BY DEF NothingMislaid
<1> QED BY <1>1, SendQueueAccounts, PTL

(* doSend never starts a write while another one is outstanding. *)
THEOREM SendQueueOneWrite == Spec => []OneWriteAtATime
<1>1. NothingMislaid => OneWriteAtATime
  BY DEF NothingMislaid
<1> QED BY <1>1, SendQueueAccounts, PTL

(* The memory of an outstanding write is not reused before it completes. *)
THEOREM SendQueueMemory == Spec => []WriteMemoryStable
<1>1. NothingMislaid => WriteMemoryStable
  BY DEF NothingMislaid
<1> QED BY <1>1, SendQueueAccounts, PTL
-----------------------------------------------------------------------------
(* The send side takes the steps of a first-in first-out channel. *)

(* send() is the channel's Accept.                                          *)
LEMMA ChannelSendStep ==
  ASSUME NEW p \in Packs, Send(p)
  PROVE  Channel!Accept(p)
BY DEF Send, Channel!Accept

(* A pack reaching the wire is the channel's Deliver: it is the next one.   *)
LEMMA ChannelTransmitStep ==
  ASSUME TypeOK, TypeOK', NothingMislaid, NothingMislaid',
         NEW i \in DOMAIN writes, Transmit(i)
  PROVE  Channel!Deliver
<1>1. ~failed /\ ~failed' /\ accepted' = accepted
  BY TheWrite DEF Transmit
<1>2. PICK e : wire' = Append(wire, e)
  BY DEF Transmit
<1>3. /\ Len(wire) \in Nat /\ Len(accepted) \in Nat /\ Len(wire') = Len(wire) + 1
      /\ wire'[Len(wire) + 1] = e
  BY <1>2 DEF TypeOK
<1>4. InOrder'
  BY DEF NothingMislaid
<1>5. Len(wire) < Len(accepted) /\ e = accepted[Len(wire) + 1]
  BY <1>1, <1>3, <1>4 DEF InOrder
<1> QED BY <1>1, <1>2, <1>5 DEF Channel!Deliver

(* A failed write is the channel's Break.                                   *)
LEMMA ChannelErrorStep ==
  ASSUME TypeOK, NothingMislaid, NEW i \in DOMAIN writes, HandWriteError(i)
  PROVE  Channel!Break
<1>1. ~failed /\ failed'
  BY TheWrite DEF HandWriteError
<1> QED BY <1>1 DEF HandWriteError, Channel!Break

(* Every other step leaves the channel alone.                               *)
LEMMA ChannelStep ==
  TypeOK /\ TypeOK' /\ NothingMislaid /\ NothingMislaid' /\ [Next]_vars
    => [Channel!Next]_(Channel!vars)
<1> SUFFICES ASSUME TypeOK, TypeOK', NothingMislaid, NothingMislaid',
                    [Next]_vars
             PROVE  [Channel!Next]_(Channel!vars)
  OBVIOUS
<1>1. ASSUME NEW p \in Packs, Send(p) PROVE Channel!Next
  BY <1>1, ChannelSendStep DEF Channel!Next
<1>2. ASSUME NEW i \in DOMAIN writes, HandWriteOk(i)
      PROVE  UNCHANGED Channel!vars
  BY <1>2 DEF HandWriteOk, Channel!vars
<1>3. ASSUME NEW i \in DOMAIN writes, HandWriteError(i) PROVE Channel!Next
  BY <1>3, ChannelErrorStep DEF Channel!Next
<1>4. ASSUME NEW i \in DOMAIN writes, Transmit(i) PROVE Channel!Next
  BY <1>4, ChannelTransmitStep DEF Channel!Next
<1>5. CASE UNCHANGED vars
  BY <1>5 DEF vars, Channel!vars
<1> QED BY <1>1, <1>2, <1>3, <1>4, <1>5 DEF Next

(* Every step of the send side is a step of the first-in first-out channel  *)
(* or leaves it unchanged; that the channel also delivers what it accepted  *)
(* rests on fairness, and is model-checked.                                 *)
THEOREM SendQueueImplementsChannel ==
  Spec => Channel!Init /\ [][Channel!Next]_(Channel!vars)
<1>1. Init => Channel!Init
  BY DEF Init, Channel!Init
<1> QED BY <1>1, ChannelStep, SendQueueTypeOK, SendQueueAccounts, PTL DEF Spec
-----------------------------------------------------------------------------
(* Batches. *)

(* The sizes of the prefixes of a prefix are those of the whole. *)
LEMMA PrefixSizeOfPrefix ==
  ASSUME NEW q \in Seq(Packs), NEW k \in 0..Len(q)
  PROVE  \A j \in 0..k : PrefixSize(SubSeq(q, 1, k))[j] = PrefixSize(q)[j]
<1> DEFINE r == SubSeq(q, 1, k)
           Same == {j \in Nat : j <= k => PrefixSize(r)[j] = PrefixSize(q)[j]}
<1>1. r \in Seq(Packs) /\ Len(r) = k /\ \A j \in 1..k : r[j] = q[j]
  OBVIOUS
<1> HIDE DEF r
<1>2. 0 \in Same
  BY <1>1, PrefixSizeGrows
<1>3. ASSUME NEW j \in Nat, j \in Same, j + 1 <= k
      PROVE  PrefixSize(r)[j + 1] = PrefixSize(q)[j + 1]
  <2>1. j + 1 \in 1..k /\ j + 1 \in 1..Len(q) /\ (j + 1) - 1 = j
    BY <1>3
  <2>2. PrefixSize(r)[j] = PrefixSize(q)[j]
    BY <1>3
  <2>3. PrefixSize(r)[j + 1] = PrefixSize(r)[j] + Size[r[j + 1]]
    BY <1>1, <2>1, PrefixSizeGrows
  <2>4. PrefixSize(q)[j + 1] = PrefixSize(q)[j] + Size[q[j + 1]]
    BY <2>1, PrefixSizeGrows
  <2> QED BY <1>1, <2>1, <2>2, <2>3, <2>4
<1>4. Nat \subseteq Same
  <2>1. \A j \in Nat : j \in Same => j + 1 \in Same
    BY <1>3
  <2> HIDE DEF Same
  <2> QED BY <1>2, <2>1, SetInduction
<1> QED BY <1>4 DEF r

(* The prefixes of a queue get longer and larger together. *)
LEMMA PrefixSizeMonotone ==
  ASSUME NEW q \in Seq(Packs), NEW j \in 0..Len(q), NEW k \in j..Len(q)
  PROVE  PrefixSize(q)[j] <= PrefixSize(q)[k]
<1> DEFINE p == PrefixSize(q)
           Larger == {n \in Nat : j + n <= Len(q) => p[j] <= p[j + n]}
<1>1. /\ \A m \in 0..Len(q) : p[m] \in Nat
      /\ \A m \in 1..Len(q) : p[m] = p[m - 1] + Size[q[m]]
  BY PrefixSizeGrows
<1> HIDE DEF p
<1>2. 0 \in Larger
  <2>1. j + 0 = j /\ p[j] \in Nat
    BY <1>1
  <2> QED BY <2>1
<1>3. ASSUME NEW n \in Nat, n \in Larger, j + (n + 1) <= Len(q)
      PROVE  p[j] <= p[j + (n + 1)]
  <2>1. /\ j + (n + 1) \in 1..Len(q) /\ j + (n + 1) - 1 = j + n
        /\ j + n \in 0..Len(q) /\ j + n <= Len(q)
    BY <1>3
  <2>2. p[j + (n + 1)] = p[j + n] + Size[q[j + (n + 1)]]
    BY <1>1, <2>1
  <2>3. Size[q[j + (n + 1)]] \in Nat
    BY <2>1, SendQueueAssumption
  <2>4. p[j] \in Nat /\ p[j + n] \in Nat /\ p[j] <= p[j + n]
    BY <1>1, <1>3, <2>1
  <2> QED BY <2>2, <2>3, <2>4
<1>4. Nat \subseteq Larger
  <2>1. \A n \in Nat : n \in Larger => n + 1 \in Larger
    BY <1>3
  <2> HIDE DEF Larger
  <2> QED BY <1>2, <2>1, SetInduction
<1>5. k - j \in Nat /\ j + (k - j) = k
  OBVIOUS
<1> QED BY <1>4, <1>5 DEF p

(* For every queue there is a batch: the loop stops.                        *)
LEMMA BatchExists ==
  ASSUME NEW q \in Seq(Packs), q # <<>>
  PROVE  \E k \in 1..Len(q) : IsBatch(q, k)
<1> DEFINE p == PrefixSize(q)
           Fits == {n \in Nat : n + 1 <= Len(q)
                                  => n = 0 \/ p[n + 1] <= MAX_SEND_LEN}
<1>0. Len(q) \in Nat /\ Len(q) >= 1
  OBVIOUS
<1>1. SUFFICES ASSUME \A k \in 1..Len(q) : ~IsBatch(q, k) PROVE FALSE
  OBVIOUS
<1>2. \A k \in 1..Len(q) : p[k] \in Nat
  BY PrefixSizeGrows
<1>3. 0 \in Fits
  OBVIOUS
<1>4. ASSUME NEW n \in Nat, n \in Fits, n + 2 <= Len(q)
      PROVE  p[n + 2] <= MAX_SEND_LEN
  <2>1. n + 1 \in 1..Len(q) /\ n + 2 \in 1..Len(q) /\ (n + 1) + 1 = n + 2
    BY <1>0, <1>4
  <2>2. n + 1 = 1 \/ p[n + 1] <= MAX_SEND_LEN
    BY <1>4, <2>1
  <2>3. ~(p[n + 2] > MAX_SEND_LEN)
    BY <1>1, <2>1, <2>2 DEF IsBatch
  <2>4. p[n + 2] \in Nat
    BY <1>2, <2>1
  <2> QED BY <2>3, <2>4, SendQueueAssumption
<1>5. Nat \subseteq Fits
  <2>1. ASSUME NEW n \in Nat, n \in Fits PROVE n + 1 \in Fits
    <3>1. (n + 1) + 1 = n + 2
      OBVIOUS
    <3> QED BY <1>4, <2>1, <3>1
  <2> HIDE DEF Fits
  <2> QED BY <1>3, <2>1, SetInduction
<1>6. Len(q) = 1 \/ p[Len(q)] <= MAX_SEND_LEN
  <2>1. Len(q) - 1 \in Nat /\ (Len(q) - 1) + 1 = Len(q)
    BY <1>0
  <2>2. Len(q) - 1 \in Fits
    <3> HIDE DEF Fits
    <3> QED BY <1>5, <2>1
  <2> QED BY <1>0, <2>1, <2>2
<1>7. IsBatch(q, Len(q))
  BY <1>0, <1>6 DEF IsBatch
<1> QED BY <1>0, <1>1, <1>7

(* ... and no second one.                                                   *)
LEMMA BatchAtMostOne ==
  ASSUME NEW q \in Seq(Packs), NEW k \in 1..Len(q), NEW m \in 1..Len(q),
         IsBatch(q, k), IsBatch(q, m), k < m
  PROVE  FALSE
<1>1. /\ k + 1 \in 0..Len(q) /\ m \in (k + 1)..Len(q) /\ k < Len(q) /\ m # 1
  OBVIOUS
<1>2. PrefixSize(q)[k + 1] <= PrefixSize(q)[m]
  BY <1>1, PrefixSizeMonotone
<1>3. PrefixSize(q)[k + 1] > MAX_SEND_LEN /\ PrefixSize(q)[m] <= MAX_SEND_LEN
  BY <1>1 DEF IsBatch
<1>4. PrefixSize(q)[k + 1] \in Nat /\ PrefixSize(q)[m] \in Nat
  BY <1>1, PrefixSizeGrows
<1> QED BY <1>2, <1>3, <1>4, SendQueueAssumption

(* The loop of doSend always settles on exactly one batch: a waiting pack   *)
(* cannot block the queue, whatever its size and the limit.                 *)
THEOREM SendQueueBatchIsUnique == Spec => []BatchIsUnique
<1>1. TypeOK => BatchIsUnique
  <2> SUFFICES ASSUME TypeOK, m_SendPackCollect # <<>>
               PROVE  Cardinality({k \in 1..Len(m_SendPackCollect) :
                                     IsBatch(m_SendPackCollect, k)}) = 1
    BY DEF BatchIsUnique
  <2>0. m_SendPackCollect \in Seq(Packs) /\ Len(m_SendPackCollect) \in Nat
    BY DEF TypeOK
  <2>1. PICK k \in 1..Len(m_SendPackCollect) : IsBatch(m_SendPackCollect, k)
    BY <2>0, BatchExists
  <2>2. ASSUME NEW m \in 1..Len(m_SendPackCollect), IsBatch(m_SendPackCollect, m)
        PROVE  m = k
    <3>1. ~(k < m) /\ ~(m < k)
      BY <2>0, <2>1, <2>2, BatchAtMostOne
    <3> QED BY <2>0, <3>1
  <2>3. {m \in 1..Len(m_SendPackCollect) : IsBatch(m_SendPackCollect, m)} = {k}
    BY <2>1, <2>2
  <2> QED BY <2>3, FS_Singleton
<1> QED BY <1>1, SendQueueTypeOK, PTL

(* doSend on an idle connection starts a batch that fits. *)
LEMMA DoSendFits ==
  ASSUME TypeOK, NEW q \in Seq(Packs), doSend(FALSE, q, <<>>)
  PROVE  BatchFitsBuffer'
<1>1. CASE NothingToSend(FALSE, q, <<>>)
  BY <1>1 DEF NothingToSend, BatchFitsBuffer
<1>2. CASE m_Sending' = TRUE /\ SendOne(q, <<>>)
  BY <1>2 DEF SendOne, BatchFitsBuffer
<1>3. CASE m_Sending' = TRUE /\ SendBatch(q, <<>>)
  <2>1. PICK k \in 2..Len(q) :
          /\ IsBatch(q, k)
          /\ m_iBuffSize' = Grown(PrefixSize(q)[k])
          /\ m_pSendBuff' = SubSeq(q, 1, k)
          /\ writes' = Append(<<>>, [from |-> "buff", len |-> k, sent |-> 0])
    BY <1>3 DEF SendBatch
  <2>2. k \in 0..Len(q) /\ k \in 0..k
    OBVIOUS
  <2>3. PrefixSize(m_pSendBuff')[k] = PrefixSize(q)[k]
    BY <2>1, <2>2, PrefixSizeOfPrefix
  <2>4. PrefixSize(q)[k] \in Nat
    BY <2>2, PrefixSizeGrows
  <2>5. PrefixSize(q)[k] <= m_iBuffSize' /\ PrefixSize(q)[k] <= MAX_SEND_LEN
    <3>1. PrefixSize(q)[k] <= MAX_SEND_LEN
      BY <2>1 DEF IsBatch
    <3>2. Grown(PrefixSize(q)[k]) = MAX_SEND_LEN
      BY <2>4, <3>1, GrownType DEF TypeOK
    <3> QED BY <2>1, <3>1, <3>2
  <2>6. DOMAIN writes' = {1} /\ writes'[1].len = k
    BY <2>1
  <2> QED BY <2>3, <2>5, <2>6 DEF BatchFitsBuffer
<1> QED BY <1>1, <1>2, <1>3 DEF doSend

(* No step starts a write that does not fit its buffer.                     *)
LEMMA FitsStep ==
  TypeOK /\ NothingMislaid /\ BatchFitsBuffer /\ [Next]_vars => BatchFitsBuffer'
<1> SUFFICES ASSUME TypeOK, NothingMislaid, BatchFitsBuffer, [Next]_vars
             PROVE  BatchFitsBuffer'
  OBVIOUS
<1>1. ASSUME NEW p \in Packs, Send(p) PROVE BatchFitsBuffer'
  <2> DEFINE q == Append(m_SendPackCollect, p)
  <2>1. q \in Seq(Packs) /\ doSend(m_Sending, q, writes)
    BY <1>1 DEF TypeOK, Send
  <2> HIDE DEF q
  <2>2. CASE m_Sending
    BY <2>1, <2>2 DEF doSend, NothingToSend, BatchFitsBuffer
  <2>3. CASE ~m_Sending
    <3>1. writes = <<>>
      BY <2>3 DEF NothingMislaid
    <3>2. doSend(FALSE, q, <<>>)
      BY <2>1, <2>3, <3>1 DEF doSend, NothingToSend
    <3> QED BY <2>1, <3>2, DoSendFits
  <2> QED BY <2>2, <2>3
<1>2. ASSUME NEW i \in DOMAIN writes, HandWriteOk(i) PROVE BatchFitsBuffer'
  <2>1. i = 1 /\ Len(writes) = 1 /\ writes \in Seq(Write)
    BY TheWrite DEF TypeOK
  <2>2. doSend(FALSE, Popped(m_SendPackCollect), <<>>)
    BY <1>2, <2>1, WithoutOnly DEF HandWriteOk
  <2>3. Popped(m_SendPackCollect) \in Seq(Packs)
    BY PoppedType DEF TypeOK
  <2> QED BY <2>2, <2>3, DoSendFits
<1>3. ASSUME NEW i \in DOMAIN writes, HandWriteError(i) PROVE BatchFitsBuffer'
  <2>1. i = 1 /\ Len(writes) = 1 /\ writes \in Seq(Write)
    BY TheWrite DEF TypeOK
  <2>2. writes' = <<>>
    BY <1>3, <2>1, WithoutOnly DEF HandWriteError
  <2> QED BY <2>2 DEF BatchFitsBuffer
<1>4. ASSUME NEW i \in DOMAIN writes, Transmit(i) PROVE BatchFitsBuffer'
  <2>1. /\ m_pSendBuff' = m_pSendBuff /\ m_iBuffSize' = m_iBuffSize
        /\ writes' = [writes EXCEPT ![i].sent = writes[i].sent + 1]
    BY <1>4 DEF Transmit, memory
  <2>2. /\ DOMAIN writes' = DOMAIN writes
        /\ \A j \in DOMAIN writes : /\ writes'[j].from = writes[j].from
                                    /\ writes'[j].len = writes[j].len
    <3>1. writes \in Seq(Write)
      BY DEF TypeOK
    <3> QED BY ONLY <2>1, <3>1 DEF Write
  <2> QED BY <2>1, <2>2 DEF BatchFitsBuffer
<1>5. CASE UNCHANGED vars
  BY <1>5 DEF vars, BatchFitsBuffer
<1> QED BY <1>1, <1>2, <1>3, <1>4, <1>5 DEF Next

(* A batch never exceeds the limit nor the buffer it was copied into.       *)
THEOREM SendQueueBatchFits == Spec => []BatchFitsBuffer
<1>1. Init => BatchFitsBuffer
  BY DEF Init, BatchFitsBuffer
<1> QED BY <1>1, FitsStep, SendQueueTypeOK, SendQueueAccounts, PTL DEF Spec
=============================================================================
