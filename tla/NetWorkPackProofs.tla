-------------------------- MODULE NetWorkPackProofs --------------------------
(***************************************************************************)
(* A pack is read as it was sent, whatever its body.                       *)
(***************************************************************************)
EXTENDS NetWorkPack, TLAPS

(* Exchanging the halves of a byte twice changes nothing.                   *)
LEMMA ByteChangeTwice ==
  ASSUME NEW b \in Byte
  PROVE  net_byteChange(b) \in Byte /\ net_byteChange(net_byteChange(b)) = b
<1>1. PICK q \in 0..15, r \in 0..15 : b = q * 16 + r
  <2>1. b % 16 \in 0..15 /\ b \div 16 \in 0..15 /\ b = (b \div 16) * 16 + (b % 16)
    BY DEF Byte
  <2> QED BY <2>1
<1>2. net_byteChange(b) = r * 16 + q
  BY <1>1 DEF net_byteChange
<1>3. net_byteChange(r * 16 + q) = q * 16 + r
  BY <1>1 DEF net_byteChange
<1> QED BY <1>1, <1>2, <1>3 DEF Byte

(* Nor does exchanging bit 6 twice.                                         *)
LEMMA Flip64Twice ==
  ASSUME NEW b \in Byte
  PROVE  Flip64(b) \in Byte /\ Flip64(Flip64(b)) = b
BY DEF Byte, Flip64

(* Decryption undoes encryption, byte by byte.                              *)
THEOREM DecryptUndoesEncrypt ==
  ASSUME NEW s \in Seq(Byte)
  PROVE  net_encrypt(s) \in Seq(Byte) /\ net_decrypt(net_encrypt(s)) = s
<1>1. \A i \in 1..Len(s) : net_byteChange(Flip64(s[i])) \in Byte
  BY ByteChangeTwice, Flip64Twice
<1>2. net_encrypt(s) \in Seq(Byte) /\ DOMAIN net_encrypt(s) = 1..Len(s)
  BY <1>1 DEF net_encrypt
<1>3. \A i \in 1..Len(s) :
        Flip64(net_byteChange(net_byteChange(Flip64(s[i])))) = s[i]
  BY ByteChangeTwice, Flip64Twice
<1>4. net_decrypt(net_encrypt(s)) = [i \in 1..Len(s) |-> s[i]]
  BY <1>2, <1>3 DEF net_encrypt, net_decrypt
<1> QED BY <1>2, <1>4

(* A length with the head's added and taken away again is itself.           *)
LEMMA LengthSurvives ==
  ASSUME NEW n \in Nat, n + PACK_HEAD_SIZE < Word
  PROVE  /\ (n + PACK_HEAD_SIZE) % Word = n + PACK_HEAD_SIZE
         /\ ((n + PACK_HEAD_SIZE) - PACK_HEAD_SIZE) % Word = n
BY PackAssumption DEF PackAssumption, PACK_HEAD_SIZE
-----------------------------------------------------------------------------
(* The pack on this side, with what getData() has decrypted so far: its     *)
(* buffer is the one the other side made.                                   *)
Copy(d) == [buffer |-> Made(sent), dec |-> d, encryptpack |-> sent.encrypt]

InFlight ==
  /\ sent \in Arguments
  /\ stage \in {"none", "head", "body", "read"}
  /\ stage \in {"head", "body"} => wire = Made(sent)
  /\ stage = "body" => pack = [Copy(NULL) EXCEPT !.buffer.body = NULL]
  /\ stage = "read" => pack \in {Copy(NULL), Copy(sent.body)}

(* What the constructor makes of arguments, field by field.                 *)
LEMMA MadeFields ==
  ASSUME NEW a \in Arguments
  PROVE  /\ Made(a).length = Len(a.body) + PACK_HEAD_SIZE
         /\ (Made(a).length - PACK_HEAD_SIZE) % Word = Len(a.body)
         /\ isPackHead(Made(a), PACK_HEAD_SIZE)
         /\ (Made(a).head0 = PACKHEADENCRYPT) = a.encrypt
         /\ Resized(Made(a)) = [Made(a) EXCEPT !.body = NULL]
         /\ Len(Made(a).body) = Len(a.body)
         /\ a.encrypt => net_decrypt(Made(a).body) = a.body
         /\ ~a.encrypt => Made(a).body = a.body
<1>1. a.body \in Seq(Byte) /\ Len(a.body) \in Nat /\ Len(a.body) + PACK_HEAD_SIZE < Word
  BY PackAssumption DEF PackAssumption, Arguments
<1>2. a.encrypt \in BOOLEAN
  BY DEF Arguments
<1>3. Made(a).length = Len(a.body) + PACK_HEAD_SIZE
  BY <1>1, LengthSurvives DEF Made
<1>4. (Made(a).length - PACK_HEAD_SIZE) % Word = Len(a.body)
  BY <1>1, <1>3, LengthSurvives
<1>5. /\ isPackHead(Made(a), PACK_HEAD_SIZE)
      /\ (Made(a).head0 = PACKHEADENCRYPT) = a.encrypt
      /\ Head0(Made(a).head0 = PACKHEADENCRYPT) = Made(a).head0
  BY <1>2 DEF Made, isPackHead, Head0, PACKHEAD0, PACKHEADENCRYPT, PACK_HEAD_SIZE
<1>6. Resized(Made(a)) = [Made(a) EXCEPT !.body = NULL]
  <2>1. (((Made(a).length - PACK_HEAD_SIZE) % Word) + PACK_HEAD_SIZE) % Word = Made(a).length
    BY <1>1, <1>3, <1>4, LengthSurvives
  <2> QED BY <2>1, <1>5 DEF Resized, Made
<1>7. net_encrypt(a.body) \in Seq(Byte) /\ net_decrypt(net_encrypt(a.body)) = a.body
  BY <1>1, DecryptUndoesEncrypt
<1>8. Len(net_encrypt(a.body)) = Len(a.body)
  <2>1. DOMAIN net_encrypt(a.body) = 1..Len(a.body)
    BY <1>1 DEF net_encrypt
  <2> QED BY <1>1, <1>7, <2>1
<1>9. /\ Len(Made(a).body) = Len(a.body)
      /\ a.encrypt => net_decrypt(Made(a).body) = a.body
      /\ ~a.encrypt => Made(a).body = a.body
  BY <1>7, <1>8 DEF Made
<1> QED BY <1>3, <1>4, <1>5, <1>6, <1>9

(* The first pack is on the wire as it was made.                            *)
LEMMA InFlightInit == Init => InFlight
BY DEF Init, InFlight

(* Every step of sender and reader keeps the pack what was sent.            *)
LEMMA InFlightStep == InFlight /\ [Next]_vars => InFlight'
<1> SUFFICES ASSUME InFlight, [Next]_vars PROVE InFlight'
  OBVIOUS
<1> USE DEF InFlight
<1>1. CASE send
  BY <1>1 DEF send
<1>2. CASE handReadHead
  <2>1. isPackHead(wire, PACK_HEAD_SIZE) /\ wire = Made(sent) /\ sent \in Arguments
    BY <1>2, MadeFields DEF handReadHead
  <2>2. pack' = [buffer |-> [Made(sent) EXCEPT !.body = NULL], dec |-> NULL,
                 encryptpack |-> sent.encrypt]
    BY <1>2, <2>1, MadeFields DEF handReadHead
  <2>3. stage' = "body" /\ UNCHANGED <<sent, wire>>
    BY <1>2, <2>1 DEF handReadHead
  <2>4. pack' = [Copy(NULL) EXCEPT !.buffer.body = NULL]
    BY <2>2 DEF Copy
  <2>5. (Copy(NULL) = Copy(NULL)') /\ Made(sent)' = Made(sent)
    BY <2>3 DEF Copy, Made
  <2> QED BY <2>1, <2>3, <2>4, <2>5
<1>3. CASE handReadBody
  <2>1. pack' = [pack EXCEPT !.buffer.body = Made(sent).body] /\ stage' = "read"
        /\ UNCHANGED <<sent, wire>>
    BY <1>3 DEF handReadBody
  <2>2. pack = [Copy(NULL) EXCEPT !.buffer.body = NULL]
    BY <1>3 DEF handReadBody
  <2>3. pack' = Copy(NULL)
    <3> DEFINE buffer == [Made(sent) EXCEPT !.body = NULL]
    <3>1. pack = [buffer |-> buffer, dec |-> NULL, encryptpack |-> sent.encrypt]
      BY <2>2 DEF Copy
    <3>2. [buffer EXCEPT !.body = Made(sent).body] = Made(sent)
      BY DEF Made
    <3>3. pack' = [buffer |-> [buffer EXCEPT !.body = Made(sent).body], dec |-> NULL,
                   encryptpack |-> sent.encrypt]
      <4> HIDE DEF buffer
      <4> QED BY <2>1, <3>1
    <3> QED BY <3>2, <3>3 DEF Copy
  <2>4. pack' = Copy(NULL)'
    BY <2>1, <2>3 DEF Copy, Made
  <2> QED BY <2>1, <2>4
<1>4. CASE getData
  <2>1. pack \in {Copy(NULL), Copy(sent.body)} /\ UNCHANGED <<sent, wire, stage>>
        /\ stage = "read"
    BY <1>4 DEF getData
  <2>2. sent.encrypt => Decrypted(pack) = sent.body
    BY <2>1, MadeFields DEF Copy, Decrypted
  <2>3. pack' \in {Copy(NULL), Copy(sent.body)}
    BY <1>4, <2>1, <2>2 DEF getData, Copy
  <2>4. pack' \in {Copy(NULL)', Copy(sent.body)'}
    BY <2>1, <2>3 DEF Copy, Made
  <2> QED BY <2>1, <2>4
<1>5. CASE setUserData
  <2>1. PICK u \in Users : /\ pack' = [pack EXCEPT !.buffer.userdata = u]
                           /\ sent' = [sent EXCEPT !.userdata = u]
    BY <1>5 DEF setUserData
  <2>2. stage = "read" /\ UNCHANGED <<wire, stage>>
    BY <1>5 DEF setUserData
  <2>3. sent' \in Arguments /\ sent'.body = sent.body /\ sent'.encrypt = sent.encrypt
    BY <2>1 DEF Arguments
  <2>4. Made(sent)' = [Made(sent) EXCEPT !.userdata = u]
    BY <2>1 DEF Made, Arguments
  <2>5. pack' \in {Copy(NULL)', Copy(sent.body)'}
    BY <2>1, <2>2, <2>3, <2>4 DEF Copy
  <2> QED BY <2>2, <2>3, <2>5
<1>6. CASE release
  BY <1>6 DEF release
<1>7. CASE UNCHANGED vars
  BY <1>7 DEF vars, Copy, Made
<1> QED BY <1>1, <1>2, <1>3, <1>4, <1>5, <1>6, <1>7 DEF Next

(* ... and so does every behaviour.                                         *)
LEMMA InFlightAlways == Spec => []InFlight
BY InFlightInit, InFlightStep, PTL DEF Spec

(* What is read is what was sent.                                           *)
THEOREM PackRoundTrip == Spec => []RoundTrip
<1>1. InFlight => RoundTrip
  <2> SUFFICES ASSUME InFlight, stage = "read" PROVE RoundTrip
    BY DEF RoundTrip
  <2>1. pack \in {Copy(NULL), Copy(sent.body)} /\ sent \in Arguments
    BY DEF InFlight
  <2>2. pack.buffer = Made(sent) /\ pack.encryptpack = sent.encrypt
        /\ pack.dec \in {NULL, sent.body}
    BY <2>1 DEF Copy
  <2>3. Data(pack) = sent.body
    BY <2>1, <2>2, MadeFields DEF Data, Decrypted
  <2>4. getBodyLength(pack) = Len(sent.body)
    BY <2>1, <2>2, MadeFields DEF getBodyLength
  <2>5. /\ pack.buffer.messageid = sent.messageid
        /\ pack.buffer.userdata = sent.userdata
        /\ pack.buffer.serverId = sent.serverId
    BY <2>2 DEF Made
  <2> QED BY <2>3, <2>4, <2>5 DEF RoundTrip
<1> QED BY <1>1, InFlightAlways, PTL

(* Every pack made is read.                                                 *)
THEOREM PackPacksAreRead == Spec => []PacksAreRead
<1>1. InFlight => PacksAreRead
  <2> SUFFICES ASSUME InFlight PROVE PacksAreRead
    OBVIOUS
  <2>1. ASSUME stage = "body"
        PROVE  getBodyLength(pack) = Len(wire.body)
    <3>1. pack.buffer.length = Made(sent).length /\ wire = Made(sent) /\ sent \in Arguments
      BY <2>1 DEF InFlight, Copy, Made
    <3> QED BY <3>1, MadeFields DEF getBodyLength
  <2> QED BY <2>1 DEF InFlight, PacksAreRead
<1> QED BY <1>1, InFlightAlways, PTL
=============================================================================
