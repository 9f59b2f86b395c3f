----------------------------- MODULE NetWorkPack -----------------------------
(***************************************************************************)
(* NetWorkPack.cpp: the pack that carries a message, from the pack send()  *)
(* makes on one side, over its bytes on the wire, to the pack the reading  *)
(* side makes of them (handReadHead, handReadBody of Connection.cpp), and  *)
(* what that one answers to the listeners who ask it, again and again.     *)
(* A byte is a number below 256, whichever sign its char has.  The fields  *)
(* of the head are a record; the body is the sequence of its bytes.        *)
(***************************************************************************)
EXTENDS Integers, Sequences

CONSTANTS Bodies,        \* the messages' bodies
          MessageIds, Users, Servers,   \* what the other fields may be
          Word           \* 2^32: lengths are kept modulo this

Byte == 0..255
PACK_HEAD_SIZE == 19

(* No message is as long as memory: the code adds up lengths unchecked.     *)
ASSUME PackAssumption ==
  /\ Word \in Nat
  /\ Bodies \subseteq Seq(Byte)
  /\ \A body \in Bodies : Len(body) + PACK_HEAD_SIZE < Word

VARIABLES sent,     \* the arguments of the constructor, with the user data
                    \* as set last
          wire,     \* the bytes of the pack that was made
          stage,    \* how far the other side has come with them
          pack      \* the pack it makes

vars == <<sent, wire, stage, pack>>

NULL == <<>>      \* no bytes

PACKHEAD0 == 8
PACKHEADENCRYPT == 9
PACKHEAD1 == 8
PACKVERSION == 1
-----------------------------------------------------------------------------
(* net_byteChange(): the halves of a byte are exchanged.                    *)
net_byteChange(b) == (b % 16) * 16 + (b \div 16)

(* A byte ^ 64.                                                             *)
Flip64(b) == IF (b \div 64) % 2 = 1 THEN b - 64 ELSE b + 64

(* Mutant: encrypts in the order in which net_decrypt() decrypts. *)
net_encrypt_Swapped(s) == [i \in DOMAIN s |-> Flip64(net_byteChange(s[i]))]

net_encrypt(s) == [i \in DOMAIN s |-> net_byteChange(Flip64(s[i]))]
net_decrypt(s) == [i \in DOMAIN s |-> Flip64(net_byteChange(s[i]))]

Head0(encrypt) == IF encrypt THEN PACKHEADENCRYPT ELSE PACKHEAD0

(* The constructor, for a body of a length that is not 0.                   *)
Made(a) ==
  [head0 |-> Head0(a.encrypt), head1 |-> PACKHEAD1, version |-> PACKVERSION,
   length |-> (Len(a.body) + PACK_HEAD_SIZE) % Word,
   messageid |-> a.messageid, userdata |-> a.userdata, serverId |-> a.serverId,
   body |-> IF a.encrypt THEN net_encrypt(a.body) ELSE a.body]

(* length is that of the buffer, not of the pack.                           *)
isPackHead(h, length) ==
  /\ length >= PACK_HEAD_SIZE
  /\ h.head0 \in {PACKHEAD0, PACKHEADENCRYPT} /\ h.head1 = PACKHEAD1
  /\ h.version = PACKVERSION

(* Mutant: the body's length is taken for the pack's. *)
Resized_WholeLength(h) ==
  [head0 |-> h.head0, head1 |-> PACKHEAD1, version |-> PACKVERSION,
   length |-> h.length + PACK_HEAD_SIZE,
   messageid |-> h.messageid, userdata |-> h.userdata, serverId |-> h.serverId,
   body |-> NULL]

(* The buffer resize() makes for a head, still without a body.              *)
Resized(h) ==
  [head0 |-> Head0(h.head0 = PACKHEADENCRYPT), head1 |-> PACKHEAD1,
   version |-> PACKVERSION,
   length |-> (((h.length - PACK_HEAD_SIZE) % Word) + PACK_HEAD_SIZE) % Word,
   messageid |-> h.messageid, userdata |-> h.userdata, serverId |-> h.serverId,
   body |-> NULL]

getBodyLength(p) == (p.buffer.length - PACK_HEAD_SIZE) % Word
-----------------------------------------------------------------------------
Arguments == [messageid : MessageIds, body : Bodies \ {NULL}, encrypt : BOOLEAN,
              userdata : Users, serverId : Servers]

(* Connection::send(), which refuses an empty body.                         *)
send ==
  /\ stage = "none"
  /\ \E a \in Arguments : sent' = a /\ wire' = Made(a)
  /\ stage' = "head"
  /\ UNCHANGED pack

(* handReadHead(): a bad head ends the reading.                             *)
handReadHead ==
  /\ stage = "head"
  /\ IF isPackHead(wire, PACK_HEAD_SIZE)
     THEN /\ pack' = [buffer |-> Resized(wire), dec |-> NULL,
                      encryptpack |-> wire.head0 = PACKHEADENCRYPT]
          /\ stage' = "body"
     ELSE stage' = "ended" /\ UNCHANGED pack
  /\ UNCHANGED <<sent, wire>>

(* handReadBody(): as many bytes as the pack has room for.                  *)
handReadBody ==
  /\ stage = "body"
  /\ getBodyLength(pack) = Len(wire.body)
  /\ pack' = [pack EXCEPT !.buffer.body = wire.body]
  /\ stage' = "read"
  /\ UNCHANGED <<sent, wire>>

(* getData() decrypts a copy of the body, once.                             *)
Decrypted(p) == IF p.dec = NULL THEN net_decrypt(p.buffer.body) ELSE p.dec

getData ==
  /\ stage = "read"
  /\ pack' = IF pack.encryptpack THEN [pack EXCEPT !.dec = Decrypted(pack)] ELSE pack
  /\ UNCHANGED <<sent, wire, stage>>

(* What getData() returns.                                                  *)
Data(p) == IF p.encryptpack THEN Decrypted(p) ELSE p.buffer.body

setUserData ==
  /\ stage = "read"
  /\ \E u \in Users : /\ pack' = [pack EXCEPT !.buffer.userdata = u]
                      /\ sent' = [sent EXCEPT !.userdata = u]
  /\ UNCHANGED <<wire, stage>>

(* The pack is done with, and the next one is read.                         *)
release ==
  /\ stage = "read"
  /\ stage' = "none"
  /\ pack' = [buffer |-> NULL, dec |-> NULL, encryptpack |-> FALSE]
  /\ UNCHANGED <<sent, wire>>

Init == /\ sent \in Arguments /\ wire = Made(sent)
        /\ stage = "head"
        /\ pack = [buffer |-> NULL, dec |-> NULL, encryptpack |-> FALSE]

Next == send \/ handReadHead \/ handReadBody \/ getData \/ setUserData \/ release

Spec == Init /\ [][Next]_vars
-----------------------------------------------------------------------------
(* What is read is what was sent, whether encrypted or not and however      *)
(* often it is asked for: the body, its length, the message and the data    *)
(* about it.                                                                *)
RoundTrip ==
  stage = "read" =>
    /\ Data(pack) = sent.body
    /\ getBodyLength(pack) = Len(sent.body)
    /\ pack.buffer.messageid = sent.messageid
    /\ pack.buffer.userdata = sent.userdata
    /\ pack.buffer.serverId = sent.serverId

(* Every pack this code makes is read by it: its head is good, and the room *)
(* made for its body is the body's.                                         *)
PacksAreRead ==
  /\ stage # "ended"
  /\ stage = "body" => getBodyLength(pack) = Len(wire.body)
=============================================================================
