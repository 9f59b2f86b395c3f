---------------------------- MODULE RequestHandler ----------------------------
(***************************************************************************)
(* request_handler.cpp: the http server's handlers decode the uri with     *)
(* url_decode(); handle_get() then serves the board's data if it is asked  *)
(* for, handle_request() answers every path that stays below its root.  A  *)
(* character is its code; url_decode() is stepped through as its loop is.  *)
(***************************************************************************)
EXTENDS Integers, Sequences, SequencesExt

CONSTANTS Chars,     \* the characters of an uri
          MaxLen,    \* bound on its length
          Junk,      \* what may be behind the terminator of a string
          Target     \* "/getBilibiliAvFans"

ASSUME HandlerAssumption ==
  /\ Chars \subseteq 1..127 /\ Junk \subseteq 0..127
  /\ MaxLen \in Nat /\ Target \in Seq(1..127)

VARIABLES handler,  \* "get" or "request"
          encd,     \* the uri
          i,        \* the index url_decode() is at
          buffer,   \* what it has written; j is its length
          decd,     \* its result
          status    \* of the reply

vars == <<handler, encd, i, buffer, decd, status>>

Percent == 37
Slash == 47
Dot == 46
Digit == 48..57
Upper == 65..70     \* 'A' to 'F'
Lower == 97..102    \* 'a' to 'f'
-----------------------------------------------------------------------------
(* cd[k]: the terminator follows the last character, and what comes then is *)
(* not the string's.                                                        *)
Read(k) == IF k < Len(encd) THEN {encd[k + 1]}
           ELSE IF k = Len(encd) THEN {0} ELSE Junk

(* The value of a hexadecimal digit, for any character.                     *)
Nibble(c) == c - 48 - (IF c >= 65 THEN 7 ELSE 0) - (IF c >= 97 THEN 32 ELSE 0)

(* The size buffer is allocated with.                                       *)
BufferSize_NoTerminator == Len(encd)
BufferSize == Len(encd) + 1

Decoding == i < Len(encd) /\ status = "none"

CopyChar ==
  /\ Decoding
  /\ encd[i + 1] # Percent
  /\ buffer' = Append(buffer, encd[i + 1])
  /\ i' = i + 1
  /\ UNCHANGED <<handler, encd, decd, status>>

DecodeChar ==
  /\ Decoding
  /\ encd[i + 1] = Percent
  /\ \E h \in Read(i + 1), l \in Read(i + 2) :
       buffer' = Append(buffer, (Nibble(h) * 16 + Nibble(l)) % 256)
  /\ i' = i + 3
  /\ UNCHANGED <<handler, encd, decd, status>>

(* A C string ends at its first 0.                                          *)
CString(s) == SelectInSeq(s, LAMBDA c : c = 0)
Terminated(s) == IF CString(s) = 0 THEN s ELSE SubSeq(s, 1, CString(s) - 1)

(* strstr() != NULL                                                         *)
Holds(s, t) == \E k \in 0..(Len(s) - Len(t)) : SubSeq(s, k + 1, k + Len(t)) = t

(* A path below the root: absolute, and nowhere a "..".                     *)
Below(path) == path # <<>> /\ path[1] = Slash /\ ~Holds(path, <<Dot, Dot>>)

Serves(path) == IF handler = "get" THEN Holds(path, Target) ELSE Below(path)

(* Mutant: the uri as it came is looked at. *)
Reply_Raw == /\ decd' = Terminated(buffer)
             /\ status' = IF Serves(encd) THEN "ok" ELSE "bad_request"

(* The end of url_decode(), which returns true whatever it was given, and   *)
(* what the handlers make of the result.                                    *)
Reply == /\ decd' = Terminated(buffer)
         /\ status' = IF Serves(decd') THEN "ok" ELSE "bad_request"

handle_get ==
  /\ handler = "get"
  /\ i >= Len(encd) /\ status = "none"
  /\ Reply
  /\ UNCHANGED <<handler, encd, i, buffer>>

handle_request ==
  /\ handler = "request"
  /\ i >= Len(encd) /\ status = "none"
  /\ Reply
  /\ UNCHANGED <<handler, encd, i, buffer>>

Init == /\ handler \in {"get", "request"}
        /\ encd \in UNION {[1..n -> Chars] : n \in 0..MaxLen}
        /\ i = 0 /\ buffer = <<>>
        /\ decd = <<>>
        /\ status = "none"

Next == CopyChar \/ DecodeChar \/ handle_get \/ handle_request

Spec == Init /\ [][Next]_vars
-----------------------------------------------------------------------------
(* The encoding as RFC 3986 has it: after a percent sign two hexadecimal    *)
(* digits, which stand for one character.                                   *)
Hex == Digit \cup Upper \cup Lower
Valid(s) == \A k \in DOMAIN s :
  s[k] = Percent => k + 2 <= Len(s) /\ s[k + 1] \in Hex /\ s[k + 2] \in Hex

HexValue(c) == IF c \in Digit THEN c - 48 ELSE IF c \in Upper THEN c - 55 ELSE c - 87

(* What is encoded from each place on. *)
Meanings(s) ==
  LET From[k \in 1..(Len(s) + 3)] ==
        IF k > Len(s) THEN <<>>
        ELSE IF s[k] # Percent THEN <<s[k]>> \o From[k + 1]
        ELSE <<16 * HexValue(s[k + 1]) + HexValue(s[k + 2])>> \o From[k + 3]
  IN  From

Meaning(s) == Meanings(s)[1]

(* The buffer has room for all that is decoded and for its terminator, also *)
(* when the uri ends within an encoded character and the loop passes its    *)
(* end.                                                                     *)
BufferHolds ==
  /\ Decoding => Len(buffer) < BufferSize
  /\ i >= Len(encd) => Len(buffer) + 1 <= BufferSize

(* An uri that is encoded well is decoded to what it stands for, as far as  *)
(* a C string can hold it; and that, not how it is encoded, decides the     *)
(* reply: the board's data is served to exactly those who ask for it, and no*)
(* encoding of ".." gets past handle_request().                             *)
ServesTarget ==
  status # "none" /\ Valid(encd) =>
    /\ decd = Terminated(Meaning(encd))
    /\ (status = "ok") = Serves(Terminated(Meaning(encd)))
=============================================================================
