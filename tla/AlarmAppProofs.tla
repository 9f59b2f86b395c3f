---------------------------- MODULE AlarmAppProofs ----------------------------
(***************************************************************************)
(* What the threads of the application keep, for all uris, notices and     *)
(* boards: one board is open at most and can be opened again (Boards),     *)
(* url_decode() stays in its buffer (Decoded), and notices are spoken in   *)
(* order, each from a file of its own (Speech).                            *)
(***************************************************************************)
EXTENDS AlarmApp, BasicLemmas, SequenceTheorems

(***************************************************************************)
(* The board.  A thread that has not deleted its object is the one m_pThread*)
(* points to or is about to; there is one such thread at most.             *)
(***************************************************************************)
Alive == {"create", "loop", "delete"}

BoardTypes ==
  /\ place \in [Boards -> Alive \cup {"none", "clear", "end"}]
  /\ m_pThread \in Boards \cup {NULL} /\ starting \in Boards \cup {NULL}

Owned ==
  /\ BoardTypes
  /\ starting # NULL => m_pThread = NULL
  /\ \A k \in Boards : place[k] \in Alive => k \in {m_pThread, starting}
  /\ \A k \in Boards : place[k] = "clear" => m_pThread = k
  /\ early = TRUE \/ \A k \in Boards \cap {m_pThread, starting} :
                       place[k] \in Alive \cup {"clear"}
  /\ OneBoardShown

(* There is no board in the beginning.                                      *)
LEMMA OwnedInit == BoardInit => Owned
BY BoardsAssumption DEF BoardInit, Owned, BoardTypes, OneBoardShown, Alive

(* A click and the assignment that follows.                                 *)
LEMMA OpenStep ==
  ASSUME Owned,
         ThreadAssigned \/ \E k \in Boards : OnRbtnBStation(k)
  PROVE  Owned'
<1>1. CASE ThreadAssigned
  BY <1>1, BoardsAssumption
  DEF ThreadAssigned, Owned, BoardTypes, OneBoardShown, Alive
<1>2. ASSUME NEW k \in Boards, OnRbtnBStation(k) PROVE Owned'
  BY <1>2, BoardsAssumption
  DEF OnRbtnBStation, Owned, BoardTypes, OneBoardShown, Alive
<1> QED BY <1>1, <1>2

(* The steps of a board's thread.                                           *)
LEMMA ThreadStep ==
  ASSUME Owned, NEW k \in Boards, onPopBStationBoard(k)
  PROVE  Owned'
<1>1. CASE CreateBoard(k)
  <2>1. \A j \in Boards : place[j] = "loop" => j = k
    BY <1>1, BoardsAssumption DEF CreateBoard, Owned, Alive
  <2> QED BY <1>1, <2>1 DEF CreateBoard, Owned, BoardTypes, OneBoardShown, Alive
<1>2. CASE CloseBoard(k)
  BY <1>2 DEF CloseBoard, Owned, BoardTypes, OneBoardShown, Alive
<1>3. CASE DeleteThread(k)
  BY <1>3, BoardsAssumption
  DEF DeleteThread, Owned, BoardTypes, OneBoardShown, Alive
<1>4. CASE ClearThread(k)
  BY <1>4, BoardsAssumption
  DEF ClearThread, Owned, BoardTypes, OneBoardShown, Alive
<1>5. CASE ThreadEnds(k)
  BY <1>5 DEF ThreadEnds, Owned, BoardTypes, OneBoardShown, Alive
<1> QED BY <1>1, <1>2, <1>3, <1>4, <1>5 DEF onPopBStationBoard

(* Every step of the application keeps the boards' threads.                 *)
LEMMA OwnedStep == Owned /\ [AppNext]_appVars => Owned'
<1> SUFFICES ASSUME Owned, [AppNext]_appVars PROVE Owned' OBVIOUS
<1>1. CASE UNCHANGED boardVars
  BY <1>1 DEF boardVars, Owned, BoardTypes, OneBoardShown
<1>2. CASE ThreadAssigned \/ \E k \in Boards : OnRbtnBStation(k)
  BY <1>2, OpenStep
<1>3. CASE \E k \in Boards : onPopBStationBoard(k) BY <1>3, ThreadStep
<1> QED BY <1>1, <1>2, <1>3
        DEF AppNext, HttpThread, TimerThread, User, Assigned, Board, Clock, appVars

(* The boards' threads are kept in every behaviour.                         *)
LEMMA OwnedAlways == AppSpec => []Owned
BY OwnedInit, OwnedStep, PTL DEF AppSpec, AppInit

(* One board is open at most, and requests are sent to it.                  *)
THEOREM AppOneBoardShown == AppSpec => []OneBoardShown
<1>1. Owned => OneBoardShown BY DEF Owned
<1> QED BY <1>1, OwnedAlways, PTL

(* A board that was closed can be opened again, unless a thread was over    *)
(* before m_pThread was assigned.                                           *)
THEOREM AppBoardReopens == AppSpec => []BoardReopens
<1>1. Owned => BoardReopens
  BY DEF Owned, BoardTypes, BoardReopens, Alive
<1> QED BY <1>1, OwnedAlways, PTL

(***************************************************************************)
(* url_decode().  It has written at most as many characters as it has read,*)
(* and reads the last one, or past it, once.                               *)
(***************************************************************************)
Decoded ==
  /\ encd \in Seq(Chars) /\ i \in Nat
  /\ buffer \in Seq(Int)
  /\ Len(buffer) <= i /\ Len(buffer) <= Len(encd)

(* Nothing is read or written in the beginning.                             *)
LEMMA DecodedInit == Init => Decoded
<1> SUFFICES ASSUME Init PROVE Decoded OBVIOUS
<1>1. PICK n \in 0..MaxLen : encd \in [1..n -> Chars] BY DEF Init
<1>2. n \in Nat BY <1>1, HandlerAssumption
<1>3. encd \in Seq(Chars) BY <1>1, <1>2
<1> QED BY <1>3 DEF Init, Decoded

(* Characters are numbers.                                                  *)
LEMMA CharsInt == Chars \subseteq Int /\ Junk \subseteq Int
<1>1. Chars \subseteq 1..127 /\ Junk \subseteq 0..127
  BY Zenon, HandlerAssumption
<1> QED BY <1>1

(* Each round of the loop reads a character and writes one.                 *)
LEMMA DecodedStep == Decoded /\ [AppNext]_appVars => Decoded'
<1> SUFFICES ASSUME Decoded, [AppNext]_appVars PROVE Decoded' OBVIOUS
<1>1. CASE UNCHANGED vars BY <1>1 DEF vars, Decoded
<1>2. CASE CopyChar
  <2>0. encd[i + 1] \in Chars BY <1>2 DEF CopyChar, Decoding, Decoded
  <2>1. encd[i + 1] \in Int BY <2>0, CharsInt
  <2> QED BY <1>2, <2>1 DEF CopyChar, Decoding, Decoded
<1>3. CASE DecodeChar
  <2>1. PICK h \in Read(i + 1), l \in Read(i + 2) :
          buffer' = Append(buffer, (Nibble(h) * 16 + Nibble(l)) % 256)
    BY <1>3 DEF DecodeChar
  <2>2. ASSUME NEW k \in Nat PROVE Read(k) \subseteq Int
    <3>1. k < Len(encd) => encd[k + 1] \in Chars BY DEF Decoded
    <3>2. CASE k < Len(encd) BY <3>1, <3>2, CharsInt DEF Read
    <3>3. CASE ~(k < Len(encd)) /\ k = Len(encd) BY <3>3 DEF Read
    <3>4. CASE ~(k < Len(encd)) /\ k # Len(encd) BY <3>4, CharsInt DEF Read
    <3> QED BY <3>2, <3>3, <3>4
  <2>3. h \in Int /\ l \in Int BY <2>1, <2>2 DEF Decoded
  <2>4. Nibble(h) \in Int /\ Nibble(l) \in Int BY <2>3 DEF Nibble
  <2>5. (Nibble(h) * 16 + Nibble(l)) % 256 \in Int BY <2>4
  <2> QED BY <1>3, <2>1, <2>5 DEF DecodeChar, Decoding, Decoded
<1>4. CASE handle_get \/ handle_request
  BY <1>4 DEF handle_get, handle_request, Decoded
<1> QED BY <1>1, <1>2, <1>3, <1>4
        DEF AppNext, HttpThread, Next, TimerThread, User, Assigned, Board, Clock,
            Beneath, appVars

(* The buffer has room for what is written and for the terminator.          *)
THEOREM AppBufferHolds == AppSpec => []BufferHolds
<1>1. Decoded => BufferHolds
  BY DEF Decoded, BufferHolds, BufferSize, Decoding
<1> QED BY <1>1, DecodedInit, DecodedStep, PTL DEF AppSpec, AppInit

(* What is encoded from a place on, by the meaning of what comes next: such *)
(* a function exists, by induction from the end of the uri.                 *)
LEMMA MeaningsDef ==
  ASSUME NEW s \in Seq(Int)
  PROVE  Meanings(s) =
           [k \in 1..(Len(s) + 3) |->
              IF k > Len(s) THEN <<>>
              ELSE IF s[k] # Percent THEN <<s[k]>> \o Meanings(s)[k + 1]
              ELSE <<16 * HexValue(s[k + 1]) + HexValue(s[k + 2])>> \o Meanings(s)[k + 3]]
<1> DEFINE L == Len(s)
           Val(f, k) == IF k > L THEN <<>>
                        ELSE IF s[k] # Percent THEN <<s[k]>> \o f[k + 1]
                        ELSE <<16 * HexValue(s[k + 1]) + HexValue(s[k + 2])>> \o f[k + 3]
           D(m) == {k \in 1..(L + 3) : k > L - m}
           Step(f, m) == [k \in D(m) |-> Val(f, k)]
           Has == {m \in Nat : \E f : f = Step(f, m)}
<1>0. L \in Nat
  OBVIOUS
<1>1. 0 \in Has
  <2> DEFINE g == [k \in D(0) |-> <<>>]
  <2>1. ASSUME NEW k \in D(0) PROVE Val(g, k) = <<>>
    <3>1. k > L
      BY <1>0
    <3> HIDE DEF L, D, g
    <3> QED BY <3>1
  <2>2. g = Step(g, 0)
    <3> HIDE DEF L, D, Val
    <3> QED BY <2>1
  <2> HIDE DEF g, Step
  <2> QED BY <2>2
<1>2. \A m \in Nat : m \in Has => m + 1 \in Has
  <2> SUFFICES ASSUME NEW m \in Nat, m \in Has
               PROVE  m + 1 \in Has
    OBVIOUS
  <2>0. PICK f : f = Step(f, m)
    OBVIOUS
  <2> DEFINE g == Step(f, m + 1)
  <2>a. /\ \A k \in D(m) : k \in D(m + 1)
        /\ \A k \in D(m + 1) : k > L \/ (k + 1 \in D(m) /\ k + 3 \in D(m))
    <3> HIDE DEF L
    <3> QED BY <1>0
  <2>1. \A k \in D(m) : g[k] = f[k]
    <3> SUFFICES ASSUME NEW k \in D(m) PROVE g[k] = f[k]
      OBVIOUS
    <3>1. g[k] = Val(f, k) /\ Step(f, m)[k] = Val(f, k)
      <4> HIDE DEF Val, L, D
      <4> QED BY <2>a
    <3> QED BY <2>0, <3>1
  <2>2. ASSUME NEW k \in D(m + 1) PROVE Val(g, k) = Val(f, k)
    <3> HIDE DEF g
    <3>1. k > L \/ (g[k + 1] = f[k + 1] /\ g[k + 3] = f[k + 3])
      BY <2>a, <2>1
    <3> HIDE DEF L
    <3> QED BY <3>1
  <2>3. Step(g, m + 1) = Step(f, m + 1)
    <3> HIDE DEF g, Val, L, D
    <3> QED BY <2>2
  <2>4. g = Step(g, m + 1)
    BY <2>3
  <2> HIDE DEF g, Step
  <2> QED BY <2>4
<1>3. L \in Has
  <2> HIDE DEF Has
  <2>1. Nat \subseteq Has
    BY <1>1, <1>2, SetInduction
  <2> QED BY <1>0, <2>1
<1>4. D(L) = 1..(L + 3)
  <2> HIDE DEF L
  <2> QED BY <1>0
<1>5. Meanings(s) = CHOOSE f : f = [k \in 1..(L + 3) |-> Val(f, k)]
  BY DEF Meanings
<1>6. Meanings(s) = CHOOSE f : f = Step(f, L)
  <2> HIDE DEF L, Val, D
  <2> QED BY <1>4, <1>5
<1>7. Meanings(s) = Step(Meanings(s), L)
  <2> HIDE DEF Step
  <2> QED BY <1>3, <1>6
<1> QED BY <1>4, <1>7

LEMMA HexValueInt == \A c \in Int : HexValue(c) \in Int
BY DEF HexValue

LEMMA MeaningsAt ==
  ASSUME NEW s \in Seq(Int), NEW k \in 1..(Len(s) + 3)
  PROVE  Meanings(s)[k] =
           IF k > Len(s) THEN <<>>
           ELSE IF s[k] # Percent THEN <<s[k]>> \o Meanings(s)[k + 1]
           ELSE <<16 * HexValue(s[k + 1]) + HexValue(s[k + 2])>> \o Meanings(s)[k + 3]
<1> DEFINE Val(n) ==
       IF n > Len(s) THEN <<>>
       ELSE IF s[n] # Percent THEN <<s[n]>> \o Meanings(s)[n + 1]
       ELSE <<16 * HexValue(s[n + 1]) + HexValue(s[n + 2])>> \o Meanings(s)[n + 3]
<1>1. Meanings(s) = [n \in 1..(Len(s) + 3) |-> Val(n)]
  BY MeaningsDef
<1> HIDE DEF Val
<1>2. Meanings(s)[k] = Val(k)
  BY <1>1
<1> QED BY <1>2 DEF Val

LEMMA MeaningsEnd ==
  ASSUME NEW s \in Seq(Int), NEW k \in 1..(Len(s) + 3), k > Len(s)
  PROVE  Meanings(s)[k] = <<>>
BY MeaningsAt

LEMMA MeaningsChar ==
  ASSUME NEW s \in Seq(Int), NEW k \in 1..Len(s), s[k] # Percent
  PROVE  /\ k + 1 \in 1..(Len(s) + 1)
         /\ Meanings(s)[k] = <<s[k]>> \o Meanings(s)[k + 1]
<1>1. k \in 1..(Len(s) + 3) /\ ~(k > Len(s)) /\ k + 1 \in 1..(Len(s) + 1)
  OBVIOUS
<1> DEFINE c == s[k]
           rest == Meanings(s)[k + 1]
           code == <<16 * HexValue(s[k + 1]) + HexValue(s[k + 2])>> \o Meanings(s)[k + 3]
           this == Meanings(s)[k]
<1>2. this = IF k > Len(s) THEN <<>> ELSE IF c # Percent THEN <<c>> \o rest ELSE code
  BY <1>1, MeaningsAt
<1>3. c # Percent
  OBVIOUS
<1> HIDE DEF c, rest, code, this
<1>4. this = <<c>> \o rest
  BY <1>1, <1>2, <1>3
<1> QED BY <1>1, <1>4 DEF c, rest, this

LEMMA MeaningsCode ==
  ASSUME NEW s \in Seq(Int), NEW k \in 1..Len(s), s[k] = Percent, k + 2 <= Len(s)
  PROVE  /\ k + 3 \in 1..(Len(s) + 1)
         /\ 16 * HexValue(s[k + 1]) + HexValue(s[k + 2]) \in Int
         /\ Meanings(s)[k] =
              <<16 * HexValue(s[k + 1]) + HexValue(s[k + 2])>> \o Meanings(s)[k + 3]
<1>1. k \in 1..(Len(s) + 3) /\ ~(k > Len(s)) /\ k + 3 \in 1..(Len(s) + 1)
  OBVIOUS
<1>2. s[k + 1] \in Int /\ s[k + 2] \in Int
  <2>1. k + 1 \in 1..Len(s) /\ k + 2 \in 1..Len(s)
    OBVIOUS
  <2> QED BY <2>1
<1>3. HexValue(s[k + 1]) \in Int /\ HexValue(s[k + 2]) \in Int
  BY <1>2, HexValueInt
<1> DEFINE c == s[k]
           x == HexValue(s[k + 1])
           y == HexValue(s[k + 2])
           char == <<c>> \o Meanings(s)[k + 1]
           rest == Meanings(s)[k + 3]
           this == Meanings(s)[k]
<1>4. this = IF k > Len(s) THEN <<>> ELSE IF c # Percent THEN char ELSE <<16 * x + y>> \o rest
  BY <1>1, MeaningsAt
<1>5. c = Percent
  OBVIOUS
<1> HIDE DEF c, char, rest, this
<1>6. this = <<16 * x + y>> \o rest
  BY <1>1, <1>4, <1>5
<1>7. 16 * x + y \in Int
  BY <1>3
<1> QED BY <1>1, <1>6, <1>7 DEF rest, this

LEMMA MeaningsType ==
  ASSUME NEW s \in Seq(Int), \A k \in 1..Len(s) : s[k] = Percent => k + 2 <= Len(s)
  PROVE  \A k \in 1..(Len(s) + 1) : Meanings(s)[k] \in Seq(Int)
<1> DEFINE L == Len(s)
           Has == {m \in Nat : \A k \in 1..(L + 1) : k > L - m => Meanings(s)[k] \in Seq(Int)}
<1>0. L \in Nat /\ \A k \in 1..L : s[k] \in Int
  OBVIOUS
<1>a. \A e \in Int, r \in Seq(Int) : <<e>> \o r \in Seq(Int)
  OBVIOUS
<1>1. 0 \in Has
  <2>1. ASSUME NEW k \in 1..(L + 1), k > L PROVE Meanings(s)[k] \in Seq(Int)
    <3>1. k \in 1..(Len(s) + 3) /\ k > Len(s)
      BY <1>0, <2>1
    <3>2. Meanings(s)[k] = <<>>
      BY <3>1, MeaningsEnd
    <3> QED BY <3>2
  <2> HIDE DEF L
  <2> QED BY <1>0, <2>1
<1>2. \A m \in Nat : m \in Has => m + 1 \in Has
  <2> SUFFICES ASSUME NEW m \in Nat, m \in Has PROVE m + 1 \in Has
    OBVIOUS
  <2> SUFFICES ASSUME NEW k \in 1..(L + 1), k > L - (m + 1)
               PROVE  Meanings(s)[k] \in Seq(Int)
    OBVIOUS
  <2>1. \A j \in 1..(L + 1) : j > L - m => Meanings(s)[j] \in Seq(Int)
    OBVIOUS
  <2>2. CASE k > L
    <3>1. k \in 1..(Len(s) + 3) /\ k > Len(s)
      BY <1>0, <2>2
    <3>2. Meanings(s)[k] = <<>>
      BY <3>1, MeaningsEnd
    <3> QED BY <3>2
  <2>3. CASE k \in 1..L /\ s[k] # Percent
    <3>1. /\ k + 1 \in 1..(L + 1) /\ s[k] \in Int
          /\ Meanings(s)[k] = <<s[k]>> \o Meanings(s)[k + 1]
      BY <1>0, <2>3, MeaningsChar
    <3>2. k + 1 > L - m
      BY <1>0, <2>3
    <3>3. Meanings(s)[k + 1] \in Seq(Int)
      BY <2>1, <3>1, <3>2
    <3> QED BY <1>a, <3>1, <3>3
  <2>4. CASE k \in 1..L /\ s[k] = Percent
    <3> DEFINE v == 16 * HexValue(s[k + 1]) + HexValue(s[k + 2])
    <3>0. k + 2 <= Len(s)
      BY <2>4
    <3>1. /\ k + 3 \in 1..(L + 1) /\ v \in Int
          /\ Meanings(s)[k] = <<v>> \o Meanings(s)[k + 3]
      BY <2>4, <3>0, MeaningsCode
    <3>2. k + 3 > L - m
      BY <1>0, <2>4
    <3>3. Meanings(s)[k + 3] \in Seq(Int)
      BY <2>1, <3>1, <3>2
    <3> HIDE DEF v
    <3> QED BY <1>a, <3>1, <3>3
  <2>5. k > L \/ k \in 1..L
    BY <1>0
  <2> QED BY <2>2, <2>3, <2>4, <2>5
<1>3. Nat \subseteq Has
  <2> HIDE DEF Has
  <2> QED BY <1>1, <1>2, SetInduction
<1>4. L \in Has
  BY <1>0, <1>3
<1>5. \A k \in 1..(L + 1) : k > L - L
  BY <1>0
<1> QED BY <1>4, <1>5

(* What has been decoded and the meaning of what has not make up the        *)
(* meaning of the uri.                                                      *)
Meant ==
  Valid(encd) => /\ i <= Len(encd)
                 /\ buffer \o Meanings(encd)[i + 1] = Meaning(encd)
Replied ==
  status # "none" /\ Valid(encd) =>
    /\ decd = Terminated(Meaning(encd))
    /\ (status = "ok") = Serves(Terminated(Meaning(encd)))

LEMMA EncodedInts ==
  ASSUME Decoded
  PROVE  /\ encd \in Seq(Int) /\ Len(encd) \in Nat
         /\ Valid(encd) => \A k \in 1..Len(encd) : encd[k] = Percent =>
              k + 2 <= Len(encd) /\ encd[k + 1] \in Hex /\ encd[k + 2] \in Hex
<1>1. encd \in Seq(Chars) /\ Chars \subseteq Int
  BY CharsInt DEF Decoded
<1>2. encd \in Seq(Int)
  BY <1>1, SeqMonotonic
<1>3. DOMAIN encd = 1..Len(encd)
  BY <1>2
<1>4. Valid(encd) => \A k \in DOMAIN encd : encd[k] = Percent =>
        k + 2 <= Len(encd) /\ encd[k + 1] \in Hex /\ encd[k + 2] \in Hex
  BY DEF Valid
<1>5. Len(encd) \in Nat
  BY <1>2
<1> QED BY <1>2, <1>3, <1>4, <1>5, Zenon

(* The two digits are what RFC 3986 has them be. *)
LEMMA NibblesOfHex ==
  ASSUME NEW h \in Hex, NEW l \in Hex
  PROVE  (Nibble(h) * 16 + Nibble(l)) % 256 = 16 * HexValue(h) + HexValue(l)
<1>1. ASSUME NEW c \in Hex PROVE Nibble(c) = HexValue(c) /\ HexValue(c) \in 0..15
  <2>1. c \in 48..57 \/ c \in 65..70 \/ c \in 97..102
    BY DEF Hex, Digit, Upper, Lower
  <2> QED BY <2>1 DEF Nibble, HexValue, Digit, Upper
<1>2. \A x \in 0..15, y \in 0..15 : (x * 16 + y) % 256 = 16 * x + y
  OBVIOUS
<1> QED BY <1>1, <1>2

(* One character more, and the meaning of the rest starts after it.         *)
LEMMA MeaningMoves ==
  ASSUME NEW b \in Seq(Int), NEW e \in Int
  PROVE  \A r \in Seq(Int) : b \o (<<e>> \o r) = Append(b, e) \o r
<1> DEFINE one == <<e>>
<1> TAKE r \in Seq(Int)
<1>1. one \in Seq(Int)
  OBVIOUS
<1>2. Append(b, e) = b \o one
  BY AppendIsConcat, Zenon
<1> HIDE DEF one
<1>3. (b \o one) \o r = b \o (one \o r)
  BY <1>1, ConcatAssociative
<1>4. b \o (one \o r) = Append(b, e) \o r
  BY <1>2, <1>3, Zenon
<1> QED BY <1>4 DEF one

LEMMA MeantStep == Decoded /\ Meant /\ Next => Meant'
<1> SUFFICES ASSUME Decoded, Meant, Next, Valid(encd)
             PROVE  /\ i' <= Len(encd)
                    /\ buffer' \o Meanings(encd)[i' + 1] = Meaning(encd)
  BY DEF Meant, Next, CopyChar, DecodeChar, handle_get, handle_request
<1> DEFINE M(k) == Meanings(encd)[k]
<1>0. /\ encd \in Seq(Int) /\ Len(encd) \in Nat /\ i \in Nat /\ buffer \in Seq(Int)
      /\ \A k \in 1..Len(encd) : encd[k] = Percent =>
           k + 2 <= Len(encd) /\ encd[k + 1] \in Hex /\ encd[k + 2] \in Hex
      /\ i <= Len(encd) /\ buffer \o M(i + 1) = Meaning(encd)
  BY EncodedInts DEF Decoded, Meant
<1>1. \A k \in 1..(Len(encd) + 1) : M(k) \in Seq(Int)
  BY <1>0, MeaningsType
<1>2. CASE handle_get \/ handle_request
  BY <1>0, <1>2 DEF handle_get, handle_request
<1>3. CASE CopyChar
  <2>1. /\ i < Len(encd) /\ encd[i + 1] # Percent
        /\ buffer' = Append(buffer, encd[i + 1]) /\ i' = i + 1
    BY <1>3 DEF CopyChar, Decoding
  <2>2. i + 1 \in 1..Len(encd) /\ i' <= Len(encd) /\ (i + 1) + 1 = i' + 1
    BY <1>0, <2>1
  <2> DEFINE e == encd[i + 1]
             r == M(i' + 1)
             q == M(i + 1)
  <2>3. q = <<e>> \o r /\ i' + 1 \in 1..(Len(encd) + 1)
    BY <1>0, <2>1, <2>2, MeaningsChar
  <2>a. e \in Int
    BY <1>0, <2>2
  <2>b. r \in Seq(Int)
    <3> HIDE DEF M
    <3> QED BY <1>1, <2>3
  <2>4. e \in Int /\ r \in Seq(Int)
    BY <2>a, <2>b
  <2> HIDE DEF q, e, r
  <2>5. buffer \o q = Append(buffer, e) \o r
    <3>1. buffer \in Seq(Int)
      BY <1>0
    <3>2. buffer \o (<<e>> \o r) = Append(buffer, e) \o r
      BY <2>4, <3>1, MeaningMoves, Zenon
    <3> QED BY <2>3, <3>2
  <2> QED BY <1>0, <2>1, <2>2, <2>5 DEF q, e, r
<1>4. CASE DecodeChar
  <2>1. /\ i < Len(encd) /\ encd[i + 1] = Percent /\ i' = i + 3
    BY <1>4 DEF DecodeChar, Decoding
  <2>2. /\ i + 1 \in 1..Len(encd) /\ i + 1 \in 1..(Len(encd) + 3)
        /\ ~(i + 1 > Len(encd))
    BY <1>0, <2>1
  <2>3. /\ (i + 1) + 2 <= Len(encd)
        /\ encd[(i + 1) + 1] \in Hex /\ encd[(i + 1) + 2] \in Hex
    BY <1>0, <2>1, <2>2
  <2> DEFINE h == encd[(i + 1) + 1]
             l == encd[(i + 1) + 2]
             v == 16 * HexValue(h) + HexValue(l)
  <2>4. Read(i + 1) = {h} /\ Read(i + 2) = {l}
    <3>1. i + 1 < Len(encd) /\ i + 2 < Len(encd) /\ (i + 2) + 1 = (i + 1) + 2
      BY <1>0, <2>3
    <3> QED BY <3>1 DEF Read
  <2>5. buffer' = Append(buffer, (Nibble(h) * 16 + Nibble(l)) % 256)
    BY <1>4, <2>4 DEF DecodeChar
  <2>6. (Nibble(h) * 16 + Nibble(l)) % 256 = v
    BY <2>3, NibblesOfHex
  <2>7. (i + 1) + 3 = i' + 1 /\ i' <= Len(encd)
    BY <1>0, <2>1, <2>3
  <2> DEFINE r == M(i' + 1)
             q == M(i + 1)
  <2>8. q = <<v>> \o r /\ v \in Int /\ i' + 1 \in 1..(Len(encd) + 1)
    BY <1>0, <2>1, <2>2, <2>3, <2>7, MeaningsCode
  <2>9. r \in Seq(Int)
    BY <1>1, <2>8
  <2> HIDE DEF q, v, r
  <2>10. buffer \o q = Append(buffer, v) \o r
    <3>1. buffer \in Seq(Int)
      BY <1>0
    <3>2. buffer \o (<<v>> \o r) = Append(buffer, v) \o r
      BY <2>8, <2>9, <3>1, MeaningMoves, Zenon
    <3> QED BY <2>8, <3>2
  <2> QED BY <1>0, <2>5, <2>6, <2>7, <2>10 DEF q, r
<1> QED BY <1>2, <1>3, <1>4 DEF Next

(* At the end there is nothing left to decode. *)
LEMMA RepliedStep == Decoded /\ Meant /\ Replied /\ Next => Replied'
<1> SUFFICES ASSUME Decoded, Meant, Replied, Next, Valid(encd), status' # "none"
             PROVE  /\ decd' = Terminated(Meaning(encd))
                    /\ (status' = "ok") = Serves(Terminated(Meaning(encd)))
  BY DEF Replied, Serves, Next, CopyChar, DecodeChar, handle_get, handle_request
<1>1. i >= Len(encd) /\ Reply
  BY DEF Next, CopyChar, DecodeChar, Decoding, handle_get, handle_request
<1>2. /\ encd \in Seq(Int) /\ Len(encd) \in Nat /\ i \in Nat /\ buffer \in Seq(Int)
      /\ i <= Len(encd) /\ buffer \o Meanings(encd)[i + 1] = Meaning(encd)
  BY EncodedInts DEF Decoded, Meant
<1>3. i + 1 \in 1..(Len(encd) + 3) /\ i + 1 > Len(encd)
  BY <1>1, <1>2
<1>4. Meanings(encd)[i + 1] = <<>>
  BY <1>2, <1>3, MeaningsEnd
<1>5. buffer \o <<>> = buffer
  BY <1>2
<1>6. Meaning(encd) = buffer
  BY <1>2, <1>4, <1>5
<1>7. Serves(decd') \in BOOLEAN
  BY DEF Serves, Holds, Below
<1> QED BY <1>1, <1>6, <1>7 DEF Reply

(* For every uri: one that is encoded as RFC 3986 has it is decoded to what *)
(* it stands for, and that decides the reply.                               *)
THEOREM AppServesTarget == AppSpec => []ServesTarget
<1>1. Init => Meant /\ Replied
  <2> SUFFICES ASSUME Init PROVE Meant /\ Replied
    OBVIOUS
  <2>1. Decoded
    BY DecodedInit
  <2>2. i = 0 /\ buffer = <<>> /\ status = "none"
    BY DEF Init
  <2>3. ASSUME Valid(encd) PROVE buffer \o Meanings(encd)[i + 1] = Meaning(encd)
    <3>1. /\ encd \in Seq(Int) /\ Len(encd) \in Nat /\ 1 \in 1..(Len(encd) + 1)
          /\ \A k \in 1..Len(encd) : encd[k] = Percent => k + 2 <= Len(encd)
      BY <2>1, <2>3, EncodedInts
    <3>2. Meanings(encd)[1] \in Seq(Int)
      BY <3>1, MeaningsType
    <3>3. <<>> \o Meanings(encd)[1] = Meanings(encd)[1]
      BY <3>2
    <3> QED BY <2>2, <3>3 DEF Meaning
  <2>4. i <= Len(encd)
    BY <2>1, <2>2, EncodedInts
  <2> QED BY <2>2, <2>3, <2>4 DEF Meant, Replied
<1>2. Decoded /\ Meant /\ [AppNext]_appVars => Meant'
  <2>1. Meant /\ UNCHANGED vars => Meant'
    BY DEF vars, Meant
  <2> QED BY <2>1, MeantStep
          DEF AppNext, HttpThread, TimerThread, User, Assigned, Board, Clock, Beneath, appVars
<1>3. Decoded /\ Meant /\ Replied /\ [AppNext]_appVars => Replied'
  <2>1. Replied /\ UNCHANGED vars => Replied'
    BY DEF vars, Replied, Serves
  <2> QED BY <2>1, RepliedStep
          DEF AppNext, HttpThread, TimerThread, User, Assigned, Board, Clock, Beneath, appVars
<1>4. Replied => ServesTarget
  BY DEF Replied, ServesTarget
<1> QED BY <1>1, <1>2, <1>3, <1>4, DecodedInit, DecodedStep, PTL DEF AppSpec, AppInit

(***************************************************************************)
(* The notices.  m_timerLock keeps OnTimers from each other, so that the   *)
(* first notice waiting is the last one asked for as long as it is worked  *)
(* on.  A file's name is used again only in its second, in which no player *)
(* was made for it: one that is made sets m_nextTtsTime to that second or  *)
(* a later one, and nothing is asked for before it has passed.             *)
(***************************************************************************)
Working == {"save", "destroying", "create", "creating"}
Places == {"update", "speech"} \cup Working

(* The file of the OnTimer that runs. *)
File == IF timers = <<>> THEN None ELSE Head(timers).file

OneTimer ==
  \/ timers = <<>> /\ m_timerLock = FALSE
  \/ /\ m_timerLock = TRUE
     /\ \E at \in Places, f \in Nat : timers = <<[at |-> at, file |-> f]>>

(* The numbers after k, in order. *)
After(s, k) == s \in Seq(Nat) /\ \A j \in 1..Len(s) : s[j] = k + j

(* How many notices have been done with. *)
Done == IF Place \in Working THEN Len(asked) - 1 ELSE Len(asked)

Ordered ==
  /\ noticed \in Nat
  /\ After(asked, 0)
  /\ After(m_vecTtswords, Done) /\ Len(m_vecTtswords) = noticed - Done
  /\ Place \in Working => asked # <<>> /\ m_vecTtswords # <<>>

Named ==
  /\ second \in Nat /\ lastTtsFile \in Nat /\ m_nextTtsTime \in Int
  /\ second <= Len(asked) /\ lastTtsFile <= Len(asked) /\ File <= Len(asked)
  /\ Place = "save" => second < Len(asked) /\ lastTtsFile < Len(asked)
  /\ Place \in Working => m_nextTtsTime < 0
  /\ Place \in {"destroying", "create", "creating"} => File \in files \cup silent
  /\ Place = "creating" => lastTtsFile = File
  /\ /\ Place \in {"idle", "update", "speech", "save"}
     /\ m_nextTtsTime < 0 /\ second # None /\ second = lastTtsFile
     => second \in silent

Speech == OneTimer /\ Ordered /\ Named

(* Numbers in order: one more, one less, and the first.                     *)
LEMMA AfterAppend ==
  ASSUME NEW s, NEW k \in Nat, After(s, k)
  PROVE  /\ After(Append(s, k + Len(s) + 1), k)
         /\ Len(Append(s, k + Len(s) + 1)) = Len(s) + 1
         /\ Append(s, k + Len(s) + 1) # <<>>
<1> DEFINE e == k + Len(s) + 1
           t == Append(s, e)
<1>1. s \in Seq(Nat) /\ Len(s) \in Nat /\ e \in Nat BY DEF After
<1> HIDE DEF e
<1>2. t \in Seq(Nat) /\ Len(t) = Len(s) + 1 /\ t # <<>> BY <1>1
<1>3. ASSUME NEW j \in 1..Len(t) PROVE t[j] = k + j
  <2>1. CASE j = Len(s) + 1
    <3>1. t[j] = e BY <1>1, <2>1
    <3> QED BY <1>1, <2>1, <3>1 DEF e
  <2>2. CASE j \in 1..Len(s)
    <3>1. t[j] = s[j] BY <1>1, <2>2
    <3> QED BY <2>2, <3>1 DEF After
  <2> QED BY <1>1, <1>2, <2>1, <2>2
<1>4. After(t, k) BY <1>2, <1>3 DEF After
<1> QED BY <1>2, <1>4 DEF e

LEMMA AfterTail ==
  ASSUME NEW s, NEW k \in Nat, After(s, k), s # <<>>
  PROVE  After(Tail(s), k + 1) /\ Len(Tail(s)) = Len(s) - 1 /\ Head(s) = k + 1
BY DEF After

(* Where a step takes the OnTimer that runs, or that it ends.               *)
LEMMA TimerGoes ==
  ASSUME OneTimer, Place # "idle", NEW at \in Places, NEW f \in Nat, Go(at, f),
         m_timerLock' = m_timerLock
  PROVE  OneTimer' /\ Place' = at /\ File' = f
<1>1. PICK p \in Places, g \in Nat : timers = <<[at |-> p, file |-> g]>>
  BY DEF OneTimer, Place
<1>2. timers' = <<[at |-> at, file |-> f]>> BY <1>1 DEF Go
<1>3. m_timerLock' = TRUE BY <1>1 DEF OneTimer
<1> QED BY <1>2, <1>3 DEF OneTimer, Place, File

LEMMA TimerDone ==
  ASSUME OneTimer, Place # "idle", TimerEnds
  PROVE  OneTimer' /\ Place' = "idle" /\ File' = None
<1>1. PICK p \in Places, g \in Nat : timers = <<[at |-> p, file |-> g]>>
  BY DEF OneTimer, Place
<1>2. timers' = <<>> BY <1>1 DEF TimerEnds
<1> QED BY <1>2 DEF TimerEnds, OneTimer, Place, File

LEMMA TimerStays ==
  ASSUME OneTimer, UNCHANGED <<timers, m_timerLock>>
  PROVE  OneTimer' /\ Place' = Place /\ File' = File
BY DEF OneTimer, Place, File

(* While an OnTimer runs it is at a place, with a file.                     *)
LEMMA TimerPlace ==
  ASSUME OneTimer
  PROVE  Place \in Places \cup {"idle"} /\ File \in Nat
<1>1. CASE timers = <<>> BY <1>1 DEF Place, File, None
<1>2. CASE \E at \in Places, f \in Nat : timers = <<[at |-> at, file |-> f]>>
  BY <1>2 DEF Place, File
<1> QED BY <1>1, <1>2 DEF OneTimer

(* There is no notice in the beginning.                                     *)
LEMMA SpeechInvInit == SpeechInit => Speech
<1> SUFFICES ASSUME SpeechInit PROVE Speech OBVIOUS
<1>1. OneTimer /\ Place = "idle" /\ File = 0
  BY DEF SpeechInit, OneTimer, Place, File, None
<1>2. asked = <<>> /\ m_vecTtswords = <<>> /\ noticed = 0 BY DEF SpeechInit
<1>3. Done = 0 BY <1>1, <1>2 DEF Done, Working
<1>4. After(<<>>, 0) BY DEF After
<1>5. Ordered BY <1>1, <1>2, <1>3, <1>4 DEF Ordered, Working
<1>6. second = 0 /\ lastTtsFile = 0 /\ m_nextTtsTime = -1
  BY DEF SpeechInit, None
<1>7. Named BY <1>1, <1>2, <1>6 DEF Named, Working, None
<1> QED BY <1>1, <1>5, <1>7 DEF Speech

(* The steps that leave the notices and their files as they are.            *)
LEMMA QuietStep ==
  ASSUME Speech, UserShows \/ UNCHANGED speechVars
  PROVE  Speech'
<1>1. UNCHANGED <<m_timerLock, timers, noticed, m_vecTtswords, m_nextTtsTime, fileVars, asked>>
  BY DEF UserShows, speechVars, fileVars
<1>2. OneTimer' /\ Place' = Place /\ File' = File
  BY <1>1, TimerStays DEF Speech
<1>3. Ordered' BY <1>1, <1>2 DEF Speech, Ordered, Done
<1>4. Named' BY <1>1, <1>2 DEF Speech, Named, fileVars
<1> QED BY <1>2, <1>3, <1>4 DEF Speech

(* A second passes: names of files can no more be used again.               *)
LEMMA SecondStep ==
  ASSUME Speech, Second
  PROVE  Speech'
<1>1. UNCHANGED <<m_timerLock, timers, noticed, m_vecTtswords, asked, files,
                  lastTtsFile, silent>>
  BY DEF Second
<1>2. OneTimer' /\ Place' = Place /\ File' = File
  BY <1>1, TimerStays DEF Speech
<1>3. Ordered' BY <1>1, <1>2 DEF Speech, Ordered, Done
<1>4. second' = 0 /\ m_nextTtsTime' \in Int
      /\ (m_nextTtsTime < 0 => m_nextTtsTime' = m_nextTtsTime)
  BY DEF Second, Speech, Named, None
<1>5. Len(asked) \in Nat BY DEF Speech, Ordered, After
<1>6. Place = "save" => Len(asked) > 0 BY <1>5 DEF Speech, Named
<1>7. Named' BY <1>1, <1>2, <1>4, <1>5, <1>6 DEF Speech, Named, None
<1> QED BY <1>2, <1>3, <1>7 DEF Speech

(* OnTimer begins when none is running: it is at no place of its code.      *)
LEMMA OnTimerStep ==
  ASSUME Speech, OnTimer
  PROVE  Speech'
<1>1. timers = <<>> /\ Place = "idle" BY DEF Speech, OneTimer, OnTimer, Place
<1>2. UNCHANGED <<noticed, m_vecTtswords, m_nextTtsTime, fileVars, asked>>
  BY DEF OnTimer
<1>3. timers' = <<[at |-> "update", file |-> 0]>> /\ m_timerLock' = TRUE
  BY <1>1 DEF OnTimer, None
<1>4. OneTimer' /\ Place' = "update" /\ File' = 0
  BY <1>3 DEF OneTimer, Place, File, Places
<1>5. Ordered' BY <1>1, <1>2, <1>4 DEF Speech, Ordered, Done, Working
<1>6. Named'
  BY <1>1, <1>2, <1>4 DEF Speech, Named, fileVars, Working, Ordered, After
<1> QED BY <1>4, <1>5, <1>6 DEF Speech

(* A notice joins those that wait.                                          *)
LEMMA NoticeStep ==
  ASSUME Speech, processNotice
  PROVE  Speech'
<1>1. UNCHANGED <<timers, m_timerLock, m_nextTtsTime, fileVars, asked>>
  BY DEF processNotice
<1>2. Place = "update" BY DEF processNotice
<1>3. OneTimer' /\ Place' = Place /\ File' = File
  BY <1>1, TimerStays DEF Speech
<1>4. Done' = Done /\ Done = Len(asked) /\ Done \in Nat
  BY <1>1, <1>2, <1>3 DEF Done, Working, Speech, Ordered, After
<1>5. After(m_vecTtswords, Done) /\ Len(m_vecTtswords) = noticed - Done
      /\ noticed \in Nat /\ Len(m_vecTtswords) \in Nat
  BY DEF Speech, Ordered, After
<1>6. noticed + 1 = Done + Len(m_vecTtswords) + 1 BY <1>4, <1>5
<1>7. noticed' = noticed + 1
      /\ m_vecTtswords' = Append(m_vecTtswords, Done + Len(m_vecTtswords) + 1)
  BY <1>6 DEF processNotice
<1>8. After(m_vecTtswords', Done) /\ Len(m_vecTtswords') = noticed' - Done
  <2>1. After(m_vecTtswords', Done) /\ Len(m_vecTtswords') = Len(m_vecTtswords) + 1
    BY <1>4, <1>5, <1>7, AfterAppend, Zenon
  <2> QED BY <1>4, <1>5, <1>7, <2>1
<1>9. Ordered'
  BY <1>1, <1>2, <1>3, <1>4, <1>5, <1>7, <1>8 DEF Speech, Ordered, Working
<1>10. Named' BY <1>1, <1>3 DEF Speech, Named, fileVars
<1> QED BY <1>3, <1>9, <1>10 DEF Speech

(* OnTimer goes on, and no notice is asked for or done with.                *)
LEMMA NextPlace ==
  ASSUME Speech, Place # "idle", NEW at \in Places, NEW f \in Nat, Go(at, f),
         at \in Working <=> Place \in Working,
         UNCHANGED <<m_timerLock, noticed, m_vecTtswords, asked>>
  PROVE  OneTimer' /\ Place' = at /\ File' = f /\ Ordered'
<1>1. OneTimer' /\ Place' = at /\ File' = f BY TimerGoes DEF Speech
<1>2. Ordered' BY <1>1 DEF Speech, Ordered, Done
<1> QED BY <1>1, <1>2

(* The notice that was worked on is done with, and with it OnTimer.         *)
LEMMA WordDone ==
  ASSUME Speech, Place \in Working, WordEnds, UNCHANGED <<noticed, asked>>
  PROVE  OneTimer' /\ Place' = "idle" /\ File' = 0 /\ Ordered'
<1>1. OneTimer' /\ Place' = "idle" /\ File' = 0
  BY TimerDone DEF Speech, WordEnds, Working, None
<1>2. Done = Len(asked) - 1 /\ Done' = Len(asked)
  BY <1>1 DEF Done, Working
<1>3. asked # <<>> /\ m_vecTtswords # <<>> /\ After(m_vecTtswords, Done)
      /\ Len(m_vecTtswords) = noticed - Done /\ noticed \in Nat /\ After(asked, 0)
  BY DEF Speech, Ordered
<1>4. Len(asked) \in Nat /\ Len(asked) > 0 BY <1>3 DEF After
<1>5. Done \in Nat /\ Done + 1 = Len(asked) BY <1>2, <1>4
<1>6. After(Tail(m_vecTtswords), Done + 1)
      /\ Len(Tail(m_vecTtswords)) = Len(m_vecTtswords) - 1
  BY <1>3, <1>5, AfterTail, Zenon
<1>7. m_vecTtswords' = Tail(m_vecTtswords) BY DEF WordEnds
<1>8. After(m_vecTtswords', Done') BY <1>2, <1>5, <1>6, <1>7
<1>9. Len(m_vecTtswords') = noticed' - Done'
  BY <1>2, <1>3, <1>4, <1>6, <1>7
<1> QED BY <1>1, <1>3, <1>8, <1>9 DEF Ordered, Working

(* The facts about names and places every step below starts from.           *)
LEMMA Facts ==
  ASSUME Speech
  PROVE  /\ Place \in Places \cup {"idle"} /\ File \in Nat
         /\ second \in Nat /\ lastTtsFile \in Nat /\ m_nextTtsTime \in Int
         /\ Len(asked) \in Nat
         /\ second <= Len(asked) /\ lastTtsFile <= Len(asked) /\ File <= Len(asked)
BY TimerPlace DEF Speech, Named, Ordered, After

LEMMA UpdateEndsStep ==
  ASSUME Speech, updateEnds
  PROVE  Speech'
<1>1. Place = "update" /\ Go("speech", 0)
      /\ UNCHANGED <<m_timerLock, noticed, m_vecTtswords, asked, m_nextTtsTime, fileVars>>
  BY DEF updateEnds, None
<1>2. OneTimer' /\ Place' = "speech" /\ File' = 0 /\ Ordered'
  BY <1>1, NextPlace DEF Working, Places
<1>3. Named' BY <1>1, <1>2, Facts DEF Speech, Named, fileVars, Working
<1> QED BY <1>2, <1>3 DEF Speech

LEMMA NothingStep ==
  ASSUME Speech, ttsUpdateThread_nothing
  PROVE  Speech'
<1>1. Place = "speech" /\ TimerEnds
      /\ UNCHANGED <<noticed, m_vecTtswords, asked, m_nextTtsTime, fileVars>>
  BY DEF ttsUpdateThread_nothing
<1>2. OneTimer' /\ Place' = "idle" /\ File' = 0
  BY <1>1, TimerDone DEF Speech, None
<1>3. Ordered' BY <1>1, <1>2 DEF Speech, Ordered, Done, Working
<1>4. Named' BY <1>1, <1>2, Facts DEF Speech, Named, fileVars, Working
<1> QED BY <1>2, <1>3, <1>4 DEF Speech

(* The notice that is asked for is the one after those that were.           *)
LEMMA AskStep ==
  ASSUME Speech, AskSpeech
  PROVE  Speech'
<1>1. Place = "speech" /\ m_vecTtswords # <<>> /\ m_nextTtsTime < 0
      /\ UNCHANGED <<noticed, m_nextTtsTime, fileVars>>
      /\ asked' = Append(asked, Head(m_vecTtswords))
  BY DEF AskSpeech, TimeToSpeak
<1>2. After(asked, 0) /\ Done = Len(asked) /\ Len(asked) \in Nat
      /\ After(m_vecTtswords, Done) /\ Len(m_vecTtswords) = noticed - Done
      /\ noticed \in Nat
  BY <1>1 DEF Speech, Ordered, Done, Working, After
<1>3. /\ Head(m_vecTtswords) = Done + 1
      /\ After(Tail(m_vecTtswords), Done + 1)
      /\ Len(Tail(m_vecTtswords)) = Len(m_vecTtswords) - 1
  BY <1>1, <1>2, AfterTail, Zenon
<1>4. Head(m_vecTtswords) = 0 + Len(asked) + 1 BY <1>2, <1>3
<1>5. After(asked', 0) /\ Len(asked') = Len(asked) + 1 /\ asked' # <<>>
  <2>1. asked' = Append(asked, 0 + Len(asked) + 1) BY <1>1, <1>4, Zenon
  <2>2. 0 \in Nat OBVIOUS
  <2> QED BY <1>2, <2>1, <2>2, AfterAppend, Zenon
<1>6. CASE WordEnds
  <2>1. OneTimer' /\ Place' = "idle" /\ File' = 0
    BY <1>1, <1>6, TimerDone DEF Speech, WordEnds, None
  <2>2. Done' = Len(asked') BY <2>1 DEF Done, Working
  <2>3. m_vecTtswords' = Tail(m_vecTtswords) BY <1>6 DEF WordEnds
  <2>4. After(m_vecTtswords', Done') BY <1>2, <1>3, <1>5, <2>2, <2>3
  <2>5. Len(m_vecTtswords') = noticed' - Done'
    BY <1>1, <1>2, <1>3, <1>5, <2>2, <2>3
  <2>6. Ordered' BY <1>1, <1>2, <1>5, <2>1, <2>4, <2>5 DEF Ordered, Working
  <2>7. Named' BY <1>1, <1>5, <2>1, Facts DEF Speech, Named, fileVars, Working
  <2> QED BY <2>1, <2>6, <2>7 DEF Speech
<1>7. CASE Go("save", None) /\ UNCHANGED <<m_timerLock, m_vecTtswords>>
  <2>1. OneTimer' /\ Place' = "save" /\ File' = 0
    BY <1>1, <1>7, TimerGoes DEF Speech, None, Places, Working
  <2>2. Done' = Len(asked') - 1 BY <2>1 DEF Done, Working
  <2>3. Done' = Done BY <1>2, <1>5, <2>2
  <2>4. Ordered' BY <1>1, <1>2, <1>5, <1>7, <2>1, <2>3 DEF Ordered
  <2>5. Named' BY <1>1, <1>5, <2>1, Facts DEF Speech, Named, fileVars, Working
  <2> QED BY <2>1, <2>4, <2>5 DEF Speech
<1> QED BY <1>6, <1>7 DEF AskSpeech

(* The file is there when it was written, unless it has the name of the one *)
(* that is deleted; then it is a name no player was made for.               *)
LEMMA SaveStep ==
  ASSUME Speech, SaveSpeech
  PROVE  Speech'
<1>1. /\ Place = "save" /\ second' = FileName
      /\ UNCHANGED <<noticed, m_nextTtsTime, lastTtsFile, asked, silent>>
  BY DEF SaveSpeech
<1>2. /\ m_nextTtsTime < 0 /\ second < Len(asked) /\ lastTtsFile < Len(asked)
      /\ (second # 0 /\ second = lastTtsFile => second \in silent)
  BY <1>1 DEF Speech, Named, Working, None
<1>3. Head(m_vecTtswords) = Len(asked)
  <2>1. Done = Len(asked) - 1 /\ After(m_vecTtswords, Done) /\ m_vecTtswords # <<>>
        /\ Len(asked) \in Nat /\ Len(asked) > 0
    BY <1>1 DEF Done, Working, Speech, Ordered, After
  <2>2. Done \in Nat BY <2>1
  <2>3. Head(m_vecTtswords) = Done + 1 BY <2>1, <2>2, AfterTail, Zenon
  <2> QED BY <2>1, <2>3
<1>4. /\ FileName \in Nat /\ FileName <= Len(asked)
      /\ (FileName # 0 /\ FileName = lastTtsFile => FileName \in silent)
  BY <1>2, <1>3, Facts DEF FileName, None
<1>5. CASE WordEnds /\ UNCHANGED <<files, playing>>
  <2>1. OneTimer' /\ Place' = "idle" /\ File' = 0 /\ Ordered'
    BY <1>1, <1>5, WordDone DEF Working
  <2>2. Named' BY <1>1, <1>2, <1>4, <2>1, Facts DEF Named, Working, None
  <2> QED BY <2>1, <2>2 DEF Speech
<1>6. CASE /\ IF lastTtsFile = None THEN files' = files \cup {FileName}
              ELSE Deletes(lastTtsFile, files \cup {FileName})
           /\ Go(IF m_player # None THEN "destroying" ELSE "create", FileName)
           /\ UNCHANGED <<m_timerLock, m_vecTtswords>>
  <2>1. PICK at \in {"destroying", "create"} : Go(at, FileName)
    BY <1>6
  <2>2. OneTimer' /\ Place' = at /\ File' = FileName /\ Ordered'
    BY <1>1, <1>4, <1>6, <2>1, NextPlace DEF Working, Places
  <2>3. FileName \in files' \cup silent
    <3>1. CASE lastTtsFile = None BY <1>6, <3>1
    <3>2. CASE lastTtsFile # None /\ FileName # lastTtsFile
      BY <1>6, <3>2 DEF Deletes
    <3>3. CASE lastTtsFile # None /\ FileName = lastTtsFile
      BY <1>4, <3>3 DEF None
    <3> QED BY <3>1, <3>2, <3>3
  <2>4. Named'
    BY <1>1, <1>2, <1>4, <2>1, <2>2, <2>3, Facts DEF Named, Working, None
  <2> QED BY <2>2, <2>4 DEF Speech
<1> QED BY <1>5, <1>6 DEF SaveSpeech

LEMMA DestroyedStep ==
  ASSUME Speech, PlayerDestroyed
  PROVE  Speech'
<1>1. Place = "destroying" /\ Go("create", File)
      /\ UNCHANGED <<m_timerLock, noticed, m_vecTtswords, asked, m_nextTtsTime, fileVars>>
  BY DEF PlayerDestroyed, File, Place
<1>2. OneTimer' /\ Place' = "create" /\ File' = File /\ Ordered'
  BY <1>1, Facts, NextPlace DEF Working, Places
<1>3. Named' BY <1>1, <1>2, Facts DEF Speech, Named, fileVars, Working
<1> QED BY <1>2, <1>3 DEF Speech

LEMMA CreateStep ==
  ASSUME Speech, CreatePlayer
  PROVE  Speech'
<1>1. /\ Place = "create" /\ lastTtsFile' = File
      /\ UNCHANGED <<noticed, m_nextTtsTime, second, files, asked>>
  BY DEF CreatePlayer, File, Place
<1>2. m_nextTtsTime < 0 /\ File \in files \cup silent
  BY <1>1 DEF Speech, Named, Working
<1>3. CASE WordEnds /\ silent' = silent \cup {lastTtsFile'}
  <2>1. OneTimer' /\ Place' = "idle" /\ File' = 0 /\ Ordered'
    BY <1>1, <1>3, WordDone DEF Working
  <2>2. Named' BY <1>1, <1>2, <1>3, <2>1, Facts DEF Named, Working
  <2> QED BY <2>1, <2>2 DEF Speech
<1>4. CASE Go("creating", lastTtsFile') /\ UNCHANGED <<m_timerLock, m_vecTtswords, silent>>
  <2>1. OneTimer' /\ Place' = "creating" /\ File' = File /\ Ordered'
    BY <1>1, <1>4, Facts, NextPlace DEF Working, Places
  <2>2. Named' BY <1>1, <1>2, <1>4, <2>1, Facts DEF Named, Working
  <2> QED BY <2>1, <2>2 DEF Speech
<1> QED BY <1>3, <1>4 DEF CreatePlayer

(* A player that is made sets m_nextTtsTime, others make the file silent.   *)
LEMMA PlayerStep ==
  ASSUME Speech, PlayerCreated \/ PlayerFails
  PROVE  Speech'
<1>1. /\ Place = "creating" /\ WordEnds
      /\ UNCHANGED <<noticed, second, files, lastTtsFile, asked>>
  BY DEF PlayerCreated, PlayerFails
<1>2. lastTtsFile = File BY <1>1 DEF Speech, Named
<1>3. OneTimer' /\ Place' = "idle" /\ File' = 0 /\ Ordered'
  BY <1>1, WordDone DEF Working
<1>4. CASE PlayerCreated
  <2>1. m_nextTtsTime' \in Nat BY <1>4, SpeechAssumption DEF PlayerCreated
  <2> QED BY <1>1, <1>3, <2>1, Facts DEF Speech, Named, Working
<1>5. CASE PlayerFails
  <2>1. m_nextTtsTime' = m_nextTtsTime /\ lastTtsFile \in silent'
    BY <1>2, <1>5 DEF PlayerFails, File, Place
  <2> QED BY <1>1, <1>3, <2>1, Facts DEF Speech, Named, Working
<1> QED BY <1>4, <1>5

(* Every step of the application keeps the notices and their files.         *)
LEMMA SpeechStep == Speech /\ [AppNext]_appVars => Speech'
<1> SUFFICES ASSUME Speech, [AppNext]_appVars PROVE Speech' OBVIOUS
<1>1. CASE UserShows \/ UNCHANGED speechVars BY <1>1, QuietStep
<1>2. CASE Second BY <1>2, SecondStep
<1>3. CASE Timer
  BY <1>3, OnTimerStep, NoticeStep, UpdateEndsStep, NothingStep, AskStep,
     SaveStep, DestroyedStep, CreateStep, PlayerStep DEF Timer
<1> QED BY <1>1, <1>2, <1>3
        DEF AppNext, HttpThread, TimerThread, User, Assigned, Board, Clock, appVars

LEMMA SpeechAlways == AppSpec => []Speech
BY SpeechInvInit, SpeechStep, PTL DEF AppSpec, AppInit

(* Speech is asked for once for each notice, in their order, and none is    *)
(* given up that it was not asked for.                                      *)
THEOREM AppWordsInOrder == AppSpec => []WordsInOrder
<1>1. ASSUME Speech PROVE WordsInOrder
  <2>1. /\ After(asked, 0) /\ After(m_vecTtswords, Done)
        /\ Len(m_vecTtswords) = noticed - Done
    BY <1>1 DEF Speech, Ordered
  <2>2. asked = [k \in 1..Len(asked) |-> k] BY <2>1 DEF After
  <2>3. Done \in {Len(asked), Len(asked) - 1} BY DEF Done
  <2>4. Done \in Int BY <2>1, <2>3 DEF After
  <2>5. m_vecTtswords = [j \in 1..(noticed - Done) |-> Done + j]
    <3> HIDE DEF Done
    <3> QED BY <2>1, <2>4 DEF After
  <2> QED BY <2>2, <2>3, <2>5 DEF WordsInOrder
<1> QED BY <1>1, SpeechAlways, PTL

(* A player is made for a file that exists, unless nothing could be played  *)
(* in the same second before.                                               *)
THEOREM AppPlayerHasFile == AppSpec => PlayerHasFile
<1>1. ASSUME Speech, [AppNext]_appVars, playing' # playing, playing' # None
      PROVE  playing' \in files \cup silent
  <2>1. PlayerCreated
    BY <1>1 DEF AppNext, HttpThread, TimerThread, User, Assigned, Board, Clock,
        appVars, speechVars, fileVars, Timer, OnTimer, processNotice, updateEnds,
        ttsUpdateThread_nothing, AskSpeech, SaveSpeech, PlayerDestroyed,
        CreatePlayer, PlayerFails, UserShows, Second
  <2>2. Place = "creating" /\ playing' = File
    BY <2>1 DEF PlayerCreated, File, Place
  <2> QED BY <1>1, <2>2 DEF Speech, Named
<1>2. Speech /\ [AppNext]_appVars
        => [playing' # playing /\ playing' # None
              => playing' \in files \cup silent]_speechVars
  BY <1>1
<1> QED BY <1>2, SpeechAlways, PTL DEF AppSpec, PlayerHasFile
=============================================================================
