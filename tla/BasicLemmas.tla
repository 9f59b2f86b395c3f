---------------------------- MODULE BasicLemmas ----------------------------
(***************************************************************************)
(* Lemmas the proofs of several components rest on: induction over the     *)
(* natural numbers and over sequences, stated on sets, and what Picked()   *)
(* returns.                                                                *)
(***************************************************************************)
EXTENDS Picked, Integers, WellFoundedInduction, TLAPS

(* A set that holds 0 and the successor of each of its numbers holds every *)
(* natural number: it otherwise misses a least one.                        *)
THEOREM SetInduction ==
  ASSUME NEW S, 0 \in S, \A n \in Nat : n \in S => n + 1 \in S
  PROVE  Nat \subseteq S
<1> DEFINE Missing == Nat \ S
           R == {ss \in Nat \X Nat : ss[1] < ss[2]}
<1>1. SUFFICES ASSUME Missing # {} PROVE FALSE
  OBVIOUS
<1>2. IsWellFoundedOn(R, Nat)
  BY NatLessThanWellFounded, Zenon DEF OpToRel
<1>3. \E x \in Missing : \A y \in Missing : ~ (<<y, x>> \in R)
  <2>1. Missing \subseteq Nat
    OBVIOUS
  <2> HIDE DEF Missing, R
  <2> QED BY <1>1, <1>2, <2>1, WFMin
<1>4. PICK x \in Missing : \A y \in Missing : ~ (y < x)
  BY <1>3
<1>5. x # 0 /\ x - 1 \in Nat
  OBVIOUS
<1>6. x - 1 \in S
  BY <1>4, <1>5
<1> QED BY <1>5, <1>6, x = (x - 1) + 1

(* A set of numbers from 1 to n that is not empty has a greatest one.       *)
THEOREM HasGreatest ==
  ASSUME NEW n \in Nat, NEW P \in SUBSET (1..n), P # {}
  PROVE  \E i \in P : \A j \in P : j <= i
<1> DEFINE Greatest(Q) == \E i \in Q : \A j \in Q : j <= i
           S == {m \in Nat : \A Q \in SUBSET (1..m) : Q # {} => Greatest(Q)}
<1>1. 0 \in S
  <2>1. 1..0 = {}
    OBVIOUS
  <2> QED BY <2>1
<1>2. \A m \in Nat : m \in S => m + 1 \in S
  <2> SUFFICES ASSUME NEW m \in Nat, m \in S,
                      NEW Q \in SUBSET (1..(m + 1)), Q # {}
               PROVE  Greatest(Q)
    OBVIOUS
  <2>1. CASE m + 1 \in Q
    <3>1. \A j \in Q : j <= m + 1
      OBVIOUS
    <3> QED BY <2>1, <3>1
  <2>2. CASE m + 1 \notin Q
    <3>1. Q \in SUBSET (1..m)
      BY <2>2
    <3> QED BY <3>1
  <2> QED BY <2>1, <2>2
<1>3. Nat \subseteq S
  <2> HIDE DEF S
  <2> QED BY <1>1, <1>2, SetInduction
<1> QED BY <1>3
-----------------------------------------------------------------------------
(* A set that holds the empty sequence and every extension of its members   *)
(* by one element holds every sequence.                                    *)
THEOREM SeqInduction ==
  ASSUME NEW T, NEW P, <<>> \in P,
         \A s \in Seq(T), e \in T : s \in P => Append(s, e) \in P
  PROVE  Seq(T) \subseteq P
<1> DEFINE S == {n \in Nat : \A s \in Seq(T) : Len(s) = n => s \in P}
<1>1. 0 \in S
  <2>1. \A s \in Seq(T) : Len(s) = 0 => s = <<>>
    OBVIOUS
  <2> QED BY <2>1
<1>2. \A n \in Nat : n \in S => n + 1 \in S
  <2> SUFFICES ASSUME NEW n \in Nat, n \in S,
                      NEW s \in Seq(T), Len(s) = n + 1
               PROVE  s \in P
    OBVIOUS
  <2> DEFINE front == SubSeq(s, 1, n)
  <2>1. front \in Seq(T) /\ Len(front) = n /\ s[n + 1] \in T
    OBVIOUS
  <2>2. s = Append(front, s[n + 1])
    OBVIOUS
  <2>3. front \in P
    BY <2>1
  <2> HIDE DEF front
  <2>4. Append(front, s[n + 1]) \in P
    BY <2>1, <2>3
  <2> QED BY <2>2, <2>4, Zenon
<1>3. Nat \subseteq S
  <2> HIDE DEF S
  <2> QED BY <1>1, <1>2, SetInduction
<1>4. \A s \in Seq(T) : Len(s) \in S
  <2> HIDE DEF S
  <2> QED BY <1>3
<1> QED BY <1>4
-----------------------------------------------------------------------------
(* The recursive definition of PickedTo defines a function: one exists for  *)
(* every length, by induction.                                              *)
LEMMA PickedToDef ==
  ASSUME NEW T, NEW s \in Seq(T), NEW S
  PROVE  PickedTo(s, S) =
           [n \in 0..Len(s) |->
              IF n = 0 THEN <<>>
              ELSE IF s[n] \in S THEN Append(PickedTo(s, S)[n - 1], s[n])
                                 ELSE PickedTo(s, S)[n - 1]]
<1> DEFINE Val(f, n) == IF n = 0 THEN <<>>
                        ELSE IF s[n] \in S THEN Append(f[n - 1], s[n])
                                           ELSE f[n - 1]
           Step(f, m) == [n \in 0..m |-> Val(f, n)]
           Has == {m \in Nat : \E f : f = Step(f, m)}
<1>1. 0 \in Has
  <2>1. [n \in 0..0 |-> <<>>] = Step([n \in 0..0 |-> <<>>], 0)
    OBVIOUS
  <2> QED BY <2>1
<1>2. \A m \in Nat : m \in Has => m + 1 \in Has
  <2> SUFFICES ASSUME NEW m \in Nat, m \in Has
               PROVE  m + 1 \in Has
    OBVIOUS
  <2>0. PICK f : f = Step(f, m)
    OBVIOUS
  <2> DEFINE g == Step(f, m + 1)
  <2>1. \A n \in 0..m : g[n] = f[n]
    <3> SUFFICES ASSUME NEW n \in 0..m PROVE g[n] = f[n]
      OBVIOUS
    <3>1. g[n] = Val(f, n) /\ Step(f, m)[n] = Val(f, n)
      <4> HIDE DEF Val
      <4> QED OBVIOUS
    <3> QED BY <2>0, <3>1
  <2>2. ASSUME NEW n \in 0..(m + 1) PROVE Val(g, n) = Val(f, n)
    <3> HIDE DEF g
    <3>1. n = 0 \/ n - 1 \in 0..m
      OBVIOUS
    <3> QED BY <2>1, <3>1
  <2>3. Step(g, m + 1) = Step(f, m + 1)
    <3> HIDE DEF g, Val
    <3> QED BY <2>2
  <2>4. g = Step(g, m + 1)
    BY <2>3
  <2> HIDE DEF g, Step
  <2> QED BY <2>4
<1>3. Len(s) \in Has
  <2> HIDE DEF Has
  <2>1. Nat \subseteq Has
    BY <1>1, <1>2, SetInduction
  <2> QED BY <2>1
<1>4. PickedTo(s, S) = CHOOSE f : f = Step(f, Len(s))
  BY DEF PickedTo
<1>5. PickedTo(s, S) = Step(PickedTo(s, S), Len(s))
  <2> HIDE DEF Step
  <2> QED BY <1>3, <1>4
<1> QED BY <1>5

(* What one element adds. *)
LEMMA PickedToStep ==
  ASSUME NEW T, NEW s \in Seq(T), NEW S
  PROVE  /\ PickedTo(s, S)[0] = <<>>
         /\ \A n \in 0..Len(s) : n # 0 =>
              PickedTo(s, S)[n] =
                IF s[n] \in S THEN Append(PickedTo(s, S)[n - 1], s[n])
                              ELSE PickedTo(s, S)[n - 1]
<1>1. Len(s) \in Nat /\ 0 \in 0..Len(s)
  OBVIOUS
<1> DEFINE p == PickedTo(s, S)
           Val(n) == IF n = 0 THEN <<>>
                     ELSE IF s[n] \in S THEN Append(p[n - 1], s[n]) ELSE p[n - 1]
<1>2. p = [n \in 0..Len(s) |-> Val(n)]
  BY PickedToDef
<1> HIDE DEF p
<1>3. \A n \in 0..Len(s) : p[n] = Val(n)
  <2> HIDE DEF Val
  <2> QED BY <1>2
<1>4. p[0] = <<>>
  BY <1>1, <1>3
<1>5. ASSUME NEW n \in 0..Len(s), n # 0
      PROVE  p[n] = IF s[n] \in S THEN Append(p[n - 1], s[n]) ELSE p[n - 1]
  BY <1>3, <1>5
<1> QED BY <1>4, <1>5 DEF p

(* A prefix is picked from as it is in a longer sequence. *)
LEMMA PickedToAppend ==
  ASSUME NEW T, NEW s \in Seq(T), NEW e \in T, NEW S
  PROVE  \A n \in 0..Len(s) : PickedTo(Append(s, e), S)[n] = PickedTo(s, S)[n]
<1> DEFINE r == Append(s, e)
           Same == {n \in Nat : n <= Len(s) => PickedTo(r, S)[n] = PickedTo(s, S)[n]}
<1>1. r \in Seq(T) /\ Len(r) = Len(s) + 1 /\ \A n \in 1..Len(s) : r[n] = s[n]
  OBVIOUS
<1> HIDE DEF r
<1>2. 0 \in Same
  BY <1>1, PickedToStep
<1>3. ASSUME NEW n \in Nat, n \in Same, n + 1 <= Len(s)
      PROVE  PickedTo(r, S)[n + 1] = PickedTo(s, S)[n + 1]
  <2>1. /\ n + 1 \in 0..Len(s) /\ n + 1 \in 0..Len(r)
        /\ n + 1 # 0 /\ (n + 1) - 1 = n
    BY <1>1, <1>3
  <2>2. PickedTo(r, S)[n] = PickedTo(s, S)[n] /\ r[n + 1] = s[n + 1]
    BY <1>1, <1>3
  <2>3. PickedTo(r, S)[n + 1] =
          IF r[n + 1] \in S THEN Append(PickedTo(r, S)[n], r[n + 1])
                            ELSE PickedTo(r, S)[n]
    BY <1>1, <2>1, PickedToStep
  <2>4. PickedTo(s, S)[n + 1] =
          IF s[n + 1] \in S THEN Append(PickedTo(s, S)[n], s[n + 1])
                            ELSE PickedTo(s, S)[n]
    BY <2>1, PickedToStep
  <2> QED BY <2>2, <2>3, <2>4
<1>4. \A n \in Nat : n \in Same => n + 1 \in Same
  BY <1>3
<1>5. Nat \subseteq Same
  <2> HIDE DEF Same
  <2> QED BY <1>2, <1>4, SetInduction
<1> QED BY <1>5 DEF r

(* Nothing is picked from the empty sequence. *)
LEMMA PickedEmpty ==
  ASSUME NEW S
  PROVE  Picked(<<>>, S) = <<>>
<1>1. ASSUME NEW s \in Seq({}) PROVE PickedTo(s, S)[0] = <<>>
  BY PickedToStep
<1>2. <<>> \in Seq({}) /\ Len(<<>>) = 0
  OBVIOUS
<1>3. PickedTo(<<>>, S)[0] = <<>>
  BY <1>1, <1>2, Zenon
<1> QED BY <1>2, <1>3, Zenon DEF Picked

(* An element that is added is picked if it is in the set. *)
LEMMA PickedAppend ==
  ASSUME NEW T, NEW s \in Seq(T), NEW e \in T, NEW S
  PROVE  Picked(Append(s, e), S) =
           IF e \in S THEN Append(Picked(s, S), e) ELSE Picked(s, S)
<1> DEFINE r == Append(s, e)
<1>1. /\ r \in Seq(T) /\ Len(r) = Len(s) + 1 /\ r[Len(s) + 1] = e
      /\ Len(s) + 1 \in 0..Len(r) /\ Len(s) + 1 # 0
      /\ (Len(s) + 1) - 1 = Len(s) /\ Len(s) \in 0..Len(s)
  OBVIOUS
<1>2. PickedTo(r, S)[Len(s)] = PickedTo(s, S)[Len(s)]
  BY <1>1, PickedToAppend
<1> HIDE DEF r
<1>3. PickedTo(r, S)[Len(s) + 1] =
        IF r[Len(s) + 1] \in S
        THEN Append(PickedTo(r, S)[Len(s)], r[Len(s) + 1])
        ELSE PickedTo(r, S)[Len(s)]
  BY <1>1, PickedToStep
<1> QED BY <1>1, <1>2, <1>3 DEF Picked, r

(* What is picked is of the set. *)
LEMMA PickedType ==
  ASSUME NEW T, NEW S
  PROVE  \A s \in Seq(T) : Picked(s, S) \in Seq(T \cap S)
<1> DEFINE U == T \cap S
           P == {s \in Seq(T) : Picked(s, S) \in Seq(U)}
<1>0. \A e \in T : e \in S => e \in U
  OBVIOUS
<1> HIDE DEF U
<1>1. <<>> \in P
  <2>1. <<>> \in Seq(T) /\ <<>> \in Seq(U)
    OBVIOUS
  <2> QED BY <2>1, PickedEmpty
<1>2. ASSUME NEW s \in Seq(T), NEW e \in T, s \in P PROVE Append(s, e) \in P
  <2>1. Append(s, e) \in Seq(T) /\ Picked(s, S) \in Seq(U)
    BY <1>2
  <2>2. Picked(Append(s, e), S) =
          IF e \in S THEN Append(Picked(s, S), e) ELSE Picked(s, S)
    <3> HIDE DEF P
    <3> QED BY PickedAppend
  <2>3. \A p \in Seq(U), d \in U : Append(p, d) \in Seq(U)
    OBVIOUS
  <2>4. e \in S => Append(Picked(s, S), e) \in Seq(U)
    BY <1>0, <2>1, <2>3, Zenon
  <2>5. Picked(Append(s, e), S) \in Seq(U)
    BY <2>1, <2>2, <2>4, Zenon
  <2> QED BY <2>1, <2>5, Zenon
<1>3. Seq(T) \subseteq P
  <2> HIDE DEF P
  <2> QED BY <1>1, <1>2, SeqInduction
<1> QED BY <1>3 DEF U

(* A sequence of members of the set is picked whole.                        *)
LEMMA PickedAll ==
  ASSUME NEW T, NEW S, T \subseteq S
  PROVE  \A s \in Seq(T) : Picked(s, S) = s
<1> DEFINE P == {s \in Seq(T) : Picked(s, S) = s}
<1>1. <<>> \in P
  BY PickedEmpty
<1>2. ASSUME NEW s \in Seq(T), NEW e \in T, s \in P PROVE Append(s, e) \in P
  <2>1. Picked(Append(s, e), S) =
          IF e \in S THEN Append(Picked(s, S), e) ELSE Picked(s, S)
    BY PickedAppend
  <2> QED BY <1>2, <2>1
<1>3. Seq(T) \subseteq P
  <2> HIDE DEF P
  <2> QED BY <1>1, <1>2, SeqInduction
<1> QED BY <1>3

(* Of a sequence of others nothing is. *)
LEMMA PickedNone ==
  ASSUME NEW T, NEW S, T \cap S = {}
  PROVE  \A s \in Seq(T) : Picked(s, S) = <<>>
<1> DEFINE P == {s \in Seq(T) : Picked(s, S) = <<>>}
<1>1. <<>> \in P
  BY PickedEmpty
<1>2. ASSUME NEW s \in Seq(T), NEW e \in T, s \in P PROVE Append(s, e) \in P
  <2>1. Picked(Append(s, e), S) =
          IF e \in S THEN Append(Picked(s, S), e) ELSE Picked(s, S)
    BY PickedAppend
  <2> QED BY <1>2, <2>1
<1>3. Seq(T) \subseteq P
  <2> HIDE DEF P
  <2> QED BY <1>1, <1>2, SeqInduction
<1> QED BY <1>3

(* An element is added to a concatenation by adding it to its second part.  *)
LEMMA AppendConcat ==
  ASSUME NEW T, NEW p \in Seq(T), NEW q \in Seq(T), NEW e \in T
  PROVE  p \o Append(q, e) = Append(p \o q, e)
<1>1. p \o Append(q, e) \in Seq(T) /\ Append(p \o q, e) \in Seq(T)
  OBVIOUS
<1>2. Len(p \o Append(q, e)) = Len(Append(p \o q, e))
  OBVIOUS
<1>3. \A i \in 1..Len(p \o Append(q, e)) : (p \o Append(q, e))[i] = Append(p \o q, e)[i]
  OBVIOUS
<1> DEFINE x == p \o Append(q, e)
           y == Append(p \o q, e)
<1> HIDE DEF x, y
<1>4. x \in Seq(T) /\ y \in Seq(T) /\ Len(x) = Len(y) /\ \A i \in 1..Len(x) : x[i] = y[i]
  BY <1>1, <1>2, <1>3 DEF x, y
<1>5. x = y
  BY <1>4
<1> QED BY <1>5 DEF x, y

(* Picking goes through a concatenation part by part. *)
LEMMA PickedConcat ==
  ASSUME NEW T, NEW S, NEW s \in Seq(T)
  PROVE  \A r \in Seq(T) : Picked(s \o r, S) = Picked(s, S) \o Picked(r, S)
<1> DEFINE P == {r \in Seq(T) : Picked(s \o r, S) = Picked(s, S) \o Picked(r, S)}
<1>0. \A r \in Seq(T) : Picked(r, S) \in Seq(T)
  <2>1. \A r \in Seq(T) : Picked(r, S) \in Seq(T \cap S)
    BY PickedType
  <2> QED BY <2>1
<1>1. <<>> \in P
  <2>1. s \o <<>> = s /\ Picked(s, S) \o <<>> = Picked(s, S) /\ <<>> \in Seq(T)
    BY <1>0
  <2>2. Picked(<<>>, S) = <<>>
    BY PickedEmpty
  <2> QED BY <2>1, <2>2
<1>2. ASSUME NEW r \in Seq(T), NEW e \in T, r \in P PROVE Append(r, e) \in P
  <2>0. Picked(s \o r, S) = Picked(s, S) \o Picked(r, S)
    BY <1>2
  <2>1. /\ s \o r \in Seq(T) /\ s \o Append(r, e) = Append(s \o r, e)
        /\ Append(r, e) \in Seq(T)
    OBVIOUS
  <2>a. SUFFICES Picked(s \o Append(r, e), S) = Picked(s, S) \o Picked(Append(r, e), S)
    BY <2>1
  <2> HIDE DEF P
  <2>2. Picked(Append(r, e), S) =
          IF e \in S THEN Append(Picked(r, S), e) ELSE Picked(r, S)
    BY PickedAppend
  <2>3. Picked(Append(s \o r, e), S) =
          IF e \in S THEN Append(Picked(s \o r, S), e) ELSE Picked(s \o r, S)
    BY <2>1, PickedAppend
  <2>4. Picked(s, S) \in Seq(T) /\ Picked(r, S) \in Seq(T)
    BY <1>0, Zenon
  <2>5. Picked(s, S) \o Append(Picked(r, S), e) = Append(Picked(s, S) \o Picked(r, S), e)
    BY <2>4, AppendConcat
  <2> QED BY <2>0, <2>1, <2>2, <2>3, <2>5
<1>3. Seq(T) \subseteq P
  <2> HIDE DEF P
  <2> QED BY <1>1, <1>2, SeqInduction
<1> QED BY <1>3

(* Picking from what was picked is picking what is in both sets. *)
LEMMA PickedTwice ==
  ASSUME NEW T, NEW S, NEW R
  PROVE  \A s \in Seq(T) : Picked(Picked(s, S), R) = Picked(s, S \cap R)
<1> DEFINE U == S \cap R
           P == {s \in Seq(T) : Picked(Picked(s, S), R) = Picked(s, U)}
<1>0. (\A e : e \in U <=> e \in S /\ e \in R)
      /\ \A s \in Seq(T) : Picked(s, S) \in Seq(T)
  <2>1. \A s \in Seq(T) : Picked(s, S) \in Seq(T \cap S)
    BY PickedType
  <2> QED BY <2>1
<1> HIDE DEF U
<1>1. <<>> \in P
  <2>1. <<>> \in Seq(T) /\ Picked(<<>>, S) = <<>> /\ Picked(<<>>, R) = <<>>
        /\ Picked(<<>>, U) = <<>>
    BY PickedEmpty
  <2> QED BY <2>1
<1>2. ASSUME NEW s \in Seq(T), NEW e \in T, s \in P PROVE Append(s, e) \in P
  <2>0. Picked(Picked(s, S), R) = Picked(s, U)
    BY <1>2
  <2>1. Append(s, e) \in Seq(T)
    OBVIOUS
  <2>a. SUFFICES Picked(Picked(Append(s, e), S), R) = Picked(Append(s, e), U)
    BY <2>1
  <2> HIDE DEF P
  <2>2. /\ Picked(Append(s, e), S) =
             IF e \in S THEN Append(Picked(s, S), e) ELSE Picked(s, S)
        /\ Picked(Append(s, e), U) =
             IF e \in U THEN Append(Picked(s, U), e) ELSE Picked(s, U)
    BY PickedAppend
  <2>3. Picked(Append(Picked(s, S), e), R) =
          IF e \in R THEN Append(Picked(Picked(s, S), R), e)
                     ELSE Picked(Picked(s, S), R)
    BY <1>0, PickedAppend
  <2>4. CASE e \in U BY <1>0, <2>0, <2>2, <2>3, <2>4
  <2>5. CASE e \notin U /\ e \in S BY <1>0, <2>0, <2>2, <2>3, <2>5
  <2>6. CASE e \notin U /\ e \notin S BY <1>0, <2>0, <2>2, <2>3, <2>6
  <2> QED BY <1>0, <2>4, <2>5, <2>6
<1>3. Seq(T) \subseteq P
  <2> HIDE DEF P
  <2> QED BY <1>1, <1>2, SeqInduction
<1> QED BY <1>3 DEF U
=============================================================================
