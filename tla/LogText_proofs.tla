---------------------------- MODULE LogText_proofs ---------------------------
(***************************************************************************)
(* Proofs about the text under the scanner, for texts of every length and  *)
(* pattern files with any contents.                                        *)
(***************************************************************************)
EXTENDS LogText, LogCapture_proofs

-----------------------------------------------------------------------------
(* The recursive definitions. *)

(* What is left of a sequence, one element after another. *)
Left(s, drop) ==
  CHOOSE left : left = [n \in 0 .. Len(s) |->
    IF n = 0 THEN <<>>
    ELSE IF s[n] \in drop THEN left[n - 1] ELSE Append(left[n - 1], s[n])]

LEMMA WithoutIs ==
  ASSUME NEW S, NEW s \in Seq(S), NEW drop
  PROVE  /\ Without(s, drop) = Left(s, drop)[Len(s)]
         /\ Left(s, drop)[0] = <<>>
         /\ \A n \in 0 .. Len(s) : Left(s, drop)[n] \in Seq(S)
         /\ \A n \in 1 .. Len(s) :
              Left(s, drop)[n] = IF s[n] \in drop THEN Left(s, drop)[n - 1]
                                 ELSE Append(Left(s, drop)[n - 1], s[n])
<1> DEFINE step == [p \in Seq(S) \X S |->
                      IF p[2] \in drop THEN p[1] ELSE Append(p[1], p[2])]
           Solves(left) == left = [n \in 0 .. Len(s) |->
             IF n = 0 THEN <<>>
             ELSE IF s[n] \in drop THEN left[n - 1]
             ELSE Append(left[n - 1], s[n])]
<1>1. IsFoldRule(step, Seq(S), S)
  BY AppendProperties DEF IsFoldRule
<1>2. <<>> \in Seq(S)
  OBVIOUS
<1>3. PICK g : IsFold(g, Seq(S), <<>>, step, s)
  <2> HIDE DEF step
  <2> QED
    BY <1>1, <1>2, SequenceRecursion
<1>4. \A n \in 0 .. Len(s) : n # 0 =>
        step[<<g[n - 1], s[n]>>] =
          IF s[n] \in drop THEN g[n - 1] ELSE Append(g[n - 1], s[n])
  <2> SUFFICES ASSUME NEW n \in 0 .. Len(s), n # 0
               PROVE  step[<<g[n - 1], s[n]>>] =
                        IF s[n] \in drop THEN g[n - 1]
                        ELSE Append(g[n - 1], s[n])
    OBVIOUS
  <2>1. n \in 1 .. Len(s) /\ n - 1 \in 0 .. Len(s)
    BY LenProperties
  <2>2. g[n - 1] \in Seq(S) /\ s[n] \in S
    BY <1>3, <2>1, ElementOfSeq DEF IsFold
  <2> QED
    BY <2>2
<1> HIDE DEF step
<1>5. Solves(g)
  BY <1>3, <1>4 DEF IsFold
<1>6. Solves(Left(s, drop))
  BY <1>5 DEF Left
<1>7. Without(s, drop) = Left(s, drop)[Len(s)]
  BY DEF Without, Left
<1>8. \A n \in 0 .. Len(s) :
        Left(s, drop)[n] = IF n = 0 THEN <<>>
                           ELSE IF s[n] \in drop THEN Left(s, drop)[n - 1]
                           ELSE Append(Left(s, drop)[n - 1], s[n])
  <2> DEFINE h == Left(s, drop)
  <2>1. Solves(h)
    BY <1>6
  <2> HIDE DEF h
  <2>2. \A n \in 0 .. Len(s) :
          h[n] = IF n = 0 THEN <<>>
                 ELSE IF s[n] \in drop THEN h[n - 1] ELSE Append(h[n - 1], s[n])
    BY <2>1
  <2> QED
    BY <2>2 DEF h
<1> HIDE DEF Solves
<1>9. Len(s) \in Nat
  BY LenProperties
<1>10. /\ Left(s, drop)[0] = <<>>
       /\ \A n \in 1 .. Len(s) :
            Left(s, drop)[n] = IF s[n] \in drop THEN Left(s, drop)[n - 1]
                               ELSE Append(Left(s, drop)[n - 1], s[n])
  BY <1>8, <1>9
<1> DEFINE T == {n \in Nat : n =< Len(s) => Left(s, drop)[n] \in Seq(S)}
<1>11. 0 \in T
  BY <1>2, <1>10
<1>12. ASSUME NEW n \in Nat, n \in T
       PROVE  n + 1 \in T
  <2> SUFFICES ASSUME n + 1 =< Len(s)
               PROVE  Left(s, drop)[n + 1] \in Seq(S)
    OBVIOUS
  <2>1. n + 1 \in 1 .. Len(s) /\ (n + 1) - 1 = n /\ n =< Len(s)
    BY <1>9
  <2>2. Left(s, drop)[n] \in Seq(S) /\ s[n + 1] \in S
    BY <1>12, <2>1, ElementOfSeq
  <2>3. Append(Left(s, drop)[n], s[n + 1]) \in Seq(S)
    BY <2>2, AppendProperties
  <2> QED
    BY <1>10, <2>1, <2>2, <2>3
<1>13. \A n \in Nat : n \in T
  <2> HIDE DEF T
  <2> QED
    BY <1>11, <1>12, SetInduction
<1>14. \A n \in 0 .. Len(s) : Left(s, drop)[n] \in Seq(S)
  BY <1>9, <1>13
<1> QED
  BY <1>7, <1>10, <1>14

(* The lines of a text put together, one after another. *)
Upto(ls) ==
  CHOOSE upto : upto = [n \in 0 .. Len(ls) |->
    IF n = 0 THEN <<>> ELSE Append(upto[n - 1] \o ls[n], Break)]

LEMMA JoinedIs ==
  ASSUME NEW ls \in Seq(Seq(Token))
  PROVE  /\ Joined(ls) = Upto(ls)[Len(ls)]
         /\ Upto(ls)[0] = <<>>
         /\ \A n \in 1 .. Len(ls) :
              Upto(ls)[n] = Append(Upto(ls)[n - 1] \o ls[n], Break)
<1> DEFINE A == Seq(Token \cup {Break})
           step == [p \in A \X Seq(Token) |-> Append(p[1] \o p[2], Break)]
           Solves(upto) == upto = [n \in 0 .. Len(ls) |->
             IF n = 0 THEN <<>> ELSE Append(upto[n - 1] \o ls[n], Break)]
<1>1. IsFoldRule(step, A, Seq(Token))
  <2> SUFFICES ASSUME NEW p \in A \X Seq(Token)
               PROVE  Append(p[1] \o p[2], Break) \in A
    BY DEF IsFoldRule
  <2>1. p[1] \in A /\ p[2] \in Seq(Token)
    OBVIOUS
  <2>2. p[2] \in A
    BY <2>1, SeqMonotonic
  <2>3. p[1] \o p[2] \in A
    BY <2>1, <2>2, ConcatProperties
  <2> QED
    BY <2>3, AppendProperties
<1>2. <<>> \in A
  OBVIOUS
<1>3. PICK g : IsFold(g, A, <<>>, step, ls)
  <2> HIDE DEF step, A
  <2> QED
    BY <1>1, <1>2, SequenceRecursion
<1>4. \A n \in 0 .. Len(ls) : n # 0 =>
        step[<<g[n - 1], ls[n]>>] = Append(g[n - 1] \o ls[n], Break)
  <2> SUFFICES ASSUME NEW n \in 0 .. Len(ls), n # 0
               PROVE  step[<<g[n - 1], ls[n]>>] = Append(g[n - 1] \o ls[n], Break)
    OBVIOUS
  <2>1. n \in 1 .. Len(ls) /\ n - 1 \in 0 .. Len(ls)
    BY LenProperties
  <2>2. g[n - 1] \in A /\ ls[n] \in Seq(Token)
    BY <1>3, <2>1, ElementOfSeq DEF IsFold
  <2> QED
    BY <2>2
<1> HIDE DEF step
<1>5. Solves(g)
  BY <1>3, <1>4 DEF IsFold
<1>6. Solves(Upto(ls))
  BY <1>5 DEF Upto
<1>7. Joined(ls) = Upto(ls)[Len(ls)]
  BY DEF Joined, Upto
<1>8. \A n \in 0 .. Len(ls) :
        Upto(ls)[n] = IF n = 0 THEN <<>>
                      ELSE Append(Upto(ls)[n - 1] \o ls[n], Break)
  <2> DEFINE h == Upto(ls)
  <2>1. Solves(h)
    BY <1>6
  <2> HIDE DEF h
  <2>2. \A n \in 0 .. Len(ls) :
          h[n] = IF n = 0 THEN <<>> ELSE Append(h[n - 1] \o ls[n], Break)
    BY <2>1
  <2> QED
    BY <2>2 DEF h
<1> HIDE DEF Solves
<1>9. Len(ls) \in Nat
  BY LenProperties
<1>10. Upto(ls)[0] = <<>>
  BY <1>8, <1>9
<1>11. \A n \in 1 .. Len(ls) :
         Upto(ls)[n] = Append(Upto(ls)[n - 1] \o ls[n], Break)
  <2>1. \A n \in 1 .. Len(ls) : n \in 0 .. Len(ls) /\ n # 0
    BY <1>9
  <2> QED
    BY <1>8, <2>1
<1> QED
  BY <1>7, <1>10, <1>11

(* One element more leaves what the others left, and itself or nothing. *)
LEMMA WithoutAppend ==
  ASSUME NEW S, NEW s \in Seq(S), NEW x \in S, NEW drop
  PROVE  /\ Without(s, drop) \in Seq(S)
         /\ Without(Append(s, x), drop) =
              IF x \in drop THEN Without(s, drop)
              ELSE Append(Without(s, drop), x)
<1> DEFINE t == Append(s, x)
           T == {n \in Nat : n =< Len(s) => Left(t, drop)[n] = Left(s, drop)[n]}
<1>1. /\ t \in Seq(S) /\ Len(t) = Len(s) + 1 /\ t[Len(s) + 1] = x
      /\ \A i \in 1 .. Len(s) : t[i] = s[i]
      /\ Len(s) \in Nat
  BY AppendProperties
<1> HIDE DEF t
<1>2. 0 \in T
  BY <1>1, WithoutIs
<1>3. ASSUME NEW n \in Nat, n \in T
      PROVE  n + 1 \in T
  <2> SUFFICES ASSUME n + 1 =< Len(s)
               PROVE  Left(t, drop)[n + 1] = Left(s, drop)[n + 1]
    OBVIOUS
  <2>1. /\ n + 1 \in 1 .. Len(s) /\ n + 1 \in 1 .. Len(t)
        /\ (n + 1) - 1 = n /\ n =< Len(s)
    BY <1>1
  <2>2. t[n + 1] = s[n + 1] /\ Left(t, drop)[n] = Left(s, drop)[n]
    BY <1>1, <1>3, <2>1
  <2>3. Left(s, drop)[n + 1] = IF s[n + 1] \in drop THEN Left(s, drop)[n]
                               ELSE Append(Left(s, drop)[n], s[n + 1])
    BY <2>1, WithoutIs
  <2>4. Left(t, drop)[n + 1] = IF t[n + 1] \in drop THEN Left(t, drop)[n]
                               ELSE Append(Left(t, drop)[n], t[n + 1])
    BY <1>1, <2>1, WithoutIs
  <2> QED
    BY <2>2, <2>3, <2>4
<1>4. \A n \in Nat : n \in T
  <2> HIDE DEF T
  <2> QED
    BY <1>2, <1>3, SetInduction
<1>5. Left(t, drop)[Len(s)] = Left(s, drop)[Len(s)]
  BY <1>1, <1>4
<1>6. Len(s) + 1 \in 1 .. Len(t) /\ (Len(s) + 1) - 1 = Len(s)
      /\ Len(s) \in 0 .. Len(s)
  BY <1>1
<1>7. /\ Without(s, drop) = Left(s, drop)[Len(s)]
      /\ Without(t, drop) = Left(t, drop)[Len(t)]
      /\ Left(s, drop)[Len(s)] \in Seq(S)
  BY <1>1, <1>6, WithoutIs
<1>8. Left(t, drop)[Len(s) + 1] =
        IF x \in drop THEN Left(t, drop)[Len(s)]
        ELSE Append(Left(t, drop)[Len(s)], x)
  BY <1>1, <1>6, WithoutIs
<1> QED
  BY <1>1, <1>5, <1>7, <1>8 DEF t

(* One line more adds that line and its break. *)
LEMMA JoinedAppend ==
  ASSUME NEW ls \in Seq(Seq(Token)), NEW l \in Seq(Token)
  PROVE  Joined(Append(ls, l)) = Append(Joined(ls) \o l, Break)
<1> DEFINE t == Append(ls, l)
           T == {n \in Nat : n =< Len(ls) => Upto(t)[n] = Upto(ls)[n]}
<1>1. /\ t \in Seq(Seq(Token)) /\ Len(t) = Len(ls) + 1 /\ t[Len(ls) + 1] = l
      /\ \A i \in 1 .. Len(ls) : t[i] = ls[i]
      /\ Len(ls) \in Nat
  BY AppendProperties
<1> HIDE DEF t
<1>2. 0 \in T
  BY <1>1, JoinedIs
<1>3. ASSUME NEW n \in Nat, n \in T
      PROVE  n + 1 \in T
  <2> SUFFICES ASSUME n + 1 =< Len(ls)
               PROVE  Upto(t)[n + 1] = Upto(ls)[n + 1]
    OBVIOUS
  <2>1. /\ n + 1 \in 1 .. Len(ls) /\ n + 1 \in 1 .. Len(t)
        /\ (n + 1) - 1 = n /\ n =< Len(ls)
    BY <1>1
  <2>2. t[n + 1] = ls[n + 1] /\ Upto(t)[n] = Upto(ls)[n]
    BY <1>1, <1>3, <2>1
  <2>3. Upto(ls)[n + 1] = Append(Upto(ls)[n] \o ls[n + 1], Break)
    BY <2>1, JoinedIs
  <2>4. Upto(t)[n + 1] = Append(Upto(t)[n] \o t[n + 1], Break)
    BY <1>1, <2>1, JoinedIs
  <2> QED
    BY <2>2, <2>3, <2>4
<1>4. \A n \in Nat : n \in T
  <2> HIDE DEF T
  <2> QED
    BY <1>2, <1>3, SetInduction
<1>5. Upto(t)[Len(ls)] = Upto(ls)[Len(ls)]
  BY <1>1, <1>4
<1>6. Len(ls) + 1 \in 1 .. Len(t) /\ (Len(ls) + 1) - 1 = Len(ls)
  BY <1>1
<1>7. Joined(ls) = Upto(ls)[Len(ls)] /\ Joined(t) = Upto(t)[Len(t)]
  BY <1>1, JoinedIs
<1>8. Upto(t)[Len(ls) + 1] = Append(Upto(t)[Len(ls)] \o l, Break)
  BY <1>1, <1>6, JoinedIs
<1> QED
  BY <1>1, <1>5, <1>7, <1>8 DEF t

(* Nothing is left of nothing. *)
LEMMA WithoutEmpty ==
  ASSUME NEW drop
  PROVE  Without(<<>>, drop) = <<>>
<1>1. ASSUME NEW s \in Seq(Token), Len(s) = 0
      PROVE  Without(s, drop) = <<>>
  <2>1. Without(s, drop) = Left(s, drop)[Len(s)] /\ Left(s, drop)[0] = <<>>
    BY WithoutIs
  <2> QED
    BY <1>1, <2>1
<1>2. <<>> \in Seq(Token) /\ Len(<<>>) = 0
  BY EmptySeq
<1> DEFINE none == <<>>
<1> HIDE DEF none
<1>3. none \in Seq(Token) /\ Len(none) = 0
  BY <1>2 DEF none
<1>4. Without(none, drop) = <<>>
  BY <1>1, <1>3
<1> QED
  BY <1>4 DEF none

LEMMA JoinedEmpty == Joined(<<>>) = <<>>
<1> DEFINE none == <<>>
<1>1. none \in Seq(Seq(Token)) /\ Len(none) = 0
  BY EmptySeq
<1> HIDE DEF none
<1>2. Joined(none) = Upto(none)[0] /\ Upto(none)[0] = <<>>
  BY <1>1, JoinedIs
<1> QED
  BY <1>2 DEF none

-----------------------------------------------------------------------------
(* Parts of a sequence. *)

(* What is behind the first n elements. *)
LEMMA FromIs ==
  ASSUME NEW S, NEW s \in Seq(S), NEW n \in 0 .. Len(s)
  PROVE  /\ From(s, n) \in Seq(S)
         /\ Len(From(s, n)) = Len(s) - n
         /\ \A k \in 1 .. Len(s) - n : From(s, n)[k] = s[n + k]
<1>1. Len(s) \in Nat /\ n + 1 \in Int /\ Len(s) \in Int
  BY LenProperties
<1>2. \A i \in (n + 1) .. Len(s) : s[i] \in S
  BY <1>1, ElementOfSeq
<1>3. /\ SubSeq(s, n + 1, Len(s)) \in Seq(S)
      /\ Len(SubSeq(s, n + 1, Len(s))) =
           IF n + 1 =< Len(s) THEN Len(s) - (n + 1) + 1 ELSE 0
      /\ \A i \in 1 .. Len(s) - (n + 1) + 1 :
           SubSeq(s, n + 1, Len(s))[i] = s[(n + 1) + i - 1]
  BY <1>1, <1>2, SubSeqProperties
<1>4. /\ Len(s) - (n + 1) + 1 = Len(s) - n
      /\ \A i \in 1 .. Len(s) - n : (n + 1) + i - 1 = n + i
      /\ (IF n + 1 =< Len(s) THEN Len(s) - (n + 1) + 1 ELSE 0) = Len(s) - n
  BY <1>1
<1> QED
  BY <1>3, <1>4 DEF From

(* Its first n elements. *)
LEMMA FirstIs ==
  ASSUME NEW S, NEW s \in Seq(S), NEW n \in 0 .. Len(s)
  PROVE  /\ SubSeq(s, 1, n) \in Seq(S)
         /\ Len(SubSeq(s, 1, n)) = n
         /\ \A k \in 1 .. n : SubSeq(s, 1, n)[k] = s[k]
<1>1. Len(s) \in Nat /\ 1 \in Int /\ n \in Int
  BY LenProperties
<1>2. \A i \in 1 .. n : s[i] \in S
  BY <1>1, ElementOfSeq
<1>3. /\ SubSeq(s, 1, n) \in Seq(S)
      /\ Len(SubSeq(s, 1, n)) = IF 1 =< n THEN n - 1 + 1 ELSE 0
      /\ \A i \in 1 .. n - 1 + 1 : SubSeq(s, 1, n)[i] = s[1 + i - 1]
  BY <1>1, <1>2, SubSeqProperties
<1>4. /\ n - 1 + 1 = n /\ (IF 1 =< n THEN n - 1 + 1 ELSE 0) = n
      /\ \A i \in 1 .. n : 1 + i - 1 = i
  BY <1>1
<1> QED
  BY <1>3, <1>4

(* A part of a sequence is a word when it agrees with it at every position. *)
Agrees(s, i, word) == \A k \in 1 .. Len(word) : s[i + k] = word[k]

LEMMA PartIs ==
  ASSUME NEW S, NEW s \in Seq(S), NEW T, NEW word \in Seq(T),
         NEW i \in Nat, i + Len(word) =< Len(s)
  PROVE  SubSeq(s, i + 1, i + Len(word)) = word <=> Agrees(s, i, word)
<1> DEFINE part == SubSeq(s, i + 1, i + Len(word))
           n == Len(word)
<1>1. n \in Nat /\ Len(s) \in Nat
  BY LenProperties
<1>2. \A j \in (i + 1) .. (i + n) : s[j] \in S
  BY <1>1, ElementOfSeq
<1>3. /\ part \in Seq(S)
      /\ Len(part) = IF i + 1 =< i + n THEN i + n - (i + 1) + 1 ELSE 0
      /\ \A k \in 1 .. i + n - (i + 1) + 1 : part[k] = s[(i + 1) + k - 1]
  BY <1>1, <1>2, SubSeqProperties
<1>4. /\ i + n - (i + 1) + 1 = n
      /\ (IF i + 1 =< i + n THEN i + n - (i + 1) + 1 ELSE 0) = n
      /\ \A k \in 1 .. n : (i + 1) + k - 1 = i + k
  BY <1>1
<1> HIDE DEF part, n
<1>5. Len(part) = n /\ \A k \in 1 .. n : part[k] = s[i + k]
  BY <1>3, <1>4
<1>6. part \in Seq(S \cup T) /\ word \in Seq(S \cup T)
  BY <1>3, SeqMonotonic
<1>7. ASSUME \A k \in 1 .. n : s[i + k] = word[k]
      PROVE  part = word
  <2>1. \A k \in 1 .. Len(part) : part[k] = word[k]
    BY <1>5, <1>7
  <2> QED
    BY <1>5, <1>6, <2>1, SeqEqual DEF n
<1> QED
  BY <1>5, <1>7 DEF Agrees, part, n

(* A word occurs where its tokens stand one behind the other. *)
Found(word, s) ==
  \E i \in 0 .. Len(s) - Len(word) : Agrees(s, i, word)

LEMMA OccursAt ==
  ASSUME NEW S, NEW s \in Seq(S), NEW T, NEW word \in Seq(T)
  PROVE  Occurs(word, s) <=> Found(word, s)
<1>1. Len(word) \in Nat /\ Len(s) \in Nat
  BY LenProperties
<1>2. ASSUME NEW i \in 0 .. Len(s) - Len(word)
      PROVE  SubSeq(s, i + 1, i + Len(word)) = word <=> Agrees(s, i, word)
  <2>1. i \in Nat /\ i + Len(word) =< Len(s)
    BY <1>1
  <2> QED
    BY <2>1, PartIs
<1> QED
  BY <1>2 DEF Occurs, Found

(* What occurs behind the first n tokens occurs in the whole. *)
LEMMA OccursFrom ==
  ASSUME NEW S, NEW s \in Seq(S), NEW n \in 0 .. Len(s),
         NEW T, NEW word \in Seq(T), Occurs(word, From(s, n))
  PROVE  Occurs(word, s)
<1>1. Len(word) \in Nat /\ Len(s) \in Nat
  BY LenProperties
<1>2. /\ From(s, n) \in Seq(S) /\ Len(From(s, n)) = Len(s) - n
      /\ \A k \in 1 .. Len(s) - n : From(s, n)[k] = s[n + k]
  BY FromIs
<1>3. PICK i \in 0 .. Len(From(s, n)) - Len(word) :
        \A k \in 1 .. Len(word) : From(s, n)[i + k] = word[k]
  <2>1. Found(word, From(s, n))
    BY <1>2, OccursAt
  <2> QED
    BY <2>1 DEF Found, Agrees
<1>4. n + i \in 0 .. Len(s) - Len(word)
  BY <1>1, <1>2
<1>5. \A k \in 1 .. Len(word) : s[(n + i) + k] = word[k]
  <2> SUFFICES ASSUME NEW k \in 1 .. Len(word)
               PROVE  s[(n + i) + k] = word[k]
    OBVIOUS
  <2>1. i + k \in 1 .. Len(s) - n /\ n + (i + k) = (n + i) + k
    BY <1>1, <1>2
  <2> QED
    BY <1>2, <1>3, <2>1
<1> QED
  <2>1. Found(word, s)
    BY <1>4, <1>5 DEF Found, Agrees
  <2> QED
    BY <2>1, OccursAt

(* A word of one token. *)
LEMMA OccursOne ==
  ASSUME NEW S, NEW s \in Seq(S), NEW a
  PROVE  Occurs(<<a>>, s) <=> \E i \in 1 .. Len(s) : s[i] = a
<1> DEFINE word == <<a>>
<1>1. word \in Seq({a}) /\ Len(word) = 1 /\ word[1] = a
  OBVIOUS
<1>2. Len(s) \in Nat
  BY LenProperties
<1> HIDE DEF word
<1>3. Occurs(word, s) <=>
        \E i \in 0 .. Len(s) - Len(word) :
          \A k \in 1 .. Len(word) : s[i + k] = word[k]
  <2>1. Occurs(word, s) <=> Found(word, s)
    BY <1>1, OccursAt
  <2> QED
    BY <2>1 DEF Found, Agrees
<1>4. Occurs(word, s) <=> \E i \in 0 .. Len(s) - 1 : s[i + 1] = a
  <2>1. \A i \in Nat : (\A k \in 1 .. 1 : s[i + k] = word[k]) <=> s[i + 1] = a
    BY <1>1
  <2> QED
    BY <1>1, <1>2, <1>3, <2>1
<1>5. (\E i \in 0 .. Len(s) - 1 : s[i + 1] = a)
        <=> \E i \in 1 .. Len(s) : s[i] = a
  <2>1. \A i \in 0 .. Len(s) - 1 : i + 1 \in 1 .. Len(s)
    BY <1>2
  <2>2. \A i \in 1 .. Len(s) : i - 1 \in 0 .. Len(s) - 1 /\ (i - 1) + 1 = i
    BY <1>2
  <2> QED
    BY <2>1, <2>2
<1> QED
  BY <1>4, <1>5 DEF word

LEMMA OneOccurs ==
  ASSUME NEW S, NEW s \in Seq(S), NEW a, NEW i \in 1 .. Len(s), s[i] = a
  PROVE  Occurs(<<a>>, s)
<1>1. \E j \in 1 .. Len(s) : s[j] = a
  OBVIOUS
<1> QED
  BY <1>1, OccursOne

-----------------------------------------------------------------------------
(* The words of a file. *)

(* The left end is cut up to the first token that is no blank. *)
LEMMA CutLeftIs ==
  ASSUME NEW s \in Seq(Token)
  PROVE  \/ /\ \A i \in 1 .. Len(s) : s[i] \in LeftBlank
            /\ CutLeft(s) = <<>>
         \/ \E m \in 1 .. Len(s) :
              /\ s[m] \notin LeftBlank
              /\ \A i \in 1 .. m - 1 : s[i] \in LeftBlank
              /\ CutLeft(s) = From(s, m - 1)
<1> DEFINE I == Inked(s, LeftBlank)
<1>1. I \subseteq Nat
  BY DEF Inked
<1>2. CASE I = {}
  BY <1>2 DEF CutLeft, Inked
<1>3. CASE I # {}
  <2>1. PICK m \in I : \A i \in I : m =< i
    <3> HIDE DEF I
    <3> QED
      BY <1>1, <1>3, LeastExists
  <2> DEFINE c == CHOOSE i \in I : \A j \in I : i =< j
  <2>2. c \in I /\ \A j \in I : c =< j
    BY <2>1
  <2>3. CutLeft(s) = From(s, c - 1)
    BY <1>3 DEF CutLeft
  <2> HIDE DEF c
  <2>4. /\ c \in 1 .. Len(s) /\ s[c] \notin LeftBlank
        /\ \A i \in 1 .. c - 1 : s[i] \in LeftBlank
    <3>1. c \in 1 .. Len(s) /\ s[c] \notin LeftBlank
      BY <2>2 DEF Inked
    <3>2. ASSUME NEW i \in 1 .. c - 1, s[i] \notin LeftBlank
          PROVE  FALSE
      <4>1. Len(s) \in Nat
        BY LenProperties
      <4>2. i \in 1 .. Len(s) /\ i < c
        BY <3>1, <4>1
      <4>3. i \in I
        BY <3>2, <4>2 DEF Inked
      <4> QED
        BY <2>2, <3>1, <4>2, <4>3
    <3> QED
      BY <3>1, <3>2
  <2> QED
    BY <2>3, <2>4
<1> QED
  BY <1>2, <1>3

(* The right end behind the last. *)
LEMMA CutRightIs ==
  ASSUME NEW s \in Seq(Token)
  PROVE  \/ /\ \A i \in 1 .. Len(s) : s[i] \in RightBlank
            /\ CutRight(s) = <<>>
         \/ \E m \in 1 .. Len(s) :
              /\ s[m] \notin RightBlank
              /\ \A i \in m + 1 .. Len(s) : s[i] \in RightBlank
              /\ CutRight(s) = SubSeq(s, 1, m)
<1> DEFINE I == Inked(s, RightBlank)
<1>0. Len(s) \in Nat
  BY LenProperties
<1>1. I \subseteq 0 .. Len(s)
  BY <1>0 DEF Inked
<1>2. CASE I = {}
  BY <1>2 DEF CutRight, Inked
<1>3. CASE I # {}
  <2>1. PICK m \in I : \A i \in I : i =< m
    <3> HIDE DEF I
    <3> QED
      BY <1>0, <1>1, <1>3, GreatestExists
  <2> DEFINE c == CHOOSE i \in I : \A j \in I : j =< i
  <2>2. c \in I /\ \A j \in I : j =< c
    BY <2>1
  <2>3. CutRight(s) = SubSeq(s, 1, c)
    BY <1>3 DEF CutRight
  <2> HIDE DEF c
  <2>4. /\ c \in 1 .. Len(s) /\ s[c] \notin RightBlank
        /\ \A i \in c + 1 .. Len(s) : s[i] \in RightBlank
    <3>1. c \in 1 .. Len(s) /\ s[c] \notin RightBlank
      BY <2>2 DEF Inked
    <3>2. ASSUME NEW i \in c + 1 .. Len(s), s[i] \notin RightBlank
          PROVE  FALSE
      <4>1. i \in 1 .. Len(s) /\ c < i
        BY <1>0, <3>1
      <4>2. i \in I
        BY <3>2, <4>1 DEF Inked
      <4> QED
        BY <2>2, <3>1, <4>1, <4>2
    <3> QED
      BY <3>1, <3>2
  <2> QED
    BY <2>3, <2>4
<1> QED
  BY <1>2, <1>3

(* w is what is left of raw between the blanks at its ends. *)
Trims(raw, w, i) ==
  /\ w # <<>> /\ w[1] \notin LeftBlank /\ w[Len(w)] \notin RightBlank
  /\ i \in 1 .. Len(raw) - Len(w) + 1
  /\ SubSeq(raw, i, i + Len(w) - 1) = w
  /\ \A j \in 1 .. i - 1 : raw[j] \in LeftBlank
  /\ \A j \in i + Len(w) .. Len(raw) : raw[j] \in RightBlank

(* The code trims a line to the word a reader means, ... *)
LEMMA TrimFinds ==
  ASSUME NEW raw \in Seq(Token), NEW w \in Seq(Token), NEW i, Trims(raw, w, i)
  PROVE  CutRight(CutLeft(raw)) = w
<1> DEFINE n == Len(w)
           cl == From(raw, i - 1)
<1>1. /\ n \in Nat \ {0} /\ Len(raw) \in Nat
      /\ i \in 1 .. Len(raw) /\ i - 1 \in 0 .. Len(raw)
      /\ (i - 1) + n =< Len(raw) /\ i - 1 \in Nat
  BY EmptySeq, LenProperties DEF Trims
<1>2. \A k \in 1 .. n : raw[(i - 1) + k] = w[k]
  <2>1. SubSeq(raw, (i - 1) + 1, (i - 1) + n) = w
    <3>1. (i - 1) + 1 = i /\ (i - 1) + n = i + n - 1
      BY <1>1
    <3> QED
      BY <3>1 DEF Trims
  <2>2. Agrees(raw, i - 1, w)
    BY <1>1, <2>1, PartIs
  <2> QED
    BY <2>2 DEF Agrees
<1>3. CutLeft(raw) = cl
  <2>1. raw[i] \notin LeftBlank
    <3>1. (i - 1) + 1 = i /\ 1 \in 1 .. n
      BY <1>1
    <3> QED
      BY <1>2, <3>1 DEF Trims
  <2>2. PICK m \in 1 .. Len(raw) :
          /\ raw[m] \notin LeftBlank
          /\ \A j \in 1 .. m - 1 : raw[j] \in LeftBlank
          /\ CutLeft(raw) = From(raw, m - 1)
    BY <1>1, <2>1, CutLeftIs
  <2>3. ~ (m < i)
    BY <1>1, <2>2 DEF Trims
  <2>4. ~ (i < m)
    BY <1>1, <2>1, <2>2
  <2>5. m = i
    BY <1>1, <2>3, <2>4
  <2> QED
    BY <2>2, <2>5
<1>4. /\ cl \in Seq(Token) /\ Len(cl) = Len(raw) - (i - 1)
      /\ \A k \in 1 .. Len(cl) : cl[k] = raw[(i - 1) + k]
  BY <1>1, FromIs
<1> HIDE DEF cl
<1>5. n \in 1 .. Len(cl) /\ Len(cl) \in Nat
  BY <1>1, <1>4
<1>6. cl[n] \notin RightBlank
  <2>1. cl[n] = w[n] /\ w[n] \notin RightBlank
    BY <1>1, <1>2, <1>4, <1>5 DEF Trims
  <2> QED
    BY <2>1
<1>7. \A k \in n + 1 .. Len(cl) : cl[k] \in RightBlank
  <2> SUFFICES ASSUME NEW k \in n + 1 .. Len(cl)
               PROVE  cl[k] \in RightBlank
    OBVIOUS
  <2>1. (i - 1) + k \in i + n .. Len(raw) /\ k \in 1 .. Len(cl)
    BY <1>1, <1>4, <1>5
  <2> QED
    BY <1>4, <2>1 DEF Trims
<1>8. CutRight(cl) = SubSeq(cl, 1, n)
  <2>1. PICK m \in 1 .. Len(cl) :
          /\ cl[m] \notin RightBlank
          /\ \A j \in m + 1 .. Len(cl) : cl[j] \in RightBlank
          /\ CutRight(cl) = SubSeq(cl, 1, m)
    BY <1>4, <1>5, <1>6, CutRightIs
  <2>2. ~ (m < n)
    BY <1>5, <1>6, <2>1
  <2>3. ~ (n < m)
    BY <1>5, <1>7, <2>1
  <2>4. m = n
    BY <1>5, <2>2, <2>3
  <2> QED
    BY <2>1, <2>4
<1>9. SubSeq(cl, 1, n) = w
  <2>1. /\ SubSeq(cl, 1, n) \in Seq(Token) /\ Len(SubSeq(cl, 1, n)) = n
        /\ \A k \in 1 .. n : SubSeq(cl, 1, n)[k] = cl[k]
    BY <1>4, <1>5, FirstIs
  <2>2. \A k \in 1 .. n : SubSeq(cl, 1, n)[k] = w[k]
    BY <1>2, <1>4, <1>5, <2>1
  <2> QED
    BY <2>1, <2>2, SeqEqual
<1> QED
  BY <1>3, <1>8, <1>9

(* ... and never to anything else. *)
LEMMA TrimSound ==
  ASSUME NEW raw \in Seq(Token)
  PROVE  /\ CutRight(CutLeft(raw)) \in Seq(Token)
         /\ (\E i \in 1 .. Len(raw) : raw[i] \notin LeftBlank) =>
              \E i : Trims(raw, CutRight(CutLeft(raw)), i)
<1> DEFINE cl == CutLeft(raw)
           w == CutRight(cl)
<1>0. Len(raw) \in Nat /\ <<>> \in Seq(Token) /\ Len(<<>>) = 0
  BY LenProperties, EmptySeq
<1>1. CASE \A i \in 1 .. Len(raw) : raw[i] \in LeftBlank
  <2>1. cl = <<>>
    BY <1>1, CutLeftIs
  <2>2. cl \in Seq(Token) /\ Len(cl) = 0
    BY <1>0, <2>1
  <2> HIDE DEF cl
  <2>3. w = <<>>
    <3>1. CutRight(cl) = <<>> \/ \E m \in 1 .. Len(cl) : TRUE
      BY <2>2, CutRightIs
    <3> QED
      BY <2>2, <3>1
  <2>4. w \in Seq(Token)
    BY <1>0, <2>3
  <2> QED
    BY <1>1, <2>4 DEF cl
<1>2. CASE \E i \in 1 .. Len(raw) : raw[i] \notin LeftBlank
  <2>1. PICK m \in 1 .. Len(raw) :
          /\ raw[m] \notin LeftBlank
          /\ \A i \in 1 .. m - 1 : raw[i] \in LeftBlank
          /\ cl = From(raw, m - 1)
    BY <1>2, CutLeftIs
  <2>2. /\ m - 1 \in 0 .. Len(raw) /\ m - 1 \in Nat /\ m \in Nat
        /\ (m - 1) + 1 = m
    BY <1>0
  <2>3. /\ cl \in Seq(Token) /\ Len(cl) = Len(raw) - (m - 1)
        /\ \A k \in 1 .. Len(cl) : cl[k] = raw[(m - 1) + k]
    <3> DEFINE b == From(raw, m - 1)
    <3>1. /\ b \in Seq(Token) /\ Len(b) = Len(raw) - (m - 1)
          /\ \A k \in 1 .. Len(raw) - (m - 1) : b[k] = raw[(m - 1) + k]
      BY <2>2, FromIs
    <3> HIDE DEF b
    <3>2. cl = b
      BY <2>1 DEF b
    <3> HIDE DEF cl
    <3> QED
      BY <3>1, <3>2
  <2> HIDE DEF cl
  <2>4. 1 \in 1 .. Len(cl) /\ cl[1] = raw[m] /\ Len(cl) \in Nat
    BY <1>0, <2>2, <2>3
  <2>5. cl[1] \notin RightBlank
    BY <2>1, <2>4 DEF LeftBlank, RightBlank
  <2>6. PICK n \in 1 .. Len(cl) :
          /\ cl[n] \notin RightBlank
          /\ \A k \in n + 1 .. Len(cl) : cl[k] \in RightBlank
          /\ w = SubSeq(cl, 1, n)
    BY <2>3, <2>4, <2>5, CutRightIs
  <2>7. n \in 0 .. Len(cl) /\ n \in 1 .. n /\ 1 \in 1 .. n /\ n \in Nat
    BY <2>4
  <2>8. /\ w \in Seq(Token) /\ Len(w) = n
        /\ \A k \in 1 .. n : w[k] = cl[k]
    BY <2>3, <2>6, <2>7, FirstIs
  <2> HIDE DEF w
  <2>9. w # <<>> /\ w[1] \notin LeftBlank /\ w[Len(w)] \notin RightBlank
    BY <1>0, <2>1, <2>4, <2>6, <2>7, <2>8
  <2>10. m \in 1 .. Len(raw) - Len(w) + 1 /\ (m - 1) + n =< Len(raw)
    BY <1>0, <2>2, <2>3, <2>7, <2>8
  <2>11. SubSeq(raw, m, m + Len(w) - 1) = w
    <3>1. \A k \in 1 .. Len(w) : raw[(m - 1) + k] = w[k]
      BY <2>3, <2>4, <2>7, <2>8
    <3>2. SubSeq(raw, (m - 1) + 1, (m - 1) + Len(w)) = w
      BY <2>2, <2>8, <2>10, <3>1, PartIs DEF Agrees
    <3>3. (m - 1) + Len(w) = m + Len(w) - 1
      BY <2>2, <2>7, <2>8
    <3> QED
      BY <2>2, <3>2, <3>3
  <2>12. \A j \in m + Len(w) .. Len(raw) : raw[j] \in RightBlank
    <3> SUFFICES ASSUME NEW j \in m + Len(w) .. Len(raw)
                 PROVE  raw[j] \in RightBlank
      OBVIOUS
    <3>1. /\ j - (m - 1) \in n + 1 .. Len(cl) /\ j - (m - 1) \in 1 .. Len(cl)
          /\ (m - 1) + (j - (m - 1)) = j
      BY <1>0, <2>2, <2>3, <2>7, <2>8
    <3> QED
      BY <2>3, <2>6, <3>1
  <2>13. Trims(raw, w, m)
    BY <2>1, <2>9, <2>10, <2>11, <2>12 DEF Trims
  <2> QED
    BY <2>8, <2>13 DEF cl, w
<1> QED
  BY <1>1, <1>2

-----------------------------------------------------------------------------
(* The time prefix and what is behind it. *)

(* An optional part takes one token or none. *)
LEMMA OptionalIs ==
  ASSUME NEW s, NEW n, NEW part
  PROVE  \/ Optional(s, n, part) = n
         \/ /\ Optional(s, n, part) = n + 1
            /\ n < Len(s) /\ s[n + 1] \in part
BY DEF Optional

(* The tokens a prefix of n may consist of: a bracket, the stamp, and behind
   it no word, no opening bracket and no blank but the last. *)
Eaten(s, n) ==
  \E at \in {0, 1} :
    /\ at + 1 =< n
    /\ at = 1 => s[1] = "["
    /\ s[at + 1] = Stamp
    /\ \A k \in at + 2 .. n : s[k] \in Fraction \cup {Zone, "]", Blank}
    /\ \A k \in at + 2 .. n - 1 : s[k] # Blank

LEMMA TimePrefixIs ==
  ASSUME NEW s \in Seq(Token)
  PROVE  /\ TimePrefix(s) \in 0 .. Len(s)
         /\ TimePrefix(s) # 0 => Eaten(s, TimePrefix(s))
<1> DEFINE at == Optional(s, 0, {"["})
           decimals == Optional(s, at + 1, Fraction)
           zoned == Optional(s, decimals, {Zone})
           closed == Optional(s, zoned, {"]"})
           p == TimePrefix(s)
<1>1. Len(s) \in Nat
  BY LenProperties
<1>2. CASE Optional(s, at, {Stamp}) = at
  <2>1. p = 0
    BY <1>2 DEF TimePrefix
  <2> QED
    BY <1>1, <2>1
<1>3. CASE Optional(s, at, {Stamp}) # at
  <2>1. p = Optional(s, closed, Behind)
    BY <1>3 DEF TimePrefix
  <2>2. at = 0 \/ (at = 1 /\ s[1] = "[")
    BY OptionalIs
  <2>3. at < Len(s) /\ s[at + 1] = Stamp
    BY <1>3, OptionalIs
  <2>4. \/ decimals = at + 1
        \/ decimals = at + 2 /\ at + 1 < Len(s) /\ s[at + 2] \in Fraction
    BY <2>2, OptionalIs
  <2> HIDE DEF at
  <2>5. \/ zoned = decimals
        \/ zoned = decimals + 1 /\ decimals < Len(s) /\ s[decimals + 1] = Zone
    BY OptionalIs
  <2> HIDE DEF decimals
  <2>6. \/ closed = zoned
        \/ closed = zoned + 1 /\ zoned < Len(s) /\ s[zoned + 1] = "]"
    BY OptionalIs
  <2> HIDE DEF zoned
  <2> HIDE DEF closed, p
  <2>7. \/ p = closed
        \/ p = closed + 1 /\ closed < Len(s) /\ s[closed + 1] = Blank
    BY <2>1, OptionalIs DEF Behind
  <2>8. /\ at \in {0, 1} /\ decimals \in at + 1 .. Len(s)
        /\ \A k \in at + 2 .. decimals : s[k] \in Fraction
    BY <1>1, <2>2, <2>3, <2>4
  <2>9. /\ zoned \in decimals .. Len(s)
        /\ \A k \in at + 2 .. zoned : s[k] \in Fraction \cup {Zone}
    BY <1>1, <2>5, <2>8
  <2>10. /\ closed \in zoned .. Len(s)
         /\ \A k \in at + 2 .. closed : s[k] \in Fraction \cup {Zone, "]"}
    BY <1>1, <2>6, <2>8, <2>9
  <2>11. at \in Nat /\ closed \in at + 1 .. Len(s)
    BY <1>1, <2>8, <2>9, <2>10
  <2>12. p \in at + 1 .. Len(s) /\ p \in 0 .. Len(s)
    BY <1>1, <2>7, <2>11
  <2>13. \A k \in at + 2 .. p : s[k] \in Fraction \cup {Zone, "]", Blank}
    <3> SUFFICES ASSUME NEW k \in at + 2 .. p
                 PROVE  s[k] \in Fraction \cup {Zone, "]", Blank}
      OBVIOUS
    <3>1. k \in at + 2 .. closed \/ (k = closed + 1 /\ p = closed + 1)
      BY <1>1, <2>7, <2>11
    <3> QED
      BY <2>7, <2>10, <2>11, <3>1
  <2>14. \A k \in at + 2 .. p - 1 : s[k] # Blank
    <3> SUFFICES ASSUME NEW k \in at + 2 .. p - 1
                 PROVE  s[k] # Blank
      OBVIOUS
    <3>1. k \in at + 2 .. closed
      BY <1>1, <2>7, <2>11
    <3> QED
      BY <2>10, <3>1 DEF Fraction, Zone, Blank
  <2>15. at + 1 =< p /\ (at = 1 => s[1] = "[")
    BY <1>1, <2>2, <2>11, <2>12
  <2>16. Eaten(s, p)
    BY <2>3, <2>8, <2>13, <2>14, <2>15 DEF Eaten
  <2> QED
    BY <2>12, <2>16 DEF p
<1> QED
  BY <1>2, <1>3

(* The view of a line is the line behind its time prefix. *)
LEMMA ViewIs ==
  ASSUME NEW s \in Seq(Token)
  PROVE  /\ View(s) \in Seq(Token)
         /\ Len(View(s)) = Len(s) - TimePrefix(s)
         /\ \A k \in 1 .. Len(View(s)) : View(s)[k] = s[TimePrefix(s) + k]
<1>1. TimePrefix(s) \in 0 .. Len(s)
  BY TimePrefixIs
<1> DEFINE p == TimePrefix(s)
<1> HIDE DEF p
<1>2. /\ From(s, p) \in Seq(Token) /\ Len(From(s, p)) = Len(s) - p
      /\ \A k \in 1 .. Len(s) - p : From(s, p)[k] = s[p + k]
  BY <1>1, FromIs DEF p
<1> QED
  BY <1>2 DEF View, p

(* What occurs in the view occurs in the line. *)
LEMMA OccursView ==
  ASSUME NEW s \in Seq(Token), NEW T, NEW word \in Seq(T), Occurs(word, View(s))
  PROVE  Occurs(word, s)
BY TimePrefixIs, OccursFrom DEF View

(* What occurs behind the time prefix occurs in the view. *)
LEMMA OccursBehind ==
  ASSUME NEW s \in Seq(Token), NEW T, NEW word \in Seq(T),
         NEW i \in 0 .. Len(s) - Len(word), Agrees(s, i, word),
         TimePrefix(s) =< i
  PROVE  Occurs(word, View(s))
<1> DEFINE p == TimePrefix(s)
           j == i - p
<1>1. Len(s) \in Nat /\ Len(word) \in Nat /\ p \in 0 .. Len(s)
  BY LenProperties, TimePrefixIs
<1>2. /\ View(s) \in Seq(Token) /\ Len(View(s)) = Len(s) - p
      /\ \A k \in 1 .. Len(View(s)) : View(s)[k] = s[p + k]
  BY ViewIs
<1> HIDE DEF p
<1>3. j \in 0 .. Len(View(s)) - Len(word)
  BY <1>1, <1>2 DEF p
<1>4. \A k \in 1 .. Len(word) :
        j + k \in 1 .. Len(View(s)) /\ p + (j + k) = i + k
  BY <1>1, <1>2, <1>3
<1>5. Agrees(View(s), j, word)
  BY <1>2, <1>4 DEF Agrees
<1> QED
  <2>1. Found(word, View(s))
    BY <1>3, <1>5 DEF Found
  <2> QED
    BY <1>2, <2>1, OccursAt

(* No time prefix takes the bracket or the second of the blanks that a level
   begins with. *)
LEMMA LevelSurvives ==
  ASSUME NEW s \in Seq(Token),
         \/ Occurs(<<"[", "ERROR", "]">>, s)
         \/ Occurs(<<Blank, Blank, "ERROR", Blank>>, s)
         \/ Occurs(<<Blank, Blank, "[", "error", "]", Blank>>, s)
  PROVE  Level(View(s), "ERROR", "error", "E")
<1> DEFINE p == TimePrefix(s)
<1>1. Len(s) \in Nat /\ p \in 0 .. Len(s)
  BY LenProperties, TimePrefixIs
<1>2. p # 0 => Eaten(s, p)
  BY TimePrefixIs
<1> HIDE DEF p
<1>3. ASSUME NEW i \in 0 .. Len(s) - 3,
             s[i + 1] = Blank, s[i + 2] = Blank
      PROVE  p < i + 2
  <2> SUFFICES ASSUME i + 2 =< p, p # 0
               PROVE  FALSE
    BY <1>1
  <2>1. PICK at \in {0, 1} :
          /\ at = 1 => s[1] = "["
          /\ s[at + 1] = Stamp
          /\ \A k \in at + 2 .. p - 1 : s[k] # Blank
    BY <1>2 DEF Eaten
  <2>2. Blank # Stamp /\ Blank # "["
    BY DEF Stamp, Blank
  <2>3. ~ (i + 1 \in at + 2 .. p - 1)
    BY <1>3, <2>1
  <2>4. i + 1 = at + 1 \/ (i + 1 = 1 /\ at = 1)
    BY <1>1, <2>3
  <2> QED
    BY <1>3, <2>1, <2>2, <2>4
<1>4. CASE Occurs(<<"[", "ERROR", "]">>, s)
  <2> DEFINE word == <<"[", "ERROR", "]">>
             S == {"[", "ERROR", "]"}
  <2>1. /\ word \in Seq(S) /\ Len(word) = 3
        /\ word[1] = "[" /\ word[2] = "ERROR" /\ word[3] = "]"
    OBVIOUS
  <2> HIDE DEF word, S
  <2>2. PICK i \in 0 .. Len(s) - Len(word) : Agrees(s, i, word)
    BY <1>4, <2>1, OccursAt DEF Found, word
  <2>3. s[i + 1] = "[" /\ s[i + 2] = "ERROR" /\ s[i + 3] = "]"
    BY <2>1, <2>2 DEF Agrees
  <2>4. p =< i
    <3> SUFFICES ASSUME i + 1 =< p, p # 0
                 PROVE  FALSE
      BY <1>1, <2>1
    <3>1. PICK at \in {0, 1} :
            /\ at = 1 => s[1] = "["
            /\ s[at + 1] = Stamp
            /\ \A k \in at + 2 .. p : s[k] \in Fraction \cup {Zone, "]", Blank}
      BY <1>2 DEF Eaten
    <3>2. "[" \notin Fraction \cup {Zone, "]", Blank, Stamp} /\ "ERROR" # Stamp
      BY DEF Fraction, Zone, Stamp, Blank
    <3>3. ~ (i + 1 \in at + 2 .. p)
      BY <2>3, <3>1, <3>2
    <3>4. i + 1 = at + 1 \/ (i + 1 = 1 /\ at = 1)
      BY <1>1, <2>1, <3>3
    <3>5. i + 1 # at + 1
      BY <2>3, <3>1, <3>2
    <3>6. i = 0 /\ at = 1 /\ i + 2 = at + 1
      BY <2>1, <3>4, <3>5
    <3> QED
      BY <2>3, <3>1, <3>2, <3>6
  <2>5. Occurs(word, View(s))
    BY <2>1, <2>2, <2>4, OccursBehind DEF p
  <2> QED
    BY <2>5 DEF Level, word
<1>5. CASE Occurs(<<Blank, Blank, "ERROR", Blank>>, s)
  <2> DEFINE long == <<Blank, Blank, "ERROR", Blank>>
             word == <<Blank, "ERROR", Blank>>
             S == {Blank, "ERROR"}
  <2>1. /\ long \in Seq(S) /\ Len(long) = 4
        /\ long[1] = Blank /\ long[2] = Blank
        /\ word \in Seq(S) /\ Len(word) = 3
        /\ \A k \in 1 .. 3 : word[k] = long[k + 1]
    <3>1. /\ word[1] = long[2] /\ word[2] = long[3] /\ word[3] = long[4]
      OBVIOUS
    <3>2. \A k \in 1 .. 3 : k = 1 \/ k = 2 \/ k = 3
      OBVIOUS
    <3> QED
      BY <3>1, <3>2
  <2> HIDE DEF long, word, S
  <2>2. PICK i \in 0 .. Len(s) - Len(long) : Agrees(s, i, long)
    BY <1>5, <2>1, OccursAt DEF Found, long
  <2>3. p < i + 2
    BY <1>1, <1>3, <2>1, <2>2 DEF Agrees
  <2>4. i + 1 \in 0 .. Len(s) - Len(word) /\ Agrees(s, i + 1, word)
    BY <1>1, <2>1, <2>2 DEF Agrees
  <2>5. Occurs(word, View(s))
    <3>1. p =< i + 1
      BY <1>1, <2>1, <2>3
    <3> QED
      BY <2>1, <2>4, <3>1, OccursBehind DEF p
  <2> QED
    BY <2>5 DEF Level, word
<1>6. CASE Occurs(<<Blank, Blank, "[", "error", "]", Blank>>, s)
  <2> DEFINE long == <<Blank, Blank, "[", "error", "]", Blank>>
             word == <<Blank, "[", "error", "]", Blank>>
             S == {Blank, "[", "error", "]"}
  <2>1. /\ long \in Seq(S) /\ Len(long) = 6
        /\ long[1] = Blank /\ long[2] = Blank
        /\ word \in Seq(S) /\ Len(word) = 5
        /\ \A k \in 1 .. 5 : word[k] = long[k + 1]
    <3>1. /\ word[1] = long[2] /\ word[2] = long[3] /\ word[3] = long[4]
          /\ word[4] = long[5] /\ word[5] = long[6]
      OBVIOUS
    <3>2. \A k \in 1 .. 5 : k = 1 \/ k = 2 \/ k = 3 \/ k = 4 \/ k = 5
      OBVIOUS
    <3> QED
      BY <3>1, <3>2
  <2> HIDE DEF long, word, S
  <2>2. PICK i \in 0 .. Len(s) - Len(long) : Agrees(s, i, long)
    BY <1>6, <2>1, OccursAt DEF Found, long
  <2>3. p < i + 2
    BY <1>1, <1>3, <2>1, <2>2 DEF Agrees
  <2>4. i + 1 \in 0 .. Len(s) - Len(word) /\ Agrees(s, i + 1, word)
    BY <1>1, <2>1, <2>2 DEF Agrees
  <2>5. Occurs(word, View(s))
    <3>1. p =< i + 1
      BY <1>1, <2>1, <2>3
    <3> QED
      BY <2>1, <2>4, <3>1, OccursBehind DEF p
  <2> QED
    BY <2>5 DEF Level, word
<1> QED
  BY <1>4, <1>5, <1>6

(* The matchers on text. *)
LEMMA HitsAre ==
  ASSUME NEW view
  PROVE  /\ Hits(view, "LOGLEVEL") <=> Level(view, "ERROR", "error", "E")
         /\ Hits(view, "WARNING_LOGLEVEL") <=> Level(view, "WARN", "warn", "W")
         /\ Hits(view, "KEYWORD") <=>
              \E w \in table["keywords"] : Occurs(w, view)
         /\ Hits(view, "EXCLUDE") <=>
              \E w \in table["exclude"] : Occurs(w, view)
         /\ Hits(view, "EXPRESSION") <=>
              \E e \in table["expression"] : Occurs(e, view)
         /\ Hits(view, "STACK_LINE") <=> Occurs(<<"Traceback">>, view)
BY DEF Hits

-----------------------------------------------------------------------------
(* The pattern files. *)

LEMMA FilesAre ==
  /\ Len(Files) = 4
  /\ Files[1] = "expression" /\ Files[2] = "expression_exclude"
  /\ Files[3] = "keywords" /\ Files[4] = "exclude"
  /\ File = {"expression", "expression_exclude", "keywords", "exclude"}
<1>1. /\ Len(Files) = 4
      /\ Files[1] = "expression" /\ Files[2] = "expression_exclude"
      /\ Files[3] = "keywords" /\ Files[4] = "exclude"
  BY DEF Files
<1>2. 1 .. 4 = {1, 2, 3, 4}
  OBVIOUS
<1>3. File = {Files[i] : i \in {1, 2, 3, 4}}
  BY <1>1, <1>2 DEF File
<1> QED
  BY <1>1, <1>3

(* The words of a file are texts. *)
LEMMA EntriesAre ==
  ASSUME NEW f, disk[f] \subseteq Seq(Token)
  PROVE  Entries(f) \subseteq Seq(Token)
BY TrimSound DEF Entries, EntryOf

LEMMA BuiltinIs ==
  /\ DOMAIN Builtin = File
  /\ \A f \in File : Builtin[f] \subseteq Seq(Token)
<1> DEFINE exit == <<"exit">>
           plus == <<"+">>
           words == {<<Blank, word>> : word \in {"ERROR", "error", "timeout"}}
<1>1. {"exit", "+", Blank, "ERROR", "error", "timeout"} \subseteq Token
  BY TextAssumption
<1>2. exit \in Seq(Token) /\ plus \in Seq(Token) /\ words \subseteq Seq(Token)
  BY <1>1
<1>3. Builtin = [expression |-> {exit}, expression_exclude |-> {plus},
                 keywords |-> words, exclude |-> {}]
  BY DEF Builtin
<1> HIDE DEF exit, plus, words
<1> QED
  BY <1>2, <1>3, FilesAre

LEMMA TablesInit == TextInit => Tables
<1> SUFFICES ASSUME TextInit
             PROVE  Tables
  OBVIOUS
<1>1. next = 1 /\ stage = "loading" /\ table = Builtin
      /\ pc = "idle" /\ seen = <<>>
  BY DEF TextInit, Init
<1>2. \A f \in File : disk[f] \subseteq Seq(Token)
  <2> SUFFICES ASSUME NEW f \in File
               PROVE  disk[f] \subseteq Seq(Token)
    OBVIOUS
  <2>1. disk[f] \in Contents[f]
    BY DEF TextInit
  <2> QED
    BY <2>1, TextAssumption
<1>3. table \in [File -> SUBSET Seq(Token)]
  <2>1. Builtin = [f \in File |-> Builtin[f]]
    BY BuiltinIs, FilesAre DEF Builtin
  <2> QED
    BY <1>1, <2>1, BuiltinIs
<1>4. next \in 1 .. Len(Files) + 1 /\ next =< Len(Files) /\ 1 .. next - 1 = {}
  BY <1>1, FilesAre
<1> QED
  BY <1>1, <1>2, <1>3, <1>4 DEF Tables

(* Loading a file adds its words to its own table and leaves the others. *)
LEMMA TablesLoad == Tables /\ Load => Tables'
<1> SUFFICES ASSUME Tables, Load
             PROVE  Tables'
  OBVIOUS
<1> DEFINE f0 == Files[next]
<1>1. next \in 1 .. 4 /\ f0 \in File /\ next' = next + 1 /\ disk' = disk
      /\ seen = <<>> /\ pc = "idle" /\ seen' = seen /\ pc' = pc
  BY FilesAre DEF Tables, Load, vars, File
<1>2. table' = [table EXCEPT ![f0] = @ \cup Entries(f0)] /\ ~BadFile(f0)
  BY DEF Load
<1>3. stage' = IF next = 4 THEN "ready" ELSE "loading"
  BY FilesAre DEF Load, AllLoaded
<1>4. \A f : Entries(f)' = Entries(f) /\ BadFile(f)' = BadFile(f)
  BY <1>1 DEF Entries, BadFile
<1>5. /\ next' \in 1 .. 5
      /\ stage' \in {"loading", "ready", "aborted"}
      /\ stage' = "loading" => next' =< 4
      /\ stage' = "ready" => next' = 5
  BY <1>1, <1>3
<1> HIDE DEF f0
<1>6. Entries(f0) \subseteq Seq(Token)
  BY <1>1, EntriesAre DEF Tables
<1>7. table \in [File -> SUBSET Seq(Token)]
  BY DEF Tables
<1>8. table' \in [File -> SUBSET Seq(Token)]
  BY <1>2, <1>6, <1>7
<1>9. \A f \in File :
        table'[f] = IF f = f0 THEN table[f] \cup Entries(f) ELSE table[f]
  BY <1>2, <1>7
<1>10. \A f \in File :
         /\ disk[f] \subseteq Seq(Token)
         /\ Builtin[f] \subseteq table'[f]
         /\ table'[f] \subseteq Builtin[f] \cup Entries(f)
  BY <1>9 DEF Tables
<1>11. ASSUME NEW i \in 1 .. next' - 1
       PROVE  Entries(Files[i]) \subseteq table'[Files[i]] /\ ~BadFile(Files[i])
  <2>1. i \in 1 .. 4 /\ Files[i] \in File
    BY <1>1, FilesAre DEF File
  <2>2. CASE i = next
    BY <1>2, <1>9, <2>1, <2>2 DEF f0
  <2>3. CASE i # next
    <3>1. i \in 1 .. next - 1
      BY <1>1, <2>3
    <3>2. Entries(Files[i]) \subseteq table[Files[i]] /\ ~BadFile(Files[i])
      BY <3>1 DEF Tables
    <3> QED
      BY <1>9, <2>1, <3>2
  <2> QED
    BY <2>2, <2>3
<1> QED
  BY <1>1, <1>4, <1>5, <1>8, <1>10, <1>11, FilesAre DEF Tables

(* A file with a bad expression ends main. *)
LEMMA TablesLoadThrows == Tables /\ LoadThrows => Tables'
<1> SUFFICES ASSUME Tables, LoadThrows
             PROVE  Tables'
  OBVIOUS
<1> DEFINE f0 == Files[next]
<1>1. \A f : Entries(f)' = Entries(f) /\ BadFile(f)' = BadFile(f)
  BY DEF Entries, BadFile, LoadThrows
<1>2. /\ next \in 1 .. 4 /\ f0 \in File /\ next' = next /\ disk' = disk
      /\ seen = <<>> /\ pc = "idle" /\ seen' = seen /\ pc' = pc
      /\ stage' = "aborted"
  BY FilesAre DEF Tables, LoadThrows, vars, File
<1>3. PICK before \in SUBSET Entries(f0) :
        table' = [table EXCEPT ![f0] = @ \cup before]
  BY DEF LoadThrows
<1> HIDE DEF f0
<1>4. Entries(f0) \subseteq Seq(Token) /\ table \in [File -> SUBSET Seq(Token)]
  BY <1>2, EntriesAre DEF Tables
<1>5. /\ table' \in [File -> SUBSET Seq(Token)]
      /\ \A f \in File :
           table'[f] = IF f = f0 THEN table[f] \cup before ELSE table[f]
  BY <1>3, <1>4
<1>6. \A f \in File :
        /\ disk[f] \subseteq Seq(Token)
        /\ Builtin[f] \subseteq table'[f]
        /\ table'[f] \subseteq Builtin[f] \cup Entries(f)
  BY <1>3, <1>5 DEF Tables
<1>7. ASSUME NEW i \in 1 .. next - 1
      PROVE  Entries(Files[i]) \subseteq table'[Files[i]] /\ ~BadFile(Files[i])
  <2>1. Files[i] \in File
    BY <1>2, FilesAre DEF File
  <2> QED
    BY <1>5, <2>1 DEF Tables
<1> QED
  BY <1>1, <1>2, <1>5, <1>6, <1>7, FilesAre DEF Tables

(* A call leaves the tables alone. *)
LEMMA TablesCall ==
  ASSUME Tables, UNCHANGED startup, stage = "ready"
  PROVE  Tables'
<1>1. \A f : Entries(f)' = Entries(f) /\ BadFile(f)' = BadFile(f)
  BY DEF Entries, BadFile, startup
<1> QED
  BY <1>1 DEF Tables, startup

-----------------------------------------------------------------------------
(* Cutting a body into lines. *)

(* A line is cut up to the next break, or to the end of the body. *)
LEMMA LineEndIs ==
  ASSUME Cut, pos < Len(lines)
  PROVE  /\ LineEnd \in pos + 1 .. Len(lines) + 1
         /\ LineEnd =< Len(lines) => lines[LineEnd] = Break
<1> DEFINE breaks == {i \in pos + 1 .. Len(lines) : lines[i] = Break}
<1>1. lines \in Seq(Token) /\ Len(lines) \in Nat /\ pos \in Nat
  <2>1. lines \in Seq(Token)
    BY TextAssumption, EmptySeq DEF Cut
  <2> QED
    BY <2>1, LenProperties DEF Cut
<1>2. CASE breaks = {}
  <2>1. LineEnd = Len(lines) + 1
    BY <1>2 DEF LineEnd
  <2> QED
    BY <1>1, <2>1
<1>3. CASE breaks # {}
  <2>1. PICK m \in breaks : \A j \in breaks : m =< j
    <3>1. breaks \subseteq Nat
      BY <1>1
    <3> HIDE DEF breaks
    <3> QED
      BY <1>3, <3>1, LeastExists
  <2>2. LineEnd \in breaks
    BY <1>3, <2>1 DEF LineEnd
  <2> QED
    BY <1>1, <2>2
<1> QED
  BY <1>2, <1>3

(* The part between two places of a body, put behind what is before it. *)
LEMMA CutJoins ==
  ASSUME NEW s \in Seq(Token), NEW p \in 0 .. Len(s),
         NEW e \in p + 1 .. Len(s) + 1
  PROVE  /\ SubSeq(s, p + 1, e - 1) \in Seq(Token)
         /\ SubSeq(s, 1, p) \o SubSeq(s, p + 1, e - 1) = SubSeq(s, 1, e - 1)
         /\ e =< Len(s) => SubSeq(s, 1, e) = Append(SubSeq(s, 1, e - 1), s[e])
<1>1. Len(s) \in Nat /\ p \in Nat /\ e \in Nat
  BY LenProperties
<1>2. SubSeq(s, p + 1, e - 1) \in Seq(Token)
  <2>1. \A i \in (p + 1) .. (e - 1) : s[i] \in Token
    BY <1>1, ElementOfSeq
  <2> QED
    BY <1>1, <2>1, SubSeqProperties
<1>3. SubSeq(s, 1, p) \o SubSeq(s, p + 1, e - 1) = SubSeq(s, 1, e - 1)
  <2>1. 1 \in 1 .. Len(s) + 1 /\ p \in 1 - 1 .. Len(s) /\ e - 1 \in p .. Len(s)
    BY <1>1
  <2> QED
    BY <2>1, ConcatAdjacentSubSeq
<1>4. ASSUME e =< Len(s)
      PROVE  SubSeq(s, 1, e) = Append(SubSeq(s, 1, e - 1), s[e])
  <2>1. 1 \in 1 .. Len(s) /\ e \in 1 .. Len(s) /\ e - 1 \in 0 .. Len(s)
    BY <1>1, <1>4
  <2>2. SubSeq(s, 1, e) = SubSeq(s, 1, e - 1) \o <<s[e]>>
    BY <2>1, SubSeqRecursiveSecond
  <2>3. SubSeq(s, 1, e - 1) \in Seq(Token) /\ s[e] \in Token
    BY <2>1, FirstIs, ElementOfSeq
  <2> QED
    BY <2>2, <2>3, AppendIsConcat
<1> QED
  BY <1>2, <1>3, <1>4

LEMMA CutLineIs == Cut /\ pos < Len(lines) => CutLine \in Seq(Token)
<1> SUFFICES ASSUME Cut, pos < Len(lines)
             PROVE  CutLine \in Seq(Token)
  OBVIOUS
<1>1. lines \in Seq(Token) /\ pos \in 0 .. Len(lines)
  BY TextAssumption, EmptySeq DEF Cut
<1>2. LineEnd \in pos + 1 .. Len(lines) + 1
  BY LineEndIs
<1> QED
  BY <1>1, <1>2, CutJoins DEF CutLine

(* What was cut stays what was read. *)
LEMMA CutRead == Cut /\ ReadLine => Cut'
<1> SUFFICES ASSUME Cut, ReadLine
             PROVE  Cut'
  OBVIOUS
<1> DEFINE e == LineEnd
<1>1. /\ lines \in Seq(Token) /\ pos \in 0 .. Len(lines) /\ Len(lines) \in Nat
      /\ pos < Len(lines) /\ lines' = lines /\ taken \in Seq(Seq(Token))
      /\ lines \in Text \cup {<<>>}
      /\ taken' = Append(taken, CutLine)
      /\ pos' = IF e > Len(lines) THEN Len(lines) ELSE e
  <2>1. lines \in Seq(Token)
    BY TextAssumption, EmptySeq DEF Cut
  <2> QED
    BY <2>1, LenProperties DEF Cut, ReadLine, NextPos
<1>2. /\ e \in pos + 1 .. Len(lines) + 1
      /\ e =< Len(lines) => lines[e] = Break
  BY <1>1, LineEndIs
<1>3. CutLine = SubSeq(lines, pos + 1, e - 1)
  BY DEF CutLine
<1> HIDE DEF e
<1>4. /\ CutLine \in Seq(Token)
      /\ SubSeq(lines, 1, pos) \o CutLine = SubSeq(lines, 1, e - 1)
      /\ e =< Len(lines) =>
           SubSeq(lines, 1, e) = Append(SubSeq(lines, 1, e - 1), Break)
  BY <1>1, <1>2, <1>3, CutJoins
<1>5. Joined(taken) = SubSeq(lines, 1, pos)
  BY <1>1 DEF Cut
<1>6. Joined(taken') = Append(SubSeq(lines, 1, e - 1), Break)
  BY <1>1, <1>4, <1>5, JoinedAppend
<1>7. taken' \in Seq(Seq(Token))
  BY <1>1, <1>4, AppendProperties
<1>8. CASE e =< Len(lines)
  <2>1. pos' = e /\ pos' \in 0 .. Len(lines)
    BY <1>1, <1>2, <1>8
  <2>2. Joined(taken') = SubSeq(lines, 1, pos')
    BY <1>4, <1>6, <1>8, <2>1
  <2>3. Joined(taken)' = SubSeq(lines, 1, pos)'
    BY <1>1, <2>2
  <2> QED
    BY <1>1, <1>7, <2>1, <2>3 DEF Cut
<1>9. CASE ~(e =< Len(lines))
  <2>1. e = Len(lines) + 1 /\ pos' = Len(lines) /\ e - 1 = Len(lines)
        /\ pos' \in 0 .. Len(lines)
    <3>1. /\ Len(lines) \in Nat /\ pos \in 0 .. Len(lines)
          /\ e \in pos + 1 .. Len(lines) + 1
      BY <1>1, <1>2
    <3>2. e = Len(lines) + 1
      BY <1>9, <3>1
    <3>3. pos' = Len(lines)
      BY <1>1, <3>1, <3>2
    <3> QED
      BY <3>1, <3>2, <3>3
  <2>2. Joined(taken') = Append(SubSeq(lines, 1, pos'), Break)
    BY <1>6, <2>1
  <2>3. Joined(taken)' = Append(SubSeq(lines, 1, pos), Break)'
    BY <1>1, <2>2
  <2> QED
    BY <1>1, <1>7, <2>1, <2>3 DEF Cut
<1> QED
  BY <1>8, <1>9

-----------------------------------------------------------------------------
(* The steps of a call are steps of the scanner. *)

LEMMA AsLineIs == \A oline : AsLine(oline) \in TextLine
<1> SUFFICES ASSUME NEW oline
             PROVE  AsLine(oline) \in TextLine
  OBVIOUS
<1> DEFINE view == View(Clean(oline))
           hit == {m \in Matcher : Hits(view, m)}
           begins == OneIf(Begins(view, "Agent"))
           stops == OneIf(Begins(view, "Running"))
           found == Occurs(<<"build", ":", Blank, "ERROR">>, Clean(oline))
<1>1. AsLine(oline) =
        [blank |-> oline = <<>>, hits |-> hit, starts |-> begins,
         ends |-> stops, endThrows |-> {}, throws |-> FALSE,
         flag |-> IF found THEN "failed" ELSE "clean"]
  BY DEF AsLine
<1>2. /\ hit \in SUBSET Matcher
      /\ begins \in SUBSET {1} /\ stops \in SUBSET {1}
  BY DEF OneIf
<1>3. (oline = <<>>) \in BOOLEAN
  OBVIOUS
<1> HIDE DEF view, hit, begins, stops, found
<1> QED
  BY <1>1, <1>2, <1>3 DEF TextLine

(* The tables are all a line depends on. *)
LEMMA AsLineStays ==
  ASSUME table' = table
  PROVE  \A oline : AsLine(oline)' = AsLine(oline)
BY DEF AsLine, Hits

(* AsLine maps every step on a text to a step of LogCapture, or to none. *)
LEMMA StepImplements == TextNext => [Next]_vars
<1> SUFFICES ASSUME TextNext
             PROVE  [Next]_vars
  OBVIOUS
<1>1. CASE Load \/ LoadThrows
  BY <1>1 DEF Load, LoadThrows
<1>2. CASE \E body \in Text : Call(body)
  BY <1>2 DEF Call, Next
<1>3. CASE ReadLine
  <2>1. AsLine(CutLine) \in Line
    BY AsLineIs, TextLineAssumption
  <2>2. SkipBlank(AsLine(CutLine)) \/ Scan(AsLine(CutLine))
    BY <1>3 DEF ReadLine
  <2> QED
    BY <2>1, <2>2 DEF Next
<1>4. CASE EndOfText
  BY <1>4 DEF EndOfText, Next
<1> QED
  BY <1>1, <1>2, <1>3, <1>4 DEF TextNext

(* What the scanner does to text is what LogCapture says it does to lines:
   every property proved of Spec holds of the program on text. *)
THEOREM TextImplementsScanner == TextSpec => Spec
<1>1. TextInit => Init
  BY DEF TextInit
<1>2. [TextNext]_<<vars, startup, text>> => [Next]_vars
  <2>1. CASE UNCHANGED <<vars, startup, text>>
    BY <2>1
  <2> QED
    BY <2>1, StepImplements
<1> QED
  BY <1>1, <1>2, PTL DEF TextSpec, Spec

-----------------------------------------------------------------------------
(* The inductive invariant. *)

(* A line is given a type its own matchers account for: the indented lines
   that follow a captured one never are. *)
LEMMA ClassifyAccounts ==
  ASSUME NEW line
  PROVE  /\ Classify(line) \in Positive =>
              line.hits \cap (Positive \ {"ERROR_FOLLOWING"}) # {}
         /\ Classify(line) = "NONE" => line.hits \cap Negative = {}
<1> DEFINE type == match_line(line, "NONE")
<1>1. \A m : Applies(m, line, "NONE") =>
               m \in line.hits /\ m # "ERROR_FOLLOWING"
  BY DEF Applies, is_matched, Positive
<1>2. type \in Positive => line.hits \cap (Positive \ {"ERROR_FOLLOWING"}) # {}
  <2> SUFFICES ASSUME type \in Positive
               PROVE  line.hits \cap (Positive \ {"ERROR_FOLLOWING"}) # {}
    OBVIOUS
  <2>1. type # "NONE"
    BY DEF Positive
  <2>2. PICK i \in 1 .. 9 :
          type = MatchOrder[i] /\ Applies(MatchOrder[i], line, "NONE")
    BY <2>1, MatchLineFirst
  <2> QED
    BY <1>1, <2>2
<1>3. type = "NONE" => line.hits \cap Negative = {}
  <2> SUFFICES ASSUME type = "NONE", NEW m \in line.hits \cap Negative
               PROVE  FALSE
    OBVIOUS
  <2>1. \A i \in 1 .. 9 : MatchOrder[i] # "NONE"
    BY DEF MatchOrder
  <2>2. \A i \in 1 .. 9 : ~Applies(MatchOrder[i], line, "NONE")
    BY <2>1, MatchLineFirst
  <2>3. \E i \in 7 .. 9 : m = MatchOrder[i]
    BY DEF MatchOrder, Negative
  <2>4. PICK i \in 7 .. 9 : m = MatchOrder[i]
    BY <2>3
  <2>5. Applies(m, line, "NONE")
    BY DEF Applies, Negative
  <2>6. i \in 1 .. 9
    OBVIOUS
  <2> QED
    BY <2>2, <2>4, <2>5, <2>6
<1>4. \/ Classify(line) = type
      \/ Classify(line) \in {"RANGE_START", "RANGE_END"}
  BY DEF Classify, match_range_exclude
<1>5. \A t \in {"RANGE_START", "RANGE_END"} : t \notin Positive /\ t # "NONE"
  BY DEF Positive
<1> HIDE DEF type
<1> QED
  BY <1>2, <1>3, <1>4, <1>5

LEMMA ViewedRead == Cut /\ Viewed /\ Accounted /\ TypeOK /\ ReadLine
                      => Viewed' /\ Accounted'
<1> SUFFICES ASSUME Cut, Viewed, Accounted, TypeOK, ReadLine
             PROVE  Viewed' /\ Accounted'
  OBVIOUS
<1> DEFINE l == CutLine
           kept == Without(taken, {<<>>})
<1>1. /\ l \in Seq(Token) /\ taken \in Seq(Seq(Token))
      /\ taken' = Append(taken, l) /\ table' = table
      /\ SkipBlank(AsLine(l)) \/ Scan(AsLine(l))
  BY CutLineIs DEF Cut, ReadLine, startup
<1>2. AsLine(l).blank <=> l = <<>>
  BY DEF AsLine
<1> HIDE DEF l
<1>3. /\ kept \in Seq(Seq(Token))
      /\ Without(taken', {<<>>}) =
           IF l \in {<<>>} THEN kept ELSE Append(kept, l)
  <2> DEFINE drop == {<<>>}
  <2> HIDE DEF drop
  <2>1. /\ Without(taken, drop) \in Seq(Seq(Token))
        /\ Without(Append(taken, l), drop) =
             IF l \in drop THEN Without(taken, drop)
             ELSE Append(Without(taken, drop), l)
    BY <1>1, WithoutAppend
  <2> QED
    BY <1>1, <2>1 DEF drop
<1>4. Without(taken, {<<>>})' = IF l = <<>> THEN kept ELSE Append(kept, l)
  BY <1>1, <1>3
<1>5. \A oline : AsLine(oline)' = AsLine(oline)
  BY <1>1, AsLineStays
<1>6. /\ Len(seen) = Len(kept) /\ Len(seen) \in Nat
      /\ \A i \in 1 .. Len(seen) : seen[i].line = AsLine(kept[i])
      /\ seen \in Seq(Seen)
  BY LenProperties DEF Viewed, Raw, TypeOK
<1> HIDE DEF kept
<1>7. CASE SkipBlank(AsLine(l))
  <2>1. seen' = seen /\ Without(taken, {<<>>})' = kept
    BY <1>2, <1>4, <1>7 DEF SkipBlank, vars
  <2>2. \A i : Raw(i)' = kept[i]
    BY <2>1 DEF Raw
  <2>3. Viewed'
    BY <1>5, <1>6, <2>1, <2>2 DEF Viewed
  <2>4. Accounted'
    BY <2>1 DEF Accounted
  <2> QED
    BY <2>3, <2>4
<1>8. CASE Scan(AsLine(l))
  <2> DEFINE new == [line |-> AsLine(l), type |-> Classify(AsLine(l))]
  <2>1. seen' = Append(seen, new) /\ Without(taken, {<<>>})' = Append(kept, l)
    BY <1>2, <1>4, <1>8 DEF Scan
  <2>2. /\ Len(seen') = Len(seen) + 1 /\ seen'[Len(seen) + 1] = new
        /\ \A i \in 1 .. Len(seen) : seen'[i] = seen[i]
    BY <1>6, <2>1
  <2>3. /\ Len(Append(kept, l)) = Len(seen) + 1
        /\ Append(kept, l)[Len(seen) + 1] = l
        /\ \A i \in 1 .. Len(seen) : Append(kept, l)[i] = kept[i]
    BY <1>1, <1>3, <1>6, AppendProperties
  <2>4. \A i : Raw(i)' = Append(kept, l)[i]
    BY <2>1 DEF Raw
  <2>5. new.line = AsLine(l) /\ new.type = Classify(AsLine(l))
    OBVIOUS
  <2> HIDE DEF new
  <2>6. \A i \in 1 .. Len(seen') : i \in 1 .. Len(seen) \/ i = Len(seen) + 1
    BY <1>6, <2>2
  <2>7. \A i \in 1 .. Len(seen') : seen'[i].line = AsLine(Append(kept, l)[i])
    BY <1>6, <2>2, <2>3, <2>5, <2>6
  <2>8. Viewed'
    BY <1>5, <2>1, <2>2, <2>3, <2>4, <2>7 DEF Viewed
  <2>9. \A i \in 1 .. Len(seen') :
          /\ seen'[i].type \in Positive =>
               seen'[i].line.hits \cap (Positive \ {"ERROR_FOLLOWING"}) # {}
          /\ seen'[i].type = "NONE" => seen'[i].line.hits \cap Negative = {}
    <3> SUFFICES ASSUME NEW i \in 1 .. Len(seen')
                 PROVE
                   /\ seen'[i].type \in Positive =>
                        seen'[i].line.hits
                          \cap (Positive \ {"ERROR_FOLLOWING"}) # {}
                   /\ seen'[i].type = "NONE" =>
                        seen'[i].line.hits \cap Negative = {}
      OBVIOUS
    <3>1. CASE i \in 1 .. Len(seen)
      BY <2>2, <3>1 DEF Accounted
    <3>2. CASE i = Len(seen) + 1
      BY <2>2, <2>5, <3>2, ClassifyAccounts
    <3> QED
      BY <2>6, <3>1, <3>2
  <2>10. Accounted'
    BY <2>9 DEF Accounted
  <2> QED
    BY <2>8, <2>10
<1> QED
  BY <1>1, <1>7, <1>8

LEMMA TextInvInit == TextInit => TextInv
<1> SUFFICES ASSUME TextInit
             PROVE  TextInv
  OBVIOUS
<1>1. Init /\ lines = <<>> /\ pos = 0 /\ taken = <<>> /\ seen = <<>>
  BY DEF TextInit, Init
<1>2. IInv /\ Tables
  BY <1>1, InvInit, TablesInit
<1> DEFINE none == <<>>
<1>3. /\ none \in Seq(Seq(Token)) /\ Len(none) = 0 /\ 0 \in 0 .. Len(none)
      /\ SubSeq(none, 1, 0) = none /\ 1 .. Len(none) = {}
  BY EmptySeq
<1>4. Joined(none) = none /\ Without(none, {<<>>}) = none
  BY JoinedEmpty, WithoutEmpty
<1>5. lines = none /\ taken = none /\ seen = none
  BY <1>1
<1> HIDE DEF none
<1>6. lines \in Text \cup {<<>>}
  BY <1>1
<1>7. Cut
  BY <1>1, <1>3, <1>4, <1>5, <1>6 DEF Cut
<1>8. Viewed /\ Accounted
  BY <1>3, <1>4, <1>5 DEF Viewed, Accounted
<1> QED
  BY <1>2, <1>7, <1>8 DEF TextInv

LEMMA TextInvStep == TextInv /\ [TextNext]_<<vars, startup, text>> => TextInv'
<1> SUFFICES ASSUME TextInv, [TextNext]_<<vars, startup, text>>
             PROVE  TextInv'
  OBVIOUS
<1> USE DEF TextInv
<1>1. IInv'
  <2>1. [Next]_vars
    BY StepImplements
  <2> QED
    BY <2>1, InvStep
(* A step that changes neither what was cut nor what was seen of it. *)
<1>2. ASSUME UNCHANGED <<seen, table, text>>
      PROVE  Cut' /\ Viewed' /\ Accounted'
  <2>1. \A oline : AsLine(oline)' = AsLine(oline)
    BY <1>2, AsLineStays
  <2>2. Cut'
    BY <1>2 DEF Cut, text
  <2>3. Viewed'
    BY <1>2, <2>1 DEF Viewed, Raw, text
  <2> QED
    BY <1>2, <2>2, <2>3 DEF Accounted
<1>3. CASE Load
  <2>1. Tables'
    BY <1>3, TablesLoad
  <2>2. seen = <<>> /\ seen' = seen /\ UNCHANGED text
    BY <1>3 DEF Load, Tables, vars
  <2>3. Cut' /\ Accounted'
    BY <2>2 DEF Cut, Accounted, text
  <2>4. Len(seen) = 0
    BY <2>2
  <2>5. Viewed'
    BY <2>2, <2>4 DEF Viewed, text
  <2> QED
    BY <1>1, <2>1, <2>3, <2>5
<1>4. CASE LoadThrows
  <2>1. Tables'
    BY <1>4, TablesLoadThrows
  <2>2. seen = <<>> /\ seen' = seen /\ UNCHANGED text
    BY <1>4 DEF LoadThrows, Tables, vars
  <2>3. Cut' /\ Accounted'
    BY <2>2 DEF Cut, Accounted, text
  <2>4. Len(seen) = 0
    BY <2>2
  <2>5. Viewed'
    BY <2>2, <2>4 DEF Viewed, text
  <2> QED
    BY <1>1, <2>1, <2>3, <2>5
<1>5. CASE \E body \in Text : Call(body)
  <2>1. PICK body \in Text : Call(body)
    BY <1>5
  <2>2. /\ lines' = body /\ pos' = 0 /\ taken' = <<>> /\ seen' = <<>>
        /\ UNCHANGED startup /\ stage = "ready"
    BY <2>1 DEF Call, Begin, Enter
  <2>3. Tables'
    BY <2>2, TablesCall
  <2> DEFINE none == <<>>
  <2>4. none \in Seq(Seq(Token)) /\ Len(none) = 0 /\ 1 .. Len(none) = {}
    BY EmptySeq
  <2>5. Joined(none) = none /\ Without(none, {<<>>}) = none
    BY JoinedEmpty, WithoutEmpty
  <2>6. taken' = none /\ seen' = none
    BY <2>2
  <2>7. body \in Seq(Token) /\ Len(body) \in Nat /\ SubSeq(body, 1, 0) = none
    <3>1. body \in Seq(Token)
      BY TextAssumption
    <3>2. Len(body) \in Nat /\ 0 \in 0 .. Len(body)
      BY <3>1, LenProperties
    <3>3. SubSeq(body, 1, 0) \in Seq(Token) /\ Len(SubSeq(body, 1, 0)) = 0
      BY <3>1, <3>2, FirstIs
    <3> QED
      BY <3>1, <3>2, <3>3, EmptySeq
  <2> HIDE DEF none
  <2>8. Cut'
    <3>1. Joined(taken)' = SubSeq(lines, 1, pos)'
      BY <2>2, <2>5, <2>6, <2>7
    <3> QED
      BY <2>2, <2>4, <2>6, <2>7, <3>1 DEF Cut
  <2>9. Viewed' /\ Accounted'
    BY <2>4, <2>5, <2>6 DEF Viewed, Accounted
  <2> QED
    BY <1>1, <2>3, <2>8, <2>9
<1>6. CASE ReadLine
  <2>1. Cut'
    BY <1>6, CutRead
  <2>2. Viewed' /\ Accounted'
    BY <1>6, ViewedRead DEF IInv
  <2>3. pc # "idle" /\ UNCHANGED startup
    BY <1>6 DEF ReadLine, SkipBlank, Scan
  <2>4. Tables'
    <3>1. stage = "ready"
      BY <2>3 DEF Tables
    <3> QED
      BY <2>3, <3>1, TablesCall
  <2> QED
    BY <1>1, <2>1, <2>2, <2>4
<1>7. CASE EndOfText
  <2>1. UNCHANGED <<startup, text>> /\ seen' = seen /\ pc # "idle"
    BY <1>7 DEF EndOfText, Finish
  <2>2. stage = "ready"
    BY <2>1 DEF Tables
  <2>3. Tables'
    BY <2>1, <2>2, TablesCall
  <2> QED
    BY <1>1, <1>2, <2>1, <2>3 DEF startup
<1>8. CASE UNCHANGED <<vars, startup, text>>
  <2>1. UNCHANGED <<seen, table, text>>
    BY <1>8 DEF vars, startup
  <2>2. Tables'
    <3>1. \A f : Entries(f)' = Entries(f) /\ BadFile(f)' = BadFile(f)
      BY <1>8 DEF Entries, BadFile, startup
    <3> QED
      BY <1>8, <3>1 DEF Tables, startup, vars
  <2> QED
    BY <1>1, <1>2, <2>1, <2>2
<1> QED
  BY <1>3, <1>4, <1>5, <1>6, <1>7, <1>8 DEF TextNext

(* The inductive invariant holds for texts of any length and any contents of
   the pattern files. *)
THEOREM TextInvariant == TextSpec => []TextInv
BY TextInvInit, TextInvStep, PTL DEF TextSpec

-----------------------------------------------------------------------------
(* What follows from it. *)

(* The variables keep their types, on bodies of any length. *)
THEOREM TextTypeCorrect == TextSpec => []TextTypeOK
<1>1. TextInv => TextTypeOK
  BY DEF TextInv, IInv, Tables, Cut, TextTypeOK
<1> QED
  BY <1>1, TextInvariant, PTL

(* Once a call was made, every file is loaded. *)
LEMMA AllFilesLoaded ==
  ASSUME Tables, pc # "idle", NEW f \in File
  PROVE  Entries(f) \subseteq table[f] /\ ~BadFile(f)
<1>1. next = 5
  BY FilesAre DEF Tables
<1>2. PICK i \in 1 .. 4 : f = Files[i]
  BY FilesAre DEF File
<1>3. i \in 1 .. next - 1
  BY <1>1
<1> QED
  BY <1>2, <1>3 DEF Tables

(* No call is served before main has loaded every line of all four files, and
   none is served at all when one of them holds a bad expression. *)
THEOREM StartupOrderHolds == TextSpec => []StartupOrder
<1>1. TextInv => StartupOrder
  <2> SUFFICES ASSUME TextInv, pc # "idle", NEW f \in File
               PROVE
                 /\ \A raw \in disk[f] : raw # <<>> => EntryOf(f, raw) \in table[f]
                 /\ IsRegex(f) => \A raw \in disk[f] : ~Occurs(<<Bad>>, raw)
    BY DEF StartupOrder
  <2>1. Entries(f) \subseteq table[f] /\ ~BadFile(f)
    BY AllFilesLoaded DEF TextInv
  <2>2. \A raw \in disk[f] : raw # <<>> => EntryOf(f, raw) \in Entries(f)
    BY DEF Entries, Worthwhile
  <2>3. ASSUME IsRegex(f), NEW raw \in disk[f], Occurs(<<Bad>>, raw)
        PROVE  FALSE
    <3>1. raw \in Seq(Token)
      BY DEF TextInv, Tables
    <3>2. CASE raw # <<>>
      <4>1. raw \in Entries(f)
        BY <2>2, <2>3, <3>2 DEF EntryOf
      <4> QED
        BY <2>1, <2>3, <4>1 DEF BadFile
    <3>3. CASE raw = <<>>
      <4>1. PICK i \in 1 .. Len(raw) : raw[i] = Bad
        BY <2>3, <3>1, OccursOne
      <4>2. Len(raw) = 0
        BY <3>3
      <4> QED
        BY <4>1, <4>2
    <3> QED
      BY <3>2, <3>3
  <2> QED
    BY <2>1, <2>2, <2>3
<1> QED
  BY <1>1, TextInvariant, PTL

(* Cutting a body of any length into lines loses, invents and moves nothing. *)
THEOREM LinesRebuildTextHolds == TextSpec => []LinesRebuildText
<1>1. TextInv => LinesRebuildText
  BY DEF TextInv, Cut, LinesRebuildText
<1> QED
  BY <1>1, TextInvariant, PTL

(* The text of a numbered line, and what the scanner took it for. *)
LEMMA RawIs ==
  ASSUME TextInv, NEW i \in 1 .. Len(seen)
  PROVE  /\ Clean(Raw(i)) \in Seq(Token)
         /\ View(Clean(Raw(i))) \in Seq(Token)
         /\ \A m \in Matcher :
              m \in seen[i].line.hits <=> Hits(View(Clean(Raw(i))), m)
<1> DEFINE kept == Without(taken, {<<>>})
<1>1. kept \in Seq(Seq(Token))
  <2> DEFINE drop == {<<>>}
             none == <<>>
  <2>1. taken \in Seq(Seq(Token)) /\ none \in Seq(Token)
    BY EmptySeq DEF TextInv, Cut
  <2> HIDE DEF drop, none
  <2>2. Without(taken, drop) \in Seq(Seq(Token))
    BY <2>1, WithoutAppend
  <2> QED
    BY <2>2 DEF drop
<1>2. Len(seen) = Len(kept)
  BY DEF TextInv, Viewed
<1> HIDE DEF kept
<1>3. kept[i] \in Seq(Token)
  BY <1>1, <1>2, ElementOfSeq
<1>4. Raw(i) \in Seq(Token)
  BY <1>3 DEF Raw, kept
<1>5. Clean(Raw(i)) \in Seq(Token)
  <2>1. PICK x : x \in Token
    BY TextAssumption
  <2> QED
    BY <1>4, <2>1, WithoutAppend DEF Clean
<1>6. View(Clean(Raw(i))) \in Seq(Token)
  BY <1>5, ViewIs
<1>7. seen[i].line = AsLine(Raw(i))
  BY DEF TextInv, Viewed
<1>8. AsLine(Raw(i)).hits = {m \in Matcher : Hits(View(Clean(Raw(i))), m)}
  BY DEF AsLine
<1> QED
  BY <1>5, <1>6, <1>7, <1>8

(* A line that a matcher of levels, keywords or stacks hits is reported or
   swallowed. *)
LEMMA HitReported ==
  ASSUME TextInv, ErrorsReported, Scanned, NEW i \in 1 .. Len(seen),
         NEW m \in {"LOGLEVEL", "KEYWORD", "STACK_LINE"}, Hits(View(Clean(Raw(i))), m)
  PROVE  Reported(i) \/ Swallowed(i)
<1>1. m \in Matcher
  BY DEF Matcher, Positive
<1>2. m \in seen[i].line.hits
  BY <1>1, RawIs
<1>3. Demanded(seen[i].line)
  BY <1>2 DEF Demanded
<1> QED
  BY <1>3 DEF ErrorsReported, Scanned, Swallowed

(* TextSpec keeps what Spec keeps of the lines. *)
LEMMA TextErrorsReported == TextSpec => []ErrorsReported
BY TextImplementsScanner, ErrorsReportedHolds, PTL

(* A level in capitals in brackets, and one set off by two blanks, is reported
   in a line of any length, whatever escape codes, bytes and stamp it has. *)
THEOREM LevelReportedHolds == TextSpec => []LevelReported
<1>1. TextInv /\ ErrorsReported => LevelReported
  <2> SUFFICES ASSUME TextInv, ErrorsReported, Scanned,
                      NEW i \in 1 .. Len(seen),
                      \/ Occurs(<<"[", "ERROR", "]">>, Clean(Raw(i)))
                      \/ Occurs(<<Blank, Blank, "ERROR", Blank>>, Clean(Raw(i)))
                      \/ Occurs(<<Blank, Blank, "[", "error", "]", Blank>>,
                                Clean(Raw(i)))
               PROVE  Reported(i) \/ Swallowed(i)
    BY DEF LevelReported
  <2>1. Clean(Raw(i)) \in Seq(Token)
    BY RawIs
  <2>2. Level(View(Clean(Raw(i))), "ERROR", "error", "E")
    BY <2>1, LevelSurvives
  <2>3. Hits(View(Clean(Raw(i))), "LOGLEVEL")
    BY <2>2, HitsAre
  <2> QED
    BY <2>3, HitReported
<1> QED
  BY <1>1, TextInvariant, TextErrorsReported, PTL

(* A word of a file is in the table of the file. *)
LEMMA WordsLoaded ==
  ASSUME TextInv, pc # "idle", NEW f \in File, ~IsRegex(f), NEW w \in Words(f)
  PROVE  w \in table[f]
<1>1. PICK raw \in disk[f] : w \in Bared(raw, Space \ {Blank})
  BY DEF Words
<1>2. raw \in Seq(Token) /\ Len(raw) \in Nat
  BY LenProperties DEF TextInv, Tables
<1>3. PICK a \in 1 .. Len(raw), b \in 1 .. Len(raw) :
        /\ a =< b /\ w = SubSeq(raw, a, b)
        /\ \A j \in 1 .. Len(raw) : j \in a .. b \/ raw[j] \in Space \ {Blank}
  BY <1>1 DEF Bared
<1>4. /\ w \in Seq(Token) /\ Len(w) = b - a + 1 /\ a + Len(w) - 1 = b
      /\ Len(w) \in Nat \ {0}
  <2>1. \A k \in a .. b : raw[k] \in Token
    BY <1>2, ElementOfSeq
  <2>2. w \in Seq(Token) /\ Len(w) = b - a + 1
    BY <1>2, <1>3, <2>1, SubSeqProperties
  <2> QED
    BY <1>2, <1>3, <2>2
<1>5. Trims(raw, w, a)
  <2>1. w # <<>>
    BY <1>4, EmptySeq
  <2>2. w[1] \notin LeftBlank /\ w[Len(w)] \notin RightBlank
    BY DEF Words, Space, Quote, LeftBlank, RightBlank
  <2>3. a \in 1 .. Len(raw) - Len(w) + 1
    BY <1>2, <1>3, <1>4
  <2>4. SubSeq(raw, a, a + Len(w) - 1) = w
    BY <1>3, <1>4
  <2>5. \A j \in 1 .. a - 1 : raw[j] \in LeftBlank
    <3>1. \A j \in 1 .. a - 1 : j \in 1 .. Len(raw) /\ j \notin a .. b
      BY <1>2, <1>3
    <3> QED
      BY <1>3, <3>1 DEF Space, LeftBlank
  <2>6. \A j \in a + Len(w) .. Len(raw) : raw[j] \in RightBlank
    <3>1. \A j \in a + Len(w) .. Len(raw) : j \in 1 .. Len(raw) /\ j \notin a .. b
      BY <1>2, <1>3, <1>4
    <3> QED
      BY <1>3, <3>1 DEF Space, RightBlank
  <2> QED
    BY <2>1, <2>2, <2>3, <2>4, <2>5, <2>6 DEF Trims
<1>6. CutRight(CutLeft(raw)) = w
  BY <1>2, <1>4, <1>5, TrimFinds
<1>7. raw # <<>>
  BY <1>3, EmptySeq
<1>8. w \in Entries(f)
  BY <1>6, <1>7 DEF Entries, EntryOf, Worthwhile
<1> QED
  BY <1>8, AllFilesLoaded DEF TextInv

(* The words of the files decide, whatever tabs are around them and whatever
   line end the file has. *)
THEOREM WordsDecideHolds == TextSpec => []WordsDecide
<1>1. TextInv /\ ErrorsReported => WordsDecide
  <2> SUFFICES ASSUME TextInv, ErrorsReported, Scanned,
                      NEW i \in 1 .. Len(seen)
               PROVE
                 /\ (\E w \in Words("keywords") :
                       Occurs(w, View(Clean(Raw(i)))))
                      => Reported(i) \/ Swallowed(i)
                 /\ (\E w \in Words("exclude") : Occurs(w, View(Clean(Raw(i)))))
                      => seen[i].type # "NONE"
    BY DEF WordsDecide
  <2>1. pc # "idle" /\ "keywords" \in File /\ "exclude" \in File
        /\ ~IsRegex("keywords") /\ ~IsRegex("exclude")
    BY FilesAre DEF Scanned, IsRegex
  <2>2. ASSUME NEW w \in Words("keywords"), Occurs(w, View(Clean(Raw(i))))
        PROVE  Reported(i) \/ Swallowed(i)
    <3>1. w \in table["keywords"]
      BY <2>1, WordsLoaded
    <3>2. Hits(View(Clean(Raw(i))), "KEYWORD")
      BY <2>2, <3>1, HitsAre
    <3> QED
      BY <3>2, HitReported
  <2>3. ASSUME NEW w \in Words("exclude"), Occurs(w, View(Clean(Raw(i))))
        PROVE  seen[i].type # "NONE"
    <3>1. w \in table["exclude"]
      BY <2>1, WordsLoaded
    <3>2. Hits(View(Clean(Raw(i))), "EXCLUDE")
      BY <2>3, <3>1, HitsAre
    <3>3. "EXCLUDE" \in seen[i].line.hits \cap Negative
      BY <3>2, RawIs DEF Matcher, Negative
    <3> QED
      BY <3>3 DEF TextInv, Accounted
  <2> QED
    BY <2>2, <2>3
<1> QED
  BY <1>1, TextInvariant, TextErrorsReported, PTL

(* A line in which a word occurs has every token of the word. *)
LEMMA TokenOccurs ==
  ASSUME NEW s \in Seq(Token), NEW T, NEW word \in Seq(T), Occurs(word, s),
         NEW k \in 1 .. Len(word)
  PROVE  Occurs(<<word[k]>>, s)
<1>1. PICK i \in 0 .. Len(s) - Len(word) : s[i + k] = word[k]
  <2>1. Found(word, s)
    BY OccursAt
  <2> QED
    BY <2>1 DEF Found, Agrees
<1>2. i + k \in 1 .. Len(s)
  BY <1>1, LenProperties
<1> QED
  BY <1>1, <1>2, OneOccurs

(* A level has its word or its letter in the line. *)
LEMMA LevelOccurs ==
  ASSUME NEW view \in Seq(Token), NEW bare, NEW boxed, NEW letter,
         Level(view, bare, boxed, letter)
  PROVE  \/ Occurs(<<bare>>, view)
         \/ Occurs(<<boxed>>, view)
         \/ Occurs(<<letter>>, view)
<1>1. ASSUME NEW before, NEW behind, Occurs(<<before, bare, behind>>, view)
      PROVE  Occurs(<<bare>>, view)
  <2> DEFINE word == <<before, bare, behind>>
  <2>1. word \in Seq({before, bare, behind}) /\ 2 \in 1 .. Len(word)
        /\ word[2] = bare
    OBVIOUS
  <2> HIDE DEF word
  <2>2. Occurs(word, view)
    BY <1>1 DEF word
  <2>3. Occurs(<<word[2]>>, view)
    BY <2>1, <2>2, TokenOccurs
  <2> QED
    BY <2>1, <2>3
<1>2. ASSUME NEW before, NEW behind,
             Occurs(<<before, "[", boxed, "]", behind>>, view)
      PROVE  Occurs(<<boxed>>, view)
  <2> DEFINE word == <<before, "[", boxed, "]", behind>>
  <2>1. word \in Seq({before, "[", boxed, "]", behind}) /\ 3 \in 1 .. Len(word)
        /\ word[3] = boxed
    OBVIOUS
  <2> HIDE DEF word
  <2>2. Occurs(word, view)
    BY <1>2 DEF word
  <2>3. Occurs(<<word[3]>>, view)
    BY <2>1, <2>2, TokenOccurs
  <2> QED
    BY <2>1, <2>3
<1>3. ASSUME Len(view) > 1, view[1] = letter
      PROVE  Occurs(<<letter>>, view)
  <2>1. 1 \in 1 .. Len(view)
    BY <1>3, LenProperties
  <2> QED
    BY <1>3, <2>1, OneOccurs
<1> QED
  BY <1>1, <1>2, <1>3 DEF Level

(* What the code trims a line of the file of keywords to is a part of the line
   with white space and quotes around it, or the line is nothing else. *)
LEMMA EntryIsBared ==
  ASSUME TextInv, ~BlankLine("keywords"), NEW w \in Entries("keywords")
  PROVE  /\ w # <<>>
         /\ w \in Keys
<1> DEFINE f == "keywords"
           wrapping == Space \cup {Quote}
<1>1. PICK raw \in disk[f] : raw # <<>> /\ w = CutRight(CutLeft(raw))
  BY DEF Entries, EntryOf, Worthwhile, IsRegex
<1>2. raw \in Seq(Token) /\ Len(raw) \in Nat
  BY FilesAre, LenProperties DEF TextInv, Tables
<1>3. LeftBlank \subseteq wrapping /\ RightBlank \subseteq wrapping
  BY DEF LeftBlank, RightBlank, Space, Quote
<1>4. \E i \in 1 .. Len(raw) : raw[i] \notin LeftBlank
  BY <1>1, <1>3 DEF BlankLine
<1>5. PICK i : Trims(raw, w, i)
  BY <1>1, <1>2, <1>4, TrimSound
<1>6. w \in Seq(Token)
  BY <1>1, <1>2, TrimSound
<1> DEFINE j == i + Len(w) - 1
<1>7. /\ Len(w) \in Nat \ {0} /\ i \in 1 .. Len(raw) - Len(w) + 1
      /\ w = SubSeq(raw, i, j)
  BY <1>5, <1>6, LenProperties, EmptySeq DEF Trims
<1>8. i \in 1 .. Len(raw) /\ j \in 1 .. Len(raw) /\ i =< j
  BY <1>2, <1>7
<1>9. ASSUME NEW k \in 1 .. Len(raw)
      PROVE  k \in i .. j \/ raw[k] \in wrapping
  <2>1. k \in i .. j \/ k \in 1 .. i - 1 \/ k \in i + Len(w) .. Len(raw)
    BY <1>2, <1>7, <1>8
  <2> QED
    BY <1>3, <1>5, <2>1 DEF Trims
<1> HIDE DEF j, wrapping
<1>10. w \in Bared(raw, wrapping)
  <2> DEFINE p == <<i, j>>
  <2>1. /\ p \in (1 .. Len(raw)) \X (1 .. Len(raw)) /\ p[1] = i /\ p[2] = j
    BY <1>8
  <2> HIDE DEF p
  <2> QED
    BY <1>7, <1>8, <1>9, <2>1 DEF Bared
<1> QED
  BY <1>5, <1>10 DEF Keys, Trims, wrapping

(* Every reported line has a word in its text that it is reported for, unless
   the file of keywords has a line of white space and quotes only. *)
THEOREM ReportedForReasonHolds == TextSpec => []ReportedForReason
<1>1. TextInv => ReportedForReason
  <2> SUFFICES ASSUME TextInv, Scanned, ~BlankLine("keywords"),
                      NEW i \in 1 .. Len(seen), seen[i].type \in Positive
               PROVE  \E reason \in Reasons \ {<<>>} :
                        Occurs(reason, Clean(Raw(i)))
    BY DEF ReportedForReason
  <2> DEFINE line == Clean(Raw(i))
             view == View(line)
  <2>1. line \in Seq(Token) /\ view \in Seq(Token)
    BY RawIs
  <2>2. PICK m \in Positive \ {"ERROR_FOLLOWING"} : m \in seen[i].line.hits
    BY DEF TextInv, Accounted
  <2>3. Hits(view, m)
    BY <2>2, RawIs DEF Matcher
  <2>4. ASSUME NEW word, word \in Reasons \ {<<>>}, NEW T, word \in Seq(T),
               Occurs(word, view)
        PROVE  \E reason \in Reasons \ {<<>>} : Occurs(reason, line)
    BY <2>1, <2>4, OccursView
  <2>5. ASSUME NEW t, <<t>> \in Reasons, Occurs(<<t>>, view)
        PROVE  \E reason \in Reasons \ {<<>>} : Occurs(reason, line)
    <3>1. <<t>> # <<>> /\ <<t>> \in Seq({t})
      OBVIOUS
    <3> QED
      BY <2>4, <2>5, <3>1
  <2>6. /\ <<"ERROR">> \in Reasons /\ <<"error">> \in Reasons
        /\ <<"E">> \in Reasons
        /\ <<"WARN">> \in Reasons /\ <<"warn">> \in Reasons
        /\ <<"W">> \in Reasons
        /\ <<"Traceback">> \in Reasons
    BY DEF Reasons
  <2>7. ASSUME NEW f \in File, f \in {"keywords", "expression"},
               NEW w \in table[f], Occurs(w, view)
        PROVE  \E reason \in Reasons \ {<<>>} : Occurs(reason, line)
    <3>1. w \in Builtin[f] \cup Entries(f) /\ w \in Seq(Token)
      BY <2>7 DEF TextInv, Tables
    <3>2. CASE w \in Builtin[f]
      <4>1. w \in Reasons /\ w # <<>>
        BY <2>7, <3>2 DEF Reasons, Builtin
      <4> QED
        BY <2>4, <2>7, <3>1, <4>1
    <3>3. CASE f = "keywords" /\ w \in Entries("keywords")
      <4>1. w \in Reasons /\ w # <<>>
        BY <3>3, EntryIsBared DEF Reasons
      <4> QED
        BY <2>4, <2>7, <3>1, <4>1
    <3>4. CASE f = "expression" /\ w \in Entries("expression")
      <4>1. w \in disk["expression"] /\ w # <<>>
        BY <3>4 DEF Entries, EntryOf, IsRegex, Worthwhile
      <4>2. w \in Reasons
        BY <4>1 DEF Reasons
      <4> QED
        BY <2>4, <2>7, <3>1, <4>1, <4>2
    <3> QED
      BY <2>7, <3>1, <3>2, <3>3, <3>4
  <2> SUFFICES \E reason \in Reasons \ {<<>>} : Occurs(reason, line)
    OBVIOUS
  <2> HIDE DEF line, view
  <2>8. CASE m = "LOGLEVEL"
    <3>1. Occurs(<<"ERROR">>, view) \/ Occurs(<<"error">>, view)
          \/ Occurs(<<"E">>, view)
      BY <2>1, <2>3, <2>8, HitsAre, LevelOccurs
    <3> QED
      BY <2>5, <2>6, <3>1
  <2>9. CASE m = "WARNING_LOGLEVEL"
    <3>1. Occurs(<<"WARN">>, view) \/ Occurs(<<"warn">>, view)
          \/ Occurs(<<"W">>, view)
      BY <2>1, <2>3, <2>9, HitsAre, LevelOccurs
    <3> QED
      BY <2>5, <2>6, <3>1
  <2>10. CASE m = "STACK_LINE"
    <3>1. Occurs(<<"Traceback">>, view)
      BY <2>3, <2>10, HitsAre
    <3> QED
      BY <2>5, <2>6, <3>1
  <2>11. CASE m = "KEYWORD"
    <3>1. \E w \in table["keywords"] : Occurs(w, view)
      BY <2>3, <2>11, HitsAre
    <3> QED
      BY <2>7, <3>1, FilesAre
  <2>12. CASE m = "EXPRESSION"
    <3>1. \E w \in table["expression"] : Occurs(w, view)
      BY <2>3, <2>12, HitsAre
    <3> QED
      BY <2>7, <3>1, FilesAre
  <2>13. m \in {"LOGLEVEL", "KEYWORD", "EXPRESSION", "STACK_LINE",
                "WARNING_LOGLEVEL"}
    BY <2>2 DEF Positive
  <2> QED
    BY <2>8, <2>9, <2>10, <2>11, <2>12, <2>13
<1> QED
  BY <1>1, TextInvariant, PTL
=============================================================================
