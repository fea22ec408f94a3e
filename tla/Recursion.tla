------------------------------ MODULE Recursion ------------------------------
(***************************************************************************)
(* Induction and recursion over the natural numbers, stated of sets and    *)
(* functions: what the proofs about recursive definitions rest on.         *)
(***************************************************************************)
EXTENDS Naturals, Sequences, SequenceTheorems, WellFoundedInduction, TLAPS

(* A non-empty set of numbers has a least element. *)
LEMMA LeastExists ==
  ASSUME NEW S, S \subseteq Nat, S # {}
  PROVE  \E m \in S : \A n \in S : m =< n
<1>1. PICK m \in S : \A n \in S : ~ (<<n, m>> \in OpToRel(<, Nat))
  BY NatLessThanWellFounded, WFMin
<1>2. \A n \in S : ~ (n < m)
  BY <1>1 DEF OpToRel
<1> QED
  BY <1>2

(* A non-empty set of numbers up to n has a greatest element. *)
LEMMA GreatestExists ==
  ASSUME NEW n \in Nat, NEW S, S \subseteq 0 .. n, S # {}
  PROVE  \E m \in S : \A i \in S : i =< m
<1> DEFINE T == {n - i : i \in S}
<1>1. T \subseteq Nat /\ T # {}
  <2>1. \A i \in S : n - i \in Nat
    OBVIOUS
  <2> QED
    BY <2>1
<1>2. PICK t \in T : \A u \in T : t =< u
  <2> HIDE DEF T
  <2> QED
    BY <1>1, LeastExists
<1>3. PICK m \in S : t = n - m
  OBVIOUS
<1>4. ASSUME NEW i \in S
      PROVE  i =< m
  <2>1. n - m =< n - i
    BY <1>2, <1>3
  <2>2. i \in Int /\ m \in Int
    OBVIOUS
  <2> QED
    BY <2>1, <2>2
<1> QED
  BY <1>4

(* A set of numbers that holds 0 and with each number the next holds all. *)
LEMMA SetInduction ==
  ASSUME NEW S, 0 \in S, \A n \in Nat : n \in S => n + 1 \in S
  PROVE  \A n \in Nat : n \in S
<1> SUFFICES ASSUME ~ (\A n \in Nat : n \in S)
             PROVE  FALSE
  OBVIOUS
<1>1. PICK m \in Nat \ S : \A n \in Nat \ S : m =< n
  <2>1. Nat \ S \subseteq Nat /\ Nat \ S # {}
    OBVIOUS
  <2> QED
    BY <2>1, LeastExists
<1>2. m # 0 /\ m - 1 \in Nat /\ m - 1 \in S
  BY <1>1
<1> QED
  BY <1>1, <1>2

-----------------------------------------------------------------------------
(* g follows the rule step from a, as far as n. *)
Follows(g, a, step, n) ==
  g[0] = a /\ \A i \in 0 .. n - 1 : g[i + 1] = step[<<i, g[i]>>]

(* Two functions that follow one rule agree as far as both do. *)
LEMMA FollowsUnique ==
  ASSUME NEW a, NEW step, NEW n \in Nat, NEW g, NEW h,
         Follows(g, a, step, n), Follows(h, a, step, n)
  PROVE  \A i \in 0 .. n : g[i] = h[i]
<1> DEFINE S == {i \in Nat : i =< n => g[i] = h[i]}
<1>1. 0 \in S
  BY DEF Follows
<1>2. ASSUME NEW i \in Nat, i \in S
      PROVE  i + 1 \in S
  <2> SUFFICES ASSUME i + 1 =< n
               PROVE  g[i + 1] = h[i + 1]
    OBVIOUS
  <2>1. i \in 0 .. n - 1 /\ g[i] = h[i]
    BY <1>2
  <2> QED
    BY <2>1 DEF Follows
<1>3. \A i \in Nat : i \in S
  <2> HIDE DEF S
  <2> QED
    BY <1>1, <1>2, SetInduction
<1> QED
  BY <1>3

(* A rule that stays in a set is followed to every number. *)
LEMMA FollowsExists ==
  ASSUME NEW A, NEW a \in A, NEW step \in [Nat \X A -> A]
  PROVE  \A n \in Nat : \E g \in [0 .. n -> A] : Follows(g, a, step, n)
<1> DEFINE S == {n \in Nat : \E g \in [0 .. n -> A] : Follows(g, a, step, n)}
<1>1. 0 \in S
  <2> DEFINE g == [i \in 0 .. 0 |-> a]
  <2>1. g \in [0 .. 0 -> A] /\ Follows(g, a, step, 0)
    BY DEF Follows
  <2> QED
    BY <2>1
<1>2. ASSUME NEW n \in Nat, n \in S
      PROVE  n + 1 \in S
  <2>1. PICK g \in [0 .. n -> A] : Follows(g, a, step, n)
    BY <1>2
  <2> DEFINE h == [i \in 0 .. n + 1 |->
                     IF i = n + 1 THEN step[<<n, g[n]>>] ELSE g[i]]
  <2>2. step[<<n, g[n]>>] \in A
    OBVIOUS
  <2>3. h \in [0 .. n + 1 -> A]
    BY <2>2
  <2>4. h[n + 1] = step[<<n, g[n]>>] /\ \A i \in 0 .. n : h[i] = g[i]
    OBVIOUS
  <2> HIDE DEF h
  <2>5. ASSUME NEW i \in 0 .. (n + 1) - 1
        PROVE  h[i + 1] = step[<<i, h[i]>>]
    <3>1. CASE i = n
      BY <2>4, <3>1
    <3>2. CASE i # n
      <4>1. i \in 0 .. n - 1 /\ i + 1 \in 0 .. n /\ i \in 0 .. n
        BY <3>2
      <4> QED
        BY <2>1, <2>4, <4>1 DEF Follows
    <3> QED
      BY <3>1, <3>2
  <2>6. h[0] = a
    BY <2>1, <2>4 DEF Follows
  <2> QED
    BY <2>3, <2>5, <2>6 DEF Follows
<1> QED
  <2> HIDE DEF S
  <2>1. \A n \in Nat : n \in S
    BY <1>1, <1>2, SetInduction
  <2> QED
    BY <2>1 DEF S

(* step is a rule that stays in A; f follows it from a to every number. *)
IsRule(step, A) == step \in [Nat \X A -> A]
IsRecursion(f, A, a, step) ==
  /\ f \in [Nat -> A]
  /\ f[0] = a
  /\ \A n \in Nat : f[n + 1] = step[<<n, f[n]>>]

(* Primitive recursion: a rule that stays in a set defines a function. *)
LEMMA RecursiveFunction ==
  ASSUME NEW A, NEW a \in A, NEW step, IsRule(step, A)
  PROVE  \E f : IsRecursion(f, A, a, step)
<1>0. step \in [Nat \X A -> A]
  BY DEF IsRule
<1> DEFINE G(n) == CHOOSE g \in [0 .. n -> A] : Follows(g, a, step, n)
           f == [n \in Nat |-> G(n)[n]]
<1>1. \A n \in Nat : G(n) \in [0 .. n -> A] /\ Follows(G(n), a, step, n)
  BY <1>0, FollowsExists
<1> HIDE DEF G
<1>2. f \in [Nat -> A]
  BY <1>1
<1>3. f[0] = a
  BY <1>1 DEF Follows
<1>4. ASSUME NEW n \in Nat
      PROVE  f[n + 1] = step[<<n, f[n]>>]
  <2>1. Follows(G(n), a, step, n) /\ Follows(G(n + 1), a, step, n + 1)
    BY <1>1
  <2>2. Follows(G(n + 1), a, step, n)
    BY <2>1 DEF Follows
  <2>3. \A i \in 0 .. n : G(n)[i] = G(n + 1)[i]
    BY <2>1, <2>2, FollowsUnique
  <2>4. G(n)[n] = G(n + 1)[n]
    BY <2>3
  <2>5. G(n + 1)[n + 1] = step[<<n, G(n + 1)[n]>>]
    BY <2>1 DEF Follows
  <2>6. f[n + 1] = G(n + 1)[n + 1] /\ f[n] = G(n)[n]
    OBVIOUS
  <2> QED
    BY <2>4, <2>5, <2>6
<1> QED
  BY <1>2, <1>3, <1>4 DEF IsRecursion

-----------------------------------------------------------------------------
(* g is what step makes of a and the elements of s, one after another. *)
IsFold(g, A, a, step, s) ==
  /\ g = [n \in 0 .. Len(s) |->
            IF n = 0 THEN a ELSE step[<<g[n - 1], s[n]>>]]
  /\ \A n \in 0 .. Len(s) : g[n] \in A
IsFoldRule(step, A, S) == step \in [A \X S -> A]

(* The elements of a sequence can be folded. *)
LEMMA SequenceRecursion ==
  ASSUME NEW A, NEW a \in A, NEW S, NEW s \in Seq(S), NEW step,
         IsFoldRule(step, A, S)
  PROVE  \E g : IsFold(g, A, a, step, s)
<1> DEFINE N == Len(s)
           rule == [p \in Nat \X A |->
                      IF p[1] >= N THEN p[2] ELSE step[<<p[2], s[p[1] + 1]>>]]
<1>1. N \in Nat
  BY LenProperties
<1>2. rule \in [Nat \X A -> A]
  <2> SUFFICES ASSUME NEW p \in Nat \X A
               PROVE  (IF p[1] >= N THEN p[2]
                       ELSE step[<<p[2], s[p[1] + 1]>>]) \in A
    OBVIOUS
  <2>1. p[1] \in Nat /\ p[2] \in A
    OBVIOUS
  <2>2. CASE p[1] >= N
    BY <2>1, <2>2
  <2>3. CASE ~ (p[1] >= N)
    <3>1. s[p[1] + 1] \in S
      BY <1>1, <2>1, <2>3, ElementOfSeq
    <3>2. <<p[2], s[p[1] + 1]>> \in A \X S
      BY <2>1, <3>1
    <3> QED
      BY <2>3, <3>2 DEF IsFoldRule
  <2> QED
    BY <2>2, <2>3
<1>3. PICK f : IsRecursion(f, A, a, rule)
  <2>1. IsRule(rule, A)
    BY <1>2 DEF IsRule
  <2> HIDE DEF rule
  <2> QED
    BY <2>1, RecursiveFunction
<1>4. /\ f \in [Nat -> A]
      /\ f[0] = a
      /\ \A n \in Nat : f[n + 1] = rule[<<n, f[n]>>]
  BY <1>3 DEF IsRecursion
<1> HIDE DEF rule
<1> DEFINE g == [n \in 0 .. N |-> f[n]]
<1>5. ASSUME NEW n \in 0 .. N, n # 0
      PROVE  f[n] = step[<<f[n - 1], s[n]>>]
  <2>1. n - 1 \in Nat /\ n - 1 < N /\ n \in Nat /\ (n - 1) + 1 = n
    BY <1>1, <1>5
  <2>2. f[n - 1] \in A
    BY <1>4, <2>1
  <2>3. f[n] = rule[<<n - 1, f[n - 1]>>]
    BY <1>4, <2>1
  <2> DEFINE p == <<n - 1, f[n - 1]>>
  <2>4. p \in Nat \X A /\ p[1] = n - 1 /\ p[2] = f[n - 1]
    BY <2>1, <2>2
  <2> HIDE DEF p
  <2>5. rule[p] = IF p[1] >= N THEN p[2] ELSE step[<<p[2], s[p[1] + 1]>>]
    BY <2>4 DEF rule
  <2>6. ~ (p[1] >= N) /\ p[1] + 1 = n
    BY <1>1, <2>1, <2>4
  <2>7. rule[p] = step[<<f[n - 1], s[n]>>]
    BY <2>4, <2>5, <2>6
  <2> QED
    BY <2>3, <2>7 DEF p
<1>6. g = [n \in 0 .. N |-> IF n = 0 THEN a ELSE step[<<g[n - 1], s[n]>>]]
  <2>1. \A n \in 0 .. N : n # 0 => g[n - 1] = f[n - 1]
    BY <1>1
  <2>2. \A n \in 0 .. N : n = 0 => f[n] = a
    BY <1>4
  <2> QED
    BY <1>5, <2>1, <2>2
<1>7. \A n \in 0 .. N : g[n] \in A
  BY <1>1, <1>4
<1> HIDE DEF g
<1> QED
  BY <1>6, <1>7 DEF IsFold
=============================================================================
