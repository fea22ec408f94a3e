------------------------ MODULE CaptureService_proofs ------------------------
(***************************************************************************)
(* Proofs about the service around the scanner, for any set of requests    *)
(* and bodies of every length: what a call answers is what the reference   *)
(* says of its body.                                                       *)
(***************************************************************************)
EXTENDS CaptureService, LogCapture_proofs, FiniteSetTheorems

-----------------------------------------------------------------------------
(* The recursive definitions of the reference. *)

(* A line leaves the scanner in a range of the table, or in none. *)
LEMMA LeftType ==
  ASSUME NEW line \in Line, NEW range \in RangeId \cup {0}
  PROVE  Left(line, range) \in RangeId \cup {0}
<1>1. line.starts \subseteq RangeId
  BY LineAssumption DEF LineType
<1>2. line.starts # {} => FirstRange(line.starts) \in RangeId
  BY <1>1, FirstRangeType
<1> QED
  BY <1>2 DEF Left

(* A recursion over the positions of a sequence has a solution, and so the
   function that CHOOSE picks is one. *)
LEMMA InkedIs ==
  ASSUME NEW body \in Seq(Line)
  PROVE  Inked(body) = [n \in 0 .. Len(body) |->
           IF n = 0 THEN <<>>
           ELSE IF body[n].blank THEN Inked(body)[n - 1]
           ELSE Append(Inked(body)[n - 1], body[n])]
<1> DEFINE step == [p \in Seq(Line) \X Line |->
                      IF p[2].blank THEN p[1] ELSE Append(p[1], p[2])]
<1>1. IsFoldRule(step, Seq(Line), Line)
  BY AppendProperties DEF IsFoldRule
<1>2. <<>> \in Seq(Line)
  OBVIOUS
<1>3. PICK g : IsFold(g, Seq(Line), <<>>, step, body)
  <2> HIDE DEF step
  <2> QED
    BY <1>1, <1>2, SequenceRecursion
<1>4. \A n \in 0 .. Len(body) : n # 0 =>
        step[<<g[n - 1], body[n]>>] =
          IF body[n].blank THEN g[n - 1] ELSE Append(g[n - 1], body[n])
  <2> SUFFICES ASSUME NEW n \in 0 .. Len(body), n # 0
               PROVE  step[<<g[n - 1], body[n]>>] =
                        IF body[n].blank THEN g[n - 1]
                        ELSE Append(g[n - 1], body[n])
    OBVIOUS
  <2>1. n \in 1 .. Len(body) /\ n - 1 \in 0 .. Len(body)
    BY LenProperties
  <2>2. g[n - 1] \in Seq(Line) /\ body[n] \in Line
    BY <1>3, <2>1, ElementOfSeq DEF IsFold
  <2> QED
    BY <2>2
<1> HIDE DEF step
<1>5. g = [n \in 0 .. Len(body) |->
            IF n = 0 THEN <<>>
            ELSE IF body[n].blank THEN g[n - 1]
            ELSE Append(g[n - 1], body[n])]
  BY <1>3, <1>4 DEF IsFold
<1> QED
  BY <1>5 DEF Inked

(* The same for the ranges. *)
LEMMA RangesIs ==
  ASSUME NEW lines \in Seq(Line)
  PROVE  Ranges(lines) = [i \in 0 .. Len(lines) |->
           IF i = 0 THEN 0 ELSE Left(lines[i], Ranges(lines)[i - 1])]
<1> DEFINE A == RangeId \cup {0}
           step == [p \in A \X Line |-> Left(p[2], p[1])]
<1>1. IsFoldRule(step, A, Line)
  BY LeftType DEF IsFoldRule
<1>2. 0 \in A
  OBVIOUS
<1>3. PICK g : IsFold(g, A, 0, step, lines)
  <2> HIDE DEF step, A
  <2> QED
    BY <1>1, <1>2, SequenceRecursion
<1>4. \A i \in 0 .. Len(lines) : i # 0 =>
        step[<<g[i - 1], lines[i]>>] = Left(lines[i], g[i - 1])
  <2> SUFFICES ASSUME NEW i \in 0 .. Len(lines), i # 0
               PROVE  step[<<g[i - 1], lines[i]>>] = Left(lines[i], g[i - 1])
    OBVIOUS
  <2>1. i \in 1 .. Len(lines) /\ i - 1 \in 0 .. Len(lines)
    BY LenProperties
  <2>2. g[i - 1] \in A /\ lines[i] \in Line
    BY <1>3, <2>1, ElementOfSeq DEF IsFold
  <2> QED
    BY <2>2
<1> HIDE DEF step
<1>5. g = [i \in 0 .. Len(lines) |->
            IF i = 0 THEN 0 ELSE Left(lines[i], g[i - 1])]
  BY <1>3, <1>4 DEF IsFold
<1> QED
  BY <1>5 DEF Ranges

(* What the two are, line by line. *)
LEMMA InkedStep ==
  ASSUME NEW body \in Seq(Line)
  PROVE  /\ Inked(body)[0] = <<>>
         /\ \A n \in 1 .. Len(body) :
              Inked(body)[n] = IF body[n].blank THEN Inked(body)[n - 1]
                               ELSE Append(Inked(body)[n - 1], body[n])
<1>1. Len(body) \in Nat
  BY LenProperties
<1>2. \A n \in 0 .. Len(body) :
        Inked(body)[n] = IF n = 0 THEN <<>>
                         ELSE IF body[n].blank THEN Inked(body)[n - 1]
                         ELSE Append(Inked(body)[n - 1], body[n])
  <2> DEFINE g == Inked(body)
  <2>1. g = [n \in 0 .. Len(body) |->
           IF n = 0 THEN <<>>
           ELSE IF body[n].blank THEN g[n - 1]
           ELSE Append(g[n - 1], body[n])]
    BY InkedIs
  <2> HIDE DEF g
  <2>2. \A n \in 0 .. Len(body) :
          g[n] = IF n = 0 THEN <<>>
                 ELSE IF body[n].blank THEN g[n - 1]
                 ELSE Append(g[n - 1], body[n])
    BY <2>1
  <2> QED
    BY <2>2 DEF g
<1> QED
  BY <1>1, <1>2

LEMMA RangesStep ==
  ASSUME NEW lines \in Seq(Line)
  PROVE  /\ Ranges(lines)[0] = 0
         /\ \A i \in 1 .. Len(lines) :
              Ranges(lines)[i] = Left(lines[i], Ranges(lines)[i - 1])
<1>1. Len(lines) \in Nat
  BY LenProperties
<1> DEFINE g == Ranges(lines)
<1>2. g = [i \in 0 .. Len(lines) |-> IF i = 0 THEN 0 ELSE Left(lines[i], g[i - 1])]
  BY RangesIs
<1> HIDE DEF g
<1>3. \A i \in 0 .. Len(lines) :
        g[i] = IF i = 0 THEN 0 ELSE Left(lines[i], g[i - 1])
  BY <1>2
<1> QED
  BY <1>1, <1>3 DEF g

(* The lines kept of a part of a body begin those kept of a longer part. *)
Begins(s, t) == Len(s) =< Len(t) /\ \A i \in 1 .. Len(s) : t[i] = s[i]

LEMMA InkedType ==
  ASSUME NEW body \in Seq(Line)
  PROVE  \A n \in 0 .. Len(body) : Inked(body)[n] \in Seq(Line)
<1> DEFINE S == {n \in Nat : n =< Len(body) => Inked(body)[n] \in Seq(Line)}
<1>1. 0 \in S
  <2>1. <<>> \in Seq(Line)
    OBVIOUS
  <2> QED
    BY <2>1, InkedStep
<1>2. ASSUME NEW n \in Nat, n \in S
      PROVE  n + 1 \in S
  <2> SUFFICES ASSUME n + 1 =< Len(body)
               PROVE  Inked(body)[n + 1] \in Seq(Line)
    OBVIOUS
  <2>1. Len(body) \in Nat
    BY LenProperties
  <2>2. n + 1 \in 1 .. Len(body) /\ (n + 1) - 1 = n /\ n =< Len(body)
    BY <2>1
  <2>3. Inked(body)[n] \in Seq(Line) /\ body[n + 1] \in Line
    BY <1>2, <2>2, ElementOfSeq
  <2>4. Append(Inked(body)[n], body[n + 1]) \in Seq(Line)
    BY <2>3, AppendProperties
  <2> QED
    BY <2>2, <2>3, <2>4, InkedStep
<1>3. \A n \in Nat : n \in S
  <2> HIDE DEF S
  <2> QED
    BY <1>1, <1>2, SetInduction
<1> QED
  BY <1>3, LenProperties

LEMMA InkedBegins ==
  ASSUME NEW body \in Seq(Line), NEW j \in 0 .. Len(body)
  PROVE  Begins(Inked(body)[j], Inked(body)[Len(body)])
<1> DEFINE B(n) == Inked(body)[n]
           S == {n \in Nat : j + n =< Len(body) => Begins(B(j), B(j + n))}
<1>0. Len(body) \in Nat /\ j \in Nat
  BY LenProperties
<1>1. 0 \in S
  <2>1. B(j) \in Seq(Line)
    BY InkedType
  <2>2. Begins(B(j), B(j))
    BY <2>1, LenProperties DEF Begins
  <2>3. j + 0 = j
    BY <1>0
  <2> QED
    BY <2>2, <2>3
<1>2. ASSUME NEW n \in Nat, n \in S
      PROVE  n + 1 \in S
  <2> SUFFICES ASSUME j + (n + 1) =< Len(body)
               PROVE  Begins(B(j), B(j + (n + 1)))
    OBVIOUS
  <2> DEFINE k == j + n
  <2>1. /\ k \in 0 .. Len(body) /\ k + 1 \in 1 .. Len(body)
        /\ (k + 1) - 1 = k /\ j + (n + 1) = k + 1
    BY <1>0
  <2>2. Begins(B(j), B(k))
    BY <1>2, <2>1
  <2> HIDE DEF k
  <2>3. B(j) \in Seq(Line) /\ B(k) \in Seq(Line) /\ body[k + 1] \in Line
    BY <2>1, InkedType, ElementOfSeq
  <2>4. B(k + 1) = IF body[k + 1].blank THEN B(k) ELSE Append(B(k), body[k + 1])
    BY <2>1, InkedStep
  <2> HIDE DEF B
  <2>5. Begins(B(j), Append(B(k), body[k + 1]))
    <3>1. /\ Len(Append(B(k), body[k + 1])) = Len(B(k)) + 1
          /\ \A i \in 1 .. Len(B(k)) : Append(B(k), body[k + 1])[i] = B(k)[i]
      BY <2>3, AppendProperties
    <3>2. Len(B(k)) \in Nat /\ Len(B(j)) \in Nat
      BY <2>3, LenProperties
    <3> QED
      BY <2>2, <3>1, <3>2 DEF Begins
  <2>6. Begins(B(j), B(k + 1))
    BY <2>2, <2>4, <2>5
  <2> QED
    BY <2>1, <2>6
<1>3. \A n \in Nat : n \in S
  <2> HIDE DEF S
  <2> QED
    BY <1>1, <1>2, SetInduction
<1>4. Len(body) - j \in Nat /\ j + (Len(body) - j) = Len(body)
  BY <1>0
<1>5. Len(body) - j \in S
  BY <1>3, <1>4
<1> QED
  BY <1>4, <1>5

-----------------------------------------------------------------------------
(* The parameters, and what they make of a line. *)

(* The first of the pairs with one key. *)
LEMMA EmplacedIs ==
  ASSUME NEW S, S \subseteq Nat, NEW m \in S, \A i \in S : m =< i
  PROVE  Emplaced(S) = m
<1>1. Emplaced(S) \in S /\ \A i \in S : Emplaced(S) =< i
  BY DEF Emplaced
<1>2. Emplaced(S) \in Nat /\ m \in Nat
  BY <1>1
<1> QED
  BY <1>1, <1>2

(* A parameter the scanner is handed is one the query asks for. *)
LEMMA AskedIs ==
  ASSUME NEW key
  PROVE  Asked(key) <=>
           request.entry # "cmd" /\ Truth(get_param(request.query, key))
<1> DEFINE q == request.query
           at == {i \in 1 .. Len(q) : q[i].key = key}
<1>1. CASE at = {}
  BY <1>1 DEF Asked, Truth, get_param
<1>2. CASE at # {}
  <2>1. PICK m \in at : \A i \in at : m =< i
    <3>1. at \subseteq Nat
      OBVIOUS
    <3> HIDE DEF at
    <3> QED
      BY <1>2, <3>1, LeastExists
  <2>2. Emplaced(at) = m
    <3>1. at \subseteq Nat
      OBVIOUS
    <3> HIDE DEF at
    <3> QED
      BY <2>1, <3>1, EmplacedIs
  <2>3. get_param(q, key) = q[m].value
    BY <1>2, <2>2 DEF get_param
  <2>4. m \in 1 .. Len(q) /\ q[m].key = key
    OBVIOUS
  <2>5. \A j \in 1 .. m - 1 : q[j].key # key
    <3> SUFFICES ASSUME NEW j \in 1 .. m - 1, q[j].key = key
                 PROVE  FALSE
      OBVIOUS
    <3>1. j \in Int /\ m \in Int /\ j < m
      BY <2>4
    <3>2. j \in 1 .. Len(q)
      BY <2>4, <3>1
    <3> QED
      BY <2>1, <3>1, <3>2
  <2>6. \A i \in 1 .. Len(q) :
          q[i].key = key /\ (\A j \in 1 .. i - 1 : q[j].key # key) => i = m
    <3> SUFFICES ASSUME NEW i \in 1 .. Len(q), q[i].key = key,
                        \A j \in 1 .. i - 1 : q[j].key # key, i # m
                 PROVE  FALSE
      OBVIOUS
    <3>1. i \in Int /\ m \in Int /\ m =< i /\ 1 =< m
      BY <2>1, <2>4
    <3>2. m \in 1 .. i - 1
      BY <3>1
    <3> QED
      BY <2>4, <3>2
  <2> HIDE DEF q, at
  <2> QED
    BY <2>3, <2>4, <2>5, <2>6 DEF Asked, Truth, q
<1> QED
  BY <1>1, <1>2

LEMMA ParamsAre ==
  /\ RequestParams(request).warn_cap <=> Asked("warncap")
  /\ RequestParams(request).failed_log <=> Asked("failedlog")
BY AskedIs DEF RequestParams

(* Outside the ranges a line is matched, or in the reserve, as the reference
   says of its matchers. *)
LEMMA MatchWanted ==
  ASSUME NEW line \in Line, params.warn_cap <=> Asked("warncap")
  PROVE  /\ match_line(line, "NONE") \in Positive
              <=> line.hits \cap Wanted # {}
         /\ match_line(line, "NONE") = "NONE"
              <=> line.hits \cap (Wanted \cup Negative) = {}
<1> DEFINE hit(i) == Applies(MatchOrder[i], line, "NONE")
           m == match_line(line, "NONE")
<1>1. /\ hit(1) <=> "LOGLEVEL" \in line.hits
      /\ hit(2) <=> "WARNING_LOGLEVEL" \in line.hits /\ Asked("warncap")
      /\ hit(3) <=> "KEYWORD" \in line.hits
      /\ hit(4) <=> "STACK_LINE" \in line.hits
      /\ hit(5) <=> "EXPRESSION" \in line.hits
      /\ ~hit(6)
      /\ hit(7) <=> "SKIP_LOGLEVEL" \in line.hits
      /\ hit(8) <=> "EXCLUDE" \in line.hits
      /\ hit(9) <=> "EXPRESSION_EXCLUDE" \in line.hits
  BY DEF Applies, MatchOrder, is_matched, Positive
<1>2. /\ \A i \in 1 .. 5 : MatchOrder[i] \in Positive
      /\ \A i \in 7 .. 9 : MatchOrder[i] \in Negative
      /\ "NONE" \notin Positive \cup Negative
      /\ Positive \cap Negative = {}
  BY DEF MatchOrder, Positive, Negative
<1>3. \/ m = "NONE" /\ \A i \in 1 .. 9 : ~hit(i)
      \/ \E i \in 1 .. 9 :
           m = MatchOrder[i] /\ hit(i) /\ \A j \in 1 .. 9 : hit(j) => i =< j
  BY MatchLineFirst
<1>4. line.hits \cap Wanted # {} <=>
        hit(1) \/ hit(2) \/ hit(3) \/ hit(4) \/ hit(5)
  BY <1>1 DEF Wanted
<1>5. line.hits \cap (Wanted \cup Negative) # {} <=>
        line.hits \cap Wanted # {} \/ hit(7) \/ hit(8) \/ hit(9)
  BY <1>1 DEF Negative
<1> HIDE DEF hit, m
<1>6. m \in Positive <=> hit(1) \/ hit(2) \/ hit(3) \/ hit(4) \/ hit(5)
  <2>1. CASE m = "NONE" /\ \A i \in 1 .. 9 : ~hit(i)
    BY <1>2, <2>1
  <2>2. ASSUME NEW i \in 1 .. 9, m = MatchOrder[i], hit(i),
               \A j \in 1 .. 9 : hit(j) => i =< j
        PROVE  m \in Positive <=>
                 hit(1) \/ hit(2) \/ hit(3) \/ hit(4) \/ hit(5)
    <3>1. i # 6
      BY <1>1, <2>2
    <3>2. CASE i \in 1 .. 5
      <4>1. i = 1 \/ i = 2 \/ i = 3 \/ i = 4 \/ i = 5
        BY <3>2
      <4>2. m \in Positive
        BY <1>2, <2>2, <3>2
      <4> QED
        BY <2>2, <4>1, <4>2
    <3>3. CASE i \in 7 .. 9
      <4>1. m \notin Positive
        BY <1>2, <2>2, <3>3
      <4>2. ~hit(1) /\ ~hit(2) /\ ~hit(3) /\ ~hit(4) /\ ~hit(5)
        BY <2>2, <3>3
      <4> QED
        BY <4>1, <4>2
    <3> QED
      BY <3>1, <3>2, <3>3
  <2> QED
    BY <1>3, <2>1, <2>2
<1>7. m = "NONE" <=> \A i \in 1 .. 9 : ~hit(i)
  <2>1. \A i \in 1 .. 9 : hit(i) => MatchOrder[i] # "NONE"
    <3>1. \A i \in 1 .. 9 : i # 6 => MatchOrder[i] # "NONE"
      BY <1>2
    <3> QED
      BY <1>1, <3>1
  <2> QED
    BY <1>3, <2>1
<1>8. (\A i \in 1 .. 9 : ~hit(i)) <=>
        ~ (hit(1) \/ hit(2) \/ hit(3) \/ hit(4) \/ hit(5)
           \/ hit(7) \/ hit(8) \/ hit(9))
  <2>1. \A i \in 1 .. 9 : i = 1 \/ i = 2 \/ i = 3 \/ i = 4 \/ i = 5 \/ i = 6
                          \/ i = 7 \/ i = 8 \/ i = 9
    OBVIOUS
  <2> QED
    BY <1>1, <2>1
<1> QED
  BY <1>4, <1>5, <1>6, <1>7, <1>8 DEF m

-----------------------------------------------------------------------------
(* Lists and their lengths. *)

LEMMA IntervalCount ==
  ASSUME NEW n \in Nat
  PROVE  IsFiniteSet(1 .. n) /\ Cardinality(1 .. n) = n
<1>1. 1 \in Int /\ n \in Int /\ (IF 1 > n THEN 0 ELSE n - 1 + 1) = n
  OBVIOUS
<1>2. /\ IsFiniteSet(1 .. n)
      /\ Cardinality(1 .. n) = IF 1 > n THEN 0 ELSE n - 1 + 1
  BY <1>1, FS_Interval
<1> QED
  BY <1>1, <1>2

(* A list in ascending order has as many entries as it has numbers. *)
LEMMA ListCount ==
  ASSUME NEW types, NEW es \in Seq(Entry), NEW log \in Seq(Seen),
         Lists(es, types, log)
  PROVE  /\ Cardinality({es[k].number : k \in 1 .. Len(es)}) = Len(es)
         /\ Len(es) =< Len(log)
<1> DEFINE I == 1 .. Len(es)
           N == {es[k].number : k \in I}
           f == [k \in I |-> es[k].number]
<1>1. Len(es) \in Nat /\ Len(log) \in Nat
  BY LenProperties
<1>2. IsFiniteSet(I) /\ Cardinality(I) = Len(es)
  BY <1>1, IntervalCount
<1>3. f \in Surjection(I, N)
  BY DEF Surjection
<1>4. \A k \in I : es[k].number \in 1 .. Len(log)
  BY DEF Lists, Sound
<1>5. f \in Injection(I, N)
  <2>1. \A j, k \in I : j < k => es[j].number < es[k].number
    BY DEF Lists, Ascending
  <2>2. ASSUME NEW j \in I, NEW k \in I, j # k
        PROVE  es[j].number # es[k].number
    <3>1. j < k \/ k < j
      BY <2>2
    <3> QED
      BY <1>1, <1>4, <2>1, <3>1
  <2> QED
    BY <2>2 DEF Injection, IsInjective
<1>6. Cardinality(N) = Len(es)
  <2> HIDE DEF I, N, f
  <2> QED
    BY <1>2, <1>3, <1>5, FS_Surjection
<1>7. Cardinality(N) =< Len(log)
  <2>1. N \in SUBSET (1 .. Len(log))
    BY <1>4
  <2>2. IsFiniteSet(1 .. Len(log)) /\ Cardinality(1 .. Len(log)) = Len(log)
    BY <1>1, IntervalCount
  <2> HIDE DEF N
  <2> QED
    BY <2>1, <2>2, FS_Subset
<1> QED
  BY <1>6, <1>7

-----------------------------------------------------------------------------
(* The inductive invariant. *)

LEMMA RequestBody ==
  ASSUME NEW r \in Request \cup {NoCall}
  PROVE  r.body \in Seq(Line) /\ Len(r.body) \in Nat
<1>1. r.body \in Seq(Line)
  <2>1. CASE r \in Request
    BY <2>1, RequestAssumption DEF RequestType
  <2>2. CASE r = NoCall
    <3>1. r.body = <<>>
      BY <2>2 DEF NoCall
    <3> QED
      BY <3>1, EmptySeq
  <2> QED
    BY <2>1, <2>2
<1> QED
  BY <1>1, LenProperties

(* The body without its blank lines. *)
LEMMA BodyType ==
  ASSUME request \in Request
  PROVE  Body \in Seq(Line) /\ Len(Body) \in Nat
<1>1. request.body \in Seq(Line) /\ Len(request.body) \in Nat
  BY RequestBody
<1>2. Body \in Seq(Line)
  BY <1>1, InkedType DEF Body
<1> QED
  BY <1>2, LenProperties

(* Before the first call. *)
LEMMA ServiceInvInit == ServiceInit => ServiceInv
<1> SUFFICES ASSUME ServiceInit PROVE ServiceInv
  OBVIOUS
<1>1. IInv /\ TypeOK
  BY InvInit DEF ServiceInit, IInv
<1>2. /\ rest = <<>> /\ seen = <<>> /\ pc = "idle"
      /\ response = [status |-> "none", lines |-> <<>>]
  BY DEF ServiceInit, Init, Nothing
<1>3. ServiceTypeOK /\ Len(seen) =< MaxLines
  BY <1>1, <1>2, BoundAssumption DEF ServiceTypeOK, Status
<1> QED
  BY <1>1, <1>2, <1>3 DEF ServiceInv

(* A call that begins has read nothing. *)
LEMMA AdmitInv ==
  ASSUME NEW r \in Request, Admit(r), IInv'
  PROVE  ServiceInv'
<1>1. /\ pc' = "reading" /\ seen' = <<>> /\ captured' = "NONE"
      /\ params' = RequestParams(r) /\ request' = r /\ rest' = r.body
      /\ response' = [status |-> "none", lines |-> <<>>]
  BY DEF Admit, Begin, Enter, Nothing
<1>2. r.body \in Seq(Line) /\ Len(r.body) \in Nat
  BY RequestBody
<1>3. ServiceTypeOK' /\ (Len(seen) =< MaxLines)'
  BY <1>1, <1>2, BoundAssumption DEF ServiceTypeOK, Status, IInv
<1>4. Read' = 0
  BY <1>1, <1>2 DEF Read
<1>5. Progress'
  BY <1>1, <1>2, <1>4 DEF Progress
<1>6. Mirrored'
  <2>1. (Inked(request.body)[Read])' = Inked(r.body)[0]
    BY <1>1, <1>4
  <2> QED
    BY <1>1, <1>2, <2>1, InkedStep DEF Mirrored
<1>7. Ranged' /\ Sorted'
  BY <1>1 DEF Ranged, Sorted
<1> QED
  BY <1>1, <1>3, <1>5, <1>6, <1>7 DEF ServiceInv

(* The next line of the body, and what is left behind it. *)
LEMMA RestStep ==
  ASSUME Progress, rest \in Seq(Line), rest # <<>>, rest' = Tail(rest),
         UNCHANGED <<params, request>>
  PROVE  /\ Progress'
         /\ Read \in Nat /\ Read + 1 \in 1 .. Len(request.body)
         /\ Read' = Read + 1
         /\ Head(rest) \in Line /\ Head(rest) = request.body[Read + 1]
<1>1. request.body \in Seq(Line) /\ Len(request.body) \in Nat
  BY RequestBody DEF Progress
<1>2. /\ Head(rest) \in Line /\ Tail(rest) \in Seq(Line)
      /\ Len(Tail(rest)) = Len(rest) - 1
      /\ \A i \in 1 .. Len(Tail(rest)) : Tail(rest)[i] = rest[i + 1]
  BY HeadTailProperties
<1>3. Len(rest) \in Nat \ {0} /\ Head(rest) = rest[1]
  BY EmptySeq
<1>4. /\ Read \in Nat /\ Read + 1 \in 1 .. Len(request.body)
      /\ Read' = Read + 1
  BY <1>1, <1>2, <1>3 DEF Read, Progress
<1>5. Head(rest) = request.body[Read + 1]
  BY <1>3 DEF Progress
<1>6. \A i \in 1 .. Len(rest') : rest'[i] = request'.body[Read' + i]
  <2> SUFFICES ASSUME NEW i \in 1 .. Len(rest')
               PROVE  rest'[i] = request.body[(Read + 1) + i]
    BY <1>4
  <2>1. i \in Nat /\ i + 1 \in 1 .. Len(rest) /\ rest'[i] = rest[i + 1]
    BY <1>2, <1>3
  <2>2. rest[i + 1] = request.body[Read + (i + 1)]
    BY <2>1 DEF Progress
  <2>3. Read + (i + 1) = (Read + 1) + i
    BY <1>4, <2>1
  <2> QED
    BY <2>1, <2>2, <2>3
<1>7. Progress'
  <2>1. Len(rest') =< Len(request'.body)
    BY <1>1, <1>2, <1>3 DEF Progress
  <2>2. RequestParams(request)' = RequestParams(request)
    BY DEF RequestParams, get_param
  <2> QED
    BY <1>6, <2>1, <2>2 DEF Progress
<1> QED
  BY <1>2, <1>4, <1>5, <1>7

(* The reference depends on the request alone. *)
LEMMA ReferenceStays ==
  ASSUME UNCHANGED request
  PROVE  /\ Body' = Body
         /\ \A i : Inside(i)' = Inside(i)
         /\ \A i : Kept(i)' <=> Kept(i)
         /\ \A i : Spare(i)' <=> Spare(i)
<1>1. Body' = Body /\ Wanted' = Wanted
  BY DEF Body, Wanted, Asked
<1>2. \A i : Inside(i)' = Inside(i)
  BY <1>1 DEF Inside
<1>3. \A i : Swallowed(i)' <=> Swallowed(i)
  BY <1>1, <1>2 DEF Swallowed
<1> QED
  BY <1>1, <1>2, <1>3 DEF Kept, Spare

(* What holds of the lines seen, while they stay and the request does. *)
LEMMA SeenStays ==
  ASSUME UNCHANGED <<request, seen, captured, rangemp>>, Ranged, Sorted
  PROVE  Ranged' /\ Sorted'
BY ReferenceStays DEF Ranged, Sorted

(* A line not blank is the next one of the body without its blank lines, and
   the range it is left in the reference's. *)
LEMMA NextLine ==
  ASSUME Progress, Mirrored, seen \in Seq(Seen),
         NEW n, n = Len(seen), NEW line \in Line, ~line.blank,
         Read \in Nat, Read + 1 \in 1 .. Len(request.body),
         line = request.body[Read + 1]
  PROVE  /\ n \in Nat
         /\ n + 1 \in 1 .. Len(Body)
         /\ Body[n + 1] = line
         /\ Len(Inked(request.body)[Read + 1]) = n + 1
         /\ Inside(0) = 0
         /\ Inside(n + 1) = Left(line, Inside(n))
<1> DEFINE body == request.body
           B(k) == Inked(body)[k]
<1>1. body \in Seq(Line) /\ Len(body) \in Nat
  BY RequestBody DEF Progress
<1>2. n \in Nat
  BY LenProperties
<1>3. Read \in 0 .. Len(body) /\ Read + 1 \in 0 .. Len(body) /\ (Read + 1) - 1 = Read
  BY <1>1
<1>4. B(Read + 1) = Append(B(Read), line)
  BY <1>1, <1>3, InkedStep
<1>5. B(Read) \in Seq(Line) /\ Len(B(Read)) = n
  BY <1>1, <1>3, InkedType DEF Mirrored
<1>6. Len(B(Read + 1)) = n + 1 /\ B(Read + 1)[n + 1] = line
  <2> HIDE DEF B
  <2> QED
    BY <1>4, <1>5, AppendProperties
<1>7. Begins(B(Read + 1), Body)
  BY <1>1, <1>3, InkedBegins DEF Body
<1>8. Body \in Seq(Line) /\ Len(Body) \in Nat
  BY BodyType DEF Progress
<1> HIDE DEF B
<1>9. n + 1 \in 1 .. Len(Body) /\ Body[n + 1] = line
  BY <1>2, <1>6, <1>7, <1>8 DEF Begins
<1>10. Inside(0) = 0 /\ Inside(n + 1) = Left(line, Inside(n))
  <2>1. (n + 1) - 1 = n
    BY <1>2
  <2> QED
    BY <1>8, <1>9, <2>1, RangesStep DEF Inside
<1> QED
  BY <1>2, <1>6, <1>9, <1>10 DEF B

(* What the scanner makes of the next line is what the reference makes of it:
   captured and rangemp stand for the range it is in. *)
LEMMA NextType ==
  ASSUME TypeOK, Carried, Progress, Ranged, NEW n, n = Len(seen), n \in Nat,
         NEW line \in Line, Body[n + 1] = line,
         Inside(0) = 0, Inside(n + 1) = Left(line, Inside(n))
  PROVE  /\ Classify(line) = "RANGE_START" <=> Inside(n + 1) # 0
         /\ Classify(line) = "RANGE_START" => NextRange(line) = Inside(n + 1)
         /\ Classify(line) \in Positive <=> Kept(n + 1)
         /\ Classify(line) = "NONE" <=> Spare(n + 1)
<1> DEFINE type == Classify(line)
<1>1. captured = "RANGE_START" <=> Inside(n) # 0
  <2>1. CASE seen = <<>>
    BY <2>1 DEF Carried
  <2>2. CASE seen # <<>>
    <3>1. n \in 1 .. Len(seen)
      BY <2>2, EmptySeq DEF TypeOK
    <3> QED
      BY <2>2, <3>1 DEF Carried, Ranged
  <2> QED
    BY <2>1, <2>2
<1>2. captured = "RANGE_START" => rangemp = Inside(n)
  BY DEF Ranged
<1>3. line.ends \cap line.endThrows = {}
  BY LineAssumption
<1>4. line.starts # {} => FirstRange(line.starts) # 0
  <2>1. line.starts \subseteq RangeId
    BY LineAssumption DEF LineType
  <2>2. 0 \notin RangeId
    BY BoundAssumption DEF RangeId
  <2> QED
    BY <2>1, <2>2, FirstRangeType
<1>5. match_line(line, "NONE") \notin {"RANGE_START", "RANGE_END"}
  BY MatchLineType DEF Positive, Negative
<1>6. /\ type = "RANGE_START" <=> Inside(n + 1) # 0
      /\ type = "RANGE_START" => NextRange(line) = Inside(n + 1)
      /\ type = "RANGE_END" <=> Inside(n) # 0 /\ Inside(n) \in line.ends
  <2>1. CASE captured = "RANGE_START"
    BY <1>1, <1>2, <1>3, <1>5, <2>1
    DEF Classify, match_range_exclude, EndsRange, NextRange, Left
  <2>2. CASE captured # "RANGE_START"
    BY <1>1, <1>4, <1>5, <2>2
    DEF Classify, match_range_exclude, EndsRange, NextRange, RangeOf, Left
  <2> QED
    BY <2>1, <2>2
<1>7. Swallowed(n + 1) <=> type \in {"RANGE_START", "RANGE_END"}
  <2>1. (n + 1) - 1 = n
    OBVIOUS
  <2> QED
    BY <1>6, <2>1 DEF Swallowed
<1>8. type \notin {"RANGE_START", "RANGE_END"} => type = match_line(line, "NONE")
  BY DEF Classify, match_range_exclude
<1>9. params.warn_cap <=> Asked("warncap")
  BY ParamsAre DEF Progress
<1>10. /\ match_line(line, "NONE") \in Positive
            <=> line.hits \cap Wanted # {}
       /\ match_line(line, "NONE") = "NONE"
            <=> line.hits \cap (Wanted \cup Negative) = {}
  BY <1>9, MatchWanted
<1> HIDE DEF type
<1>11. type \in {"RANGE_START", "RANGE_END"} => type \notin Positive /\ type # "NONE"
  BY DEF Positive
<1>12. type \in Positive <=> Kept(n + 1)
  BY <1>7, <1>8, <1>10, <1>11 DEF Kept
<1>13. type = "NONE" <=> Spare(n + 1)
  BY <1>7, <1>8, <1>10, <1>11 DEF Spare
<1> QED
  BY <1>6, <1>12, <1>13 DEF type

(* One line scanned. *)
LEMMA FeedScan ==
  ASSUME ServiceInv, rest # <<>>, Scan(Head(rest)), rest' = Tail(rest),
         UNCHANGED <<request, response>>, IInv'
  PROVE  ServiceInv'
<1> DEFINE line == Head(rest)
           s == [line |-> line, type |-> Classify(line)]
           n == Len(seen)
<1>1. /\ TypeOK /\ Carried /\ Progress /\ Mirrored /\ Ranged /\ Sorted
      /\ rest \in Seq(Line) /\ seen \in Seq(Seen)
  BY DEF ServiceInv, ServiceTypeOK, IInv, TypeOK, Scan
<1>2. /\ pc = "reading" /\ pc' = "reading" /\ Len(seen) < MaxLines
      /\ ~line.blank /\ UNCHANGED params
  BY DEF Scan
<1>3. /\ Progress'
      /\ Read \in Nat /\ Read + 1 \in 1 .. Len(request.body)
      /\ Read' = Read + 1
      /\ line \in Line /\ line = request.body[Read + 1]
  BY <1>1, <1>2, RestStep
<1>4. /\ s \in Seen /\ seen' = Append(seen, s)
      /\ captured' = s.type /\ rangemp' = NextRange(line)
  BY <1>1, <1>3, ScanStep
<1>5. /\ n \in Nat /\ n + 1 \in 1 .. Len(Body) /\ Body[n + 1] = line
      /\ Len(Inked(request.body)[Read + 1]) = n + 1
      /\ Inside(0) = 0 /\ Inside(n + 1) = Left(line, Inside(n))
  BY <1>1, <1>2, <1>3, NextLine
<1>6. /\ s.type = "RANGE_START" <=> Inside(n + 1) # 0
      /\ s.type = "RANGE_START" => NextRange(line) = Inside(n + 1)
      /\ s.type \in Positive <=> Kept(n + 1)
      /\ s.type = "NONE" <=> Spare(n + 1)
  BY <1>1, <1>3, <1>5, NextType
<1>7. s.line = line
  OBVIOUS
<1> HIDE DEF s, line
<1>8. /\ Len(seen') = n + 1 /\ seen'[n + 1] = s
      /\ \A i \in 1 .. n : seen'[i] = seen[i]
  BY <1>1, <1>4, LogAppend
<1> HIDE DEF n
<1>9. \A i \in 1 .. Len(seen') : i = n + 1 \/ i \in 1 .. n
  BY <1>5, <1>8
<1>10. Mirrored'
  <2>1. (Inked(request.body)[Read])' = Inked(request.body)[Read + 1]
    BY <1>3
  <2>2. \A i \in 1 .. Len(seen') : seen'[i].line = Body[i]
    BY <1>1, <1>5, <1>7, <1>8, <1>9 DEF Mirrored, n
  <2> QED
    BY <1>5, <1>8, <2>1, <2>2, ReferenceStays DEF Mirrored
<1>11. Ranged'
  <2>1. \A i \in 1 .. Len(seen') : seen'[i].type = "RANGE_START" <=> Inside(i) # 0
    BY <1>1, <1>6, <1>8, <1>9 DEF Ranged, n
  <2> QED
    BY <1>4, <1>6, <1>8, <2>1, ReferenceStays DEF Ranged
<1>12. Sorted'
  <2>1. \A i \in 1 .. Len(seen') :
          /\ seen'[i].type \in Positive <=> Kept(i)
          /\ seen'[i].type = "NONE" <=> Spare(i)
    BY <1>1, <1>6, <1>8, <1>9 DEF Sorted, n
  <2> QED
    BY <2>1, ReferenceStays DEF Sorted
<1>13. ServiceTypeOK' /\ (Len(seen) =< MaxLines)'
  <2>1. rest' \in Seq(Line)
    BY <1>1, HeadTailProperties
  <2>2. Len(seen') =< MaxLines
    BY <1>2, <1>5, <1>8, BoundAssumption DEF n
  <2> QED
    BY <2>1, <2>2 DEF ServiceInv, ServiceTypeOK, IInv
<1> QED
  BY <1>2, <1>3, <1>10, <1>11, <1>12, <1>13 DEF ServiceInv

(* One blank line skipped. *)
LEMMA FeedBlank ==
  ASSUME ServiceInv, rest # <<>>, SkipBlank(Head(rest)), rest' = Tail(rest),
         UNCHANGED <<request, response>>, IInv'
  PROVE  ServiceInv'
<1>1. /\ Progress /\ Mirrored /\ Ranged /\ Sorted /\ rest \in Seq(Line)
      /\ pc = "reading" /\ Head(rest).blank
      /\ UNCHANGED <<pc, params, captured, rangemp, seen>>
  BY DEF ServiceInv, ServiceTypeOK, SkipBlank, vars
<1>2. /\ Progress'
      /\ Read \in Nat /\ Read + 1 \in 1 .. Len(request.body)
      /\ Read' = Read + 1
      /\ Head(rest) = request.body[Read + 1]
  BY <1>1, RestStep
<1>3. Inked(request.body)[Read + 1] = Inked(request.body)[Read]
  <2>1. request.body \in Seq(Line) /\ (Read + 1) - 1 = Read
    BY <1>1, <1>2, RequestBody DEF Progress
  <2> QED
    BY <1>1, <1>2, <2>1, InkedStep
<1>4. Mirrored'
  <2>1. (Inked(request.body)[Read])' = Inked(request.body)[Read]
    BY <1>2, <1>3
  <2> QED
    BY <1>1, <2>1, ReferenceStays DEF Mirrored
<1>5. Ranged' /\ Sorted'
  BY <1>1, SeenStays
<1>6. ServiceTypeOK' /\ (Len(seen) =< MaxLines)'
  <2>1. rest' \in Seq(Line)
    BY <1>1, HeadTailProperties
  <2> QED
    BY <1>1, <2>1 DEF ServiceInv, ServiceTypeOK, IInv
<1> QED
  BY <1>1, <1>2, <1>4, <1>5, <1>6 DEF ServiceInv

(* The end of a body: everything was read, and the results are rendered. *)
LEMMA AnswerInv ==
  ASSUME ServiceInv, Answer, IInv'
  PROVE  ServiceInv'
<1>1. /\ Progress /\ Mirrored /\ Ranged /\ Sorted
      /\ pc = "reading" /\ pc' = "returned" /\ rest = <<>>
      /\ UNCHANGED <<params, captured, rangemp, seen, request, rest>>
      /\ response'.lines = Render(request, results')
      /\ response'.status \in {"exit", "200"}
  BY DEF ServiceInv, Answer, Finish, Swaps
<1>2. Progress' /\ Mirrored'
  <2>1. Read' = Read /\ RequestParams(request)' = RequestParams(request)
    BY <1>1 DEF Read, RequestParams, get_param
  <2>2. (Inked(request.body)[Read])' = Inked(request.body)[Read]
    BY <1>1, <2>1
  <2> QED
    BY <1>1, <2>1, <2>2, ReferenceStays DEF Progress, Mirrored
<1>3. Ranged' /\ Sorted'
  BY <1>1, SeenStays
<1>4. Len(response'.lines) =< MaxLines
  <2>1. results' \in Seq(Entry) /\ seen' \in Seq(Seen) /\ Len(seen') =< MaxLines
    BY <1>1 DEF IInv, TypeOK, ServiceInv
  <2>2. \E types : Lists(results', types, seen')
    BY <1>1 DEF IInv, ReturnedReport
  <2>3. Len(results') =< Len(seen')
    BY <2>1, <2>2, ListCount
  <2>4. Len(results') \in Nat /\ Len(seen') \in Nat
    BY <2>1, LenProperties
  <2>5. Len(Render(request, results')) = Len(results')
    BY <2>4 DEF Render
  <2> QED
    BY <1>1, <2>1, <2>3, <2>4, <2>5, BoundAssumption
<1>5. ServiceTypeOK' /\ (Len(seen) =< MaxLines)'
  BY <1>1, <1>4 DEF ServiceInv, ServiceTypeOK, Status, IInv
<1>6. (response.lines = Render(request, results))'
  BY <1>1 DEF Render, Json, get_param
<1> QED
  BY <1>1, <1>2, <1>3, <1>5, <1>6 DEF ServiceInv

(* Every action keeps the invariant: one step per action. *)
LEMMA ServiceInvStep ==
  ServiceInv /\ [ServiceNext]_<<vars, service>> => ServiceInv'
<1> SUFFICES ASSUME ServiceInv, [ServiceNext]_<<vars, service>>
             PROVE  ServiceInv'
  OBVIOUS
<1>1. IInv
  BY DEF ServiceInv
<1>2. ASSUME NEW r \in Request, TurnAway(r)
      PROVE  ServiceInv'
  <2>1. /\ pc = "idle" /\ UNCHANGED vars /\ rest' = <<>>
        /\ response' = [status |-> Turned(r), lines |-> <<>>]
    BY <1>2 DEF TurnAway, Ready, Nothing
  <2>2. IInv'
    BY <1>1, <2>1, InvStep
  <2>3. Turned(r) \in Status
    BY Zenon DEF Turned, Status
  <2>4. pc' = "idle" /\ seen' = seen
    BY <2>1 DEF vars
  <2>5. ServiceTypeOK' /\ (Len(seen) =< MaxLines)'
    BY <2>1, <2>2, <2>3, <2>4, BoundAssumption
    DEF ServiceInv, ServiceTypeOK, IInv
  <2> QED
    BY <2>2, <2>4, <2>5 DEF ServiceInv
<1>3. ASSUME NEW r \in Request, Admit(r)
      PROVE  ServiceInv'
  <2>1. Next
    BY <1>3 DEF Admit, Next
  <2>2. IInv'
    BY <1>1, <2>1, InvStep
  <2> QED
    BY <1>3, <2>2, AdmitInv
<1>4. ASSUME NEW r \in Request, AdmitNoFile(r)
      PROVE  ServiceInv'
  <2>1. /\ OpenFails /\ pc' = "nofile" /\ seen' = <<>> /\ rest' = <<>>
        /\ response' = [status |-> "exit", lines |-> <<>>]
    BY <1>4 DEF AdmitNoFile, OpenFails, Enter, Nothing
  <2>2. IInv'
    BY <1>1, <2>1, InvStep DEF Next
  <2>3. ServiceTypeOK' /\ (Len(seen) =< MaxLines)'
    BY <2>1, <2>2, BoundAssumption DEF ServiceTypeOK, Status, IInv
  <2> QED
    BY <2>1, <2>2, <2>3 DEF ServiceInv
<1>5. CASE Feed
  <2>1. Head(rest) \in Line
    BY <1>5, HeadTailProperties DEF ServiceInv, ServiceTypeOK, Feed
  <2>2. Next
    BY <1>5, <2>1 DEF Feed, Next
  <2>3. IInv'
    BY <1>1, <2>2, InvStep
  <2> QED
    BY <1>5, <2>3, FeedScan, FeedBlank DEF Feed
<1>6. CASE Answer
  <2>1. IInv'
    BY <1>1, <1>6, InvStep DEF Answer, Next
  <2> QED
    BY <1>6, <2>1, AnswerInv
<1>7. CASE Fail
  <2>1. rest # <<>> => Head(rest) \in Line
    BY HeadTailProperties DEF ServiceInv, ServiceTypeOK
  <2>2. Next
    BY <1>7, <2>1 DEF Fail, Next
  <2>3. IInv'
    BY <1>1, <2>2, InvStep
  <2>4. /\ pc' = "threw" /\ seen' = seen /\ rest' = rest
        /\ response'.status \in {"abort", "500"} /\ response'.lines = <<>>
    BY <1>7 DEF Fail, ScanThrows, FinishThrows, Nothing
  <2>5. ServiceTypeOK' /\ (Len(seen) =< MaxLines)'
    BY <2>3, <2>4, BoundAssumption DEF ServiceInv, ServiceTypeOK, Status, IInv
  <2> QED
    BY <2>3, <2>4, <2>5 DEF ServiceInv
<1>8. CASE Leave
  <2>1. ServiceInit'
    BY <1>8 DEF Leave, ServiceInit, Init
  <2> QED
    BY <2>1, ServiceInvInit, PTL
<1>9. CASE UNCHANGED <<vars, service>>
  <2>1. UNCHANGED vars /\ UNCHANGED <<request, rest, response>>
    BY <1>9 DEF service
  <2>2. IInv'
    BY <1>1, <2>1, InvStep
  <2>3. UNCHANGED <<pc, params, captured, rangemp, results, seen>>
    BY <2>1 DEF vars
  <2>4. /\ Read' = Read /\ RequestParams(request)' = RequestParams(request)
        /\ Render(request, results)' = Render(request, results)
    BY <2>1, <2>3 DEF Read, RequestParams, Render, Json, get_param
  <2>5. Progress /\ Mirrored => Progress' /\ Mirrored'
    <3>1. (Inked(request.body)[Read])' = Inked(request.body)[Read]
      BY <2>1, <2>4
    <3> QED
      BY <2>1, <2>3, <2>4, <3>1, ReferenceStays DEF Progress, Mirrored
  <2>6. Ranged /\ Sorted => Ranged' /\ Sorted'
    BY <2>1, <2>3, SeenStays
  <2>7. ServiceTypeOK' /\ (Len(seen) =< MaxLines)'
    BY <2>1, <2>2, <2>3 DEF ServiceInv, ServiceTypeOK, IInv
  <2> QED
    BY <2>1, <2>2, <2>3, <2>4, <2>5, <2>6, <2>7 DEF ServiceInv
<1> QED
  BY <1>2, <1>3, <1>4, <1>5, <1>6, <1>7, <1>8, <1>9 DEF ServiceNext

(* What was read of a body is mirrored by what was seen of it, and each line
   seen has the type the reference gives it, in every state of every call. *)
THEOREM ServiceInvariant == ServiceSpec => []ServiceInv
<1> QED
  BY ServiceInvInit, ServiceInvStep, PTL DEF ServiceSpec

(* Every variable of the service keeps its type, and no answer has more lines
   than the log it was given. *)
THEOREM ServiceTypeCorrect == ServiceSpec => []ServiceTypeOK
<1>1. ServiceInv => ServiceTypeOK
  BY DEF ServiceInv
<1> QED
  BY <1>1, ServiceInvariant, PTL

-----------------------------------------------------------------------------
(* The answer. *)

(* When a call returns, every line of its body was seen. *)
LEMMA WholeBodySeen ==
  ASSUME ServiceInv, pc = "returned"
  PROVE  /\ Len(seen) = Len(Body) /\ Len(Body) \in Nat
         /\ \A i \in 1 .. Len(Body) : seen[i].line = Body[i]
<1>1. Progress /\ Mirrored /\ rest = <<>> /\ request \in Request
  BY DEF ServiceInv, Progress
<1>2. request.body \in Seq(Line) /\ Len(request.body) \in Nat
  BY <1>1, RequestBody
<1>3. Read = Len(request.body)
  BY <1>1, <1>2 DEF Read
<1>4. Len(seen) = Len(Body)
  BY <1>1, <1>3 DEF Mirrored, Body
<1> QED
  BY <1>1, <1>4, BodyType DEF Mirrored

(* The reserve is returned when the reference says so. *)
LEMMA ReserveIs ==
  ASSUME ServiceInv, pc = "returned"
  PROVE  /\ NothingMatched <=> KeptLines = {}
         /\ LogFailed <=> Failed
<1>1. /\ Len(seen) = Len(Body) /\ Len(Body) \in Nat
      /\ \A i \in 1 .. Len(Body) : seen[i].line = Body[i]
  BY WholeBodySeen
<1>2. Progress /\ Sorted /\ seen \in Seq(Seen) /\ Body \in Seq(Line)
  BY BodyType DEF ServiceInv, IInv, TypeOK, Progress
<1>3. NothingMatched <=> KeptLines = {}
  BY <1>1, <1>2 DEF NothingMatched, KeptLines, Sorted
<1>4. params.failed_log <=> Asked("failedlog")
  BY <1>2, ParamsAre DEF Progress
<1>5. LastFlag = "failed" <=> Body # <<>> /\ Body[Len(Body)].flag = "failed"
  <2>1. seen = <<>> <=> Len(seen) = 0
    BY <1>2, EmptySeq
  <2>2. Body = <<>> <=> Len(Body) = 0
    BY <1>2, EmptySeq
  <2>3. CASE Len(Body) = 0
    BY <1>1, <2>1, <2>2, <2>3 DEF LastFlag
  <2>4. CASE Len(Body) # 0
    <3>1. Len(Body) \in 1 .. Len(Body)
      BY <1>1, <2>4
    <3>2. seen[Len(seen)].line = Body[Len(Body)]
      BY <1>1, <3>1
    <3> QED
      BY <1>1, <2>1, <2>2, <2>4, <3>2 DEF LastFlag
  <2> QED
    BY <2>3, <2>4
<1> QED
  BY <1>3, <1>4, <1>5 DEF LogFailed, Failed

(* A list of the lines of some types holds the numbers of the lines that have
   one of these types. *)
LEMMA ListNumbers ==
  ASSUME NEW types, NEW es, NEW log, Lists(es, types, log)
  PROVE  {es[k].number : k \in 1 .. Len(es)} =
           {i \in 1 .. Len(log) : log[i].type \in types}
<1>1. \A k \in 1 .. Len(es) :
        es[k].number \in 1 .. Len(log) /\ log[es[k].number].type \in types
  BY DEF Lists, Sound
<1>2. \A i \in 1 .. Len(log) :
        log[i].type \in types => \E k \in 1 .. Len(es) : es[k].number = i
  BY DEF Lists, Complete
<1> QED
  BY <1>1, <1>2

(* A call that succeeds returns exactly the lines the reference names, for
   bodies of every length and whatever the query. *)
THEOREM AnswerIsReferenceHolds == ServiceSpec => []AnswerIsReference
<1>1. ServiceInv => AnswerIsReference
  <2> SUFFICES ASSUME ServiceInv, pc = "returned"
               PROVE  /\ {results[k].number : k \in 1 .. Len(results)} = Expected
                      /\ Len(response.lines) = Cardinality(Expected)
                      /\ \A j, k \in 1 .. Len(results) :
                           j < k => results[j].number < results[k].number
                      /\ \A k \in 1 .. Len(results) :
                           response.lines[k].line = Body[results[k].number]
    BY DEF AnswerIsReference
  <2> DEFINE types == IF NothingMatched /\ LogFailed THEN {"NONE"} ELSE Positive
  <2>1. /\ Lists(results, types, seen) /\ Sorted
        /\ results \in Seq(Entry) /\ seen \in Seq(Seen)
        /\ response.lines = Render(request, results)
    BY DEF ServiceInv, IInv, TypeOK, ReturnedReport
  <2>2. /\ Len(seen) = Len(Body)
        /\ \A i \in 1 .. Len(Body) : seen[i].line = Body[i]
    BY WholeBodySeen
  <2>3. {i \in 1 .. Len(seen) : seen[i].type \in types} = Expected
    <3>1. CASE NothingMatched /\ LogFailed
      <4>1. Expected = SpareLines
        BY <3>1, ReserveIs DEF Expected
      <4> QED
        BY <2>1, <2>2, <3>1, <4>1 DEF SpareLines, Sorted
    <3>2. CASE ~ (NothingMatched /\ LogFailed)
      <4>1. Expected = KeptLines
        BY <3>2, ReserveIs DEF Expected
      <4> QED
        BY <2>1, <2>2, <3>2, <4>1 DEF KeptLines, Sorted
    <3> QED
      BY <3>1, <3>2
  <2> HIDE DEF types
  <2>4. {results[k].number : k \in 1 .. Len(results)} = Expected
    BY <2>1, <2>3, ListNumbers
  <2>5. Cardinality(Expected) = Len(results) /\ Len(results) \in Nat
    BY <2>1, <2>4, ListCount, LenProperties
  <2>6. Len(response.lines) = Len(results)
    BY <2>1, <2>5 DEF Render
  <2>7. \A j, k \in 1 .. Len(results) :
          j < k => results[j].number < results[k].number
    BY <2>1 DEF Lists, Ascending
  <2>8. ASSUME NEW k \in 1 .. Len(results)
        PROVE  response.lines[k].line = Body[results[k].number]
    <3>1. results[k].number \in 1 .. Len(seen)
          /\ results[k].line = seen[results[k].number].line
      BY <2>1 DEF Lists, Sound
    <3>2. response.lines[k].line = results[k].line
      BY <2>1 DEF Render
    <3> QED
      BY <2>2, <3>1, <3>2
  <2> QED
    BY <2>4, <2>5, <2>6, <2>7, <2>8
<1> QED
  BY <1>1, ServiceInvariant, PTL
=============================================================================
