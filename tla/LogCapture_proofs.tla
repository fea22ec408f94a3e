-------------------------- MODULE LogCapture_proofs -------------------------
(***************************************************************************)
(* Proofs about the log scanner, for every set of lines, every number of   *)
(* ranges and logs of every length.                                        *)
(***************************************************************************)
EXTENDS LogCapture, Recursion, SequenceTheorems, TLAPS

-----------------------------------------------------------------------------
(* Facts about the operators. *)

(* The range entered is one whose start pattern hit, the first of them. *)
LEMMA FirstRangeType ==
  ASSUME NEW S, S \subseteq RangeId, S # {}
  PROVE  FirstRange(S) \in S
<1>1. S \subseteq Nat
  BY BoundAssumption DEF RangeId
<1>2. PICK m \in S : \A n \in S : m =< n
  BY <1>1, LeastExists
<1> QED
  BY <1>2 DEF FirstRange

(* The matcher match_line chooses is the first that applies. *)
LEMMA MatchLineFirst ==
  ASSUME NEW line, NEW last
  PROVE  \/ /\ match_line(line, last) = "NONE"
            /\ \A i \in 1 .. 9 : ~Applies(MatchOrder[i], line, last)
         \/ \E i \in 1 .. 9 :
              /\ match_line(line, last) = MatchOrder[i]
              /\ Applies(MatchOrder[i], line, last)
              /\ \A j \in 1 .. 9 : Applies(MatchOrder[j], line, last) => i =< j
<1> DEFINE hit == {i \in DOMAIN MatchOrder :
                     Applies(MatchOrder[i], line, last)}
<1>1. DOMAIN MatchOrder = 1 .. 9
  BY DEF MatchOrder
<1>2. CASE hit = {}
  BY <1>1, <1>2 DEF match_line
<1>3. CASE hit # {}
  <2>1. PICK m \in hit : \A j \in hit : m =< j
    <3>1. hit \subseteq Nat
      BY <1>1
    <3> HIDE DEF hit
    <3> QED
      BY <1>3, <3>1, LeastExists
  <2> DEFINE i == CHOOSE i \in hit : \A j \in hit : i =< j
  <2>2. i \in hit /\ \A j \in hit : i =< j
    BY <2>1
  <2>3. match_line(line, last) = MatchOrder[i]
    BY <1>3 DEF match_line
  <2> HIDE DEF i
  <2> QED
    BY <1>1, <2>2, <2>3
<1> QED
  BY <1>2, <1>3

(* match_line never yields a range type. *)
LEMMA MatchLineType ==
  ASSUME NEW line, NEW last
  PROVE  match_line(line, last) \in Positive \cup Negative \cup {"NONE"}
<1>1. \A i \in 1 .. 9 : MatchOrder[i] \in Positive \cup Negative
  BY DEF MatchOrder, Positive, Negative
<1> QED
  BY <1>1, MatchLineFirst

(* An error line is matched whatever else hits it. *)
LEMMA MatchLinePositive ==
  ASSUME NEW line, NEW last, Demanded(line)
  PROVE  match_line(line, last) \in Positive
<1>1. \E i \in 1 .. 5 : Applies(MatchOrder[i], line, last)
  BY DEF Applies, MatchOrder, Demanded
<1>2. \A i \in 1 .. 5 : MatchOrder[i] \in Positive
  BY DEF MatchOrder, Positive
<1> QED
  BY <1>1, <1>2, MatchLineFirst

(* match_range_exclude and match_line return members of MatchType. *)
LEMMA ClassifyType ==
  ASSUME NEW line
  PROVE  Classify(line) \in MatchType
<1>1. match_range_exclude(line, captured, rangemp)
        \in {"RANGE_START", "RANGE_END", "NONE"}
  BY DEF match_range_exclude, EndsRange
<1>2. match_line(line, "NONE") \in MatchType
  BY MatchLineType DEF MatchType
<1> QED
  BY <1>1, <1>2 DEF Classify, MatchType

(* The range a line opens is one of the table, or none. *)
LEMMA NextRangeType ==
  ASSUME NEW line \in Line, rangemp \in RangeId \cup {NoRange}
  PROVE  NextRange(line) \in RangeId \cup {NoRange}
<1>1. line.starts \subseteq RangeId
  BY LineAssumption DEF LineType
<1>2. line.starts # {} => FirstRange(line.starts) \in RangeId
  BY <1>1, FirstRangeType
<1> QED
  BY <1>2 DEF NextRange, RangeOf

-----------------------------------------------------------------------------
(* Type correctness. *)

LEMMA TypeInit == Init => TypeOK
  BY DEF Init, TypeOK, MatchType, Entry, Seen

LEMMA TypeStep == TypeOK /\ [Next]_vars => TypeOK'
<1> SUFFICES ASSUME TypeOK, [Next]_vars
             PROVE  TypeOK'
  OBVIOUS
<1>1. CASE Begin
  BY <1>1 DEF TypeOK, Begin, Enter, Clear, MatchType
<1>2. CASE OpenFails
  BY <1>2 DEF TypeOK, OpenFails, Enter, Clear, MatchType
<1>3. ASSUME NEW line \in Line, Scan(line)
      PROVE  TypeOK'
  <2> DEFINE type == Classify(line)
             entry == [number |-> line_number, line |-> line, type |-> type]
  <2>1. type \in MatchType
    BY ClassifyType
  <2>2. entry \in Entry /\ [line |-> line, type |-> type] \in Seen
    BY <2>1 DEF TypeOK, Entry, Seen
  <2>3. NextRange(line) \in RangeId \cup {NoRange}
    BY NextRangeType DEF TypeOK
  <2>4. /\ captured' = type
        /\ rangemp' = NextRange(line)
        /\ results' = IF is_matched(type) THEN Append(results, entry)
                      ELSE results
        /\ none_results' = IF type = "NONE" THEN Append(none_results, entry)
                           ELSE none_results
        /\ seen' = Append(seen, [line |-> line, type |-> type])
        /\ line_number' = line_number + 1
        /\ UNCHANGED <<pc, params>>
    BY <1>3 DEF Scan
  <2> HIDE DEF type, entry
  <2>5. results' \in Seq(Entry) /\ none_results' \in Seq(Entry)
    BY <2>2, <2>4, AppendProperties DEF TypeOK
  <2>6. seen' \in Seq(Seen)
    BY <2>2, <2>4, AppendProperties DEF TypeOK
  <2> QED
    BY <2>1, <2>3, <2>4, <2>5, <2>6 DEF TypeOK
<1>4. ASSUME NEW line \in Line, SkipBlank(line) \/ ScanThrows(line)
      PROVE  TypeOK'
  BY <1>4 DEF TypeOK, SkipBlank, ScanThrows, vars
<1>5. CASE Finish
  BY <1>5 DEF TypeOK, Finish, Swaps
<1>6. CASE FinishThrows
  BY <1>6 DEF TypeOK, FinishThrows
<1>7. CASE UNCHANGED vars
  BY <1>7 DEF TypeOK, vars
<1> QED
  BY <1>1, <1>2, <1>3, <1>4, <1>5, <1>6, <1>7 DEF Next

(* Every variable of the scanner keeps its type, in logs of any length. *)
THEOREM TypeCorrect == Spec => []TypeOK
<1> QED
  BY TypeInit, TypeStep, PTL DEF Spec

-----------------------------------------------------------------------------
(* The results and the reserve. *)

LEMMA LogAppend ==
  ASSUME NEW log \in Seq(Seen), NEW s \in Seen
  PROVE  /\ Append(log, s) \in Seq(Seen)
         /\ Len(Append(log, s)) = Len(log) + 1
         /\ \A i \in 1 .. Len(log) : Append(log, s)[i] = log[i]
         /\ Append(log, s)[Len(log) + 1] = s
         /\ Len(log) \in Nat
  BY AppendProperties

(* Nothing lists the lines of an empty log. *)
LEMMA ListsEmpty ==
  ASSUME NEW types
  PROVE  Lists(<<>>, types, <<>>)
  BY DEF Lists, Sound, Ascending, Complete

(* A line of another type leaves a list complete. *)
LEMMA ListsSkip ==
  ASSUME NEW types, NEW es \in Seq(Entry), NEW log \in Seq(Seen),
         NEW s \in Seen, s.type \notin types, Lists(es, types, log)
  PROVE  Lists(es, types, Append(log, s))
<1> DEFINE more == Append(log, s)
<1>1. /\ Len(more) = Len(log) + 1
      /\ \A i \in 1 .. Len(log) : more[i] = log[i]
      /\ more[Len(log) + 1] = s
      /\ Len(log) \in Nat
  BY LogAppend
<1> HIDE DEF more
<1>2. Sound(es, types, more)
  BY <1>1 DEF Lists, Sound
<1>3. Complete(es, types, more)
  <2> SUFFICES ASSUME NEW i \in 1 .. Len(more), more[i].type \in types
               PROVE  \E k \in 1 .. Len(es) : es[k].number = i
    BY DEF Complete
  <2>1. i # Len(log) + 1
    BY <1>1
  <2>2. i \in 1 .. Len(log)
    BY <1>1, <2>1
  <2> QED
    BY <1>1, <2>2 DEF Lists, Complete
<1> QED
  BY <1>2, <1>3 DEF Lists, more

(* A line of one of the types, appended under its number, is listed. *)
LEMMA ListsMore ==
  ASSUME NEW types, NEW es \in Seq(Entry), NEW log \in Seq(Seen),
         NEW s \in Seen, s.type \in types, Lists(es, types, log),
         NEW e \in Entry,
         e.number = Len(log) + 1, e.line = s.line, e.type = s.type
  PROVE  Lists(Append(es, e), types, Append(log, s))
<1> DEFINE more == Append(log, s)
           list == Append(es, e)
<1>1. /\ Len(more) = Len(log) + 1
      /\ \A i \in 1 .. Len(log) : more[i] = log[i]
      /\ more[Len(log) + 1] = s
      /\ Len(log) \in Nat
  BY LogAppend
<1>2. /\ Len(list) = Len(es) + 1
      /\ \A k \in 1 .. Len(es) : list[k] = es[k]
      /\ list[Len(es) + 1] = e
      /\ Len(es) \in Nat
  BY AppendProperties
<1> HIDE DEF more, list
<1>3. Sound(list, types, more)
  <2> SUFFICES ASSUME NEW k \in 1 .. Len(list)
               PROVE  /\ list[k].number \in 1 .. Len(more)
                      /\ list[k].line = more[list[k].number].line
                      /\ list[k].type = more[list[k].number].type
                      /\ list[k].type \in types
    BY DEF Sound
  <2>1. CASE k = Len(es) + 1
    BY <1>1, <1>2, <2>1
  <2>2. CASE k \in 1 .. Len(es)
    BY <1>1, <1>2, <2>2 DEF Lists, Sound
  <2> QED
    BY <1>2, <2>1, <2>2
<1>4. Ascending(list)
  <2> SUFFICES ASSUME NEW j \in 1 .. Len(list), NEW k \in 1 .. Len(list), j < k
               PROVE  list[j].number < list[k].number
    BY DEF Ascending
  <2>1. j \in 1 .. Len(es)
    BY <1>2
  <2>2. CASE k = Len(es) + 1
    BY <1>1, <1>2, <2>1, <2>2 DEF Lists, Sound
  <2>3. CASE k \in 1 .. Len(es)
    BY <1>2, <2>1, <2>3 DEF Lists, Ascending
  <2> QED
    BY <1>2, <2>2, <2>3
<1>5. Complete(list, types, more)
  <2> SUFFICES ASSUME NEW i \in 1 .. Len(more), more[i].type \in types
               PROVE  \E k \in 1 .. Len(list) : list[k].number = i
    BY DEF Complete
  <2>1. CASE i = Len(log) + 1
    BY <1>2, <2>1
  <2>2. CASE i \in 1 .. Len(log)
    <3>1. PICK k \in 1 .. Len(es) : es[k].number = i
      BY <1>1, <2>2 DEF Lists, Complete
    <3> QED
      BY <1>2, <3>1
  <2> QED
    BY <1>1, <2>1, <2>2
<1> QED
  BY <1>3, <1>4, <1>5 DEF Lists, more, list

(* An empty complete list of the matched lines: nothing matched. *)
LEMMA ListsNothing ==
  ASSUME seen \in Seq(Seen), results \in Seq(Entry),
         Lists(results, Positive, seen)
  PROVE  results = <<>> <=> NothingMatched
<1>1. CASE results = <<>>
  BY <1>1 DEF Lists, Complete, NothingMatched
<1>2. CASE results # <<>>
  <2>1. 1 \in 1 .. Len(results)
    BY <1>2, EmptySeq
  <2> QED
    BY <1>2, <2>1 DEF Lists, Sound, NothingMatched
<1> QED
  BY <1>1, <1>2

-----------------------------------------------------------------------------
(* The exclusion ranges. *)

(* What happened up to line i does not depend on the lines after it. *)
LEMMA OpenPrefix ==
  ASSUME NEW log \in Seq(Seen), NEW s \in Seen,
         NEW j \in 1 .. Len(log), NEW i \in 0 .. Len(log)
  PROVE  /\ Opener(Append(log, s), j) <=> Opener(log, j)
         /\ Opened(Append(log, s), j) = Opened(log, j)
         /\ Open(Append(log, s), j, i) <=> Open(log, j, i)
<1> DEFINE more == Append(log, s)
<1>1. /\ \A k \in 1 .. Len(log) : more[k] = log[k]
      /\ Len(log) \in Nat
  BY LogAppend
<1> HIDE DEF more
<1>2. Opener(more, j) <=> Opener(log, j)
  BY <1>1 DEF Opener
<1>3. Opened(more, j) = Opened(log, j)
  BY <1>1 DEF Opened
<1>4. \A k \in (j + 1) .. i : Leaves(more, j, k) <=> Leaves(log, j, k)
  BY <1>1, <1>3 DEF Leaves
<1> QED
  BY <1>2, <1>3, <1>4 DEF Open, more

(* A range is open at the new last line when it was open before it and that
   line does not leave it. *)
LEMMA OpenLast ==
  ASSUME NEW log \in Seq(Seen), NEW s \in Seen, NEW j \in 1 .. Len(log)
  PROVE  Open(Append(log, s), j, Len(log) + 1) <=>
           /\ Open(log, j, Len(log))
           /\ Opened(log, j) \notin s.line.ends \cup s.line.endThrows
<1> DEFINE more == Append(log, s)
           n == Len(log)
<1>1. n \in Nat /\ more[n + 1] = s
  BY LogAppend
<1>2. /\ Opener(more, j) <=> Opener(log, j)
      /\ Opened(more, j) = Opened(log, j)
      /\ Open(more, j, n) <=> Open(log, j, n)
  BY <1>1, OpenPrefix
<1>3. Leaves(more, j, n + 1) <=>
        Opened(log, j) \in s.line.ends \cup s.line.endThrows
  BY <1>1, <1>2 DEF Leaves
<1> HIDE DEF more, n
<1>4. Open(more, j, n + 1) <=> Open(more, j, n) /\ ~Leaves(more, j, n + 1)
  <2>1. j \in 1 .. n
    BY DEF n
  <2>2. (j + 1) .. (n + 1) = ((j + 1) .. n) \cup {n + 1}
    BY <1>1, <2>1
  <2> QED
    BY <2>2 DEF Open
<1> QED
  BY <1>2, <1>3, <1>4 DEF more, n

(* A longer log does not change what covers or closes its earlier lines. *)
LEMMA CoverPrefix ==
  ASSUME NEW log \in Seq(Seen), NEW s \in Seen, NEW i \in 1 .. Len(log)
  PROVE  /\ Covered(Append(log, s), i) <=> Covered(log, i)
         /\ Closes(Append(log, s), i) <=> Closes(log, i)
<1>1. Len(log) \in Nat /\ Append(log, s)[i] = log[i]
  BY LogAppend
<1>2. \A j \in 1 .. i : Open(Append(log, s), j, i) <=> Open(log, j, i)
  BY <1>1, OpenPrefix
<1>3. \A j \in 1 .. (i - 1) :
        /\ Open(Append(log, s), j, i - 1) <=> Open(log, j, i - 1)
        /\ Opened(Append(log, s), j) = Opened(log, j)
  BY <1>1, OpenPrefix
<1> QED
  BY <1>1, <1>2, <1>3 DEF Covered, Closes

(* The same for the new last line. *)
LEMMA CoverLast ==
  ASSUME NEW log \in Seq(Seen), NEW s \in Seen
  PROVE  /\ Covered(Append(log, s), Len(log) + 1) <=>
              \/ Opener(Append(log, s), Len(log) + 1)
              \/ \E j \in 1 .. Len(log) :
                   /\ Open(log, j, Len(log))
                   /\ Opened(log, j) \notin s.line.ends \cup s.line.endThrows
         /\ Closes(Append(log, s), Len(log) + 1) <=>
              \E j \in 1 .. Len(log) :
                Open(log, j, Len(log)) /\ Opened(log, j) \in s.line.ends
<1> DEFINE more == Append(log, s)
           n == Len(log)
<1>1. n \in Nat /\ more[n + 1] = s
  BY LogAppend
<1>2. \A j \in 1 .. n :
        /\ Open(more, j, n) <=> Open(log, j, n)
        /\ Opened(more, j) = Opened(log, j)
        /\ Open(more, j, n + 1) <=>
             /\ Open(log, j, n)
             /\ Opened(log, j) \notin s.line.ends \cup s.line.endThrows
  BY <1>1, OpenPrefix, OpenLast
<1> HIDE DEF more, n
<1>3. Open(more, n + 1, n + 1) <=> Opener(more, n + 1)
  BY <1>1 DEF Open
<1>4. Covered(more, n + 1) <=>
        Opener(more, n + 1) \/ \E j \in 1 .. n : Open(more, j, n + 1)
  <2>1. 1 .. (n + 1) = (1 .. n) \cup {n + 1}
    BY <1>1
  <2> QED
    BY <1>3, <2>1 DEF Covered
<1>5. Closes(more, n + 1) <=>
        \E j \in 1 .. n : Open(more, j, n) /\ Opened(more, j) \in s.line.ends
  <2>1. n + 1 - 1 = n
    BY <1>1
  <2> QED
    BY <1>1, <2>1 DEF Closes
<1> QED
  BY <1>2, <1>4, <1>5 DEF more, n

(* One iteration of the loop, seen from the log. *)
LEMMA ScanStep ==
  ASSUME TypeOK, Carried, NEW line \in Line, Scan(line)
  PROVE  LET s == [line |-> line, type |-> Classify(line)]
         IN  /\ s \in Seen
             /\ seen \in Seq(Seen)
             /\ seen' = Append(seen, s)
             /\ captured' = s.type
             /\ rangemp' = NextRange(line)
             /\ Carried'
<1> DEFINE s == [line |-> line, type |-> Classify(line)]
<1>1. s \in Seen
  BY ClassifyType DEF Seen
<1>2. /\ seen \in Seq(Seen)
      /\ seen' = Append(seen, s)
      /\ captured' = s.type
      /\ rangemp' = NextRange(line)
      /\ line_number' = line_number + 1
  BY DEF TypeOK, Scan
<1> HIDE DEF s
<1>3. Carried'
  BY <1>1, <1>2, LogAppend, AppendProperties DEF Carried
<1> QED
  BY <1>1, <1>2, <1>3 DEF s

(* Outside a range the new line opens one or is matched. *)
LEMMA RangeOutside ==
  ASSUME TypeOK, Carried, Tracked, captured # "RANGE_START",
         NEW line \in Line, Scan(line)
  PROVE  /\ seen'[Len(seen) + 1].type = "RANGE_START"
              <=> Covered(seen', Len(seen) + 1)
         /\ seen'[Len(seen) + 1].type = "RANGE_END"
              <=> Closes(seen', Len(seen) + 1)
         /\ Tracked'
<1> DEFINE s == [line |-> line, type |-> Classify(line)]
           n == Len(seen)
<1>1. /\ s \in Seen /\ s.line = line /\ seen \in Seq(Seen)
      /\ seen' = Append(seen, s)
      /\ captured' = s.type
      /\ rangemp' = NextRange(line)
  BY ScanStep
<1>2. /\ n \in Nat /\ Len(seen') = n + 1 /\ seen'[n + 1] = s
      /\ \A i \in 1 .. n : seen'[i] = seen[i]
  BY <1>1, LogAppend
<1>3. \A j \in 1 .. n : ~Open(seen, j, n)
  BY DEF Tracked
<1>4. s.type = "RANGE_START" <=> line.starts # {}
  BY MatchLineType DEF Classify, match_range_exclude, EndsRange, Positive, Negative
<1>5. s.type # "RANGE_END"
  BY MatchLineType DEF Classify, match_range_exclude, EndsRange, Positive, Negative
<1>6. line.starts # {} => NextRange(line) = FirstRange(line.starts)
  BY DEF NextRange, RangeOf
<1> HIDE DEF s, n
<1>7. Opener(seen', n + 1) <=> line.starts # {}
  <2>1. n > 0 => seen'[n] = seen[n] /\ seen[n].type # "RANGE_START"
    BY <1>1, <1>2, EmptySeq DEF Carried, n
  <2> QED
    BY <1>1, <1>2, <1>4, <2>1 DEF Opener
<1>8. Covered(seen', n + 1) <=> Opener(seen', n + 1)
  BY <1>1, <1>3, CoverLast DEF n
<1>9. ~Closes(seen', n + 1)
  BY <1>1, <1>3, CoverLast DEF n
<1>10. Tracked'
  <2> SUFFICES ASSUME NEW j \in 1 .. (n + 1), Open(seen', j, n + 1)
               PROVE  captured' = "RANGE_START" /\ rangemp' = Opened(seen', j)
    BY <1>2 DEF Tracked
  <2>1. j = n + 1
    <3> SUFFICES ASSUME j \in 1 .. n PROVE FALSE
      BY <1>2
    <3> QED
      BY <1>1, <1>3, OpenLast DEF n
  <2>2. Opener(seen', n + 1)
    BY <2>1 DEF Open
  <2> QED
    BY <1>1, <1>2, <1>4, <1>6, <1>7, <2>1, <2>2 DEF Opened
<1> QED
  BY <1>2, <1>4, <1>5, <1>7, <1>8, <1>9, <1>10 DEF n

(* Inside a range the new line is swallowed, ends the range or loses it. *)
LEMMA RangeInside ==
  ASSUME TypeOK, Carried, Tracked, RangeDiscipline, captured = "RANGE_START",
         NEW line \in Line, Scan(line)
  PROVE  /\ seen'[Len(seen) + 1].type = "RANGE_START"
              <=> Covered(seen', Len(seen) + 1)
         /\ seen'[Len(seen) + 1].type = "RANGE_END"
              <=> Closes(seen', Len(seen) + 1)
         /\ Tracked'
<1> DEFINE s == [line |-> line, type |-> Classify(line)]
           n == Len(seen)
<1>1. /\ s \in Seen /\ s.line = line /\ seen \in Seq(Seen)
      /\ seen' = Append(seen, s)
      /\ captured' = s.type
      /\ rangemp' = NextRange(line)
  BY ScanStep
<1>2. /\ n \in Nat /\ Len(seen') = n + 1 /\ seen'[n + 1] = s
      /\ \A i \in 1 .. n : seen'[i] = seen[i]
  BY <1>1, LogAppend
<1>3. n > 0 /\ seen[n].type = "RANGE_START"
  BY <1>1, <1>2, EmptySeq DEF Carried
<1>4. PICK j0 \in 1 .. n : Open(seen, j0, n)
  BY <1>2, <1>3 DEF RangeDiscipline, Covered
<1>5. \A j \in 1 .. n : Open(seen, j, n) => Opened(seen, j) = rangemp
  BY DEF Tracked
<1>6. line.ends \cap line.endThrows = {}
  BY LineAssumption
<1>7. s.type = "RANGE_START" <=> rangemp \notin line.ends \cup line.endThrows
  BY <1>6, MatchLineType DEF Classify, match_range_exclude, EndsRange, Positive, Negative
<1>8. s.type = "RANGE_END" <=> rangemp \in line.ends
  BY <1>6, MatchLineType DEF Classify, match_range_exclude, EndsRange, Positive, Negative
<1>9. rangemp' = rangemp
  BY <1>1 DEF NextRange, RangeOf
<1> HIDE DEF s, n
<1>10. ~Opener(seen', n + 1)
  BY <1>2, <1>3 DEF Opener
<1>11. Covered(seen', n + 1) <=> rangemp \notin line.ends \cup line.endThrows
  BY <1>1, <1>4, <1>5, <1>10, CoverLast DEF n
<1>12. Closes(seen', n + 1) <=> rangemp \in line.ends
  BY <1>1, <1>4, <1>5, CoverLast DEF n
<1>13. Tracked'
  <2> SUFFICES ASSUME NEW j \in 1 .. (n + 1), Open(seen', j, n + 1)
               PROVE  captured' = "RANGE_START" /\ rangemp' = Opened(seen', j)
    BY <1>2 DEF Tracked
  <2>1. j \in 1 .. n
    BY <1>2, <1>10 DEF Open
  <2>2. Open(seen, j, n)
        /\ Opened(seen, j) \notin line.ends \cup line.endThrows
    BY <1>1, <2>1, OpenLast DEF n
  <2>3. Opened(seen', j) = rangemp
    <3>1. n \in 0 .. n
      BY <1>2
    <3>2. Opened(seen', j) = Opened(seen, j)
      BY <1>1, <2>1, <3>1, OpenPrefix DEF n
    <3> QED
      BY <1>5, <2>1, <2>2, <3>2
  <2> QED
    BY <1>1, <1>5, <1>7, <1>9, <2>1, <2>2, <2>3
<1> QED
  BY <1>2, <1>7, <1>8, <1>11, <1>12, <1>13 DEF n

(* One line read keeps ranges disciplined and rangemp in step with them. *)
LEMMA RangeScan ==
  ASSUME TypeOK, Carried, Tracked, RangeDiscipline,
         NEW line \in Line, Scan(line)
  PROVE  RangeDiscipline' /\ Tracked'
<1> DEFINE s == [line |-> line, type |-> Classify(line)]
           n == Len(seen)
<1>1. s \in Seen /\ seen \in Seq(Seen) /\ seen' = Append(seen, s)
  BY ScanStep
<1>2. /\ n \in Nat /\ Len(seen') = n + 1
      /\ \A i \in 1 .. n : seen'[i] = seen[i]
  BY <1>1, LogAppend
<1>3. /\ seen'[n + 1].type = "RANGE_START" <=> Covered(seen', n + 1)
      /\ seen'[n + 1].type = "RANGE_END" <=> Closes(seen', n + 1)
      /\ Tracked'
  BY RangeOutside, RangeInside
<1> HIDE DEF s
<1>4. ASSUME NEW i \in 1 .. n
      PROVE  /\ seen'[i].type = "RANGE_START" <=> Covered(seen', i)
             /\ seen'[i].type = "RANGE_END" <=> Closes(seen', i)
  BY <1>1, <1>2, CoverPrefix DEF RangeDiscipline
<1> HIDE DEF n
<1> QED
  BY <1>2, <1>3, <1>4 DEF RangeDiscipline

-----------------------------------------------------------------------------
(* The inductive invariant. *)

LEMMA Fresh ==
  ASSUME pc' \in {"reading", "nofile"}, captured' = "NONE",
         line_number' = 1, results' = <<>>, none_results' = <<>>, seen' = <<>>
  PROVE  /\ Carried' /\ ScanAccounts' /\ ReturnedReport'
         /\ RangeDiscipline' /\ Tracked' /\ Classified'
<1>1. Carried'
  BY DEF Carried
<1>2. ScanAccounts' /\ ReturnedReport'
  BY ListsEmpty DEF ScanAccounts, ReturnedReport
<1>3. RangeDiscipline' /\ Tracked' /\ Classified'
  BY DEF RangeDiscipline, Tracked, Classified
<1> QED
  BY <1>1, <1>2, <1>3

(* Before the first call the log and the results are empty. *)
LEMMA InvInit == Init => IInv
<1> SUFFICES ASSUME Init PROVE IInv
  OBVIOUS
<1>1. TypeOK
  BY TypeInit
<1>2. Carried /\ ScanAccounts /\ ReturnedReport
  BY DEF Init, Carried, ScanAccounts, ReturnedReport
<1>3. RangeDiscipline /\ Tracked /\ Classified
  BY DEF Init, RangeDiscipline, Tracked, Classified
<1> QED
  BY <1>1, <1>2, <1>3 DEF IInv

(* One iteration lists its line where its type belongs. *)
LEMMA AccountsScan ==
  ASSUME TypeOK, Carried, ScanAccounts, NEW line \in Line, Scan(line)
  PROVE  ScanAccounts' /\ ReturnedReport'
<1> DEFINE s == [line |-> line, type |-> Classify(line)]
           e == [number |-> line_number, line |-> line,
                 type |-> Classify(line)]
<1>1. s \in Seen /\ seen \in Seq(Seen) /\ seen' = Append(seen, s)
  BY ScanStep
<1>2. /\ e \in Entry
      /\ e.number = Len(seen) + 1 /\ e.line = s.line /\ e.type = s.type
  BY <1>1 DEF Entry, Seen, TypeOK, Carried
<1>3. /\ pc = "reading" /\ pc' = "reading"
      /\ results' = IF s.type \in Positive THEN Append(results, e)
                    ELSE results
      /\ none_results' = IF s.type \in {"NONE"} THEN Append(none_results, e)
                         ELSE none_results
  BY DEF Scan, is_matched
<1>4. /\ results \in Seq(Entry) /\ none_results \in Seq(Entry)
      /\ Lists(results, Positive, seen)
      /\ Lists(none_results, {"NONE"}, seen)
  BY <1>3 DEF TypeOK, ScanAccounts
<1> HIDE DEF s, e
<1>5. Lists(results', Positive, seen')
  BY <1>1, <1>2, <1>3, <1>4, ListsMore, ListsSkip
<1>6. Lists(none_results', {"NONE"}, seen')
  BY <1>1, <1>2, <1>3, <1>4, ListsMore, ListsSkip
<1> QED
  BY <1>3, <1>5, <1>6 DEF ScanAccounts, ReturnedReport

(* One line read is classified as its own matchers say. *)
LEMMA ClassifiedScan ==
  ASSUME TypeOK, Carried, Classified, NEW line \in Line, Scan(line)
  PROVE  Classified'
<1> DEFINE s == [line |-> line, type |-> Classify(line)]
<1>1. s \in Seen /\ seen \in Seq(Seen) /\ seen' = Append(seen, s)
  BY ScanStep
<1>2. Demanded(line) =>
        s.type \in Positive \cup {"RANGE_START", "RANGE_END"}
  BY MatchLinePositive DEF Classify, match_range_exclude, EndsRange
<1>3. s.line = line
  OBVIOUS
<1> HIDE DEF s
<1>4. /\ Len(seen) \in Nat /\ Len(seen') = Len(seen) + 1
      /\ seen'[Len(seen) + 1] = s
      /\ \A i \in 1 .. Len(seen) : seen'[i] = seen[i]
  BY <1>1, LogAppend
<1> SUFFICES ASSUME NEW i \in 1 .. Len(seen'),
                    Demanded(seen'[i].line)
             PROVE  seen'[i].type \in Positive \cup {"RANGE_START", "RANGE_END"}
  BY DEF Classified
<1>5. CASE i = Len(seen) + 1
  BY <1>2, <1>3, <1>4, <1>5
<1>6. CASE i \in 1 .. Len(seen)
  BY <1>4, <1>6 DEF Classified
<1> QED
  BY <1>4, <1>5, <1>6

(* The end of a call hands over what the loop has gathered. *)
LEMMA AccountsFinish ==
  ASSUME TypeOK, ScanAccounts, Finish
  PROVE  ScanAccounts' /\ ReturnedReport'
<1>1. /\ pc = "reading" /\ pc' = "returned"
      /\ results' = IF results = <<>> /\ LogFailed THEN none_results
                    ELSE results
      /\ UNCHANGED <<params, seen>>
  BY DEF Finish, Swaps
<1>2. /\ Lists(results, Positive, seen)
      /\ Lists(none_results, {"NONE"}, seen)
      /\ results = <<>> <=> NothingMatched
  BY <1>1, ListsNothing DEF ScanAccounts, TypeOK
<1>3. NothingMatched' = NothingMatched /\ LogFailed' = LogFailed
  BY <1>1 DEF NothingMatched, LogFailed, LastFlag
<1> QED
  BY <1>1, <1>2, <1>3 DEF ScanAccounts, ReturnedReport

(* Every action keeps the invariant: one step per action. *)
LEMMA InvStep == IInv /\ [Next]_vars => IInv'
<1> SUFFICES ASSUME IInv, [Next]_vars
             PROVE  IInv'
  OBVIOUS
<1> USE DEF IInv
<1>1. TypeOK'
  BY TypeStep
<1>2. CASE Begin
  BY <1>1, <1>2, Fresh DEF Begin, Enter, Clear
<1>3. CASE OpenFails
  BY <1>1, <1>3, Fresh DEF OpenFails, Enter, Clear
<1>4. ASSUME NEW line \in Line, Scan(line)
      PROVE  IInv'
  BY <1>1, <1>4, ScanStep, AccountsScan, RangeScan, ClassifiedScan
<1>5. ASSUME NEW line \in Line, SkipBlank(line)
      PROVE  UNCHANGED vars
  BY <1>5 DEF SkipBlank
<1>6. ASSUME UNCHANGED <<captured, rangemp, line_number, seen>>
      PROVE  Carried' /\ RangeDiscipline' /\ Tracked' /\ Classified'
  BY <1>6 DEF Carried, RangeDiscipline, Tracked, Classified
<1>7. ASSUME (\E line \in Line : ScanThrows(line)) \/ FinishThrows
      PROVE  IInv'
  <2>1. /\ pc = "reading" /\ pc' = "threw"
        /\ UNCHANGED <<captured, rangemp, line_number, results, none_results,
                       seen>>
    BY <1>7 DEF ScanThrows, FinishThrows
  <2>2. ScanAccounts' /\ ReturnedReport'
    BY <2>1 DEF ScanAccounts, ReturnedReport
  <2> QED
    BY <1>1, <1>6, <2>1, <2>2
<1>8. CASE Finish
  <2>1. UNCHANGED <<captured, rangemp, line_number, seen>>
    BY <1>8 DEF Finish, Swaps
  <2> QED
    BY <1>1, <1>6, <1>8, <2>1, AccountsFinish
<1>9. CASE UNCHANGED vars
  <2>1. UNCHANGED <<pc, params, captured, rangemp, line_number, results,
                    none_results, seen>>
    BY <1>9 DEF vars
  <2>2. ScanAccounts' /\ ReturnedReport'
    BY <2>1 DEF ScanAccounts, ReturnedReport, NothingMatched, LogFailed,
                LastFlag
  <2> QED
    BY <1>1, <1>6, <2>1, <2>2
<1> QED
  BY <1>2, <1>3, <1>4, <1>5, <1>7, <1>8, <1>9 DEF Next

(* The two variables the loop carries from line to line stand for the whole
   log, in every state of every call. *)
THEOREM Invariant == Spec => []IInv
<1> QED
  BY InvInit, InvStep, PTL DEF Spec

-----------------------------------------------------------------------------
(* What follows from it. *)

(* The scanner neither loses, doubles nor reorders a line. *)
THEOREM ScanAccountsHolds == Spec => []ScanAccounts
<1>1. IInv => ScanAccounts
  BY DEF IInv
<1> QED
  BY <1>1, Invariant, PTL

(* A call returns the matched lines, or the reserve by the rule for it. *)
THEOREM ReturnedReportHolds == Spec => []ReturnedReport
<1>1. IInv => ReturnedReport
  BY DEF IInv
<1> QED
  BY <1>1, Invariant, PTL

(* Lines are swallowed exactly between the patterns of one range. *)
THEOREM RangeDisciplineHolds == Spec => []RangeDiscipline
<1>1. IInv => RangeDiscipline
  BY DEF IInv
<1> QED
  BY <1>1, Invariant, PTL

(* No error outside the ranges is missing from the results. *)
THEOREM ErrorsReportedHolds == Spec => []ErrorsReported
<1>1. IInv => ErrorsReported
  <2> SUFFICES ASSUME IInv, pc \in {"reading", "returned"},
                      NEW i \in 1 .. Len(seen),
                      Demanded(seen[i].line),
                      ~Covered(seen, i), ~Closes(seen, i)
               PROVE  Reported(i)
    BY DEF ErrorsReported
  <2>1. seen[i].type \in Positive
    BY DEF IInv, RangeDiscipline, Classified
  <2>2. Lists(results, Positive, seen)
    BY <2>1 DEF IInv, ScanAccounts, ReturnedReport, NothingMatched
  <2> QED
    BY <2>1, <2>2 DEF Lists, Complete, Reported
<1> QED
  BY <1>1, Invariant, PTL

(* MATCH_ERROR_FOLLOWING is dead: no log makes the scanner give a line that
   type, because the range check has overwritten last_captured with NONE
   whenever match_line is reached. *)
NeverFollowing == captured # "ERROR_FOLLOWING"
THEOREM FollowingIsDead == Spec => []NeverFollowing
<1>1. Init => NeverFollowing
  BY DEF Init, NeverFollowing
<1>2. ASSUME NEW line PROVE Classify(line) # "ERROR_FOLLOWING"
  <2>1. match_line(line, "NONE") # "ERROR_FOLLOWING"
    <3>1. \A j \in 1 .. 9 :
            Applies(MatchOrder[j], line, "NONE") =>
              MatchOrder[j] # "ERROR_FOLLOWING"
      BY DEF Applies, is_matched, Positive
    <3> QED
      BY <3>1, MatchLineFirst
  <2> QED
    BY <2>1 DEF Classify, match_range_exclude, EndsRange
<1>3. NeverFollowing /\ [Next]_vars => NeverFollowing'
  BY <1>2 DEF NeverFollowing, Next, Begin, OpenFails, Enter, Clear, SkipBlank, Scan,
              ScanThrows, Finish, Swaps, FinishThrows, vars
<1> QED
  BY <1>1, <1>3, PTL DEF Spec

-----------------------------------------------------------------------------
(* Refinement. *)

LEMMA ContractReport ==
  ASSUME IInv, NEW line \in Line, Scan(line)
  PROVE  [Contract!Next]_(Contract!vars)
<1> DEFINE e == [number |-> line_number, line |-> line,
                 type |-> Classify(line)]
<1>1. /\ pc = "reading" /\ pc' = "reading"
      /\ results' = IF e.type \in Positive THEN Append(results, e)
                    ELSE results
  BY DEF Scan, is_matched
<1>2. e \in Entry /\ results \in Seq(Entry)
  BY ClassifyType DEF Entry, IInv, TypeOK
<1>3. e.number = Len(seen) + 1 /\ Len(seen) \in Nat
  BY LenProperties DEF IInv, TypeOK, Carried
<1>4. \A k \in 1 .. Len(results) : results[k].number < e.number
  BY <1>1, <1>3 DEF IInv, ScanAccounts, Lists, Sound
<1> HIDE DEF e
<1>5. CASE e.type \in Positive
  <2>1. /\ Len(results') = Len(results) + 1
        /\ \A k \in 1 .. Len(results) : results'[k] = results[k]
        /\ results'[Len(results')] = e
    BY <1>1, <1>2, <1>5, AppendProperties
  <2>2. Contract!Report
    BY <1>1, <1>4, <1>5, <2>1
    DEF Contract!Report, Contract!Reported, Positive
  <2> QED
    BY <2>2 DEF Contract!Next
<1>6. CASE e.type \notin Positive
  BY <1>1, <1>6 DEF Contract!vars
<1> QED
  BY <1>5, <1>6

(* The end of a call is the end of a call of the contract. *)
LEMMA ContractFinish ==
  ASSUME IInv, Finish
  PROVE  Contract!Next
<1>1. /\ pc = "reading" /\ pc' = "returned"
      /\ results' = IF results = <<>> /\ LogFailed THEN none_results
                    ELSE results
  BY DEF Finish, Swaps
<1>2. Sound(none_results, {"NONE"}, seen) /\ Ascending(none_results)
  BY <1>1 DEF IInv, ScanAccounts, Lists
<1>3. CASE results = <<>> /\ LogFailed
  <2>1. Contract!Reserve
    BY <1>1, <1>2, <1>3 DEF Contract!Reserve, Sound, Ascending
  <2> QED
    BY <2>1 DEF Contract!Next
<1>4. CASE ~(results = <<>> /\ LogFailed)
  BY <1>1, <1>4 DEF Contract!Conclude, Contract!Next
<1> QED
  BY <1>3, <1>4

(* The scanner implements the contract with its caller. *)
THEOREM ImplementsContract == Spec => ContractSpec
<1>1. Init => Contract!Init
  BY DEF Init, Contract!Init
<1>2. IInv /\ [Next]_vars => [Contract!Next]_(Contract!vars)
  <2> SUFFICES ASSUME IInv, [Next]_vars
               PROVE  [Contract!Next]_(Contract!vars)
    OBVIOUS
  <2>1. CASE Begin
    BY <2>1 DEF Begin, Enter, Clear, Contract!Start, Contract!Next
  <2>2. CASE OpenFails
    BY <2>2 DEF OpenFails, Enter, Clear, Contract!Refuse, Contract!Next
  <2>3. ASSUME NEW line \in Line, Scan(line)
        PROVE  [Contract!Next]_(Contract!vars)
    BY <2>3, ContractReport
  <2>4. ASSUME NEW line \in Line, ScanThrows(line)
        PROVE  Contract!Next
    BY <2>4 DEF ScanThrows, Contract!Conclude, Contract!Next
  <2>5. CASE Finish
    BY <2>5, ContractFinish
  <2>6. CASE FinishThrows
    BY <2>6 DEF FinishThrows, Contract!Conclude, Contract!Next
  <2>7. ASSUME UNCHANGED vars
        PROVE  UNCHANGED Contract!vars
    BY <2>7 DEF vars, Contract!vars
  <2> QED
    BY <2>1, <2>2, <2>3, <2>4, <2>5, <2>6, <2>7 DEF Next, SkipBlank
<1> QED
  BY <1>1, <1>2, Invariant, PTL DEF Spec, Contract!Spec, ContractSpec
=============================================================================
