----------------------------- MODULE LogCapture -----------------------------
(***************************************************************************)
(* The log scanner: capture_from_file and capture_from_str of              *)
(* src/log_capture.cpp.  A call clears the caller's results, walks the     *)
(* text line by line giving each non-empty line one match_type, collects   *)
(* the matched lines, and keeps the lines nothing matched aside as the     *)
(* reserve it returns when a failed log produced no match at all.          *)
(*                                                                         *)
(* A line is abstracted to what the scanner can tell about it: which of    *)
(* its matchers hit it, which exclusion ranges it starts or ends, whether  *)
(* an evaluation of a regular expression throws on it, and whether it      *)
(* carries a failure flag.  The text of a line is not modelled.            *)
(***************************************************************************)
EXTENDS Naturals, Sequences

CONSTANTS
  Line,        \* the lines a log may contain, each an element of LineType
  RangeCount,  \* the size of range_exclude_
  MaxLines     \* bound on the non-empty lines of one log

(* match_type::type, without the prefix MATCH_. *)
Positive == {"LOGLEVEL", "KEYWORD", "EXPRESSION", "STACK_LINE",
             "WARNING_LOGLEVEL", "ERROR_FOLLOWING"}
Negative == {"SKIP_LOGLEVEL", "EXCLUDE", "EXPRESSION_EXCLUDE"}
MatchType == Positive \cup Negative \cup {"RANGE_START", "RANGE_END", "NONE"}

RangeId == 1 .. RangeCount
Matcher == Positive \cup Negative

LineType ==
  [blank     : BOOLEAN,         \* oline.empty(): skipped and not numbered
   hits      : SUBSET Matcher,  \* the match_* functions that return true
   starts    : SUBSET RangeId,    \* start patterns that match
   ends      : SUBSET RangeId,    \* end patterns that match
   endThrows : SUBSET RangeId,    \* end patterns whose evaluation throws
   throws    : BOOLEAN,         \* remove_time_prefix throws (no handler)
   flag      : {"failed", "clean", "throws"}]  \* outcome of if_log_failed

(* A pattern that throws on a line has no answer for it. *)
ASSUME LineAssumption ==
  /\ Line \subseteq LineType
  /\ \A line \in Line : line.ends \cap line.endThrows = {}
ASSUME BoundAssumption == RangeCount \in Nat /\ MaxLines \in Nat

NoRange == 0   \* rangemp before any range was entered
Entry == [number : Nat \ {0}, line : Line, type : MatchType]

VARIABLES
  pc,           \* "idle", "reading", "returned", "nofile" or "threw"
  params,       \* cctx.params of the current call
  captured,     \* the match_type of the last line, carried to the next
  rangemp,      \* the range last entered
  line_number,  \* the number the next non-empty line gets
  results,      \* cctx.results, which outlives the call
  none_results, \* the lines nothing matched
  seen          \* history: every numbered line with the type it was given

vars == <<pc, params, captured, rangemp, line_number, results, none_results,
          seen>>

(* is_matched: the types that put a line into the results. *)
is_matched(type) == type \in Positive

(* Mutant: the levels to skip tried first. *)
MatchOrderSkipFirst ==
  <<"SKIP_LOGLEVEL", "LOGLEVEL", "WARNING_LOGLEVEL", "KEYWORD", "STACK_LINE",
    "EXPRESSION", "ERROR_FOLLOWING", "EXCLUDE", "EXPRESSION_EXCLUDE">>

(***************************************************************************)
(* The matchers of match_line in the order they are tried.  Warnings count *)
(* only when the caller asked for them, an indented line only when         *)
(* last_captured is a match.                                               *)
(***************************************************************************)
MatchOrder == <<"LOGLEVEL", "WARNING_LOGLEVEL", "KEYWORD", "STACK_LINE",
                "EXPRESSION", "ERROR_FOLLOWING", "SKIP_LOGLEVEL", "EXCLUDE",
                "EXPRESSION_EXCLUDE">>

Applies(m, line, last_captured) ==
  /\ m \in line.hits
  /\ m = "WARNING_LOGLEVEL" => params.warn_cap
  /\ m = "ERROR_FOLLOWING"  => is_matched(last_captured)

match_line(line, last_captured) ==
  LET hit == {i \in DOMAIN MatchOrder :
                Applies(MatchOrder[i], line, last_captured)}
  IN  IF hit = {} THEN "NONE"
      ELSE MatchOrder[CHOOSE i \in hit : \A j \in hit : i =< j]

(***************************************************************************)
(* match_range_exclude: outside a range the first start pattern that hits  *)
(* opens it; inside, the line is swallowed until the end pattern of the    *)
(* open range hits.  An end pattern that throws yields NONE, which loses   *)
(* the range.                                                              *)
(***************************************************************************)
FirstRange(ranges) == CHOOSE r \in ranges : \A s \in ranges : r =< s

(* Mutant: any end pattern ends the range. *)
EndsAnyRange(line, range) == line.ends # {}
EndsRange(line, range) == range \in line.ends

match_range_exclude(line, last_captured, range) ==
  IF last_captured # "RANGE_START"
  THEN IF line.starts # {} THEN "RANGE_START" ELSE "NONE"
  ELSE IF range \in line.endThrows THEN "NONE"
       ELSE IF EndsRange(line, range) THEN "RANGE_END" ELSE "RANGE_START"

(* Mutant: the index of the range off by one. *)
RangeOfNext(line) == FirstRange(line.starts) + 1
RangeOf(line) == FirstRange(line.starts)

NextRange(line) ==
  IF captured # "RANGE_START" /\ line.starts # {} THEN RangeOf(line)
  ELSE rangemp

(* The type one iteration gives a line: match_line runs only when the range
   check returned NONE, and it is passed the variable that check has just
   overwritten. *)
Classify(line) ==
  LET ranged == match_range_exclude(line, captured, rangemp)
  IN  IF ranged = "NONE" THEN match_line(line, ranged) ELSE ranged

-----------------------------------------------------------------------------
Init ==
  /\ pc = "idle"
  /\ params = [warn_cap |-> FALSE, failed_log |-> FALSE]
  /\ captured = "NONE"
  /\ rangemp = NoRange
  /\ line_number = 1
  /\ results = <<>>
  /\ none_results = <<>>
  /\ seen = <<>>

(* results.clear().  Mutant: left out. *)
ClearNot == UNCHANGED results
Clear == results' = <<>>

(* A call clears the caller's results and every local starts afresh. *)
Enter ==
  /\ pc # "reading"
  /\ params' \in [warn_cap : BOOLEAN, failed_log : BOOLEAN]
  /\ captured' = "NONE"
  /\ rangemp' = NoRange
  /\ line_number' = 1
  /\ Clear
  /\ none_results' = <<>>
  /\ seen' = <<>>

(* It goes on to the loop; capture_from_str always does. *)
Begin == Enter /\ pc' = "reading"

(* capture_from_file: the file cannot be opened.  The results were cleared
   before that is known. *)
OpenFails == Enter /\ pc' = "nofile"

(* An empty line is skipped without a number and leaves captured alone. *)
SkipBlank(line) ==
  /\ pc = "reading"
  /\ line.blank
  /\ UNCHANGED vars

(* One iteration of the loop on a non-empty line. *)
Scan(line) ==
  /\ pc = "reading"
  /\ Len(seen) < MaxLines
  /\ ~line.blank
  /\ ~line.throws
  /\ LET type  == Classify(line)
         entry == [number |-> line_number, line |-> line, type |-> type]
     IN  /\ captured' = type
         /\ rangemp' = NextRange(line)
         /\ results' = IF is_matched(type) THEN Append(results, entry)
                       ELSE results
         /\ none_results' = IF type = "NONE" THEN Append(none_results, entry)
                            ELSE none_results
         /\ seen' = Append(seen, [line |-> line, type |-> type])
  /\ line_number' = line_number + 1
  /\ UNCHANGED <<pc, params>>

(* remove_time_prefix has no handler: its exception leaves the call. *)
ScanThrows(line) ==
  /\ pc = "reading"
  /\ ~line.blank
  /\ line.throws
  /\ pc' = "threw"
  /\ UNCHANGED <<params, captured, rangemp, line_number, results,
                 none_results, seen>>

(* The end of the text.  A log nobody declared failed counts as failed when
   its last line carries a failure flag; a failed log without a match returns
   the reserve. *)
LastFlag == IF seen = <<>> THEN "clean" ELSE seen[Len(seen)].line.flag
LogFailed == params.failed_log \/ LastFlag = "failed"

(* Mutants: the reserve is returned whether or not the log failed; a failed
   log returns it though something matched. *)
SwapsAlways == results = <<>>
SwapsMatches == params.failed_log
Swaps == results = <<>> /\ LogFailed

Finish ==
  /\ pc = "reading"
  /\ params.failed_log \/ LastFlag # "throws"
  /\ pc' = "returned"
  /\ results' = IF Swaps THEN none_results ELSE results
  /\ none_results' = IF Swaps THEN results ELSE none_results
  /\ UNCHANGED <<params, captured, rangemp, line_number, seen>>

(* if_log_failed has no handler either. *)
FinishThrows ==
  /\ pc = "reading"
  /\ ~params.failed_log
  /\ LastFlag = "throws"
  /\ pc' = "threw"
  /\ UNCHANGED <<params, captured, rangemp, line_number, results,
                 none_results, seen>>

Next ==
  \/ Begin
  \/ OpenFails
  \/ \E line \in Line : SkipBlank(line) \/ Scan(line) \/ ScanThrows(line)
  \/ Finish
  \/ FinishThrows

Spec == Init /\ [][Next]_vars
-----------------------------------------------------------------------------
Seen == [line : Line, type : MatchType]

(* Every variable has the type the code declares for it. *)
TypeOK ==
  /\ pc \in {"idle", "reading", "returned", "nofile", "threw"}
  /\ params \in [warn_cap : BOOLEAN, failed_log : BOOLEAN]
  /\ captured \in MatchType
  /\ rangemp \in RangeId \cup {NoRange}
  /\ line_number \in Nat \ {0}
  /\ results \in Seq(Entry)
  /\ none_results \in Seq(Entry)
  /\ seen \in Seq(Seen)

(* The list es holds exactly the lines of the log given one of the types,
   each once, in the order of the log, under its own number and type. *)
Sound(es, types, log) ==
  \A k \in 1 .. Len(es) :
    /\ es[k].number \in 1 .. Len(log)
    /\ es[k].line = log[es[k].number].line
    /\ es[k].type = log[es[k].number].type
    /\ es[k].type \in types
Ascending(es) ==
  \A j, k \in 1 .. Len(es) : j < k => es[j].number < es[k].number
Complete(es, types, log) ==
  \A i \in 1 .. Len(log) :
    log[i].type \in types => \E k \in 1 .. Len(es) : es[k].number = i
Lists(es, types, log) ==
  Sound(es, types, log) /\ Ascending(es) /\ Complete(es, types, log)

(* While a call runs, and in the results an exception leaves behind, the
   results are the matched lines and the reserve the unmatched ones: no line
   is lost, doubled, reordered, put under another line's number or left over
   from an earlier call. *)
ScanAccounts ==
  pc \in {"reading", "threw"} =>
    /\ Lists(results, Positive, seen)
    /\ Lists(none_results, {"NONE"}, seen)

(* What a call hands back: nothing when the file cannot be opened; otherwise
   the matched lines, unless there are none and the log failed (by parameter
   or by the flag on its last line), when it is the unmatched lines. *)
NothingMatched == \A i \in 1 .. Len(seen) : seen[i].type \notin Positive
ReturnedReport ==
  /\ pc = "nofile" => results = <<>>
  /\ pc = "returned" =>
       IF NothingMatched /\ LogFailed
       THEN Lists(results, {"NONE"}, seen)
       ELSE Lists(results, Positive, seen)

(* Line j opened a range, the first whose start pattern hits it. *)
Opener(log, j) ==
  /\ log[j].type = "RANGE_START"
  /\ log[j].line.starts # {}
  /\ j > 1 => log[j - 1].type # "RANGE_START"
Opened(log, j) == FirstRange(log[j].line.starts)
(* At line k the range that line j opened is left, or lost to an exception. *)
Leaves(log, j, k) ==
  Opened(log, j) \in log[k].line.ends \cup log[k].line.endThrows
(* Line j opened a range that no line after it, up to i, has left. *)
Open(log, j, i) ==
  Opener(log, j) /\ \A k \in (j + 1) .. i : ~Leaves(log, j, k)
(* Line i is inside a range. *)
Covered(log, i) == \E j \in 1 .. i : Open(log, j, i)
(* Line i is the one that ends the range it is in. *)
Closes(log, i) ==
  \E j \in 1 .. (i - 1) :
    Open(log, j, i - 1) /\ Opened(log, j) \in log[i].line.ends

(* A line is swallowed by range_exclude_ exactly when it lies in a range that
   was opened before and not left since, and a range is ended only by the end
   pattern that belongs to the start pattern that opened it. *)
RangeDiscipline ==
  \A i \in 1 .. Len(seen) :
    /\ seen[i].type = "RANGE_START" <=> Covered(seen, i)
    /\ seen[i].type = "RANGE_END" <=> Closes(seen, i)

(* An error line outside every range is in the results, whatever exclusion or
   skip pattern also hits it and whatever came before it.  A line that only an
   expression hits is an error line when no excluded expression hits it: of
   the other lines an expression hits see ExclusionHonoured. *)
Demanded(line) ==
  \/ line.hits \cap {"LOGLEVEL", "KEYWORD", "STACK_LINE"} # {}
  \/ "EXPRESSION" \in line.hits /\ "EXPRESSION_EXCLUDE" \notin line.hits
Reported(i) == \E k \in 1 .. Len(results) : results[k].number = i
ErrorsReported ==
  pc \in {"reading", "returned"} =>
    \A i \in 1 .. Len(seen) :
      Demanded(seen[i].line) =>
        Covered(seen, i) \/ Closes(seen, i) \/ Reported(i)

(* The inductive invariant behind the properties above.  captured is the type
   of the last line and rangemp the range of the one opener still open, so
   that the two variables the loop carries stand for the whole log. *)
Carried ==
  /\ line_number = Len(seen) + 1
  /\ captured = IF seen = <<>> THEN "NONE" ELSE seen[Len(seen)].type
Tracked ==
  \A j \in 1 .. Len(seen) :
    Open(seen, j, Len(seen)) =>
      captured = "RANGE_START" /\ rangemp = Opened(seen, j)
Classified ==
  \A i \in 1 .. Len(seen) :
    Demanded(seen[i].line) =>
      seen[i].type \in Positive \cup {"RANGE_START", "RANGE_END"}
IInv ==
  /\ TypeOK
  /\ Carried
  /\ ScanAccounts
  /\ ReturnedReport
  /\ RangeDiscipline
  /\ Tracked
  /\ Classified

(* match_line has a branch for the indented lines that follow a captured one
   (MATCH_ERROR_FOLLOWING): such a line, outside a range, is captured too. *)
FollowingCaptured ==
  \A i \in 2 .. Len(seen) :
    /\ seen[i - 1].type \in Positive
    /\ "ERROR_FOLLOWING" \in seen[i].line.hits
    => seen[i].type \in Positive \cup {"RANGE_START", "RANGE_END"}

(* README, "Regular Expression Patterns": patterns are applied with exclusions
   from expression_exclude.txt.  A line with nothing but an expression to
   report it for, which an excluded expression hits too, is not reported. *)
ExclusionHonoured ==
  \A i \in 1 .. Len(seen) :
    /\ seen[i].line.hits \cap Positive = {"EXPRESSION"}
    /\ "EXPRESSION_EXCLUDE" \in seen[i].line.hits
    => ~Reported(i)

(* What a caller is promised, with cctx.results as the report. *)
Contract == INSTANCE CaptureContract
              WITH report <- results,
                   phase <- IF pc = "reading" THEN "scanning" ELSE "settled"
ContractSpec == Contract!Spec
=============================================================================
