-------------------------- MODULE CaptureContract ---------------------------
(***************************************************************************)
(* What the log scanner promises the caller of capture_from_file and       *)
(* capture_from_str about the results it hands back, with no word on how   *)
(* lines are matched: while a call runs its report only grows, in the      *)
(* order of the log and by matched lines alone; when the call ends it is   *)
(* left as it is, or, had it stayed empty, becomes a list of unmatched     *)
(* lines; and nothing touches it after that until the next call.           *)
(***************************************************************************)
EXTENDS Naturals, Sequences

VARIABLES phase,   \* "scanning" during a call, "settled" between calls
          report   \* the caller's list of [number, line, type] entries

vars == <<phase, report>>

Reported == {"LOGLEVEL", "KEYWORD", "EXPRESSION", "STACK_LINE",
             "WARNING_LOGLEVEL", "ERROR_FOLLOWING"}

Init == phase = "settled" /\ report = <<>>

(* A call starts from nothing. *)
Start == phase = "settled" /\ phase' = "scanning" /\ report' = <<>>

(* A matched line, further down the log than every one before it. *)
Report ==
  /\ phase = "scanning"
  /\ phase' = "scanning"
  /\ Len(report') = Len(report) + 1
  /\ \A k \in 1 .. Len(report) :
       /\ report'[k] = report[k]
       /\ report[k].number < report'[Len(report')].number
  /\ report'[Len(report')].type \in Reported

(* The call ends with what it reported. *)
Conclude == phase = "scanning" /\ phase' = "settled" /\ UNCHANGED report

(* The call reported nothing and ends with the reserve: unmatched lines in
   the order of the log. *)
Reserve ==
  /\ phase = "scanning"
  /\ phase' = "settled"
  /\ report = <<>>
  /\ \A k \in 1 .. Len(report') : report'[k].type = "NONE"
  /\ \A j, k \in 1 .. Len(report') :
       j < k => report'[j].number < report'[k].number

(* A call that cannot start leaves an empty report. *)
Refuse == phase = "settled" /\ phase' = "settled" /\ report' = <<>>

Next == Start \/ Report \/ Conclude \/ Reserve \/ Refuse

Spec == Init /\ [][Next]_vars
=============================================================================
