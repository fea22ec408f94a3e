--------------------------- MODULE CaptureService ---------------------------
(***************************************************************************)
(* The two ways into the log scanner: a request to the HTTP service        *)
(* (src/request_handler.cpp, routed by libs/bst-http/request_handler.hpp)  *)
(* and the command line (main.cpp).  Each makes a capture_context of its   *)
(* own, runs one call of the scanner, whose state and steps are those of   *)
(* LogCapture, and renders what the call left in the context.              *)
(*                                                                         *)
(* A body is the sequence of the lines its newlines separate.              *)
(***************************************************************************)
EXTENDS LogCapture, FiniteSets

CONSTANT Request   \* the calls there may be, each an element of RequestType

RequestType ==
  [entry : {"/log/capture", "/hello", "unknown", "cmd"},
   post  : BOOLEAN,                              \* is the method POST?
   query : Seq([key : STRING, value : STRING]),  \* the pairs, as written
   body  : Seq(Line)]                            \* cmd: the file's contents

ASSUME RequestAssumption == Request \subseteq RequestType

VARIABLES
  request,   \* the call being answered, or the last one that was
  rest,      \* the lines of its body the scanner has not read yet
  response   \* what it was answered: a status and a list of lines

service == <<request, rest, response>>

Status == {"none", "200", "400", "404", "500", "exit", "abort"}
Nothing(status) == [status |-> status, lines |-> <<>>]

(* Mutant: the last of two pairs stays. *)
EmplacedLast(at) == CHOOSE i \in at : \A j \in at : j =< i
Emplaced(at) == CHOOSE i \in at : \A j \in at : i =< j

(* The parameters of a query are emplaced in a map, so the first of two pairs
   with one key stays; a key that is missing reads as "". *)
get_param(query, key) ==
  LET at == {i \in 1 .. Len(query) : query[i].key = key}
  IN  IF at = {} THEN "" ELSE query[Emplaced(at)].value

Truth(value) == value \in {"1", "true"}

(* The parameters the handler hands to the scanner; the command line keeps
   the defaults. *)
RequestParams(r) ==
  [warn_cap   |-> r.entry # "cmd" /\ Truth(get_param(r.query, "warncap")),
   failed_log |-> r.entry # "cmd" /\ Truth(get_param(r.query, "failedlog"))]

(* JSON carries number and type of each line; raw text, and the command
   line, the line alone.  Mutant: the missing else that renders both. *)
Json(r) == r.entry # "cmd" /\ get_param(r.query, "format") = "json"
RenderBoth(r, es) ==
  [k \in 1 .. 2 * Len(es) |-> IF k =< Len(es) THEN es[k]
                             ELSE [line |-> es[k - Len(es)].line]]
Render(r, es) ==
  [k \in 1 .. Len(es) |->
     IF Json(r) THEN es[k] ELSE [line |-> es[k].line]]

-----------------------------------------------------------------------------
NoCall == [entry |-> "unknown", post |-> FALSE, query |-> <<>>, body |-> <<>>]
Ready == pc = "idle" /\ response.status = "none"

ServiceInit ==
  /\ Init
  /\ request = NoCall
  /\ rest = <<>>
  /\ response = Nothing("none")

(* A request that never reaches the scanner: no such route, the greeting, a
   method that is not POST, an empty body. *)
Turned(r) ==
  CASE r.entry = "unknown" -> "404"
    [] r.entry = "/hello" -> "200"
    [] r.entry = "/log/capture" /\ (~r.post \/ r.body = <<>>) -> "400"
    [] OTHER -> "none"

TurnAway(r) ==
  /\ Ready
  /\ Turned(r) # "none"
  /\ request' = r
  /\ rest' = <<>>
  /\ response' = Nothing(Turned(r))
  /\ UNCHANGED vars

(* The handler, or main, calls the scanner. *)
Admit(r) ==
  /\ Ready
  /\ Turned(r) = "none"
  /\ Begin
  /\ params' = RequestParams(r)
  /\ request' = r
  /\ rest' = r.body
  /\ response' = Nothing("none")

(* main ignores that the file could not be opened: it prints no line. *)
AdmitNoFile(r) ==
  /\ Ready
  /\ r.entry = "cmd"
  /\ OpenFails
  /\ params' = RequestParams(r)
  /\ request' = r
  /\ rest' = <<>>
  /\ response' = Nothing("exit")

Feed ==
  /\ rest # <<>>
  /\ SkipBlank(Head(rest)) \/ Scan(Head(rest))
  /\ rest' = Tail(rest)
  /\ UNCHANGED <<request, response>>

(* The end of the body: the results are rendered. *)
Answer ==
  /\ rest = <<>>
  /\ Finish
  /\ response' = [status |-> IF request.entry = "cmd" THEN "exit" ELSE "200",
                  lines |-> Render(request, results')]
  /\ UNCHANGED <<request, rest>>

(* An exception of the scanner leaves the handler and becomes the session's
   500; on the command line it ends the program. *)
Fail ==
  /\ \/ rest # <<>> /\ ScanThrows(Head(rest))
     \/ rest = <<>> /\ FinishThrows
  /\ response' = Nothing(IF request.entry = "cmd" THEN "abort" ELSE "500")
  /\ UNCHANGED <<request, rest>>

(* The call is over, and its capture_context gone with it. *)
Leave ==
  /\ response.status # "none"
  /\ pc' = "idle"
  /\ params' = [warn_cap |-> FALSE, failed_log |-> FALSE]
  /\ captured' = "NONE" /\ rangemp' = NoRange /\ line_number' = 1
  /\ results' = <<>> /\ none_results' = <<>> /\ seen' = <<>>
  /\ request' = NoCall
  /\ rest' = <<>>
  /\ response' = Nothing("none")

ServiceNext ==
  \/ \E r \in Request : TurnAway(r) \/ Admit(r) \/ AdmitNoFile(r)
  \/ Feed
  \/ Answer
  \/ Fail
  \/ Leave

ServiceSpec == ServiceInit /\ [][ServiceNext]_<<vars, service>>
-----------------------------------------------------------------------------
(* Every variable has the type the code declares for it. *)
ServiceTypeOK ==
  /\ TypeOK
  /\ rest \in Seq(Line)
  /\ response.status \in Status
  /\ Len(response.lines) =< MaxLines

(***************************************************************************)
(* The reference: which lines of a body a call should return, said of the  *)
(* body as a whole and with none of the scanner's steps or variables.      *)
(***************************************************************************)
(* What the first n lines of a body hold besides blank ones. *)
Inked(body) ==
  LET upto[n \in 0 .. Len(body)] ==
        IF n = 0 THEN <<>>
        ELSE IF body[n].blank THEN upto[n - 1]
        ELSE Append(upto[n - 1], body[n])
  IN  upto
Body == Inked(request.body)[Len(request.body)]

(* The range a line leaves the scanner in, 0 for none: the first whose start
   pattern hits opens, and only its own end pattern ends it. *)
Left(line, range) ==
  IF range = 0
  THEN IF line.starts = {} THEN 0 ELSE FirstRange(line.starts)
  ELSE IF range \in line.ends \cup line.endThrows THEN 0 ELSE range
Ranges(lines) ==
  LET after[i \in 0 .. Len(lines)] ==
        IF i = 0 THEN 0 ELSE Left(lines[i], after[i - 1])
  IN  after
Inside(i) == Ranges(Body)[i]
Swallowed(i) ==
  Inside(i) # 0 \/ (Inside(i - 1) # 0 /\ Inside(i - 1) \in Body[i].ends)

(* The first pair of the query with this key says yes. *)
Asked(key) ==
  request.entry # "cmd" /\
  \E i \in 1 .. Len(request.query) :
    /\ request.query[i].key = key
    /\ request.query[i].value \in {"1", "true"}
    /\ \A j \in 1 .. i - 1 : request.query[j].key # key

Wanted ==
  {"LOGLEVEL", "KEYWORD", "STACK_LINE", "EXPRESSION"}
    \cup (IF Asked("warncap") THEN {"WARNING_LOGLEVEL"} ELSE {})
Kept(i) == ~Swallowed(i) /\ Body[i].hits \cap Wanted # {}
Spare(i) == ~Swallowed(i) /\ Body[i].hits \cap (Wanted \cup Negative) = {}
Failed ==
  Asked("failedlog") \/ (Body # <<>> /\ Body[Len(Body)].flag = "failed")

KeptLines == {i \in 1 .. Len(Body) : Kept(i)}
SpareLines == {i \in 1 .. Len(Body) : Spare(i)}
Expected == IF KeptLines = {} /\ Failed THEN SpareLines ELSE KeptLines

(* A call that succeeds returns exactly the lines of the body the reference
   names, in the order of the body: a parameter given twice counts as it was
   given first, no line of a range, blank line or line of another call slips
   in, and the reserve is used only when it should be. *)
AnswerIsReference ==
  pc = "returned" =>
    /\ {results[k].number : k \in 1 .. Len(results)} = Expected
    /\ Len(response.lines) = Cardinality(Expected)
    /\ \A j, k \in 1 .. Len(results) :
         j < k => results[j].number < results[k].number
    /\ \A k \in 1 .. Len(results) :
         response.lines[k].line = Body[results[k].number]

(* The inductive invariant behind it, while a call runs and when it returns:
   what was read is a beginning of the body, and each line read has the type
   the reference gives it. *)
Read == Len(request.body) - Len(rest)
Progress ==
  /\ request \in Request
  /\ params = RequestParams(request)
  /\ Len(rest) =< Len(request.body)
  /\ \A i \in 1 .. Len(rest) : rest[i] = request.body[Read + i]
Mirrored ==
  /\ Len(seen) = Len(Inked(request.body)[Read])
  /\ \A i \in 1 .. Len(seen) : seen[i].line = Body[i]
Ranged ==
  /\ \A i \in 1 .. Len(seen) : seen[i].type = "RANGE_START" <=> Inside(i) # 0
  /\ captured = "RANGE_START" => rangemp = Inside(Len(seen))
Sorted ==
  \A i \in 1 .. Len(seen) :
    /\ seen[i].type \in Positive <=> Kept(i)
    /\ seen[i].type = "NONE" <=> Spare(i)
ServiceInv ==
  /\ IInv
  /\ ServiceTypeOK
  /\ Len(seen) =< MaxLines
  /\ pc \in {"reading", "returned"} =>
       Progress /\ Mirrored /\ Ranged /\ Sorted
  /\ pc = "returned" => rest = <<>> /\ response.lines = Render(request, results)

(* README, "warn_cap: boolean # Whether to capture warning logs": a request
   with warn_cap=true gets the warnings that lie outside every range. *)
WarnCapHonoured ==
  response.status = "200" /\ Asked("warn_cap") =>
    \A i \in 1 .. Len(Body) :
      "WARNING_LOGLEVEL" \in Body[i].hits /\ ~Swallowed(i) =>
        \E k \in 1 .. Len(response.lines) : response.lines[k].line = Body[i]
=============================================================================
