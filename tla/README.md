# Verification of error_capture

TLA+ models of the error_capture log scanner and of the HTTP server and clients
it is built on (`src/libs/bst-http`), checked with TLC on small instances and
proved with TLAPS for every instance. Paths below are those of the repository;
`log_capture.cpp` is `src/log_capture.cpp` there.

## The system

The program reads a log and keeps the lines that tell of an error. It runs as
`error_capture cmd <file>` or as `error_capture server <config>`, which serves
`POST /log/capture` on the threads of one `io_context`.

| component | state | operations | hard behaviour |
|---|---|---|---|
| Log scanner (`log_capture.cpp`) | the caller's results; per call: `captured`, `rangemp`, `line_number`, the reserve | `capture_from_file`, `capture_from_str` | state carried from line to line, order of the matchers, a range that never ends, exceptions in mid-call; what is cut off a line before it is matched |
| Pattern loading (`log_capture.cpp`, `main.cpp`) | the pattern tables | constructor, `load_*_from_file` | blank, quoted and empty lines, an expression that does not compile |
| Capture service (`request_handler.cpp`, `main.cpp`, bst-http's `request_handler.hpp`) | a `capture_context` per call | `hello`, `capture`, 404, `cmd` | which scan a query asks for, what an exception becomes |
| HTTP session (`request_session.hpp`, `http_base.hpp`) | the buffer, the parser, the stream with its deadline | `run_session`, `response`, `send_500`, manual responses | TCP grouping, pipelining, aborted clients, synchronous reads, timeouts |
| Server (`http_server.hpp`, `request_connection.hpp`) | `stop_server_`, the acceptor, the threads | `run_server`, `stop_server`, `run_accept` | threads held by slow clients, stop racing accept, a second `run_server` |
| HTTP client (`http_client.hpp`) | the shared connection pool; per call the counters, URL, headers | `get`, `post`, ... | threads sharing a pool, stale connections, retries, redirects |
| Asynchronous client (`http_client_async.hpp`) | a pool of its own; per call as above | as above, as coroutines | as above; deadlines that cover awaited operations |
| Context (`context.hpp`) | a locked map and two pointers | `get`, `set`, ... | none (see "Not modelled") |
| Configuration, logging, `request_timer`, simdjson | - | - | I/O, unused, vendored |

The accept loop spawns one session per connection; the session parses a request,
looks its path up and calls the handler; the handler calls the scanner, which
shares nothing but its constant tables between calls; the response goes back
over the session's stream. The clients are part of the library and are used by
no code of this program.

What makes each correct is stated as its properties, listed with the runs
below. `PROJECT.json` lists the hazards they are meant for, line by line.

## Modules

| module | models |
|---|---|
| `LogCapture` | the scanner: `Begin`, `OpenFails`, one `Scan` per line, `SkipBlank`, `Finish`, and the two ways an exception leaves (`ScanThrows`, `FinishThrows`) |
| `CaptureContract` | what a caller is promised of the report, without lines or patterns; `LogCapture` implements it (`ContractSpec`) |
| `LogText` | EXTENDS `LogCapture`: the text under it - loading the pattern files, cutting a body into lines, cleaning a line, its time stamp, the matchers |
| `CaptureService` | EXTENDS `LogCapture`: the handler, the routes, the query parameters, the command line; a reference definition of the right answer |
| `RequestSession` | one connection: `run_session` and the client at the other end of the stream |
| `HttpServer` | the accept loop, the stop flag, the threads and the ready queue of the `io_context` |
| `HttpClient` | both clients: calling threads or coroutines, the pool, the sockets and the peers |
| `ConnectionOwnership` | who may do what with a connection, without requests or queues; `HttpClient` implements it (`OwnershipSpec`) |
| `ReplyStream` | what the client of a connection may hear, without bytes, buffers or handlers; `RequestSession` implements it (`StreamSpec`) |
| `LogCapture_proofs`, `LogText_proofs`, `CaptureService_proofs`, `RequestSession_proofs`, `HttpServer_proofs`, `HttpClient_proofs` | the theorems, component by component |
| `Recursion` | lemmas about recursive functions on numbers and sequences, which the proofs about texts and bodies rest on |
| `MC...` | the instances TLC checks |

### How the models correspond to the code

*LogCapture.* The variables are the locals of the loop and `cctx.results`;
`seen` is a history variable, the lines read with the types they were given. A
line is a record of what the matchers would say of it: the matchers that hit,
the ranges it starts and ends, the end patterns that throw, whether
`remove_time_prefix` throws, and the failure flag. A pattern that throws inside
a matcher with a handler counts as one that did not hit, as in the code. The
two entry points differ only in that a file may not open. `captured` is passed
to `match_line` after it was overwritten, as in the code.

*LogText.* A text is a sequence of tokens, each a character or a group of them
the code never takes apart (a date and time, a word, an escape code). `Load`
and `LoadThrows` are the four `load_*_from_file` in the order of `main`; a
pattern file is the set of its lines. `CutLine` is `getline`, `Clean` is
`remove_ansi` and `remove_inplace`, `TimePrefix` is `remove_time_prefix` with
its limit of 32 characters. `AsLine` turns a text into a line record, so that a
step here is a step of `LogCapture`. Of each built-in table a few entries stand
for its many words, and an expression stands for the texts that contain, or
begin with, its own. A level is a word between delimiters; in small letters it
counts only in brackets of its own inside those delimiters, as the alternatives
of the three level patterns have it (`Level`).

*CaptureService.* A body is the sequence of its lines; a query the sequence of
its pairs. `Feed` takes the next line off the body and makes the scanner's own
step with it. After each answer the `capture_context` is gone (`Leave`).

*RequestSession.* The stream is a sequence of tokens, one per header and one per
piece of a body; a read takes any non-empty prefix of what has arrived, so every
grouping TCP can produce is explored. The client may pipeline (`pipelined`
remembers that it did), announce `Expect: 100-continue`, send a body with GET,
send garbage, shut down its side or reset the connection at any time. A handler
may answer itself, once, or not at all (`ManualRespond`, `HandlerReturns`), and
may throw before or after that. A body that nobody reads is taken for the next
header (`ReadStray`): its bytes may be none, which is an error, a request nobody
sent, which is served as any other, or the beginning of one (`"partial"`). What
comes in with a header is at most 64 KB, less than a large body (`HeadRoom`).
The session deadline may pass at any time; it cancels asynchronous operations
(`Timeout`, `ReplyTimesOut`) and reaches no synchronous one: neither the read of
a large body nor the write of a response below 1 MB. A write lasts until the
client has read enough, which nothing makes it do (`Writing`).

*HttpServer.* A coroutine is ready in a FIFO queue, running or blocked on a
thread, or waiting for an operation. A session is reduced to how it uses
threads: it waits asynchronously, or holds its thread in a synchronous read of
a large body or write of a short response (`Block`, `Unblock`); `syncs` counts
those in a row. A new session runs on the acceptor's thread up to its first
operation, which is how `co_spawn` behaves when it is called on a thread of the
`io_context`. A stop may come at any time, also before `run_accept` clears the
flag and so undoes it; `asked` remembers which it was, and `late` counts the
connections accepted since. `run_server` may be called again after it has returned
(`RunServerAgain`): the `io_context` stays stopped and nothing is served.

*HttpClient.* The pool's `get` and `put` run under its mutex and are one step
each; connecting, writing and reading are steps of their own. The recursion of
`request_impl` is a loop with two counters. Peers may drop a connection at any
time; this end notices at its next write or read. The two clients take the same
steps in the same order, so one module models both; they differ in what ends a
wait for a silent peer, which is a matter of fairness (`Deadlines`).

## Runs

| run | what it shows |
|---|---|
| `capture` | report complete, in order, under the right numbers, never left over from an earlier call (`ScanAccounts`, `ReturnedReport`); ranges open and close as written (`RangeDiscipline`); what a level, a keyword, a stack line, or an expression without an exclusion hits outside the ranges is reported, whatever else hits it (`ErrorsReported`); `CaptureContract` implemented |
| `text` | no line is scanned before all tables are complete (`StartupOrder`); cutting a body into lines loses and invents nothing (`LinesRebuildText`); a level in capitals in brackets, and any level set off by two blanks, is reported in whatever colours and behind whatever stamp (`LevelReported`); the words of the files decide, but for words in blanks and words that begin with a quote, where the code does not do what its comment says (`WordsDecide`), and nothing is reported without a reason in its own text (`ReportedForReason`) |
| `service` | every answer is the reference's (`AnswerIsReference`), for repeated, missing and misspelt parameters, the command line, blanks, ranges and exceptions |
| `session` | bodies reach the handler whole (`BodyIntact`), answers stay in order and none is doubled (`RepliesOrdered`), nothing follows a 500 or a closing answer (`LastWords`), with a client that waits for each answer nothing is answered that it did not send, unless it sent a header that is refused or a body nobody reads (`InFrame`), a session ends once its client has shut down (`EndsAfterEof`) or its time is over (`TimeoutEnds`), unless it is for ever in an operation that the code does not bound, and an announced upload is answered (`ExpectAnswered`); `ReplyStream` is implemented |
| `server` | a stop lets in at most one more connection, unless it came too early and was lost (`LateBounded`); unless as many clients as there are threads stall for ever in a synchronous operation, a coroutine that is ready runs (`NoStarvation`) and a client that connected gets its session (`ConnectedServed`), whatever the other clients do |
| `client` | a connection is in one pair of hands (`Exclusive`), none is forgotten (`NoLeak`) or reaches the wrong host (`RightHost`); pool and attempts stay within bounds (`PoolBounded`, `AttemptsBounded`); `ConnectionOwnership` is implemented; a call uses up a bounded number of steps (`CallShrinks`); a blocking call returns unless its peer is silent for ever (`CallReturns`), an awaited one always (`AwaitedCallReturns`) |

Six runs show where the code departs from what the repository says of it:

| run | disagreement |
|---|---|
| `following` | the branch for indented lines after a captured one cannot be taken: its argument was overwritten one line before (`log_capture.cpp:426-428`, `470-472`) |
| `expression_exclude` | README line 25 says that the expressions are applied with the exclusions of `expression_exclude.txt`; `match_line` tries those last, so they take nothing from what an expression reports (`log_capture.cpp:378`, `394`) |
| `error_word` | a line whose word ERROR stands one blank behind its time stamp is not reported: the stamp takes the blank that the level pattern and the keyword ` ERROR` need (`log_capture.cpp:13`, `18`, `62`, `194`); for the same reason `[error]` one blank behind a stamp, as in the log of nginx, is not (`19-21`) |
| `warn_cap` | the handler reads `warncap` and `failedlog`, README documents `warn_cap` and `failed_log` |
| `post_answered` | a body that arrives in one read with its header is left in the buffer while the session waits for more |
| `stop_ends` | a stop is noticed only after the pending accept completes |

One more, seen while reading and without a run, as no module models the
configuration: `main.cpp:45` reads the key `thread` where the shipped
`config.toml:4` sets `threads`. The comments at `log_capture.cpp:155` and `174`,
"remove leading and trailing spaces", are not true of blanks, which stay, nor of
a quote, which is taken away but only on the left: `WordsDecide` leaves out the
words for which that makes a difference. The comment at `request_session.hpp:32`, "Set the timeout for the session", holds
but for the synchronous operations: `TimeoutEnds` says so.

Each property of a passing run has a mutant, a definition changed the way a
plausible bug would change it (the operators marked "Mutant" in the modules),
under which TLC finds the property violated.

### Bounds

- `capture`: 15 kinds of line, 2 ranges, logs of up to `MaxLines` = 4 lines,
  any number of calls. Four lines are enough to open a range, meet a line of
  the other range inside it, end it and go on. The proofs have no such bound.
- `text`: every combination of 3 x 2 x 3 x 2 pattern files; bodies of one line,
  from 4 beginnings, 5 stamps, 5 separators and 11 messages, and of three pieces
  with every kind of break, among them an empty body and one without a last
  break. The stamps are chosen to end before, at and behind the 32 characters
  the pattern is shown. One call: what carries from line to line is the subject
  of `capture` (473,724 states).
- `service`: 9 kinds of line, bodies of up to 3 lines, 5 queries.
- `session`: `MaxRequests` = 2 of 12 kinds, with body sizes 0 to 3 around
  `LARGE_REQUEST_BODY_SIZE` = 1 and `max_request_body_size` = 2 pieces; a second
  request is what it takes for bytes to cross from one to the next. `HeadRoom`
  = 1: a header comes with one piece at most, so that a large body never comes
  whole with it (330,263 states).
- `server`: 3 clients on 2 threads, two of them stalling, so that one thread
  can be lost while the others compete for the second, and both can be lost,
  for a while or for good. `MaxSync` = 2 stands for the limit on the size of a
  body (22,308 states). In `stop_ends` nobody stalls.
- `client`: 2 callers, 2 hosts, 2 sockets, one idle connection per host, one
  retry, one redirect (425,284 states). The history `attempts` stops counting
  one past what `AttemptsBounded` allows (`AttemptBound`), so the bound hides no
  violation.

Deadlock is checked in `capture`, `service` and `client`. A session ends, a
server returns, and `text` stops after its one call or after a pattern that
does not compile, so the runs of those modules do not check it.

### Fairness

- `RequestSession`: weak fairness of the session while it is not in a write
  (the `io_context` runs what is ready, and a handler ends) and of what the
  deadline does once it has passed. That the client reads, sends or shuts down
  is not assumed: a write may last for ever, and the liveness properties say what
  holds then (`[]Writing`). `ExpectAnswered` has as its own condition that the
  client goes on with a body it has begun (`WF_vars(SendBody)`).
- `HttpServer`: weak fairness of the threads, of a running coroutine and of a
  completed accept; a blocked operation completes for the clients that do not
  stall. Nothing makes a new client connect, nor an asynchronous wait end, nor
  `run_server` be called again. Any number of clients may stall: the properties
  except only a server that is stuck for ever (`Stuck`), which the code allows.
- `HttpClient`: weak fairness of each caller's steps other than waiting for a
  peer that still holds the connection: the kernel ends an attempt to connect
  and reports a peer that is gone, and nothing makes a silent one answer.
  `AwaitedCallReturns` adds the deadlines (`expires_after`), which bound awaited
  operations only.

## Proofs

All theorems hold for every value of the constants that meets the assumptions
named in the modules; none of them bounds the number of lines, requests,
clients, callers or connections beyond what the constant says.

`LogCapture_proofs` (assumptions `LineAssumption`, `BoundAssumption`):

- `TypeCorrect`, `Invariant`: type correctness and the inductive invariant;
- `ScanAccountsHolds`, `ReturnedReportHolds`, `RangeDisciplineHolds`,
  `ErrorsReportedHolds`: the four safety properties of the run `capture`;
- `FollowingIsDead`: no line is ever classified `ERROR_FOLLOWING`;
- `ImplementsContract`: `LogCapture` implements `CaptureContract`.

The properties speak of the whole log read so far, the code carries only
`captured`, `rangemp` and `line_number`. The invariant `IInv` adds what ties the
two together: `captured` is the type of the last line and `line_number` its
successor's (`Carried`), every opener still open is the one `rangemp` holds
(`Tracked`), and a line that must be reported (`Demanded`) is matched or in a range
(`Classified`). What an operator returns is settled by lemmas on `match_line`,
`match_range_exclude` and `FirstRange` (the least element exists by well-founded
induction on the naturals); `Open`, `Covered` and `Closes` over a longer log are
reduced to the old log and its last line (`OpenLast`, `CoverLast`).

`RequestSession_proofs` proves all five safety properties of the run `session`.
None of them is inductive: they speak of handlers and answers, and what keeps
them true is where the bytes are. `Framing` says it. The bytes in the buffer and
on the wire are one run of consecutive tokens of what the client sent, the last
of them the last it sent (`StreamOK`); the client owes pieces of its last request
only (`Owes`); a header still unread belongs to a later request than any read or
answered (`HeadsFresh`); a request is held as it was sent (`Held`); and while it
is served, what the parser has and what is still wanted make up its body, and
the next bytes are the rest of it and then a header (`Receiving`). The steps fall
into kinds - a token is added behind, tokens are consumed in front, the request
is kept, the request is forgotten, a stray is taken for one - and a lemma takes
each kind through `Framing`. `BodyIntact` follows at once; `RepliesOrdered` and
`LastWords` need in addition what may have been answered at each place of the
loop (`Answers`); `InFrame` needs that, with a client that waits and frames its
requests, nothing is left over between two of them (`InStep`).

The refinement of `ReplyStream` (`ImplementsReplyStream`) maps the client's
requests to what was asked, its replies to what was heard, and any place but
`closing` and `closed` to an open stream. It says more than `RepliesOrdered`,
`LastWords` and `InFrame` together: also that 100 Continue comes once, and that a
second word on a request comes only from a handler that was trusted with the
first. A reply to a stray is allowed there only to a client that pipelined or
sent a request that is not read to its end, which rests on `InStep`. It needs one
more invariant, `Fresh`: no reply is to a request later than the one being
served, and none at all to that one before its 100 Continue. `SessionShrinks` is
what the session owes to `EndsAfterEof`: its steps use up what the client has
sent (`Left`), and nothing but the client adds to it.

`HttpServer_proofs` proves type correctness and `LateBounded`. `Phases` ties the
step of the accept loop to the place of its coroutine and says that the
connection it holds is nobody's yet; `OneThreadEach` says that no coroutine is
ready twice. `LateOnce` is the reason for the bound: a stop that came after the
flag was cleared is still in it, and after a late connection no accept is
pending, nor is one begun while the flag stays set.

`HttpClient_proofs` proves all six invariants of the run `client`,
`ImplementsOwnership` and `CallShrinksHolds`. The invariant restates the properties connection by
connection (`Connections`: held once, pooled once, never both, open exactly if
held or pooled, pooled under the host it leads to, the pool's bound), and adds at
which steps a caller has a connection and a parsed URL (`Stages`). All actions
together do only six kinds of things to connections (`Takes`, `Makes`,
`Discards`, `Keeps`, `Drops`, `Rests`); each is taken once through the invariant
and once to a step of `ConnectionOwnership` or a stutter. `AttemptsBounded`
rests on `Counted`, which bounds the attempts from above and below by the two
counters of the call; the upper bound is a product, for which `Products`
supplies the arithmetic. `CallShrinks` is what the code owes to `CallReturns`:
`Work`, the rounds the two counters leave and the way through the current one,
shrinks with every step of a call, although a redirect gives back all retries.

`CaptureService_proofs` (assumptions of the scanner and `RequestAssumption`, that
requests are of their type) proves `ServiceTypeOK` and `AnswerIsReference`: what
the handler or the command line answers is what the reference says of body and
query. The reference looks at the body as a whole and recurses over it; the
scanner carries `captured` and `rangemp` from line to line. `ServiceInv` ties the
two together at every line: what was read is the beginning of the body
(`Progress`), `seen` is that beginning without its blank lines (`Mirrored`), the
range the scanner is in is the one the reference computes (`Ranged`), and each
line has the type the reference gives it (`Sorted`). The scanner's own invariant
holds because each step of the service makes one of the scanner's or a stutter.

`LogText_proofs` (assumptions `TextAssumption`: bodies, files and the built-in
words are made of tokens, and `TextLineAssumption`: the scanner's `Line` has all
the records a text can be seen as) proves:

- `TextImplementsScanner`: the text model implements the scanner, so that every
  theorem of `LogCapture_proofs` holds of text;
- `TextInvariant`, `TextTypeCorrect`: the inductive invariant and the types;
- `StartupOrderHolds`, `LinesRebuildTextHolds`, `LevelReportedHolds`,
  `WordsDecideHolds`, `ReportedForReasonHolds`: the five properties of the run
  `text`, for all files, bodies and tables.

`TextInv` is the scanner's `IInv` with: the tables hold the built-in words and
exactly the entries of the files loaded so far, and nothing is scanned before
the last of them (`Tables`); the lines taken, joined again, are the text up to
the place that was reached (`Cut`); `seen` is the view of the lines taken that
are not empty (`Viewed`); and each type is accounted for by a matcher that hit
(`Accounted`). The rest is about operators: what trimming finds and what it
leaves (`TrimFinds`, `TrimSound`), that a time prefix is a beginning of its line
and takes no bracket and at most one blank of a level (`LevelSurvives`), and
what a search for a word in a cut text says of the whole.

`Recursion` is why recursive definitions can be proved about. The theorems of
the library on induction take an operator as a parameter; here induction is
stated of a set of numbers (`SetInduction`), and a function defined by recursion
on a number or along a sequence is shown to exist and to satisfy its equation
(`RecursiveFunction`, `SequenceRecursion`) by building its finite beginnings.

All safety properties of the passing runs are theorems. Only model-checked are
the liveness properties, which need `ENABLED`: `EndsAfterEof`, `TimeoutEnds`,
`ExpectAnswered`, `NoStarvation`, `ConnectedServed`, `CallReturns` and
`AwaitedCallReturns` (what the code owes to some of them is proved in
`SessionShrinks` and `CallShrinks`); and the six disagreements, each of which is
a counterexample.

## Not modelled

- *Context* (`context.hpp`): each operation on the map holds its lock for the
  whole operation. The sub and global pointers are not locked, but the program
  writes them while the server is set up, before its threads exist, or on a
  context private to one request. No two steps can interleave.
- *Configuration and logging*: one TOML file is read once; log lines are
  formatted and written.
- *request_timer*: used by nothing.
- *simdjson*: a vendored library that the build compiles and no file of the
  program includes. It is 99 percent of the tree's lines; of the lines that are
  the program's and bst-http's own, what is left out is named here.
- Wording and layout of answers and logs; `time_spend`, which only measures; a
  header of a request that TCP cuts in half (the parser goes on where it
  stopped; the beginning of a stray header is modelled); file responses, which no
  route of the program makes; the server's settings that nothing reads
  (`max_connections`, `max_requests`, `connection_timeout`) and the pool's
  `cleanup()`, which nothing calls.
- What has no outcomes to enumerate: the race between the handler of the
  deadline and the session's coroutine on the same socket, without a strand;
  the request that `async_get` and `async_post` of the blocking client capture
  by reference and that is gone when their thread reads it; the socket of the accept loop that a `co_spawn` which posts
  would leave dangling. They are listed as hazards.

## What is left

The composition of `RequestSession` with `HttpServer` (the session's own reads
and writes as the source of `Block` and `Await`) would turn `MaxSync` into a
consequence of `max_request_body_size`.
