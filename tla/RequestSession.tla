--------------------------- MODULE RequestSession ---------------------------
(***************************************************************************)
(* One HTTP connection: request_session::run_session and the response path *)
(* of request_context and response_sender (libs/bst-http), with the client *)
(* at the other end of the TCP stream.                                     *)
(*                                                                         *)
(* The stream carries, for each request, one token for its header and one  *)
(* for each piece of its body.  A read takes any non-empty prefix of what  *)
(* has arrived: TCP keeps the order of bytes, not the borders of writes.   *)
(* Bytes the server takes for a header though they are the body of another *)
(* request, a stray, may be no header, a part of one, or one nobody sent.  *)
(***************************************************************************)
EXTENDS Naturals, Sequences

CONSTANTS
  Kind,                     \* the requests a client may send (KindType)
  MaxRequests,              \* bound on the requests of one connection
  LARGE_REQUEST_BODY_SIZE,  \* larger bodies are read synchronously
  max_request_body_size,    \* parser.body_limit
  HeadRoom                  \* the pieces async_read_header may take with a
                            \* header: 64 KB at most, so no large body

KindType ==
  [post       : BOOLEAN,               \* POST or PUT; other methods: FALSE
   body       : Nat,                   \* the pieces of the body
   coding     : {"length", "chunked"}, \* Content-Length, or chunks without
   expect     : BOOLEAN,               \* Expect: 100-continue
   keep_alive : BOOLEAN,
   manual     : BOOLEAN,               \* its handler calls set_manual_response
   valid      : BOOLEAN]               \* does the header parse?

ASSUME KindAssumption == Kind \subseteq KindType
ASSUME BoundAssumption ==
  /\ MaxRequests \in Nat
  /\ LARGE_REQUEST_BODY_SIZE \in Nat
  /\ max_request_body_size \in Nat
  /\ HeadRoom \in 0 .. LARGE_REQUEST_BODY_SIZE

NoRequest == 0
HEAD == 0
Token == [req : 1 .. MaxRequests, part : Nat]   \* HEAD, or the piece's number
Reply == [req : 0 .. MaxRequests, status : {"100", "final", "500"}]

VARIABLES
  sent,     \* client: the requests begun, in order
  owed,     \* client: body pieces of the last one still to be sent
  eof,      \* client: has it shut its sending side?
  reset,    \* client: has it reset the connection?
  pipelined, \* client: did it ever send before it was answered? (history)
  wire,     \* what was sent and not read yet
  pc,       \* where run_session is (below)
  buffer,   \* the flat_buffer that outlives the requests of a connection
  cur,      \* the request being read or answered; NoRequest for a stray
  kind,     \* its header, as the parser has it
  need,     \* body pieces the parser of cur still wants
  got,      \* the body pieces the parser of cur was given
  expired,  \* session_timeout has passed since the connection was accepted
  replies   \* what was written to the client

client == <<sent, owed, eof, reset, pipelined>>
server == <<pc, buffer, cur, kind, need, got, replies>>
vars == <<client, wire, server, expired>>

(***************************************************************************)
(* Where run_session is:                                                   *)
(*   "header"    in async_read_header, between requests                    *)
(*   "partial"   the same, with the beginning of a stray header            *)
(*   "continue"  in the async_write of 100 Continue                        *)
(*   "body"      in the loop that reads the body                           *)
(*   "handle"    in the handler                                            *)
(*   "after"     still in the handler, which has written its own response  *)
(*   "closing"   the same, and that response has closed the stream         *)
(*   "reply"     in request_context::response                              *)
(*   "error"     in send_500, after an exception that is not benign        *)
(*   "closed"    the loop was left and the stream closed                   *)
(***************************************************************************)
Location ==
  {"header", "partial", "continue", "body", "handle", "after", "closing",
   "reply", "error", "closed"}

NoKind ==
  [post |-> FALSE, body |-> 0, coding |-> "length", expect |-> FALSE,
   keep_alive |-> TRUE, manual |-> FALSE, valid |-> TRUE]
content_length(k) == IF k.coding = "length" THEN k.body ELSE 0
is_large == content_length(kind) > LARGE_REQUEST_BODY_SIZE

Smaller(a, b) == IF a =< b THEN a ELSE b
Take(s, n) == SubSeq(s, 1, n)
Drop(s, n) == SubSeq(s, n + 1, Len(s))
Answered(i) == \E k \in 1 .. Len(replies) :
                 replies[k] = [req |-> i, status |-> "final"]
Continued(i) == \E k \in 1 .. Len(replies) :
                 replies[k] = [req |-> i, status |-> "100"]
Send(status) == replies' = Append(replies, [req |-> cur, status |-> status])
inputs == <<buffer, cur, kind, need, got>>

Init ==
  /\ sent = <<>> /\ owed = 0 /\ eof = FALSE /\ reset = FALSE
  /\ pipelined = FALSE
  /\ wire = <<>>
  /\ pc = "header" /\ buffer = <<>> /\ cur = NoRequest /\ kind = NoKind
  /\ need = 0 /\ got = <<>> /\ replies = <<>>
  /\ expired = FALSE

-----------------------------------------------------------------------------
(* The client. *)

CanSend == ~eof /\ ~reset

SendHead(k) ==
  /\ CanSend
  /\ owed = 0
  /\ Len(sent) < MaxRequests
  /\ pipelined' = (pipelined \/ (sent # <<>> /\ ~Answered(Len(sent))))
  /\ sent' = Append(sent, k)
  /\ owed' = k.body
  /\ wire' = Append(wire, [req |-> Len(sent'), part |-> HEAD])
  /\ UNCHANGED <<eof, reset, server, expired>>

(* A client that asked for 100 Continue waits for it. *)
SendBody ==
  /\ CanSend
  /\ owed > 0
  /\ sent[Len(sent)].expect => Continued(Len(sent))
  /\ owed' = owed - 1
  /\ LET piece == sent[Len(sent)].body - owed'
     IN  wire' = Append(wire, [req |-> Len(sent), part |-> piece])
  /\ UNCHANGED <<sent, eof, reset, pipelined, server, expired>>

ShutSend ==
  /\ CanSend
  /\ eof' = TRUE
  /\ UNCHANGED <<sent, owed, reset, pipelined, wire, server, expired>>

(* What arrived before a reset may still be read, or be lost to it. *)
Reset ==
  /\ ~reset
  /\ reset' = TRUE
  /\ UNCHANGED <<sent, owed, eof, pipelined, wire, server, expired>>

(* expires_after is called once, before the loop. *)
Expire ==
  /\ ~expired
  /\ expired' = TRUE
  /\ UNCHANGED <<client, wire, server>>
-----------------------------------------------------------------------------
(* The server. *)

(* Mutants of AfterHeader: Expect is not looked at; the body is only read after
   a 100 Continue. *)
AfterHeaderNoExpect(k) == IF k.post THEN "body" ELSE "handle"
AfterHeaderNoBody(k) == IF k.post /\ k.expect THEN "continue" ELSE "handle"

(* Only POST and PUT have their body read, after 100 Continue if asked for. *)
AfterHeader(k) ==
  IF ~k.post THEN "handle" ELSE IF k.expect THEN "continue" ELSE "body"

(* A header that does not parse, or announces more than the body limit, is an
   error; a method without a body goes to its handler. *)
Header(i, k) ==
  IF k.valid /\ content_length(k) =< max_request_body_size
  THEN /\ pc' = AfterHeader(k)
       /\ cur' = i /\ kind' = k /\ need' = k.body
  ELSE /\ pc' = "error"
       /\ cur' = NoRequest /\ kind' = NoKind /\ need' = 0

(* The next request is read into a fresh parser.  A read may bring in, behind
   the header, pieces of the body and of later requests: they stay in the
   buffer. *)
ReadHeader ==
  /\ pc = "header"
  /\ \E n \in 1 .. Smaller(Len(wire), HeadRoom + 1) :
       /\ wire[1].part = HEAD
       /\ Header(wire[1].req, sent[wire[1].req])
       /\ wire' = Drop(wire, n)
       /\ buffer' = SubSeq(wire, 2, n)
  /\ got' = <<>>
  /\ UNCHANGED <<client, replies, expired>>

(* The bytes read are not those of a header, or not only: what they spell may
   be none (a kind that is not valid), or one nobody sent, which is served as
   any other; or it lacks an end yet, and whatever comes next may bring it. *)
ReadStray ==
  /\ pc \in {"header", "partial"}
  /\ \E n \in 1 .. Smaller(Len(wire), HeadRoom + 1) :
       /\ pc = "header" => wire[1].part # HEAD
       /\ wire' = Drop(wire, n)
       /\ \/ \E k \in Kind \cup {[NoKind EXCEPT !.valid = FALSE]} :
               Header(NoRequest, k) /\ buffer' = SubSeq(wire, 2, n)
          \/ pc' = "partial" /\ UNCHANGED inputs
  /\ got' = <<>>
  /\ UNCHANGED <<client, replies, expired>>

SendContinue ==
  /\ pc = "continue"
  /\ ~reset
  /\ Send("100")
  /\ pc' = "body"
  /\ UNCHANGED <<client, wire, inputs, expired>>

(* Mutants: the parser's count is ignored; buffer.consume is left out. *)
WantedAll(filled) == Len(filled)
UnparsedAll(filled, parsed) == filled

Wanted(filled) == Smaller(need, Len(filled))
Unparsed(filled, parsed) == Drop(filled, parsed)

(* One round of the body loop: bytes are read first and only then given to
   the parser, together with what the buffer already held.  A chunked body is
   parsed in sections, so the parser may stop early. *)
ReadBody ==
  /\ pc = "body"
  /\ need > 0
  /\ \E n \in 1 .. Len(wire) :
       LET filled == buffer \o Take(wire, n)
       IN  \E parsed \in 1 .. Wanted(filled) :
             /\ kind.coding = "length" => parsed = Wanted(filled)
             /\ wire' = Drop(wire, n)
             /\ buffer' = Unparsed(filled, parsed)
             /\ got' = got \o Take(filled, parsed)
             /\ need' = need - parsed
  /\ UNCHANGED <<client, pc, cur, kind, replies, expired>>

(* The parser rejects a chunk, wants more of it (need_more counts as an
   error here) or finds the body over the limit. *)
ChunkFails ==
  /\ pc = "body"
  /\ need > 0
  /\ kind.coding = "chunked"
  /\ wire # <<>>
  /\ pc' = "error"
  /\ UNCHANGED <<client, wire, inputs, replies, expired>>

(* parser.is_done: the body is compared with Content-Length. *)
BodyDone ==
  /\ pc = "body"
  /\ need = 0
  /\ pc' = IF content_length(kind) = Len(got) THEN "handle" ELSE "error"
  /\ UNCHANGED <<client, wire, inputs, replies, expired>>

(* Mutants: auto_response is not asked for; the request's wish to close is
   ignored. *)
AutoRespondsAlways(k) == TRUE
AfterAnswerOpen(k) == "header"

AutoResponds(k) == ~k.manual
AfterAnswer(k) == IF k.keep_alive THEN "header" ELSE "closed"

(* Whatever the buffer still holds is dropped before the next header. *)
NextRequest ==
  /\ buffer' = <<>> /\ cur' = NoRequest /\ kind' = NoKind
  /\ need' = 0 /\ got' = <<>>

(* manual_response: the handler writes the response itself, once, and the
   stream closes under it if the request asked for that.  The errors a write
   forgives are those of RespondFails. *)
ManualRespond ==
  /\ pc = "handle"
  /\ kind.manual
  /\ IF reset
     THEN /\ UNCHANGED replies
          /\ pc' \in {"closing"} \cup (IF kind.keep_alive THEN {"after"} ELSE {})
     ELSE /\ Send("final")
          /\ pc' = IF kind.keep_alive THEN "after" ELSE "closing"
  /\ UNCHANGED <<client, wire, inputs, expired>>

(* A manual handler may return without a word: nothing is written then. *)
HandlerReturns ==
  /\ pc \in {"handle", "after"}
  /\ IF AutoResponds(kind)
     THEN pc' = "reply" /\ UNCHANGED inputs
     ELSE pc' = "header" /\ NextRequest
  /\ UNCHANGED <<client, wire, replies, expired>>

HandlerThrows ==
  /\ pc \in {"handle", "after"}
  /\ pc' = "error"
  /\ UNCHANGED <<client, wire, inputs, replies, expired>>

(* The handler is over and the socket is not open: the loop is left, or
   send_500 finds nothing to write to. *)
HandlerEndsClosed ==
  /\ pc = "closing"
  /\ pc' = "closed"
  /\ UNCHANGED <<client, wire, inputs, replies, expired>>

(* The response is written; without keep-alive the stream is closed, otherwise
   the next header is awaited. *)
Respond ==
  /\ pc = "reply"
  /\ ~reset
  /\ Send("final")
  /\ pc' = AfterAnswer(kind)
  /\ NextRequest
  /\ UNCHANGED <<client, wire, expired>>

(* A write to a client that is gone fails.  connection_reset, end_of_stream
   and operation_canceled are taken for success and the loop goes on; any
   other error closes the stream. *)
RespondFails ==
  /\ pc = "reply"
  /\ reset
  /\ pc' \in {"closed", AfterAnswer(kind)}
  /\ NextRequest
  /\ UNCHANGED <<client, wire, replies, expired>>

(* Mutant: the loop goes on after a 500. *)
AfterErrorOpen == "header"
AfterError == "closed"

(* send_500 writes its answer whether or not a request was recognised. *)
SendError ==
  /\ pc = "error"
  /\ IF reset THEN UNCHANGED replies ELSE Send("500")
  /\ pc' = AfterError
  /\ UNCHANGED <<client, wire, inputs, expired>>

(* Mutant: the end of the stream is not noticed. *)
GoneOnReset == reset

Gone == reset \/ (eof /\ wire = <<>> /\ pc # "continue")

(* The client has gone: end_of_stream, eof and connection_reset are benign,
   the session closes without a word. *)
ClientGone ==
  /\ pc \in {"header", "partial", "continue", "body"}
  /\ Gone
  /\ pc = "partial" => reset
  /\ pc = "body" => need > 0
  /\ pc' = "closed"
  /\ UNCHANGED <<client, wire, inputs, replies, expired>>

(* The stream ends within a header: partial_message is not benign. *)
HeaderCut ==
  /\ pc = "partial"
  /\ eof /\ wire = <<>>
  /\ pc' = "error"
  /\ UNCHANGED <<client, wire, inputs, replies, expired>>

(* Mutant: the deadline is for the header alone. *)
AwaitsHeader == pc \in {"header", "partial"}

(* The asynchronous operations a session may be in, but for the write of a
   long response. *)
Awaits ==
  \/ pc \in {"header", "partial", "continue", "error"}
  \/ pc = "body" /\ need > 0 /\ ~is_large

(* The deadline cancels an asynchronous operation and closes the socket, so
   that send_500 finds nothing to write to.  It does not reach a synchronous
   one: the read of a large body or the write of a response below 1 MB. *)
Timeout ==
  /\ expired
  /\ Awaits
  /\ pc' = "closed"
  /\ UNCHANGED <<client, wire, inputs, replies, expired>>

(* A response above that is written asynchronously. *)
ReplyTimesOut ==
  /\ expired
  /\ pc = "reply"
  /\ pc' = "closed"
  /\ UNCHANGED <<client, wire, inputs, replies, expired>>

Client == SendBody \/ ShutSend \/ Reset \/ \E k \in Kind : SendHead(k)

Server ==
  \/ ReadHeader \/ ReadStray \/ HeaderCut
  \/ SendContinue \/ ReadBody \/ ChunkFails \/ BodyDone
  \/ ManualRespond \/ HandlerReturns \/ HandlerThrows \/ HandlerEndsClosed
  \/ Respond \/ RespondFails \/ SendError \/ ClientGone
  \/ Timeout \/ ReplyTimesOut

Next == Client \/ Expire \/ Server

Spec == Init /\ [][Next]_vars

(* The session is in a write, which lasts until the client has read enough: a
   handler that answers for itself may be in one at any time. *)
Replying == ~reset /\ (pc = "reply" \/ (pc = "handle" /\ kind.manual))
Writing == Replying \/ (~reset /\ pc \in {"continue", "error"})

(* The io_context runs a session whose operation is ready, and a handler ends.
   That the client reads, or goes on sending, is not assumed. *)
FairSpec == Spec /\ WF_vars(~Writing /\ Server) /\ WF_vars(Timeout)
-----------------------------------------------------------------------------
(* Every variable has the type the code declares for it. *)
TypeOK ==
  /\ sent \in Seq(Kind) /\ Len(sent) =< MaxRequests
  /\ owed \in Nat
  /\ {eof, reset, pipelined, expired} \subseteq BOOLEAN
  /\ wire \in Seq(Token) /\ buffer \in Seq(Token) /\ got \in Seq(Token)
  /\ pc \in Location
  /\ cur \in 0 .. Len(sent)
  /\ kind \in KindType
  /\ need \in Nat
  /\ replies \in Seq(Reply)

(* A handler that gets a POST or PUT gets its whole body and nothing else: no
   piece missing, repeated, out of order or taken from another request,
   whatever the reads brought in together. *)
BodyIntact ==
  /\ pc \in {"handle", "after", "closing", "reply"}
  /\ cur # NoRequest
  /\ kind.post
  =>
    got = [i \in 1 .. kind.body |-> [req |-> cur, part |-> i]]

(* No request is answered twice, none is answered after a later one, and 100
   Continue comes before the answer it announces.  The one thing that may
   follow the answer to a request is the 500 of a handler that wrote the answer
   itself and then threw. *)
RepliesOrdered ==
  \A j, k \in 1 .. Len(replies) :
    j < k /\ replies[j].status = "final" /\ replies[k].req # NoRequest
      => \/ replies[j].req < replies[k].req
         \/ /\ replies[j].req = replies[k].req
            /\ replies[k].status = "500"
            /\ sent[replies[k].req].manual

(* A 500, or the answer to a request that asked to close, is the last thing
   the client hears on the connection, and the connection is closed. *)
LastWords ==
  \A k \in 1 .. Len(replies) :
    \/ replies[k].status = "500"
    \/ /\ replies[k].status = "final" /\ replies[k].req # NoRequest
       /\ ~sent[replies[k].req].keep_alive
    => k = Len(replies) /\ pc \in {"closing", "closed"}

(* With a client that waits for each answer the session stays in frame: it
   answers what is no request, be it with a 500 or as a request nobody sent,
   only when the client sent a header that cannot be accepted, or a body that
   its method never has read. *)
Misframed(k) ==
  \/ ~k.valid
  \/ content_length(k) > max_request_body_size
  \/ ~k.post /\ k.body > 0
InFrame ==
  ~pipelined => \A j \in 1 .. Len(replies) :
    replies[j].req = NoRequest => \E i \in 1 .. Len(sent) : Misframed(sent[i])

(* What the client may hear, with replies as what it heard. *)
Stream == INSTANCE ReplyStream
            WITH Framed <- {k \in KindType : ~Misframed(k)},
                 asked <- sent, eager <- pipelined, heard <- replies,
                 open <- pc \notin {"closing", "closed"}
StreamSpec == Stream!Spec

(* Once the client has shut its side the session ends, synchronous body reads
   included, or it is for ever in a write that the client does not read. *)
EndsAfterEof == eof ~> (pc = "closed" \/ []Writing)

(* "Set the timeout for the session": a session whose time is over ends, be
   its client silent or deaf, unless it is for ever in one of the synchronous
   operations that the deadline does not reach. *)
TimeoutEnds ==
  expired ~> (pc = "closed" \/ []Replying
                \/ [](pc = "body" /\ need > 0 /\ is_large))

(* A well-formed upload that announces itself with Expect: 100-continue, and
   so sends its body only when the server asks for it, is answered, unless its
   handler took the answer on itself, or the client did not wait for earlier
   answers, sent a body nobody reads before, stops sending or does not read. *)
Accepted(k) ==
  /\ k.post /\ k.valid /\ k.coding = "length"
  /\ k.body =< max_request_body_size
ExpectAnswered ==
  WF_vars(SendBody) =>
    \A i \in 1 .. MaxRequests :
      /\ i =< Len(sent) /\ Accepted(sent[i])
      /\ sent[i].expect /\ ~sent[i].manual
      /\ \A j \in 1 .. i : ~Misframed(sent[j])
      ~> (Answered(i) \/ pc = "closed" \/ pipelined \/ []Writing)

(* README, "POST /log/capture ... Request Body: Raw log content": a POST that
   has been sent completely is answered, to a client that reads. *)
PostAnswered ==
  \A i \in 1 .. MaxRequests :
    (i =< Len(sent) /\ Accepted(sent[i]) /\ (i < Len(sent) \/ owed = 0))
      ~> (Answered(i) \/ pc = "closed" \/ []Writing)
=============================================================================
