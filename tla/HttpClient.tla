----------------------------- MODULE HttpClient -----------------------------
(***************************************************************************)
(* The HTTP clients of libs/bst-http: request_impl with its retries and    *)
(* redirects, and the connection_pool the callers share.  http_client.hpp  *)
(* and http_client_async.hpp take the same steps in the same order; they   *)
(* differ in that a caller of the first is a thread that blocks where one  *)
(* of the second is a coroutine that awaits, and that the deadlines of the *)
(* stream (expires_after) bound awaited operations only.                   *)
(*                                                                         *)
(* The pool's get and put run under its mutex and are one step each,       *)
(* everything else interleaves.  A connection is its socket at this end    *)
(* and whether the peer still holds its own; a closed socket is free to be *)
(* made anew.  The recursion of request_impl is the loop from "enter" to   *)
(* "enter" with its two counters.                                          *)
(***************************************************************************)
EXTENDS Integers, Sequences, FiniteSets

CONSTANTS
  Caller,                \* the threads, or coroutines, that make requests
  Conn,                  \* the sockets there may be at one time
  Host,                  \* the host:port pairs that can be asked
  max_idle_connections_, \* bound of each host's queue in the pool
  max_redirects_,
  max_retries_

ASSUME ClientAssumption ==
  /\ max_idle_connections_ \in Nat
  /\ max_redirects_ \in Nat
  /\ max_retries_ \in Nat
  /\ Host \cap {"bad", "none", "closed"} = {}
  /\ Caller \cap (Host \cup {"closed"}) = {}
  /\ "none" \notin Conn

Url == Host \cup {"bad"}        \* "bad": a URL that does not parse
Location == Url \cup {"none"}
NoConn == "none"
Code == {-5, -4, -1, 0, 200}    \* 0: no result yet

VARIABLES
  pool,       \* connection_pool::pool_: idle connections, oldest first
  socket,     \* each socket: where it is connected, and if the peer still is
  pc,         \* where each caller is in request_impl
  call,       \* its request, its two counters and res.headers["Location"]
  conn,       \* the connection the attempt uses
  code,       \* what the last call returned
  attempts    \* history: the connections the call has tried so far

vars == <<pool, socket, pc, call, conn, code, attempts>>

(***************************************************************************)
(*   "idle"     no call            "create"  no pooled connection to use   *)
(*   "enter"    at the top of      "write"   sending the request           *)
(*              request_impl       "read"    awaiting the response         *)
(*   "acquire"  in get_connection  "return"  keeping the connection        *)
(***************************************************************************)
Step == {"idle", "enter", "acquire", "create", "write", "read", "return"}

CallType == [url : Url, keep_alive : BOOLEAN, redirects : Nat,
             retries : Nat, location : Location]
Fresh(u, k) == [url |-> u, keep_alive |-> k, redirects |-> 0,
                retries |-> 0, location |-> "none"]
NoCall == Fresh("bad", FALSE)

Closed == [peer |-> "none", up |-> FALSE]
Socket == [peer : Host, up : BOOLEAN] \cup {Closed}
Open(x) == socket[x].peer # "none"

In(queue) == {queue[i] : i \in 1 .. Len(queue)}
Pooled == UNION {In(pool[h]) : h \in Host}
Held == {conn[c] : c \in Caller} \ {NoConn}

At(c, step) == pc[c] = step
Goto(c, step) == pc' = [pc EXCEPT ![c] = step]

(* The history counts to one more than the limits allow together. *)
AttemptBound == (max_redirects_ + 1) * (max_retries_ + 1)
Attempt(c) ==
  attempts' = [attempts EXCEPT ![c] = IF @ > AttemptBound THEN @ ELSE @ + 1]

(* Mutant: a failed attempt is not counted. *)
RetryUncounted(c) == UNCHANGED call
Retry(c) == call' = [call EXCEPT ![c].retries = @ + 1]

(* Mutant: the connection given back is still used. *)
LetGoNot(c) == UNCHANGED conn
LetGo(c) == conn' = [conn EXCEPT ![c] = NoConn]

(* shutdown_and_close on the connection of a caller.  Mutant: forgotten. *)
CloseNot(c) == UNCHANGED socket
Close(c) == socket' = [socket EXCEPT ![conn[c]] = Closed]

End(c, result) ==
  /\ Goto(c, "idle")
  /\ code' = [code EXCEPT ![c] = result]
  /\ call' = [call EXCEPT ![c] = NoCall]

Init ==
  /\ pool = [h \in Host |-> <<>>]
  /\ socket = [x \in Conn |-> Closed]
  /\ pc = [c \in Caller |-> "idle"]
  /\ call = [c \in Caller |-> NoCall]
  /\ conn = [c \in Caller |-> NoConn]
  /\ code = [c \in Caller |-> 0]
  /\ attempts = [c \in Caller |-> 0]
-----------------------------------------------------------------------------
(* get, post, put, head, del. *)
Call(c) ==
  /\ At(c, "idle")
  /\ Goto(c, "enter")
  /\ \E u \in Url, k \in BOOLEAN : call' = [call EXCEPT ![c] = Fresh(u, k)]
  /\ code' = [code EXCEPT ![c] = 0]
  /\ attempts' = [attempts EXCEPT ![c] = 0]
  /\ UNCHANGED <<pool, socket, conn>>

(* The guards at the top of request_impl, in their order.  Mutant: one retry
   or redirect too few. *)
ExceedsEarly(count, max) == count >= max
Exceeds(count, max) == count > max
Refusal(c) ==
  IF Exceeds(call[c].redirects, max_redirects_) THEN -4
  ELSE IF Exceeds(call[c].retries, max_retries_) THEN -5
  ELSE IF call[c].url = "bad" THEN -1 ELSE 0

Refuse(c) ==
  /\ At(c, "enter")
  /\ Refusal(c) # 0
  /\ End(c, Refusal(c))
  /\ UNCHANGED <<pool, socket, conn, attempts>>

Proceed(c) ==
  /\ At(c, "enter")
  /\ Refusal(c) = 0
  /\ Goto(c, IF call[c].keep_alive THEN "acquire" ELSE "create")
  /\ UNCHANGED <<pool, socket, call, conn, code, attempts>>

(* The queue of the pool a connection to this URL belongs to.  Mutant: all
   ports of a host share a queue. *)
KeyNoPort(u) == CHOOSE h \in Host : TRUE
Key(u) == u
Queue(c) == pool[Key(call[c].url)]

(* The connections of a queue that are open here, the oldest of them, and
   what get leaves in the queue: the closed ones before it are thrown away.
   Mutant: the connection stays in the queue. *)
Live(queue) == {i \in 1 .. Len(queue) : Open(queue[i])}
Oldest(queue) == CHOOSE i \in Live(queue) : \A j \in Live(queue) : i =< j
RemainingAll(queue) == queue
Remaining(queue) ==
  IF Live(queue) = {} THEN <<>>
  ELSE SubSeq(queue, Oldest(queue) + 1, Len(queue))

(* connection_pool::get finds a connection, or none. *)
Acquire(c) ==
  /\ At(c, "acquire")
  /\ Live(Queue(c)) # {}
  /\ pool' = [pool EXCEPT ![Key(call[c].url)] = Remaining(@)]
  /\ conn' = [conn EXCEPT ![c] = Queue(c)[Oldest(Queue(c))]]
  /\ Attempt(c)
  /\ Goto(c, "write")
  /\ UNCHANGED <<socket, call, code>>

AcquireNone(c) ==
  /\ At(c, "acquire")
  /\ Live(Queue(c)) = {}
  /\ pool' = [pool EXCEPT ![Key(call[c].url)] = Remaining(@)]
  /\ Goto(c, "create")
  /\ UNCHANGED <<socket, call, conn, code, attempts>>

(* create_new_connection, on a socket nobody has; or resolving or connecting
   fails, which costs a retry. *)
Create(c) ==
  /\ At(c, "create")
  /\ \E x \in Conn \ (Held \cup Pooled) :
       /\ ~Open(x)
       /\ socket' = [socket EXCEPT ![x] = [peer |-> call[c].url, up |-> TRUE]]
       /\ conn' = [conn EXCEPT ![c] = x]
  /\ Attempt(c)
  /\ Goto(c, "write")
  /\ UNCHANGED <<pool, call, code>>

CreateFails(c) ==
  /\ At(c, "create")
  /\ Retry(c)
  /\ Attempt(c)
  /\ Goto(c, "enter")
  /\ UNCHANGED <<pool, socket, conn, code>>

(* The request is written; to a peer that is gone it may still be. *)
Write(c) ==
  /\ At(c, "write")
  /\ Goto(c, "read")
  /\ UNCHANGED <<pool, socket, call, conn, code, attempts>>

(* Writing or reading throws - the peer is gone, the response is malformed, a
   deadline has passed: the connection is closed and the whole request tried
   again, whatever its method. *)
ExchangeFails(c) ==
  /\ At(c, "write") \/ At(c, "read")
  /\ Close(c)
  /\ LetGo(c)
  /\ Retry(c)
  /\ Goto(c, "enter")
  /\ UNCHANGED <<pool, code, attempts>>

Answering(c) == At(c, "read") /\ socket[conn[c]].up

(* The response is a redirect and carries the header Location, or none (l);
   the headers of a response add to those of the attempts before it.  Mutant:
   a redirect without any Location is followed. *)
FollowsAlways(target) == TRUE
Follows(target) == target # "none"
Redirected(c, l) ==
  LET target == IF l = "none" THEN call[c].location ELSE l
  IN  /\ Answering(c)
      /\ Follows(target)
      /\ call' = [call EXCEPT ![c].location = target, ![c].url = target,
                              ![c].redirects = @ + 1, ![c].retries = 0]
      /\ Close(c)
      /\ LetGo(c)
      /\ Goto(c, "enter")
      /\ UNCHANGED <<pool, code, attempts>>

(* Any other response ends the call, once the connection is kept or closed. *)
Responded(c) ==
  /\ Answering(c)
  /\ call[c].keep_alive
  /\ Goto(c, "return")
  /\ UNCHANGED <<pool, socket, call, conn, code, attempts>>

RespondedLast(c) ==
  /\ Answering(c)
  /\ ~call[c].keep_alive
  /\ Close(c)
  /\ LetGo(c)
  /\ End(c, 200)
  /\ UNCHANGED <<pool, attempts>>

(* connection_pool::put: kept if there is room, closed if not.  Mutant: one
   connection too many. *)
HasRoomOffByOne(queue) == Len(queue) =< max_idle_connections_
HasRoom(queue) == Len(queue) < max_idle_connections_

Return(c) ==
  /\ At(c, "return")
  /\ \/ /\ HasRoom(Queue(c))
        /\ pool' = [pool EXCEPT ![Key(call[c].url)] = Append(@, conn[c])]
        /\ UNCHANGED socket
     \/ /\ ~HasRoom(Queue(c))
        /\ Close(c)
        /\ UNCHANGED pool
  /\ LetGo(c)
  /\ End(c, 200)
  /\ UNCHANGED attempts

(* The peer closes a connection, idle or in use.  This end notices only when
   it writes or reads. *)
PeerCloses(x) ==
  /\ socket[x].up
  /\ socket' = [socket EXCEPT ![x].up = FALSE]
  /\ UNCHANGED <<pool, pc, call, conn, code, attempts>>

request_impl(c) ==
  \/ Refuse(c) \/ Proceed(c)
  \/ Acquire(c) \/ AcquireNone(c) \/ Create(c) \/ CreateFails(c)
  \/ Write(c) \/ ExchangeFails(c)
  \/ \E l \in Location : Redirected(c, l)
  \/ Responded(c) \/ RespondedLast(c) \/ Return(c)

Next ==
  \/ \E c \in Caller : Call(c) \/ request_impl(c)
  \/ \E x \in Conn : PeerCloses(x)

Spec == Init /\ [][Next]_vars

(* The caller waits for a peer that holds the connection and need never take
   the request nor answer it.  A deadline ends the wait of a coroutine. *)
Waits(c) == (At(c, "write") \/ At(c, "read")) /\ socket[conn[c]].up
ExpiresReading(c) == At(c, "read") /\ Waits(c) /\ ExchangeFails(c)
Expires(c) == Waits(c) /\ ExchangeFails(c)

(* A caller that does not wait for a peer goes on: the kernel ends an attempt
   to connect, and reports a peer that is gone. *)
FairSpec == Spec /\ \A c \in Caller : WF_vars(request_impl(c) /\ ~Waits(c))
-----------------------------------------------------------------------------
(* Every variable has the type the code declares for it. *)
TypeOK ==
  /\ pool \in [Host -> Seq(Conn)]
  /\ socket \in [Conn -> Socket]
  /\ pc \in [Caller -> Step]
  /\ call \in [Caller -> CallType]
  /\ conn \in [Caller -> Conn \cup {NoConn}]
  /\ code \in [Caller -> Code]
  /\ attempts \in [Caller -> Nat]

(* A connection is in one pair of hands: no two callers use it, none uses one
   that lies in the pool, and it lies there once. *)
Exclusive ==
  /\ \A c, d \in Caller : c # d /\ conn[c] # NoConn => conn[c] # conn[d]
  /\ Held \cap Pooled = {}
  /\ \A g, h \in Host : \A i \in 1 .. Len(pool[g]), j \in 1 .. Len(pool[h]) :
       pool[g][i] = pool[h][j] => g = h /\ i = j

(* No open socket is forgotten and no closed one is kept: the open ones are
   those in use and those in the pool. *)
NoLeak == {x \in Conn : Open(x)} = Held \cup Pooled

(* A request goes to the host its URL names, over retries, redirects and
   pooled connections made by other callers. *)
RightHost ==
  /\ \A c \in Caller : conn[c] # NoConn => socket[conn[c]].peer = call[c].url
  /\ \A h \in Host : \A x \in In(pool[h]) : socket[x].peer = h

(* The pool keeps no more idle connections per host than it may. *)
PoolBounded == \A h \in Host : Len(pool[h]) =< max_idle_connections_

(* A call tries at most max_retries_ + 1 connections for each of the
   max_redirects_ + 1 URLs it may visit, and gives up with -5 or -4 only
   after it tried as many as each limit grants. *)
AttemptsBounded ==
  \A c \in Caller :
    /\ attempts[c] =< AttemptBound
    /\ code[c] = -5 => attempts[c] > max_retries_
    /\ code[c] = -4 => attempts[c] > max_redirects_

(* How much a call can still do: the rounds its two counters leave it, and in
   each the way from the top of request_impl to its end.  A redirect gives it
   all its retries back and costs a redirect. *)
PerUrl == max_retries_ + 1
Way ==
  [enter |-> 6, acquire |-> 5, create |-> 4, write |-> 3, read |-> 2,
   return |-> 1, idle |-> 0]
Rounds(redirects, retries) ==
  (max_redirects_ + 1 - redirects) * (PerUrl + 1) + (PerUrl - retries)
Work(c) ==
  IF pc[c] = "idle" THEN 0
  ELSE 7 * Rounds(call[c].redirects, call[c].retries) + Way[pc[c]]
CallWork == 7 * Rounds(0, 0) + 6

(* A call takes at most CallWork steps, whatever its peers and the other
   callers do: each step uses some of that up, and only a new call renews it. *)
CallShrinks ==
  [][\A c \in Caller :
       /\ Call(c) => Work(c)' = CallWork
       /\ request_impl(c) => Work(c)' < Work(c)
       /\ ~Call(c) => Work(c)' =< Work(c)]_vars

(* Whose each connection is, for the abstract view of the pool. *)
Owner(x) ==
  IF x \in Held THEN CHOOSE c \in Caller : conn[c] = x
  ELSE IF x \in Pooled THEN CHOOSE h \in Host : x \in In(pool[h])
  ELSE "closed"
Ownership == INSTANCE ConnectionOwnership
               WITH owner <- [x \in Conn |-> Owner(x)],
                    peer <- [x \in Conn |-> socket[x].peer]
OwnershipSpec == Ownership!Spec

(* Blocking calls: retries and redirects end, with whatever faults, so that a
   caller comes back again and again unless it waits for ever for one silent
   peer.  Nothing in http_client.hpp ends that wait. *)
CallReturns ==
  \A c \in Caller : []<>At(c, "idle") \/ <>[]Waits(c)

(* Awaited calls: the deadlines end every wait, so every call returns,
   whatever the peers do. *)
Deadlines == \A c \in Caller : WF_vars(Expires(c))
AwaitedCallReturns == Deadlines => \A c \in Caller : []<>At(c, "idle")
=============================================================================
