----------------------------- MODULE HttpServer -----------------------------
(***************************************************************************)
(* The server around the sessions: http_server::run_server and stop_server *)
(* and the accept loop request_connection::run_accept (libs/bst-http).     *)
(* The accept loop and every session are coroutines of one io_context,     *)
(* whose threads take the ready ones in the order they became ready.  A    *)
(* coroutine gives its thread back when it awaits an operation or ends;    *)
(* a synchronous operation - the read of a large body, the write of a      *)
(* short response - keeps the thread until the client has done its part.   *)
(*                                                                         *)
(* Of a session only its use of threads is modelled: what it reads and     *)
(* writes is the subject of RequestSession.                                *)
(***************************************************************************)
EXTENDS Naturals, Sequences, FiniteSets

CONSTANTS
  Client,    \* the clients that may connect, once each
  Stalling,  \* the clients that may stop sending a large body, or reading
  Acceptor,  \* the coroutine of run_accept
  threads,   \* the number of threads that run the io_context
  MaxSync    \* the synchronous operations a session may take in a row: the
             \* reads of a body within max_request_body_size, and the write

ASSUME ClientAssumption == Stalling \subseteq Client /\ Acceptor \notin Client
ASSUME ThreadsAssumption == threads \in Nat \ {0} /\ MaxSync \in Nat

Task == Client \cup {Acceptor}
NoClient == Acceptor

VARIABLES
  server,        \* run_server: "setup", "serving" or "returned"
  stop_server_,  \* request_connection::stop_server_
  at,            \* where each coroutine is (below)
  queue,         \* the ready coroutines, oldest first
  step,          \* run_accept: "listen", "test", "spawn" or "failed"
  accepted,      \* the connection async_accept delivered
  syncs,         \* the synchronous operations since a session last awaited
  asked,         \* history: whether a stop was requested, and whether it
                 \* was "early", before run_accept cleared the flag, or "timely"
  late           \* history: connections accepted since then

history == <<asked, late>>
vars == <<server, stop_server_, at, queue, step, accepted, syncs, history>>

(***************************************************************************)
(* A coroutine is "absent" until it is spawned, "queued" when ready,       *)
(* "running" or "blocked" (in a synchronous call) on a thread, "waiting"   *)
(* for an operation, and "ended".  A client that connected is in the       *)
(* "backlog" until accepted.                                               *)
(***************************************************************************)
Place ==
  {"absent", "backlog", "queued", "running", "blocked", "waiting", "ended"}

Holding == {t \in Task : at[t] \in {"running", "blocked"}}

Move(t, place) == at' = [at EXCEPT ![t] = place]
Enqueue(t) == Move(t, "queued") /\ queue' = Append(queue, t)

Init ==
  /\ server = "setup"
  /\ stop_server_ = FALSE
  /\ at = [t \in Task |-> "absent"]
  /\ queue = <<>>
  /\ step = "listen"
  /\ accepted = NoClient
  /\ syncs = [c \in Client |-> 0]
  /\ asked = "no"
  /\ late = 0
-----------------------------------------------------------------------------
(* run_server spawns run_accept and starts the threads. *)
RunServer ==
  /\ server = "setup"
  /\ server' = "serving"
  /\ Enqueue(Acceptor)
  /\ UNCHANGED <<stop_server_, step, accepted, syncs, history>>

(* A free thread resumes the coroutine that has been ready longest. *)
Dispatch ==
  /\ server = "serving"
  /\ queue # <<>>
  /\ Cardinality(Holding) < threads
  /\ Move(Head(queue), "running")
  /\ queue' = Tail(queue)
  /\ UNCHANGED <<server, stop_server_, step, accepted, syncs, history>>

OutOfWork == \A t \in Task : at[t] \in {"absent", "backlog", "ended"}

(* The io_context runs out of work: no coroutine is left, the threads return
   and are joined. *)
Return ==
  /\ server = "serving"
  /\ OutOfWork
  /\ server' = "returned"
  /\ UNCHANGED <<stop_server_, at, queue, step, accepted, syncs, history>>

(* run_server called once more: the io_context was stopped and is never
   restarted, so its threads return at once and the new run_accept stays
   queued for ever. *)
RunServerAgain ==
  /\ server = "returned"
  /\ at[Acceptor] = "ended"
  /\ Enqueue(Acceptor)
  /\ UNCHANGED <<server, stop_server_, step, accepted, syncs, history>>

(* stop_server, called by whoever holds the http_server; once the stop is on
   record, one more changes nothing. *)
Stop ==
  /\ stop_server_' = TRUE
  /\ asked # "timely"
  /\ asked' = IF step = "listen" THEN "early" ELSE "timely"
  /\ late' = 0
  /\ UNCHANGED <<server, at, queue, step, accepted, syncs>>
-----------------------------------------------------------------------------
(* run_accept. *)

AcceptorRuns(where) == at[Acceptor] = "running" /\ step = where

(* The flag is cleared, whatever was asked before, and the port opened. *)
Listen ==
  /\ AcceptorRuns("listen")
  /\ stop_server_' = FALSE
  /\ step' = "test"
  /\ UNCHANGED <<server, at, queue, accepted, syncs, history>>

(* Opening, binding or listening fails. *)
ListenFails ==
  /\ AcceptorRuns("listen")
  /\ stop_server_' = FALSE
  /\ step' = "failed"
  /\ Move(Acceptor, "ended")
  /\ UNCHANGED <<server, queue, accepted, syncs, history>>

(* Where the loop is until a connection comes.  Mutant: a synchronous accept,
   which keeps its thread. *)
AcceptingSync == "blocked"
Accepting == "waiting"

(* The loop condition: go and wait for a connection, or leave. *)
TestStop ==
  /\ AcceptorRuns("test")
  /\ Move(Acceptor, IF stop_server_ THEN "ended" ELSE Accepting)
  /\ UNCHANGED <<server, stop_server_, queue, step, accepted, syncs, history>>

AcceptCompletes(c) ==
  /\ at[Acceptor] = Accepting
  /\ at[c] = "backlog"
  /\ at' = [at EXCEPT ![Acceptor] = "queued", ![c] = "absent"]
  /\ queue' = Append(queue, Acceptor)
  /\ step' = "spawn"
  /\ accepted' = c
  /\ late' = IF asked = "no" THEN 0 ELSE late + 1
  /\ UNCHANGED <<server, stop_server_, syncs, asked>>

(* async_accept throws, for instance when descriptors run out: the coroutine
   ends and the server goes on with the sessions it has. *)
AcceptFails ==
  /\ at[Acceptor] = Accepting
  /\ Move(Acceptor, "ended")
  /\ step' = "failed"
  /\ UNCHANGED <<server, stop_server_, queue, accepted, syncs, history>>

(* Mutant: the port is opened, and the flag cleared, for each connection. *)
AfterSpawnListen == step' = "listen" /\ accepted' = NoClient
(* Mutant: the loop does not come back from the session it starts. *)
AfterSpawnStays == UNCHANGED <<step, accepted>>
AfterSpawn == step' = "test" /\ accepted' = NoClient

(* co_spawn, called on a thread of the io_context, runs the new session there
   and then, up to its first operation: only so is the accepted socket, which
   it takes by reference, still there. *)
Spawn ==
  /\ AcceptorRuns("spawn")
  /\ Move(accepted, "waiting")
  /\ AfterSpawn
  /\ UNCHANGED <<server, stop_server_, queue, syncs, history>>
-----------------------------------------------------------------------------
(* The sessions and their clients. *)

Connect(c) ==
  /\ at[c] = "absent"
  /\ accepted # c
  /\ server = "serving" /\ step # "listen" /\ at[Acceptor] # "ended"
  /\ Move(c, "backlog")
  /\ UNCHANGED <<server, stop_server_, queue, step, accepted, syncs, history>>

(* The session awaits a read or a write; it completes, be it with an error. *)
Await(c) ==
  /\ at[c] = "running"
  /\ Move(c, "waiting")
  /\ syncs' = [syncs EXCEPT ![c] = 0]
  /\ UNCHANGED <<server, stop_server_, queue, step, accepted, history>>

Completes(c) ==
  /\ at[c] = "waiting"
  /\ Enqueue(c)
  /\ UNCHANGED <<server, stop_server_, step, accepted, syncs, history>>

(* Mutant: the body limit is tested too late. *)
MaySyncBeyond(c) == syncs[c] =< MaxSync
MaySync(c) == syncs[c] < MaxSync

(* The session reads a piece of a large body, or writes a short response, and
   its thread waits until the client has sent, or has taken, that much. *)
Block(c) ==
  /\ at[c] = "running"
  /\ MaySync(c)
  /\ Move(c, "blocked")
  /\ syncs' = [syncs EXCEPT ![c] = @ + 1]
  /\ UNCHANGED <<server, stop_server_, queue, step, accepted, history>>

Unblock(c) ==
  /\ at[c] = "blocked"
  /\ Move(c, "running")
  /\ UNCHANGED <<server, stop_server_, queue, step, accepted, syncs, history>>

EndSession(c) ==
  /\ at[c] = "running"
  /\ Move(c, "ended")
  /\ UNCHANGED <<server, stop_server_, queue, step, accepted, syncs, history>>

Acceptance ==
  \/ Listen \/ ListenFails \/ TestStop \/ AcceptFails \/ Spawn
  \/ \E c \in Client : AcceptCompletes(c)

Session(c) ==
  \/ Await(c) \/ Completes(c) \/ Block(c) \/ Unblock(c)
  \/ EndSession(c)

Next ==
  \/ RunServer \/ Dispatch \/ Return \/ RunServerAgain \/ Stop
  \/ Acceptance
  \/ \E c \in Client : Connect(c) \/ Session(c)

Spec == Init /\ [][Next]_vars

(* The threads run what is ready, a coroutine on a thread goes on to its next
   operation, and a client that does not stall does its part. *)
Fairness ==
  /\ WF_vars(RunServer) /\ WF_vars(Dispatch) /\ WF_vars(Return)
  /\ WF_vars(Listen) /\ WF_vars(TestStop) /\ WF_vars(Spawn)
  /\ WF_vars(\E c \in Client : AcceptCompletes(c))
  /\ \A c \in Client :
       /\ WF_vars(Await(c) \/ Block(c) \/ EndSession(c))
       /\ c \notin Stalling => WF_vars(Unblock(c))

FairSpec == Spec /\ Fairness
-----------------------------------------------------------------------------
(* Every variable has the type the code declares for it. *)
TypeOK ==
  /\ server \in {"setup", "serving", "returned"}
  /\ stop_server_ \in BOOLEAN
  /\ at \in [Task -> Place]
  /\ queue \in Seq(Task)
  /\ step \in {"listen", "test", "spawn", "failed"}
  /\ accepted \in Client \cup {NoClient}
  /\ syncs \in [Client -> 0 .. MaxSync]
  /\ asked \in {"no", "early", "timely"}
  /\ late \in Nat

(* After a stop at most one more connection is taken, the one the pending
   accept was waiting for.  More are taken only after a stop that came before
   run_accept began to listen: it cleared the flag, and that stop is lost. *)
LateBounded == late > 1 => asked = "early"

(* As many clients stall as there are threads, in the middle of a large body
   or of a short response: no thread is left to run anything. *)
Stuck == Cardinality({c \in Stalling : at[c] = "blocked"}) >= threads

(* A coroutine that is ready is run, whatever the clients send, leave unread
   or wait for, unless from some time on the server is stuck. *)
NoStarvation ==
  \A t \in Task :
    (at[t] = "queued" /\ server = "serving")
      ~> (at[t] = "running" \/ []Stuck)

(* A client that connected gets its session, unless a stop was requested, the
   accept loop failed, or the server is stuck for ever: sessions that wait, and
   clients that stall while a thread is left, keep nobody out. *)
ConnectedServed ==
  \A c \in Client :
    at[c] = "backlog" ~> (at[c] = "waiting" \/ stop_server_
                            \/ step = "failed" \/ []Stuck)

(* stop_server, "stop the server": a stop requested of a serving server makes
   it stop accepting. *)
StopEnds ==
  (server = "serving" /\ asked = "timely") ~> at[Acceptor] = "ended"
=============================================================================
