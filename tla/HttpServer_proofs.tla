-------------------------- MODULE HttpServer_proofs --------------------------
(***************************************************************************)
(* Proofs about the server and its accept loop, for any number of clients  *)
(* and threads.                                                            *)
(***************************************************************************)
EXTENDS HttpServer, SequenceTheorems, TLAPS

-----------------------------------------------------------------------------
(* The inductive invariant. *)

(* The ready queue holds the coroutines that are ready, each once, and the
   accept loop holds a connection exactly when it is about to spawn it. *)
OneThreadEach ==
  /\ \A i, j \in 1 .. Len(queue) : queue[i] = queue[j] => i = j
  /\ \A t \in Task :
       at[t] = "queued" <=> \E i \in 1 .. Len(queue) : queue[i] = t
  /\ accepted # NoClient <=> step = "spawn"

(* Where the accept loop is when it holds a connection, when the server has
   not begun, and when it has returned; the connection it holds is nobody's. *)
Phases ==
  /\ server = "setup" => at[Acceptor] = "absent"
  /\ step = "spawn" => at[Acceptor] \in {"queued", "running"}
  /\ accepted # NoClient => at[accepted] = "absent"
  /\ server = "returned" =>
       at[Acceptor] \in {"absent", "backlog", "ended", "queued"}

(* A timely stop leaves the flag set, as run_accept cleared it before; the late
   connection was let in by the accept that was pending, and none is pending
   after it. *)
LateOnce ==
  /\ asked = "no" => late = 0
  /\ asked = "timely" =>
       /\ stop_server_ /\ step # "listen"
       /\ late =< 1
       /\ late > 0 => at[Acceptor] # "waiting"

IInv == TypeOK /\ OneThreadEach /\ Phases /\ LateOnce
-----------------------------------------------------------------------------
(* The ready queue. *)

(* A coroutine that is not in the queue is put at its end, once. *)
LEMMA EnqueueOnce ==
  ASSUME NEW q \in Seq(Task), NEW t \in Task,
         \A i, j \in 1 .. Len(q) : q[i] = q[j] => i = j,
         \A i \in 1 .. Len(q) : q[i] # t
  PROVE  /\ Append(q, t) \in Seq(Task)
         /\ \A i, j \in 1 .. Len(Append(q, t)) :
              Append(q, t)[i] = Append(q, t)[j] => i = j
         /\ \A u \in Task :
              (\E i \in 1 .. Len(Append(q, t)) : Append(q, t)[i] = u)
                <=> (u = t \/ \E i \in 1 .. Len(q) : q[i] = u)
<1> DEFINE r == Append(q, t)
<1>1. /\ r \in Seq(Task) /\ Len(r) = Len(q) + 1
      /\ \A i \in 1 .. Len(q) : r[i] = q[i]
      /\ r[Len(q) + 1] = t
  BY AppendProperties
<1>2. Len(q) \in Nat
  BY LenProperties
<1> HIDE DEF r
<1>3. \A i, j \in 1 .. Len(r) : r[i] = r[j] => i = j
  BY <1>1, <1>2
<1>4. ASSUME NEW u \in Task
      PROVE  (\E i \in 1 .. Len(r) : r[i] = u)
               <=> (u = t \/ \E i \in 1 .. Len(q) : q[i] = u)
  <2>1. Len(q) + 1 \in 1 .. Len(r)
    BY <1>1, <1>2
  <2>2. \A i \in 1 .. Len(q) : i \in 1 .. Len(r)
    BY <1>1, <1>2
  <2>3. \A i \in 1 .. Len(r) : i \in 1 .. Len(q) \/ i = Len(q) + 1
    BY <1>1, <1>2
  <2> QED
    BY <1>1, <2>1, <2>2, <2>3
<1> QED
  BY <1>1, <1>3, <1>4 DEF r

(* The first is taken off; the others stay, and it is gone. *)
LEMMA DequeueFirst ==
  ASSUME NEW q \in Seq(Task), q # <<>>,
         \A i, j \in 1 .. Len(q) : q[i] = q[j] => i = j
  PROVE  /\ q[1] \in Task
         /\ Tail(q) \in Seq(Task)
         /\ \A i, j \in 1 .. Len(Tail(q)) :
              Tail(q)[i] = Tail(q)[j] => i = j
         /\ \A u \in Task :
              (\E i \in 1 .. Len(Tail(q)) : Tail(q)[i] = u)
                <=> (u # q[1] /\ \E i \in 1 .. Len(q) : q[i] = u)
         /\ Len(Tail(q)) = Len(q) - 1
         /\ \A i \in 1 .. Len(q) - 1 : Tail(q)[i] = q[i + 1]
<1> DEFINE r == Tail(q)
<1>1. Len(q) \in Nat \ {0} /\ q[1] \in Task
  BY EmptySeq, LenProperties, ElementOfSeq
<1>2. /\ r \in Seq(Task) /\ Len(r) = Len(q) - 1
      /\ \A i \in 1 .. Len(r) : r[i] = q[i + 1]
  BY HeadTailProperties
<1> HIDE DEF r
<1>3. \A i, j \in 1 .. Len(r) : r[i] = r[j] => i = j
  <2> SUFFICES ASSUME NEW i \in 1 .. Len(r), NEW j \in 1 .. Len(r), r[i] = r[j]
               PROVE  i = j
    OBVIOUS
  <2>1. i + 1 \in 1 .. Len(q) /\ j + 1 \in 1 .. Len(q)
    BY <1>1, <1>2
  <2>2. i + 1 = j + 1
    BY <1>2, <2>1
  <2> QED
    BY <2>2, <1>1, <1>2
<1>4. ASSUME NEW u \in Task
      PROVE  (\E i \in 1 .. Len(r) : r[i] = u)
               <=> (u # q[1] /\ \E i \in 1 .. Len(q) : q[i] = u)
  <2>1. ASSUME NEW i \in 1 .. Len(r), r[i] = u
        PROVE  u # q[1] /\ \E k \in 1 .. Len(q) : q[k] = u
    <3>1. i + 1 \in 1 .. Len(q) /\ i + 1 # 1 /\ 1 \in 1 .. Len(q)
      BY <1>1, <1>2
    <3>2. q[i + 1] = u
      BY <1>2, <2>1
    <3> QED
      BY <3>1, <3>2
  <2>2. ASSUME u # q[1], NEW k \in 1 .. Len(q), q[k] = u
        PROVE  \E i \in 1 .. Len(r) : r[i] = u
    <3>1. k - 1 \in 1 .. Len(r) /\ (k - 1) + 1 = k
      BY <1>1, <1>2, <2>2
    <3>2. r[k - 1] = u
      BY <1>2, <2>2, <3>1
    <3> QED
      BY <3>1, <3>2
  <2> QED
    BY <2>1, <2>2
<1> QED
  BY <1>1, <1>2, <1>3, <1>4 DEF r
-----------------------------------------------------------------------------
(* The invariant is inductive. *)

(* Before run_server everything is absent and the queue empty. *)
LEMMA InvInit == Init => IInv
<1> SUFFICES ASSUME Init
             PROVE  IInv
  OBVIOUS
<1>1. TypeOK
  <2>1. queue \in Seq(Task)
    BY EmptySeq DEF Init
  <2>2. at \in [Task -> Place] /\ syncs \in [Client -> 0 .. MaxSync]
    BY ThreadsAssumption DEF Init, Place
  <2> QED
    BY <2>1, <2>2 DEF Init, TypeOK, NoClient
<1>2. OneThreadEach
  BY DEF Init, OneThreadEach
<1> QED
  BY <1>1, <1>2 DEF Init, IInv, Phases, LateOnce, Task, NoClient

(* A step that moves one coroutine, ready neither before nor after, leaves the
   queue as it should be. *)
LEMMA MoveQueue ==
  ASSUME TypeOK, OneThreadEach, NEW t \in Task, NEW place \in Place,
         at[t] # "queued", place # "queued", Move(t, place),
         UNCHANGED queue
  PROVE  /\ at' \in [Task -> Place]
         /\ \A i, j \in 1 .. Len(queue') : queue'[i] = queue'[j] => i = j
         /\ \A u \in Task :
              at'[u] = "queued" <=> \E i \in 1 .. Len(queue') : queue'[i] = u
  BY DEF TypeOK, OneThreadEach, Move

(* So does one that makes a coroutine ready. *)
LEMMA EnqueueQueue ==
  ASSUME TypeOK, OneThreadEach, NEW t \in Task, at[t] # "queued", Enqueue(t)
  PROVE  /\ at' \in [Task -> Place]
         /\ queue' \in Seq(Task)
         /\ \A i, j \in 1 .. Len(queue') : queue'[i] = queue'[j] => i = j
         /\ \A u \in Task :
              at'[u] = "queued" <=> \E i \in 1 .. Len(queue') : queue'[i] = u
<1>1. queue \in Seq(Task) /\ \A i \in 1 .. Len(queue) : queue[i] # t
  BY DEF TypeOK, OneThreadEach
<1>2. queue' = Append(queue, t) /\ at' = [at EXCEPT ![t] = "queued"]
  BY DEF Enqueue, Move
<1>3. \A i, j \in 1 .. Len(queue) : queue[i] = queue[j] => i = j
  BY DEF OneThreadEach
<1>4. /\ queue' \in Seq(Task)
      /\ \A i, j \in 1 .. Len(queue') : queue'[i] = queue'[j] => i = j
      /\ \A u \in Task :
           (\E i \in 1 .. Len(queue') : queue'[i] = u)
             <=> (u = t \/ \E i \in 1 .. Len(queue) : queue[i] = u)
  BY <1>1, <1>2, <1>3, EnqueueOnce
<1>5. at' \in [Task -> Place]
  BY <1>2 DEF TypeOK, Place
<1>6. \A u \in Task : at'[u] = "queued" <=> (u = t \/ at[u] = "queued")
  BY <1>2 DEF TypeOK
<1> QED
  BY <1>4, <1>5, <1>6 DEF OneThreadEach

(* Every action keeps the invariant: one step per action. *)
LEMMA InvStep == IInv /\ [Next]_vars => IInv'
<1> SUFFICES ASSUME IInv, [Next]_vars
             PROVE  IInv'
  OBVIOUS
<1> USE ClientAssumption, ThreadsAssumption DEF history, Accepting
<1>0. TypeOK /\ OneThreadEach /\ Phases /\ LateOnce
  BY DEF IInv
<1>1. CASE RunServer
  <2>1. Acceptor \in Task /\ at[Acceptor] # "queued" /\ Enqueue(Acceptor)
    BY <1>0, <1>1 DEF RunServer, Phases, Task
  <2>2. at' = [at EXCEPT ![Acceptor] = "queued"]
    BY <2>1 DEF Enqueue, Move
  <2> QED
    BY <1>0, <1>1, <2>1, <2>2, EnqueueQueue
    DEF RunServer, IInv, TypeOK, OneThreadEach, Phases, LateOnce,
        Task, Place, NoClient, Holding
<1>2. CASE Dispatch
  <2> DEFINE t == queue[1]
  <2>1. /\ t \in Task /\ at[t] = "queued"
        /\ queue' \in Seq(Task)
        /\ \A i, j \in 1 .. Len(queue') : queue'[i] = queue'[j] => i = j
        /\ \A u \in Task :
             (\E i \in 1 .. Len(queue') : queue'[i] = u)
               <=> (u # t /\ at[u] = "queued")
    <3>1. queue' = Tail(queue) /\ queue # <<>> /\ queue \in Seq(Task)
      BY <1>0, <1>2 DEF Dispatch, TypeOK
    <3>2. 1 \in 1 .. Len(queue)
      BY <3>1, EmptySeq, LenProperties
    <3>3. /\ \A i, j \in 1 .. Len(queue) : queue[i] = queue[j] => i = j
          /\ \A u \in Task :
               at[u] = "queued" <=> \E i \in 1 .. Len(queue) : queue[i] = u
      BY <1>0 DEF OneThreadEach
    <3>4. /\ t \in Task /\ queue' \in Seq(Task)
          /\ \A i, j \in 1 .. Len(queue') : queue'[i] = queue'[j] => i = j
          /\ \A u \in Task :
               (\E i \in 1 .. Len(queue') : queue'[i] = u)
                 <=> (u # t /\ \E i \in 1 .. Len(queue) : queue[i] = u)
      <4> DEFINE r == Tail(queue)
      <4>1. queue \in Seq(Task) /\ queue # <<>>
        BY <3>1
      <4>2. \A i, j \in 1 .. Len(queue) : queue[i] = queue[j] => i = j
        BY <3>3
      <4>3. /\ queue[1] \in Task /\ r \in Seq(Task)
            /\ \A i, j \in 1 .. Len(r) : r[i] = r[j] => i = j
            /\ \A u \in Task :
                 (\E i \in 1 .. Len(r) : r[i] = u)
                   <=> (u # queue[1] /\ \E i \in 1 .. Len(queue) : queue[i] = u)
        BY <4>1, <4>2, DequeueFirst, Zenon
      <4>4. queue' = r
        BY <3>1
      <4> HIDE DEF r
      <4> QED
        BY <4>3, <4>4
    <3>5. at[t] = "queued"
      BY <3>2, <3>3, <3>4
    <3> QED
      BY <3>3, <3>4, <3>5
  <2>2. /\ at' = [at EXCEPT ![t] = "running"]
        /\ server = "serving"
        /\ UNCHANGED <<server, stop_server_, step, accepted, syncs, history>>
    BY <1>2 DEF Dispatch, Move
  <2> HIDE DEF t
  <2> QED
    BY <1>0, <2>1, <2>2
    DEF IInv, TypeOK, OneThreadEach, Phases, LateOnce,
        Task, Place, NoClient, Holding
<1>3. CASE Return
  BY <1>0, <1>3
  DEF Return, IInv, TypeOK, OneThreadEach, Phases, LateOnce,
        Task, Place, NoClient, Holding, OutOfWork
<1>4. CASE RunServerAgain
  <2>1. Acceptor \in Task /\ at[Acceptor] # "queued" /\ Enqueue(Acceptor)
    BY <1>0, <1>4 DEF RunServerAgain, Phases, Task
  <2>2. at' = [at EXCEPT ![Acceptor] = "queued"]
    BY <2>1 DEF Enqueue, Move
  <2> QED
    BY <1>0, <1>4, <2>1, <2>2, EnqueueQueue
    DEF RunServerAgain, IInv, TypeOK, OneThreadEach, Phases, LateOnce, Task, Place, NoClient, Holding
<1>5. CASE Stop
  BY <1>0, <1>5
  DEF Stop, IInv, TypeOK, OneThreadEach, Phases, LateOnce,
        Task, Place, NoClient, Holding
<1>6. CASE Listen
  <2>1. TypeOK'
    BY <1>0, <1>6
    DEF Listen, TypeOK, Task, NoClient, AcceptorRuns
  <2>2. OneThreadEach'
    BY <1>0, <1>6
    DEF Listen, TypeOK, OneThreadEach, NoClient, AcceptorRuns
  <2>3. Phases' /\ LateOnce'
    BY <1>0, <1>6
    DEF Listen, TypeOK, OneThreadEach, Phases, LateOnce, Task,
        NoClient, Holding, AcceptorRuns
  <2> QED
    BY <2>1, <2>2, <2>3 DEF IInv
<1>7. CASE ListenFails
  <2>1. Acceptor \in Task /\ at[Acceptor] # "queued" /\ Move(Acceptor, "ended")
    BY <1>0, <1>7 DEF ListenFails, AcceptorRuns, Task, Place
  <2>2. TypeOK'
    BY <1>0, <1>7, <2>1, MoveQueue
    DEF ListenFails, TypeOK, Task, NoClient, Move, Place, AcceptorRuns
  <2>3. OneThreadEach'
    BY <1>0, <1>7, <2>1, MoveQueue
    DEF ListenFails, TypeOK, OneThreadEach, NoClient, Move, Place, AcceptorRuns
  <2>4. Phases' /\ LateOnce'
    BY <1>0, <1>7, <2>1, MoveQueue
    DEF ListenFails, TypeOK, OneThreadEach, Phases, LateOnce,
        Task, NoClient, Holding, Move, Place, AcceptorRuns
  <2> QED
    BY <2>2, <2>3, <2>4 DEF IInv
<1>8. CASE TestStop
  <2>1. PICK place \in {"ended", "waiting"} :
          /\ Move(Acceptor, place)
          /\ place = "waiting" => ~stop_server_
    BY <1>8 DEF TestStop, Accepting
  <2>2. Acceptor \in Task /\ at[Acceptor] # "queued" /\ place \in Place
    BY <1>8 DEF TestStop, AcceptorRuns, Task, Place
  <2> QED
    BY <1>0, <1>8, <2>1, <2>2, MoveQueue
    DEF TestStop, Move, AcceptorRuns, IInv, TypeOK, OneThreadEach, Phases,
        LateOnce, Task, Place, NoClient, Holding
<1>9. CASE AcceptFails
  <2>1. Acceptor \in Task /\ at[Acceptor] # "queued" /\ Move(Acceptor, "ended")
    BY <1>0, <1>9 DEF AcceptFails, Task, Place
  <2> QED
    BY <1>0, <1>9, <2>1, MoveQueue
    DEF AcceptFails, Move, IInv, TypeOK, OneThreadEach, Phases, LateOnce, Task, Place, NoClient, Holding
<1>10. CASE Spawn
  <2>1. /\ accepted \in Task /\ accepted # Acceptor
        /\ at[accepted] = "absent" /\ Move(accepted, "waiting")
        /\ at[Acceptor] = "running" /\ server # "returned"
    BY <1>0, <1>10
    DEF Spawn, AcceptorRuns, IInv, TypeOK, OneThreadEach, Phases, LateOnce, Task, Place, NoClient, Holding
  <2>2. step' = "test" /\ accepted' = NoClient
    BY <1>10 DEF Spawn, AfterSpawn
  <2> QED
    BY <1>0, <1>10, <2>1, <2>2, MoveQueue
    DEF Spawn, Move, IInv, TypeOK, OneThreadEach, Phases, LateOnce, Task, Place, NoClient, Holding
<1>11. ASSUME NEW c \in Client, AcceptCompletes(c)
      PROVE  IInv'
  <2> DEFINE mid == [at EXCEPT ![c] = "absent"]
  <2>1. /\ c \in Task /\ c # Acceptor /\ Acceptor \in Task
        /\ at[Acceptor] = "waiting" /\ at[c] = "backlog"
        /\ at' = [mid EXCEPT ![Acceptor] = "queued"]
        /\ queue' = Append(queue, Acceptor)
    BY <1>0, <1>11 DEF AcceptCompletes, Task, TypeOK
  <2>2. /\ queue' \in Seq(Task)
        /\ \A i, j \in 1 .. Len(queue') : queue'[i] = queue'[j] => i = j
        /\ \A u \in Task :
             (\E i \in 1 .. Len(queue') : queue'[i] = u)
               <=> (u = Acceptor \/ at[u] = "queued")
    <3>1. /\ queue \in Seq(Task)
          /\ \A i \in 1 .. Len(queue) : queue[i] # Acceptor
          /\ \A i, j \in 1 .. Len(queue) : queue[i] = queue[j] => i = j
      BY <1>0, <2>1 DEF TypeOK, OneThreadEach
    <3>2. \A u \in Task :
            at[u] = "queued" <=> \E i \in 1 .. Len(queue) : queue[i] = u
      BY <1>0 DEF OneThreadEach
    <3> QED
      BY <2>1, <3>1, <3>2, EnqueueOnce
  <2>3. /\ step' = "spawn" /\ accepted' = c
        /\ late' = IF asked = "no" THEN 0 ELSE late + 1
        /\ UNCHANGED <<server, stop_server_, syncs, asked>>
    BY <1>11 DEF AcceptCompletes
  <2>4. server # "returned" /\ (asked = "timely" => late = 0)
    BY <1>0, <2>1 DEF Phases, LateOnce, TypeOK
  <2>5. TypeOK'
    <3>1. at' \in [Task -> Place]
      BY <1>0, <2>1 DEF TypeOK, Place
    <3> QED
      BY <1>0, <2>2, <2>3, <2>4, <3>1 DEF TypeOK
  <2>6. OneThreadEach'
    <3>1. \A u \in Task :
            at'[u] = "queued" <=> (u = Acceptor \/ at[u] = "queued")
      BY <1>0, <2>1 DEF TypeOK
    <3>2. \A u \in Task :
            at'[u] = "queued" <=> \E i \in 1 .. Len(queue') : queue'[i] = u
      BY <2>2, <3>1
    <3>3. accepted' # NoClient /\ step' = "spawn"
      BY <2>1, <2>3 DEF NoClient
    <3> QED
      BY <2>2, <3>2, <3>3 DEF OneThreadEach
  <2>7. Phases' /\ LateOnce'
    BY <1>0, <2>1, <2>2, <2>3, <2>4
    DEF TypeOK, OneThreadEach, Phases, LateOnce, Task,
        NoClient, Holding, Place
  <2> QED
    BY <2>5, <2>6, <2>7 DEF IInv
<1>12. ASSUME NEW c \in Client, Connect(c)
      PROVE  IInv'
  <2>1. c \in Task /\ at[c] # "queued" /\ Move(c, "backlog")
    BY <1>0, <1>12 DEF Connect, Task, Place
  <2> QED
    BY <1>0, <1>12, <2>1, MoveQueue
    DEF Connect, Move, IInv, TypeOK, OneThreadEach, Phases, LateOnce, Task, Place, NoClient, Holding
<1>13. ASSUME NEW c \in Client, Await(c)
      PROVE  IInv'
  <2>1. c \in Task /\ at[c] # "queued" /\ Move(c, "waiting")
    BY <1>0, <1>13 DEF Await, Task, Place
  <2> QED
    BY <1>0, <1>13, <2>1, MoveQueue
    DEF Await, Move, IInv, TypeOK, OneThreadEach, Phases, LateOnce, Task, Place, NoClient, Holding
<1>14. ASSUME NEW c \in Client, Completes(c)
      PROVE  IInv'
  <2>1. c \in Task /\ at[c] # "queued" /\ Enqueue(c)
    BY <1>0, <1>14 DEF Completes, Phases, Task
  <2>2. at' = [at EXCEPT ![c] = "queued"]
    BY <2>1 DEF Enqueue, Move
  <2> QED
    BY <1>0, <1>14, <2>1, <2>2, EnqueueQueue
    DEF Completes, IInv, TypeOK, OneThreadEach, Phases, LateOnce,
        Task, Place, NoClient, Holding
<1>15. ASSUME NEW c \in Client, Block(c)
      PROVE  IInv'
  <2>1. c \in Task /\ at[c] # "queued" /\ Move(c, "blocked")
    BY <1>0, <1>15 DEF Block, Task, Place
  <2> QED
    BY <1>0, <1>15, <2>1, MoveQueue
    DEF Block, Move, IInv, TypeOK, OneThreadEach, Phases, LateOnce, Task, Place, NoClient, Holding, MaySync
<1>16. ASSUME NEW c \in Client, Unblock(c)
      PROVE  IInv'
  <2>1. c \in Task /\ at[c] # "queued" /\ Move(c, "running")
    BY <1>0, <1>16 DEF Unblock, Task, Place
  <2> QED
    BY <1>0, <1>16, <2>1, MoveQueue
    DEF Unblock, Move, IInv, TypeOK, OneThreadEach, Phases, LateOnce, Task, Place, NoClient, Holding
<1>17. ASSUME NEW c \in Client, EndSession(c)
      PROVE  IInv'
  <2>1. c \in Task /\ at[c] # "queued" /\ Move(c, "ended")
    BY <1>0, <1>17 DEF EndSession, Task, Place
  <2> QED
    BY <1>0, <1>17, <2>1, MoveQueue
    DEF EndSession, Move, IInv, TypeOK, OneThreadEach, Phases, LateOnce, Task, Place, NoClient, Holding
<1>18. CASE UNCHANGED vars
  BY <1>0, <1>18
  DEF vars, IInv, TypeOK, OneThreadEach, Phases, LateOnce,
        Task, Place, NoClient, Holding
<1> QED
  BY <1>1, <1>2, <1>3, <1>4, <1>5, <1>6, <1>7, <1>8, <1>9, <1>10,
     <1>11, <1>12, <1>13, <1>14, <1>15, <1>16, <1>17, <1>18
  DEF Next, Acceptance, Session
-----------------------------------------------------------------------------
(* The theorems. *)

(* The coroutines are where the ready queue, the accept loop and the count of
   late connections say they are, in every reachable state. *)
THEOREM Invariant == Spec => []IInv
<1>1. Init => IInv
  BY InvInit
<1>2. IInv /\ [Next]_vars => IInv'
  BY InvStep
<1> QED
  BY <1>1, <1>2, PTL DEF Spec

(* Every variable of the server keeps its type: the places of the coroutines,
   the ready queue and the number of synchronous operations in a row. *)
THEOREM TypeCorrect == Spec => []TypeOK
<1>1. IInv => TypeOK
  BY DEF IInv
<1> QED
  BY <1>1, Invariant, PTL

(* At most one connection is accepted after a stop that run_accept did not
   undo by clearing the flag. *)
THEOREM LateBoundedHolds == Spec => []LateBounded
<1>1. IInv => LateBounded
  BY DEF IInv, TypeOK, LateOnce, LateBounded
<1> QED
  BY <1>1, Invariant, PTL
=============================================================================
