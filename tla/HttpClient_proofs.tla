-------------------------- MODULE HttpClient_proofs --------------------------
(***************************************************************************)
(* Proofs about the HTTP clients and their pool, for any number of callers *)
(* and sockets, any hosts and any limits.                                  *)
(***************************************************************************)
EXTENDS HttpClient, SequenceTheorems, TLAPS

-----------------------------------------------------------------------------
(* The inductive invariant: the properties of the pool, connection by
   connection, and what the place of a caller says of its connection. *)

IsHeld(x) == \E c \in Caller : conn[c] = x
IsPooled(x) == \E h \in Host : \E i \in 1 .. Len(pool[h]) : pool[h][i] = x

HeldOnce ==
  \A c, d \in Caller : c # d /\ conn[c] # NoConn => conn[c] # conn[d]
PooledOnce ==
  \A g, h \in Host : \A i \in 1 .. Len(pool[g]), j \in 1 .. Len(pool[h]) :
    pool[g][i] = pool[h][j] => g = h /\ i = j
Apart ==
  \A c \in Caller, h \in Host : \A i \in 1 .. Len(pool[h]) :
    pool[h][i] # conn[c]
OpenOnes == \A x \in Conn : Open(x) <=> IsHeld(x) \/ IsPooled(x)
PooledHost ==
  \A h \in Host : \A i \in 1 .. Len(pool[h]) : socket[pool[h][i]].peer = h
Connections ==
  HeldOnce /\ PooledOnce /\ Apart /\ OpenOnes /\ PooledHost /\ PoolBounded

(* A caller has a connection from the time it got one until it let go of it,
   and a URL that parses from the time it was admitted. *)
Stages ==
  \A c \in Caller :
    /\ conn[c] # NoConn <=> pc[c] \in {"write", "read", "return"}
    /\ pc[c] \notin {"idle", "enter"} => call[c].url \in Host

CallerHost ==
  \A c \in Caller : conn[c] # NoConn => socket[conn[c]].peer = call[c].url

IInv == TypeOK /\ Stages /\ Connections /\ CallerHost
-----------------------------------------------------------------------------
(* What the steps do to the connections, whatever they do to the calls. *)

Rests == UNCHANGED <<pool, socket, conn>>
Takes(c) ==
  LET h == call[c].url
  IN  /\ h \in Host
      /\ conn[c] = NoConn
      /\ Len(pool[h]) > 0
      /\ conn' = [conn EXCEPT ![c] = pool[h][1]]
      /\ pool' = [pool EXCEPT ![h] = SubSeq(@, 2, Len(@))]
      /\ UNCHANGED socket
Makes(c, x) ==
  /\ conn[c] = NoConn
  /\ call[c].url \in Host
  /\ x \in Conn
  /\ ~Open(x)
  /\ socket' = [socket EXCEPT ![x] = [peer |-> call[c].url, up |-> TRUE]]
  /\ conn' = [conn EXCEPT ![c] = x]
  /\ UNCHANGED pool
Discards(c) ==
  /\ conn[c] # NoConn
  /\ Close(c)
  /\ LetGo(c)
  /\ UNCHANGED pool
Keeps(c) ==
  LET h == call[c].url
  IN  /\ h \in Host
      /\ conn[c] # NoConn
      /\ Len(pool[h]) < max_idle_connections_
      /\ pool' = [pool EXCEPT ![h] = Append(@, conn[c])]
      /\ LetGo(c)
      /\ UNCHANGED socket
Drops(x) ==
  /\ socket[x].up
  /\ socket' = [socket EXCEPT ![x].up = FALSE]
  /\ UNCHANGED <<pool, conn>>
-----------------------------------------------------------------------------
(* The queues: all pooled connections are open, so get takes the first. *)

LEMMA QueueFacts ==
  ASSUME TypeOK, Connections, NEW h \in Host
  PROVE  /\ Live(pool[h]) = 1 .. Len(pool[h])
         /\ Live(pool[h]) = {} => Remaining(pool[h]) = pool[h]
         /\ Live(pool[h]) # {} =>
              /\ Len(pool[h]) > 0
              /\ Oldest(pool[h]) = 1
              /\ Remaining(pool[h]) = SubSeq(pool[h], 2, Len(pool[h]))
<1> DEFINE q == pool[h]
<1>1. q \in Seq(Conn) /\ Len(q) \in Nat
  BY DEF TypeOK
<1>2. \A i \in 1 .. Len(q) : q[i] \in Conn /\ Open(q[i])
  <2> SUFFICES ASSUME NEW i \in 1 .. Len(q)
               PROVE  q[i] \in Conn /\ Open(q[i])
    OBVIOUS
  <2>1. q[i] \in Conn
    BY <1>1
  <2>2. IsPooled(q[i])
    BY DEF IsPooled
  <2> QED
    BY <2>1, <2>2 DEF Connections, OpenOnes
<1>3. Live(q) = 1 .. Len(q)
  BY <1>2 DEF Live
<1>4. ASSUME Live(q) = {} PROVE Remaining(q) = q
  <2>1. Len(q) = 0
    <3>1. 1 .. Len(q) = {}
      BY <1>3, <1>4
    <3>2. Len(q) > 0 => 1 \in 1 .. Len(q)
      BY <1>1
    <3> QED
      BY <1>1, <3>1, <3>2
  <2>2. q = <<>>
    BY <1>1, <2>1
  <2>3. Remaining(q) = <<>>
    BY <1>4 DEF Remaining
  <2> QED
    BY <2>2, <2>3
<1>5. ASSUME Live(q) # {}
      PROVE  /\ Len(q) > 0 /\ Oldest(q) = 1
             /\ Remaining(q) = SubSeq(q, 2, Len(q))
  <2>1. Len(q) > 0
    <3>1. PICK i : i \in 1 .. Len(q)
      BY <1>3, <1>5
    <3> QED
      BY <1>1, <3>1
  <2>2. Oldest(q) = 1
    <3>a. 1 \in 1 .. Len(q) /\ \A j \in 1 .. Len(q) : 1 =< j
      BY <1>1, <2>1
    <3>b. \A i \in 1 .. Len(q) : i =< 1 => i = 1
      BY <1>1
    <3>1. 1 \in Live(q) /\ \A j \in Live(q) : 1 =< j
      BY <1>3, <3>a
    <3>2. \A i \in Live(q) : (\A j \in Live(q) : i =< j) => i = 1
      BY <1>3, <3>a, <3>b
    <3> QED
      BY <3>1, <3>2 DEF Oldest
  <2>3. Remaining(q) = SubSeq(q, 2, Len(q))
    BY <1>5, <2>2 DEF Remaining
  <2> QED
    BY <2>1, <2>2, <2>3
<1> QED
  BY <1>3, <1>4, <1>5

(* What is left of a queue without its first element. *)
LEMMA TailFacts ==
  ASSUME NEW q \in Seq(Conn), Len(q) > 0
  PROVE  /\ SubSeq(q, 2, Len(q)) \in Seq(Conn)
         /\ Len(SubSeq(q, 2, Len(q))) = Len(q) - 1
         /\ \A i \in 1 .. Len(q) - 1 : SubSeq(q, 2, Len(q))[i] = q[i + 1]
<1>1. q # <<>> /\ Len(q) \in Nat
  OBVIOUS
<1>2. SubSeq(q, 2, Len(q)) = Tail(q)
  BY <1>1, TailIsSubSeq
<1>3. /\ Tail(q) \in Seq(Conn)
      /\ Len(Tail(q)) = Len(q) - 1
      /\ \A i \in 1 .. Len(Tail(q)) : Tail(q)[i] = q[i + 1]
  BY <1>1, HeadTailProperties
<1> QED
  BY <1>2, <1>3
-----------------------------------------------------------------------------
(* Type correctness. *)

(* Types hold when no call was made yet. *)
LEMMA TypeInit == Init => TypeOK
<1> SUFFICES ASSUME Init
             PROVE  TypeOK
  OBVIOUS
<1>1. pool \in [Host -> Seq(Conn)]
  BY EmptySeq DEF Init
<1>2. NoCall \in CallType
  BY DEF NoCall, Fresh, CallType, Url, Location
<1>3. socket \in [Conn -> Socket]
  BY DEF Init, Socket
<1>4. call \in [Caller -> CallType]
  BY <1>2 DEF Init
<1>5. pc \in [Caller -> Step]
  BY DEF Init, Step
<1>6. conn \in [Caller -> Conn \cup {NoConn}]
  BY DEF Init
<1>7. code \in [Caller -> Code] /\ attempts \in [Caller -> Nat]
  BY DEF Init, Code
<1> QED
  BY <1>1, <1>3, <1>4, <1>5, <1>6, <1>7 DEF TypeOK

(* The changes of a call's record keep its type. *)
LEMMA CallTypes ==
  ASSUME TypeOK, NEW c \in Caller
  PROVE  /\ NoCall \in CallType
         /\ \A u \in Url, k \in BOOLEAN : Fresh(u, k) \in CallType
         /\ Retry(c) => call' \in [Caller -> CallType]
<1>1. \A u \in Url, k \in BOOLEAN : Fresh(u, k) \in CallType
  BY DEF Fresh, CallType, Location, Url
<1>2. NoCall \in CallType
  BY <1>1 DEF NoCall, Url
<1>3. ASSUME Retry(c) PROVE call' \in [Caller -> CallType]
  <2>1. call[c] \in CallType
    BY DEF TypeOK
  <2>2. [call[c] EXCEPT !.retries = @ + 1] \in CallType
    BY <2>1 DEF CallType
  <2> QED
    BY <1>3, <2>2 DEF Retry, TypeOK
<1> QED
  BY <1>1, <1>2, <1>3

(* The changes of the connections keep their types. *)
LEMMA ConnectionTypes ==
  ASSUME TypeOK, NEW c \in Caller,
         \/ Rests \/ Takes(c) \/ Discards(c) \/ Keeps(c)
         \/ \E x \in Conn : Makes(c, x)
  PROVE  /\ pool' \in [Host -> Seq(Conn)]
         /\ socket' \in [Conn -> Socket]
         /\ conn' \in [Caller -> Conn \cup {NoConn}]
<1>1. CASE Rests
  BY <1>1 DEF Rests, TypeOK
<1>2. CASE Takes(c)
  <2> DEFINE h == call[c].url
  <2>1. h \in Host /\ pool[h] \in Seq(Conn) /\ Len(pool[h]) > 0
    BY <1>2 DEF Takes, TypeOK
  <2>2. SubSeq(pool[h], 2, Len(pool[h])) \in Seq(Conn) /\ pool[h][1] \in Conn
    BY <2>1, TailFacts
  <2> QED
    BY <1>2, <2>2 DEF Takes, TypeOK
<1>3. CASE Discards(c)
  BY <1>3 DEF Discards, Close, LetGo, TypeOK, Socket
<1>4. CASE Keeps(c)
  <2> DEFINE h == call[c].url
  <2>1. h \in Host /\ pool[h] \in Seq(Conn) /\ conn[c] \in Conn
    BY <1>4 DEF Keeps, TypeOK
  <2>2. Append(pool[h], conn[c]) \in Seq(Conn)
    BY <2>1
  <2> QED
    BY <1>4, <2>2 DEF Keeps, LetGo, TypeOK
<1>5. ASSUME NEW x \in Conn, Makes(c, x)
      PROVE  /\ pool' \in [Host -> Seq(Conn)]
             /\ socket' \in [Conn -> Socket]
             /\ conn' \in [Caller -> Conn \cup {NoConn}]
  BY <1>5 DEF Makes, TypeOK, Socket
<1> QED
  BY <1>1, <1>2, <1>3, <1>4, <1>5

(* The peer drops a connection: types are kept. *)
LEMMA DropsTypes ==
  ASSUME TypeOK, NEW x \in Conn, Drops(x)
  PROVE  /\ pool' \in [Host -> Seq(Conn)]
         /\ socket' \in [Conn -> Socket]
         /\ conn' \in [Caller -> Conn \cup {NoConn}]
<1>1. socket[x] \in Socket /\ socket[x].up
  BY DEF TypeOK, Drops
<1>2. [socket[x] EXCEPT !.up = FALSE] \in Socket
  <2>1. socket[x] \in [peer : Host, up : BOOLEAN]
    BY <1>1 DEF Socket, Closed
  <2>2. [socket[x] EXCEPT !.up = FALSE] \in [peer : Host, up : BOOLEAN]
    BY <2>1
  <2> QED
    BY <2>2 DEF Socket
<1> QED
  BY <1>2 DEF Drops, TypeOK
-----------------------------------------------------------------------------
(* What the steps do to the connections keeps what is said of them. *)

(* connection_pool::get: a connection passes from the pool to a caller. *)
LEMMA TakesKeeps ==
  ASSUME TypeOK, Connections, NEW c \in Caller, Takes(c)
  PROVE  Connections'
<1> DEFINE h == call[c].url
           q == pool[h]
<1>1. /\ h \in Host /\ q \in Seq(Conn) /\ Len(q) \in Nat /\ Len(q) > 0
      /\ conn[c] = NoConn
  BY DEF Takes, TypeOK
<1>2. /\ Len(pool'[h]) = Len(q) - 1
      /\ \A i \in 1 .. Len(q) - 1 : pool'[h][i] = q[i + 1]
  BY <1>1, TailFacts DEF Takes, TypeOK
<1>3. \A g \in Host : g # h => pool'[g] = pool[g]
  BY DEF Takes, TypeOK
<1>4. conn'[c] = q[1] /\ \A d \in Caller : d # c => conn'[d] = conn[d]
  BY DEF Takes, TypeOK
<1>5. \A g \in Host : Len(pool[g]) \in Nat
  BY DEF TypeOK
<1>6. /\ \A g \in Host : Len(pool'[g]) =< Len(pool[g])
      /\ \A g \in Host : \A i \in 1 .. Len(pool'[g]) :
           \E j \in 1 .. Len(pool[g]) :
             /\ pool'[g][i] = pool[g][j]
             /\ j = IF g = h THEN i + 1 ELSE i
  BY <1>1, <1>2, <1>3, <1>5
<1>7. 1 \in 1 .. Len(q)
  BY <1>1
<1>8. \A g \in Host : Len(pool'[g]) \in Nat
  BY <1>1, <1>2, <1>3, <1>5
<1>a. HeldOnce'
  BY <1>1, <1>4, <1>7 DEF Connections, HeldOnce, Apart
<1>b. PooledOnce'
  <2> SUFFICES ASSUME NEW g \in Host, NEW k \in Host,
                      NEW i \in 1 .. Len(pool'[g]),
                      NEW j \in 1 .. Len(pool'[k]),
                      pool'[g][i] = pool'[k][j]
               PROVE  g = k /\ i = j
    BY DEF PooledOnce
  <2>1. PICK m \in 1 .. Len(pool[g]) :
          pool'[g][i] = pool[g][m] /\ m = IF g = h THEN i + 1 ELSE i
    BY <1>6
  <2>2. PICK n \in 1 .. Len(pool[k]) :
          pool'[k][j] = pool[k][n] /\ n = IF k = h THEN j + 1 ELSE j
    BY <1>6
  <2>3. pool[g][m] = pool[k][n] => g = k /\ m = n
    BY DEF Connections, PooledOnce
  <2>4. g = k /\ m = n
    BY <2>1, <2>2, <2>3
  <2>5. i \in Nat /\ j \in Nat
    BY <1>8
  <2> QED
    BY <2>1, <2>2, <2>4, <2>5
<1>c. Apart'
  <2> SUFFICES ASSUME NEW d \in Caller, NEW g \in Host,
                      NEW i \in 1 .. Len(pool'[g])
               PROVE  pool'[g][i] # conn'[d]
    BY DEF Apart
  <2>1. PICK m \in 1 .. Len(pool[g]) :
          pool'[g][i] = pool[g][m] /\ m = IF g = h THEN i + 1 ELSE i
    BY <1>6
  <2>2. CASE d # c
    BY <1>4, <2>1, <2>2 DEF Connections, Apart
  <2>3. CASE d = c
    <3>1. g = h => m # 1
      BY <2>1
    <3>2. pool[g][m] # pool[h][1]
      BY <1>1, <1>7, <3>1 DEF Connections, PooledOnce
    <3> QED
      BY <1>4, <2>1, <2>3, <3>2
  <2> QED
    BY <2>2, <2>3
<1>d. OpenOnes'
  <2> SUFFICES ASSUME NEW x \in Conn
               PROVE  IsHeld(x) \/ IsPooled(x) <=> IsHeld(x)' \/ IsPooled(x)'
    BY DEF Connections, OpenOnes, Open, Takes
  <2>1. IsHeld(x) => IsHeld(x)'
    <3>1. \A d \in Caller : conn[d] = x => d # c
      BY <1>1, ClientAssumption DEF NoConn
    <3> QED
      BY <1>4, <3>1 DEF IsHeld
  <2>2. IsPooled(x) => IsHeld(x)' \/ IsPooled(x)'
    <3> SUFFICES ASSUME NEW g \in Host, NEW i \in 1 .. Len(pool[g]),
                        pool[g][i] = x
                 PROVE  IsHeld(x)' \/ IsPooled(x)'
      BY DEF IsPooled
    <3>1. CASE g = h /\ i = 1
      BY <1>4, <3>1 DEF IsHeld
    <3>2. CASE g = h /\ i # 1
      <4>1. i - 1 \in 1 .. Len(pool'[h]) /\ pool'[h][i - 1] = x
        BY <1>1, <1>2, <3>2
      <4> QED
        BY <1>1, <4>1 DEF IsPooled
    <3>3. CASE g # h
      BY <1>3, <3>3 DEF IsPooled
    <3> QED
      BY <3>1, <3>2, <3>3
  <2>3. IsPooled(x)' => IsPooled(x)
    BY <1>6 DEF IsPooled
  <2>4. IsHeld(x)' => IsHeld(x) \/ IsPooled(x)
    BY <1>1, <1>4, <1>7 DEF IsHeld, IsPooled
  <2> QED
    BY <2>1, <2>2, <2>3, <2>4
<1>e. PooledHost'
  <2>1. socket' = socket
    BY DEF Takes
  <2>2. \A g \in Host : \A i \in 1 .. Len(pool'[g]) :
          socket[pool'[g][i]].peer = g
    BY <1>6 DEF Connections, PooledHost
  <2> QED
    BY <2>1, <2>2 DEF PooledHost
<1>f. PoolBounded'
  BY <1>5, <1>6, <1>8, ClientAssumption DEF Connections, PoolBounded
<1> QED
  BY <1>a, <1>b, <1>c, <1>d, <1>e, <1>f DEF Connections

(* create_new_connection: a closed socket becomes a caller's. *)
LEMMA MakesKeeps ==
  ASSUME TypeOK, Connections, NEW c \in Caller, NEW x \in Conn, Makes(c, x)
  PROVE  Connections'
<1>1. /\ conn'[c] = x /\ \A d \in Caller : d # c => conn'[d] = conn[d]
      /\ pool' = pool /\ conn[c] = NoConn
  BY DEF Makes, TypeOK
<1>2. socket'[x].peer \in Host /\ \A y \in Conn : y # x => socket'[y] = socket[y]
  BY DEF Makes, TypeOK
<1>3. ~IsHeld(x) /\ ~IsPooled(x)
  BY DEF Connections, OpenOnes, Makes
<1>4. \A g \in Host : \A i \in 1 .. Len(pool[g]) :
        pool[g][i] \in Conn /\ pool[g][i] # x
  BY <1>3 DEF IsPooled, TypeOK
<1>5. x # NoConn
  BY ClientAssumption DEF NoConn
<1>6. Open(x)' /\ \A y \in Conn : y # x => (Open(y)' <=> Open(y))
  BY <1>2, ClientAssumption DEF Open
<1>a. HeldOnce'
  BY <1>1, <1>3 DEF Connections, HeldOnce, IsHeld
<1>b. PooledOnce' /\ PoolBounded'
  BY <1>1 DEF Connections, PooledOnce, PoolBounded
<1>c. Apart'
  BY <1>1, <1>4 DEF Connections, Apart
<1>d. OpenOnes'
  <2> SUFFICES ASSUME NEW y \in Conn
               PROVE  Open(y)' <=> IsHeld(y)' \/ IsPooled(y)'
    BY DEF OpenOnes
  <2>1. CASE y = x
    BY <1>1, <1>6, <2>1 DEF IsHeld
  <2>2. CASE y # x
    <3>1. IsHeld(y)' <=> IsHeld(y)
      <4>1. y # NoConn
        BY ClientAssumption DEF NoConn
      <4> QED
        BY <1>1, <2>2, <4>1 DEF IsHeld
    <3>2. IsPooled(y)' <=> IsPooled(y)
      BY <1>1 DEF IsPooled
    <3> QED
      BY <1>6, <2>2, <3>1, <3>2 DEF Connections, OpenOnes
  <2> QED
    BY <2>1, <2>2
<1>e. PooledHost'
  BY <1>1, <1>2, <1>4 DEF Connections, PooledHost
<1> QED
  BY <1>a, <1>b, <1>c, <1>d, <1>e DEF Connections

(* shutdown_and_close: a caller's connection is closed and forgotten. *)
LEMMA DiscardsKeeps ==
  ASSUME TypeOK, Connections, NEW c \in Caller, Discards(c)
  PROVE  Connections'
<1>0. PICK x \in Conn : x = conn[c]
  BY DEF Discards, TypeOK
<1>1. /\ conn'[c] = NoConn /\ \A d \in Caller : d # c => conn'[d] = conn[d]
      /\ pool' = pool /\ conn[c] = x
  BY <1>0 DEF Discards, LetGo, TypeOK
<1>2. /\ socket'[x] = Closed
      /\ \A y \in Conn : y # x => socket'[y] = socket[y]
  BY <1>1 DEF Discards, Close, TypeOK
<1>3. \A d \in Caller : d # c => conn[d] # x
  BY <1>1, ClientAssumption DEF Connections, HeldOnce, NoConn
<1>4. \A g \in Host : \A i \in 1 .. Len(pool[g]) :
        pool[g][i] \in Conn /\ pool[g][i] # x
  BY <1>1 DEF Connections, Apart, TypeOK
<1>5. ~Open(x)' /\ \A y \in Conn : y # x => (Open(y)' <=> Open(y))
  BY <1>2 DEF Open, Closed
<1>6. NoConn \notin Conn
  BY ClientAssumption DEF NoConn
<1>a. HeldOnce'
  BY <1>1 DEF Connections, HeldOnce
<1>b. PooledOnce' /\ PoolBounded'
  BY <1>1 DEF Connections, PooledOnce, PoolBounded
<1>c. Apart'
  BY <1>1, <1>4, <1>6 DEF Connections, Apart
<1>d. OpenOnes'
  <2> SUFFICES ASSUME NEW y \in Conn
               PROVE  Open(y)' <=> IsHeld(y)' \/ IsPooled(y)'
    BY DEF OpenOnes
  <2>1. CASE y = x
    BY <1>1, <1>3, <1>4, <1>5, <1>6, <2>1 DEF IsHeld, IsPooled
  <2>2. CASE y # x
    <3>1. IsHeld(y)' <=> IsHeld(y)
      BY <1>1, <1>6, <2>2 DEF IsHeld
    <3>2. IsPooled(y)' <=> IsPooled(y)
      BY <1>1 DEF IsPooled
    <3> QED
      BY <1>5, <2>2, <3>1, <3>2 DEF Connections, OpenOnes
  <2> QED
    BY <2>1, <2>2
<1>e. PooledHost'
  BY <1>1, <1>2, <1>4 DEF Connections, PooledHost
<1> QED
  BY <1>a, <1>b, <1>c, <1>d, <1>e DEF Connections

(* connection_pool::put: a caller's connection goes to its host's queue. *)
LEMMA KeepsKeeps ==
  ASSUME TypeOK, Connections, NEW c \in Caller, Keeps(c),
         socket[conn[c]].peer = call[c].url
  PROVE  Connections'
<1>0. PICK x \in Conn : x = conn[c]
  BY DEF Keeps, TypeOK
<1>h. PICK h \in Host : h = call[c].url
  BY DEF Keeps
<1>q. PICK q \in Seq(Conn) : q = pool[h]
  BY DEF TypeOK
<1>1. /\ conn[c] = x /\ conn'[c] = NoConn
      /\ \A d \in Caller : d # c => conn'[d] = conn[d]
  BY <1>0 DEF Keeps, LetGo, TypeOK
<1>2. socket' = socket /\ socket[x].peer = h
  BY <1>0, <1>h DEF Keeps
<1>3. /\ pool'[h] = Append(q, x)
      /\ \A g \in Host : g # h => pool'[g] = pool[g]
  BY <1>0, <1>h, <1>q DEF Keeps, TypeOK
<1>4. /\ Len(Append(q, x)) = Len(q) + 1
      /\ \A i \in 1 .. Len(q) : Append(q, x)[i] = q[i]
      /\ Append(q, x)[Len(q) + 1] = x
      /\ Len(q) \in Nat
  BY AppendProperties
<1>5. \A g \in Host : Len(pool[g]) \in Nat /\ Len(pool'[g]) \in Nat
  BY <1>3, <1>4 DEF TypeOK
<1>6. \A d \in Caller : d # c => conn[d] # x
  BY <1>1, ClientAssumption DEF Connections, HeldOnce, NoConn
<1>7. \A g \in Host : \A i \in 1 .. Len(pool[g]) :
        pool[g][i] \in Conn /\ pool[g][i] # x
  BY <1>1 DEF Connections, Apart, TypeOK
<1>8. \A g \in Host : \A i \in 1 .. Len(pool'[g]) :
        \/ i \in 1 .. Len(pool[g]) /\ pool'[g][i] = pool[g][i]
        \/ g = h /\ i = Len(q) + 1 /\ pool'[g][i] = x
  BY <1>q, <1>3, <1>4
<1>9. \A g \in Host : \A i \in 1 .. Len(pool[g]) :
        i \in 1 .. Len(pool'[g]) /\ pool'[g][i] = pool[g][i]
  BY <1>q, <1>3, <1>4
<1>n. NoConn \notin Conn
  BY ClientAssumption DEF NoConn
<1>a. HeldOnce'
  BY <1>1 DEF Connections, HeldOnce
<1>b. PooledOnce'
  <2> SUFFICES ASSUME NEW g \in Host, NEW k \in Host,
                      NEW i \in 1 .. Len(pool'[g]),
                      NEW j \in 1 .. Len(pool'[k]),
                      pool'[g][i] = pool'[k][j]
               PROVE  g = k /\ i = j
    BY DEF PooledOnce
  <2>1. CASE i \in 1 .. Len(pool[g]) /\ pool'[g][i] = pool[g][i]
    <3>1. pool'[g][i] # x
      BY <1>7, <2>1
    <3>2. j \in 1 .. Len(pool[k]) /\ pool'[k][j] = pool[k][j]
      BY <1>8, <3>1
    <3>3. pool[g][i] = pool[k][j] => g = k /\ i = j
      BY <2>1, <3>2 DEF Connections, PooledOnce
    <3> QED
      BY <2>1, <3>2, <3>3
  <2>2. CASE g = h /\ i = Len(q) + 1 /\ pool'[g][i] = x
    <3>1. ~(j \in 1 .. Len(pool[k]) /\ pool'[k][j] = pool[k][j])
      BY <1>7, <2>2
    <3>2. k = h /\ j = Len(q) + 1
      BY <1>8, <3>1
    <3> QED
      BY <2>2, <3>2
  <2> QED
    BY <1>8, <2>1, <2>2
<1>c. Apart'
  <2> SUFFICES ASSUME NEW d \in Caller, NEW g \in Host,
                      NEW i \in 1 .. Len(pool'[g])
               PROVE  pool'[g][i] # conn'[d]
    BY DEF Apart
  <2>1. pool'[g][i] \in Conn
    BY <1>7, <1>8
  <2>2. CASE d = c
    BY <1>1, <1>n, <2>1, <2>2
  <2>3. CASE d # c
    BY <1>1, <1>6, <1>8, <2>3 DEF Connections, Apart
  <2> QED
    BY <2>2, <2>3
<1>d. OpenOnes'
  <2> SUFFICES ASSUME NEW y \in Conn
               PROVE  IsHeld(y) \/ IsPooled(y) <=> IsHeld(y)' \/ IsPooled(y)'
    BY <1>2 DEF Connections, OpenOnes, Open
  <2>1. CASE y = x
    <3>1. Len(q) + 1 \in 1 .. Len(pool'[h]) /\ pool'[h][Len(q) + 1] = x
      BY <1>3, <1>4
    <3>2. IsPooled(y)'
      BY <2>1, <3>1 DEF IsPooled
    <3>3. IsHeld(y)
      BY <1>1, <2>1 DEF IsHeld
    <3> QED
      BY <3>2, <3>3
  <2>2. CASE y # x
    <3>1. IsHeld(y)' <=> IsHeld(y)
      BY <1>1, <1>n, <2>2 DEF IsHeld
    <3>2. IsPooled(y) => IsPooled(y)'
      <4> SUFFICES ASSUME NEW g \in Host, NEW i \in 1 .. Len(pool[g]),
                          pool[g][i] = y
                   PROVE  IsPooled(y)'
        BY DEF IsPooled
      <4>1. i \in 1 .. Len(pool'[g]) /\ pool'[g][i] = y
        BY <1>9
      <4> QED
        BY <4>1 DEF IsPooled
    <3>3. IsPooled(y)' => IsPooled(y)
      <4> SUFFICES ASSUME NEW g \in Host, NEW i \in 1 .. Len(pool'[g]),
                          pool'[g][i] = y
                   PROVE  IsPooled(y)
        BY DEF IsPooled
      <4>1. i \in 1 .. Len(pool[g]) /\ pool[g][i] = y
        BY <1>8, <2>2
      <4> QED
        BY <4>1 DEF IsPooled
    <3> QED
      BY <3>1, <3>2, <3>3
  <2> QED
    BY <2>1, <2>2
<1>e. PooledHost'
  <2>1. \A g \in Host : \A i \in 1 .. Len(pool'[g]) :
          socket[pool'[g][i]].peer = g
    BY <1>2, <1>8 DEF Connections, PooledHost
  <2> QED
    BY <1>2, <2>1 DEF PooledHost
<1>f. PoolBounded'
  <2>1. Len(q) < max_idle_connections_
    BY <1>h, <1>q DEF Keeps
  <2>2. Len(pool'[h]) =< max_idle_connections_
    BY <1>3, <1>4, <2>1, ClientAssumption
  <2> QED
    BY <1>3, <2>2 DEF Connections, PoolBounded
<1> QED
  BY <1>a, <1>b, <1>c, <1>d, <1>e, <1>f DEF Connections

(* A drop by the peer leaves every connection where it is. *)
LEMMA DropsKeeps ==
  ASSUME TypeOK, Connections, NEW x \in Conn, Drops(x)
  PROVE  /\ Connections'
         /\ \A y \in Conn : socket'[y].peer = socket[y].peer
<1>1. \A y \in Conn : socket'[y].peer = socket[y].peer
  <2>1. socket[x] \in Socket
    BY DEF TypeOK
  <2>2. [socket[x] EXCEPT !.up = FALSE].peer = socket[x].peer
    BY <2>1 DEF Socket, Closed
  <2> QED
    BY <2>2 DEF Drops, TypeOK
<1>2. pool' = pool /\ conn' = conn
  BY DEF Drops
<1>3. \A g \in Host : \A i \in 1 .. Len(pool[g]) : pool[g][i] \in Conn
  BY DEF TypeOK
<1>4. HeldOnce' /\ PooledOnce' /\ Apart' /\ PoolBounded'
  BY <1>2 DEF Connections, HeldOnce, PooledOnce, Apart, PoolBounded
<1>5. OpenOnes'
  BY <1>1, <1>2 DEF Connections, OpenOnes, Open, IsHeld, IsPooled
<1>6. PooledHost'
  BY <1>1, <1>2, <1>3 DEF Connections, PooledHost
<1> QED
  BY <1>1, <1>4, <1>5, <1>6 DEF Connections

(* A step that touches neither pool nor sockets. *)
LEMMA RestsKeeps == Connections /\ Rests => Connections'
  BY DEF Rests, Connections, HeldOnce, PooledOnce, Apart, OpenOnes, PooledHost,
         PoolBounded, Open, IsHeld, IsPooled
-----------------------------------------------------------------------------
(* Which step does what. *)

LEMMA StepKinds ==
  ASSUME IInv, NEW c \in Caller
  PROVE  /\ Call(c) \/ Refuse(c) \/ Proceed(c) \/ AcquireNone(c)
              \/ CreateFails(c) \/ Write(c) \/ Responded(c) => Rests
         /\ Acquire(c) => Takes(c)
         /\ Create(c) => \E x \in Conn : Makes(c, x)
         /\ ExchangeFails(c) \/ RespondedLast(c) => Discards(c)
         /\ \A l \in Location : Redirected(c, l) => Discards(c)
         /\ Return(c) => Discards(c) \/ Keeps(c)
<1>1. Call(c) \/ Refuse(c) \/ Proceed(c) \/ CreateFails(c) \/ Write(c)
        \/ Responded(c) => Rests
  BY DEF Call, Refuse, Proceed, CreateFails, Write, Responded, Rests
<1>2. AcquireNone(c) => Rests
  <2> SUFFICES ASSUME AcquireNone(c) PROVE Rests
    OBVIOUS
  <2>1. call[c].url \in Host
    BY DEF AcquireNone, At, IInv, Stages
  <2>2. Remaining(pool[call[c].url]) = pool[call[c].url]
    BY <2>1, QueueFacts DEF AcquireNone, Queue, Key, IInv
  <2>3. pool' = pool
    BY <2>2 DEF AcquireNone, Key, IInv, TypeOK
  <2> QED
    BY <2>3 DEF AcquireNone, Rests
<1>3. Acquire(c) => Takes(c)
  <2> SUFFICES ASSUME Acquire(c) PROVE Takes(c)
    OBVIOUS
  <2>1. call[c].url \in Host /\ conn[c] = NoConn
    BY DEF Acquire, At, IInv, Stages
  <2>2. /\ Len(pool[call[c].url]) > 0
        /\ Oldest(pool[call[c].url]) = 1
        /\ Remaining(pool[call[c].url])
             = SubSeq(pool[call[c].url], 2, Len(pool[call[c].url]))
    BY <2>1, QueueFacts DEF Acquire, Queue, Key, IInv
  <2>3. conn' = [conn EXCEPT ![c] = pool[call[c].url][1]] /\ socket' = socket
    BY <2>2 DEF Acquire, Queue, Key
  <2>4. pool' = [pool EXCEPT ![call[c].url] = SubSeq(@, 2, Len(@))]
    BY <2>2 DEF Acquire, Queue, Key
  <2> QED
    BY <2>1, <2>2, <2>3, <2>4 DEF Takes
<1>4. Create(c) => \E x \in Conn : Makes(c, x)
  BY DEF Create, Makes, At, IInv, Stages
<1>5. ExchangeFails(c) \/ RespondedLast(c) => Discards(c)
  BY DEF ExchangeFails, RespondedLast, Answering, Discards, At, IInv, Stages
<1>6. \A l \in Location : Redirected(c, l) => Discards(c)
  BY DEF Redirected, Answering, Discards, At, IInv, Stages
<1>7. Return(c) => Discards(c) \/ Keeps(c)
  BY DEF Return, Discards, Keeps, HasRoom, Queue, Key, At, IInv, Stages
<1> QED
  BY <1>1, <1>2, <1>3, <1>4, <1>5, <1>6, <1>7
-----------------------------------------------------------------------------
(* Every step keeps the types. *)

LEMMA StepTypes ==
  ASSUME IInv, [Next]_vars
  PROVE  TypeOK'
<1> USE DEF IInv
<1>0. CASE UNCHANGED vars
  BY <1>0 DEF vars, TypeOK
<1>1. ASSUME NEW c \in Caller, Call(c) \/ request_impl(c)
      PROVE  TypeOK'
  <2>1. /\ pool' \in [Host -> Seq(Conn)]
        /\ socket' \in [Conn -> Socket]
        /\ conn' \in [Caller -> Conn \cup {NoConn}]
    <3>1. \/ Rests \/ Takes(c) \/ Discards(c) \/ Keeps(c)
          \/ \E x \in Conn : Makes(c, x)
      BY <1>1, StepKinds DEF request_impl
    <3> QED
      BY <3>1, ConnectionTypes
  <2>2. pc' \in [Caller -> Step]
    BY <1>1 DEF request_impl, Call, Refuse, Proceed, Acquire, AcquireNone,
         Create, CreateFails, Write, ExchangeFails, Redirected, Responded,
         RespondedLast, Return, End, Goto, TypeOK, Step
  <2>3. code' \in [Caller -> Code]
    <3>1. Refusal(c) \in Code /\ 0 \in Code /\ 200 \in Code
      BY DEF Refusal, Code
    <3>2. CASE Call(c) \/ Refuse(c) \/ RespondedLast(c) \/ Return(c)
      BY <3>1, <3>2 DEF Call, Refuse, RespondedLast, Return, End, TypeOK
    <3>3. CASE UNCHANGED code
      BY <3>3 DEF TypeOK
    <3>4. ASSUME NEW l \in Location, Redirected(c, l) PROVE UNCHANGED code
      BY <3>4 DEF Redirected
    <3>5. Proceed(c) \/ Acquire(c) \/ AcquireNone(c) \/ Create(c)
            \/ CreateFails(c) \/ Write(c) \/ ExchangeFails(c) \/ Responded(c)
            => UNCHANGED code
      BY DEF Proceed, Acquire, AcquireNone, Create, CreateFails, Write,
             ExchangeFails, Responded
    <3> QED
      BY <1>1, <3>2, <3>3, <3>4, <3>5 DEF request_impl
  <2>4. attempts' \in [Caller -> Nat]
    <3>1. Attempt(c) => attempts' \in [Caller -> Nat]
      BY DEF Attempt, TypeOK
    <3>2. CASE UNCHANGED attempts
      BY <3>2 DEF TypeOK
    <3>3. CASE Call(c)
      BY <3>3 DEF Call, TypeOK
    <3>4. ASSUME NEW l \in Location, Redirected(c, l) PROVE UNCHANGED attempts
      BY <3>4 DEF Redirected
    <3>5. Refuse(c) \/ Proceed(c) \/ AcquireNone(c) \/ Write(c)
            \/ ExchangeFails(c) \/ Responded(c) \/ RespondedLast(c)
            \/ Return(c) => UNCHANGED attempts
      BY DEF Refuse, Proceed, AcquireNone, Write, ExchangeFails, Responded,
             RespondedLast, Return
    <3>6. Acquire(c) \/ Create(c) \/ CreateFails(c) => Attempt(c)
      BY DEF Acquire, Create, CreateFails
    <3> QED
      BY <1>1, <3>1, <3>2, <3>3, <3>4, <3>5, <3>6 DEF request_impl
  <2>5. call' \in [Caller -> CallType]
    <3>1. CASE Call(c)
      BY <3>1, CallTypes DEF Call, TypeOK
    <3>2. CASE Refuse(c) \/ RespondedLast(c) \/ Return(c)
      BY <3>2, CallTypes DEF Refuse, RespondedLast, Return, End, TypeOK
    <3>3. CASE CreateFails(c) \/ ExchangeFails(c)
      BY <3>3, CallTypes DEF CreateFails, ExchangeFails
    <3>4. ASSUME NEW l \in Location, Redirected(c, l)
          PROVE  call' \in [Caller -> CallType]
      <4>1. call[c] \in CallType
        BY DEF TypeOK
      <4>2. PICK t : /\ t = IF l = "none" THEN call[c].location ELSE l
                     /\ t \in Location /\ t # "none"
        BY <3>4, <4>1 DEF Redirected, Follows, CallType
      <4>3. t \in Url
        BY <4>2 DEF Location
      <4>4. [call[c] EXCEPT !.location = t, !.url = t,
                            !.redirects = @ + 1, !.retries = 0] \in CallType
        <5>n. PICK n \in Nat : n = call[c].redirects + 1
          BY <4>1 DEF CallType
        <5>2. [call[c] EXCEPT !.location = t, !.url = t, !.redirects = n]
                \in CallType
          BY <4>1, <4>2, <4>3 DEF CallType
        <5> QED
          BY <5>n, <5>2 DEF CallType
      <4>5. call' = [call EXCEPT ![c].location = t, ![c].url = t,
                                 ![c].redirects = @ + 1, ![c].retries = 0]
        BY <3>4, <4>2 DEF Redirected
      <4> QED
        BY <4>4, <4>5 DEF TypeOK
    <3>5. CASE UNCHANGED call
      BY <3>5 DEF TypeOK
    <3>6. Proceed(c) \/ Acquire(c) \/ AcquireNone(c) \/ Create(c) \/ Write(c)
            \/ Responded(c) => UNCHANGED call
      BY DEF Proceed, Acquire, AcquireNone, Create, Write, Responded
    <3> QED
      BY <1>1, <3>1, <3>2, <3>3, <3>4, <3>5, <3>6 DEF request_impl
  <2> QED
    BY <2>1, <2>2, <2>3, <2>4, <2>5 DEF TypeOK
<1>2. ASSUME NEW x \in Conn, PeerCloses(x)
      PROVE  TypeOK'
  <2>1. Drops(x)
    BY <1>2 DEF PeerCloses, Drops
  <2>2. /\ pool' \in [Host -> Seq(Conn)]
        /\ socket' \in [Conn -> Socket]
        /\ conn' \in [Caller -> Conn \cup {NoConn}]
    BY <2>1, DropsTypes
  <2> QED
    BY <1>2, <2>2 DEF PeerCloses, TypeOK
<1> QED
  BY <1>0, <1>1, <1>2 DEF Next
-----------------------------------------------------------------------------
(* Every step keeps what its place says of a caller. *)

LEMMA StepStages ==
  ASSUME IInv, [Next]_vars
  PROVE  Stages'
<1> USE DEF IInv
<1>0. CASE UNCHANGED vars
  BY <1>0 DEF vars, Stages
<1>1. ASSUME NEW c \in Caller, Call(c) \/ request_impl(c)
      PROVE  Stages'
  <2>1. \A d \in Caller : d # c =>
          pc'[d] = pc[d] /\ conn'[d] = conn[d] /\ call'[d] = call[d]
    BY <1>1 DEF request_impl, Call, Refuse, Proceed, Acquire, AcquireNone,
         Create, CreateFails, Write, ExchangeFails, Redirected, Responded,
         RespondedLast, Return, End, Goto, LetGo, Retry, TypeOK
  <2>2. /\ conn'[c] # NoConn <=> pc'[c] \in {"write", "read", "return"}
        /\ pc'[c] \notin {"idle", "enter"} => call'[c].url \in Host
    <3> DEFINE Goal ==
          /\ conn'[c] # NoConn <=> pc'[c] \in {"write", "read", "return"}
          /\ pc'[c] \notin {"idle", "enter"} => call'[c].url \in Host
    <3>1. CASE Call(c) \/ Refuse(c)
      BY <3>1 DEF Call, Refuse, End, At, Goto, Stages, TypeOK
    <3>2. CASE Proceed(c)
      <4>1. call[c].url \in Host
        <5>1. call[c].url \in Url /\ call[c].url # "bad"
          BY <3>2 DEF Proceed, Refusal, TypeOK, CallType
        <5> QED
          BY <5>1 DEF Url
      <4> QED
        BY <3>2, <4>1 DEF Proceed, At, Goto, Stages, TypeOK
    <3>3. CASE Acquire(c)
      <4>1. Takes(c) /\ pool[call[c].url][1] \in Conn
        BY <3>3, StepKinds DEF Takes, TypeOK
      <4>2. conn'[c] \in Conn
        BY <4>1 DEF Takes, TypeOK
      <4> QED
        BY <3>3, <4>2, ClientAssumption
           DEF Acquire, At, Goto, NoConn, Stages, TypeOK
    <3>4. CASE Create(c)
      BY <3>4, ClientAssumption DEF Create, At, Goto, NoConn, Stages, TypeOK
    <3>5. CASE AcquireNone(c) \/ Write(c) \/ Responded(c)
      BY <3>5 DEF AcquireNone, Write, Responded, Answering, At, Goto, Stages,
           TypeOK
    <3>6. CASE CreateFails(c) \/ ExchangeFails(c)
      BY <3>6 DEF CreateFails, ExchangeFails, At, Goto, LetGo, Stages, TypeOK
    <3>7. ASSUME NEW l \in Location, Redirected(c, l) PROVE Goal
      BY <3>7 DEF Redirected, Goto, LetGo, Stages, TypeOK
    <3>8. CASE RespondedLast(c) \/ Return(c)
      BY <3>8 DEF RespondedLast, Return, End, Goto, LetGo, Stages, TypeOK
    <3> QED
      BY <1>1, <3>1, <3>2, <3>3, <3>4, <3>5, <3>6, <3>7, <3>8
         DEF request_impl
  <2> QED
    BY <2>1, <2>2 DEF Stages
<1>2. ASSUME NEW x \in Conn, PeerCloses(x)
      PROVE  Stages'
  BY <1>2 DEF PeerCloses, Stages
<1> QED
  BY <1>0, <1>1, <1>2 DEF Next
-----------------------------------------------------------------------------
(* Every step keeps a caller's connection at the host its URL names. *)

LEMMA StepCallerHost ==
  ASSUME IInv, [Next]_vars
  PROVE  CallerHost'
<1> USE DEF IInv
<1>0. CASE UNCHANGED vars
  BY <1>0 DEF vars, CallerHost
<1>1. ASSUME NEW c \in Caller, Call(c) \/ request_impl(c)
      PROVE  CallerHost'
  <2>1. \A d \in Caller : d # c =>
          conn'[d] = conn[d] /\ call'[d] = call[d]
    BY <1>1 DEF request_impl, Call, Refuse, Proceed, Acquire, AcquireNone,
         Create, CreateFails, Write, ExchangeFails, Redirected, Responded,
         RespondedLast, Return, End, LetGo, Retry, TypeOK
  <2>2. \A d \in Caller : d # c /\ conn[d] # NoConn
                            => socket'[conn[d]] = socket[conn[d]]
    <3> SUFFICES ASSUME NEW d \in Caller, d # c, conn[d] # NoConn
                 PROVE  socket'[conn[d]] = socket[conn[d]]
      OBVIOUS
    <3>1. CASE Rests \/ Takes(c) \/ Keeps(c)
      BY <3>1 DEF Rests, Takes, Keeps
    <3>2. CASE Discards(c)
      <4>1. conn[d] # conn[c]
        BY DEF Connections, HeldOnce
      <4> QED
        BY <3>2, <4>1 DEF Discards, Close, TypeOK
    <3>3. ASSUME NEW x \in Conn, Makes(c, x)
          PROVE  socket'[conn[d]] = socket[conn[d]]
      <4>1. conn[d] # x /\ conn[d] \in Conn
        BY <3>3 DEF Makes, Connections, OpenOnes, IsHeld, TypeOK
      <4> QED
        BY <3>3, <4>1 DEF Makes, TypeOK
    <3> QED
      BY <1>1, <3>1, <3>2, <3>3, StepKinds DEF request_impl
  <2>3. conn'[c] # NoConn => socket'[conn'[c]].peer = call'[c].url
    <3> DEFINE Goal == conn'[c] # NoConn => socket'[conn'[c]].peer = call'[c].url
    <3>1. CASE Call(c) \/ Refuse(c)
      BY <3>1 DEF Call, Refuse, At, Stages
    <3>2. CASE Proceed(c) \/ AcquireNone(c) \/ Write(c) \/ Responded(c)
      BY <3>2 DEF Proceed, AcquireNone, Write, Responded, CallerHost
    <3>3. CASE Acquire(c)
      <4>1. Takes(c) /\ call' = call
        BY <3>3, StepKinds DEF Acquire
      <4>2. PICK h \in Host : h = call[c].url
        BY <4>1 DEF Takes
      <4>3. conn'[c] = pool[h][1] /\ socket' = socket /\ 1 \in 1 .. Len(pool[h])
        BY <4>1, <4>2 DEF Takes, TypeOK
      <4>4. socket[pool[h][1]].peer = h
        BY <4>3 DEF Connections, PooledHost
      <4> QED
        BY <4>1, <4>2, <4>3, <4>4
    <3>4. CASE Create(c)
      BY <3>4 DEF Create, TypeOK
    <3>5. CASE CreateFails(c)
      BY <3>5 DEF CreateFails, At, Stages
    <3>6. CASE Discards(c) \/ Keeps(c)
      BY <3>6 DEF Discards, Keeps, LetGo, TypeOK
    <3> QED
      BY <1>1, <3>1, <3>2, <3>3, <3>4, <3>5, <3>6, StepKinds
         DEF request_impl
  <2> QED
    BY <2>1, <2>2, <2>3 DEF CallerHost
<1>2. ASSUME NEW x \in Conn, PeerCloses(x)
      PROVE  CallerHost'
  <2>1. Drops(x) /\ conn' = conn /\ call' = call
    BY <1>2 DEF PeerCloses, Drops
  <2>2. \A y \in Conn : socket'[y].peer = socket[y].peer
    BY <2>1, DropsKeeps
  <2>3. \A c \in Caller : conn[c] # NoConn => conn[c] \in Conn
    BY DEF TypeOK
  <2> QED
    BY <2>1, <2>2, <2>3 DEF CallerHost
<1> QED
  BY <1>0, <1>1, <1>2 DEF Next
-----------------------------------------------------------------------------
(* Every step keeps the connections in order. *)

LEMMA StepConnections ==
  ASSUME IInv, [Next]_vars
  PROVE  Connections'
<1> USE DEF IInv
<1>0. CASE UNCHANGED vars
  BY <1>0, RestsKeeps DEF vars, Rests
<1>1. ASSUME NEW c \in Caller, Call(c) \/ request_impl(c)
      PROVE  Connections'
  <2>1. CASE Rests
    BY <2>1, RestsKeeps
  <2>2. CASE Takes(c)
    BY <2>2, TakesKeeps
  <2>3. CASE Discards(c)
    BY <2>3, DiscardsKeeps
  <2>4. CASE Keeps(c)
    <3>1. socket[conn[c]].peer = call[c].url
      BY <2>4 DEF Keeps, CallerHost
    <3> QED
      BY <2>4, <3>1, KeepsKeeps
  <2>5. ASSUME NEW x \in Conn, Makes(c, x) PROVE Connections'
    BY <2>5, MakesKeeps
  <2> QED
    BY <1>1, <2>1, <2>2, <2>3, <2>4, <2>5, StepKinds DEF request_impl
<1>2. ASSUME NEW x \in Conn, PeerCloses(x)
      PROVE  Connections'
  <2>1. Drops(x)
    BY <1>2 DEF PeerCloses, Drops
  <2> QED
    BY <2>1, DropsKeeps
<1> QED
  BY <1>0, <1>1, <1>2 DEF Next

(* The invariant holds before any call. *)
LEMMA InvInit == Init => IInv
<1> SUFFICES ASSUME Init PROVE IInv
  OBVIOUS
<1>1. TypeOK
  BY TypeInit
<1>2. \A c \in Caller : conn[c] = NoConn /\ pc[c] = "idle"
  BY DEF Init
<1>3. \A h \in Host : Len(pool[h]) = 0 /\ 1 .. Len(pool[h]) = {}
  BY DEF Init
<1>4. \A x \in Conn : ~Open(x) /\ ~IsHeld(x) /\ ~IsPooled(x)
  BY <1>2, <1>3, ClientAssumption
     DEF Init, Open, Closed, IsHeld, IsPooled, NoConn
<1>5. Stages /\ CallerHost
  BY <1>2 DEF Stages, CallerHost
<1>6. Connections
  BY <1>2, <1>3, <1>4, ClientAssumption DEF Connections, HeldOnce, PooledOnce,
     Apart, OpenOnes, PooledHost, PoolBounded
<1> QED
  BY <1>1, <1>5, <1>6 DEF IInv

(* The connections are where the invariant says, after any steps of the
   callers and the peers: request_impl and connection_pool. *)
THEOREM Invariant == Spec => []IInv
<1>1. IInv /\ [Next]_vars => IInv'
  BY StepTypes, StepStages, StepConnections, StepCallerHost DEF IInv
<1> QED
  BY <1>1, InvInit, PTL DEF Spec
-----------------------------------------------------------------------------
(* The properties the invariant was made for. *)

LEMMA SetsOfConnections ==
  ASSUME TypeOK
  PROVE  /\ Held \subseteq Conn /\ Pooled \subseteq Conn
         /\ \A x \in Conn : x \in Held <=> IsHeld(x)
         /\ \A x \in Conn : x \in Pooled <=> IsPooled(x)
<1>1. Held \subseteq Conn
  BY DEF Held, TypeOK
<1>2. Pooled \subseteq Conn
  BY DEF Pooled, In, TypeOK
<1>3. \A x \in Conn : x \in Held <=> IsHeld(x)
  BY ClientAssumption DEF Held, IsHeld, NoConn
<1>4. \A x : x \in Pooled <=> IsPooled(x)
  BY DEF Pooled, In, IsPooled
<1> QED
  BY <1>1, <1>2, <1>3, <1>4

(* The invariant gives the properties the runs check. *)
LEMMA InvGives == IInv => Exclusive /\ NoLeak /\ RightHost /\ PoolBounded
<1> SUFFICES ASSUME IInv
             PROVE  Exclusive /\ NoLeak /\ RightHost /\ PoolBounded
  OBVIOUS
<1> USE DEF IInv
<1>1. Held \cap Pooled = {}
  BY SetsOfConnections DEF Connections, Apart, IsHeld, IsPooled
<1>2. Exclusive
  BY <1>1 DEF Exclusive, Connections, HeldOnce, PooledOnce
<1>3. NoLeak
  BY SetsOfConnections DEF NoLeak, Connections, OpenOnes
<1>4. RightHost
  <2>1. \A h \in Host : \A x \in In(pool[h]) : socket[x].peer = h
    BY DEF In, Connections, PooledHost
  <2> QED
    BY <2>1 DEF RightHost, CallerHost
<1> QED
  BY <1>2, <1>3, <1>4 DEF Connections

(* Every variable keeps the type the code declares for it. *)
THEOREM TypeCorrect == Spec => []TypeOK
  BY Invariant, PTL DEF IInv

(* A connection is in one pair of hands: the caller's that got it or made
   it, or the pool's, where it lies once. *)
THEOREM ExclusiveHolds == Spec => []Exclusive
  BY Invariant, InvGives, PTL

(* No open socket is forgotten and no closed one kept, whatever step of a
   request fails. *)
THEOREM NoLeakHolds == Spec => []NoLeak
  BY Invariant, InvGives, PTL

(* A request goes to the host its URL names, over retries, redirects and
   connections other callers made. *)
THEOREM RightHostHolds == Spec => []RightHost
  BY Invariant, InvGives, PTL

(* connection_pool::put keeps no more connections per host than it may. *)
THEOREM PoolBoundedHolds == Spec => []PoolBounded
  BY Invariant, InvGives, PTL
-----------------------------------------------------------------------------
(* The clients implement the abstract view of their connections. *)

InPool(x, h) == \E i \in 1 .. Len(pool[h]) : pool[h][i] = x
OwnerIs ==
  \A x \in Conn :
    /\ \A c \in Caller : conn[c] = x => Owner(x) = c
    /\ \A h \in Host : InPool(x, h) => Owner(x) = h
    /\ ~IsHeld(x) /\ ~IsPooled(x) => Owner(x) = "closed"

(* The owner of a connection, read off the places it is in. *)
LEMMA OwnerFacts == IInv => OwnerIs
<1> SUFFICES ASSUME IInv, NEW x \in Conn
             PROVE  /\ \A c \in Caller : conn[c] = x => Owner(x) = c
                    /\ \A h \in Host : InPool(x, h) => Owner(x) = h
                    /\ ~IsHeld(x) /\ ~IsPooled(x) => Owner(x) = "closed"
  BY DEF OwnerIs
<1> USE DEF IInv
<1>1. ASSUME NEW c \in Caller, conn[c] = x
      PROVE  Owner(x) = c
  <2>1. x \in Held
    BY <1>1, SetsOfConnections DEF IsHeld
  <2>2. \A d \in Caller : conn[d] = x => d = c
    BY <1>1, ClientAssumption DEF Connections, HeldOnce, NoConn
  <2> QED
    BY <1>1, <2>1, <2>2 DEF Owner
<1>2. ASSUME NEW h \in Host, InPool(x, h)
      PROVE  Owner(x) = h
  <2>1. x \in Pooled /\ x \in In(pool[h])
    BY <1>2 DEF InPool, In, Pooled
  <2>2. x \notin Held
    BY <2>1, InvGives DEF Exclusive
  <2>3. \A g \in Host : x \in In(pool[g]) => g = h
    BY <1>2 DEF In, InPool, Connections, PooledOnce
  <2> QED
    BY <2>1, <2>2, <2>3 DEF Owner
<1>3. ~IsHeld(x) /\ ~IsPooled(x) => Owner(x) = "closed"
  BY SetsOfConnections DEF Owner
<1> QED
  BY <1>1, <1>2, <1>3

(* A connection whose places do not change keeps its owner. *)
LEMMA SameOwner ==
  ASSUME OwnerIs, OwnerIs', NEW x \in Conn,
         \A c \in Caller : conn'[c] = x <=> conn[c] = x,
         \A h \in Host : InPool(x, h)' <=> InPool(x, h)
  PROVE  Owner(x)' = Owner(x)
<1>1. CASE IsHeld(x)
  <2>1. PICK c \in Caller : conn[c] = x /\ conn'[c] = x
    BY <1>1 DEF IsHeld
  <2> QED
    BY <2>1 DEF OwnerIs
<1>2. CASE IsPooled(x)
  <2>1. PICK h \in Host : InPool(x, h) /\ InPool(x, h)'
    BY <1>2 DEF IsPooled, InPool
  <2> QED
    BY <2>1 DEF OwnerIs
<1>3. CASE ~IsHeld(x) /\ ~IsPooled(x)
  <2>1. ~IsHeld(x)' /\ ~IsPooled(x)'
    BY <1>3 DEF IsHeld, IsPooled, InPool
  <2> QED
    BY <1>3, <2>1 DEF OwnerIs
<1> QED
  BY <1>1, <1>2, <1>3

(* Taking a pooled connection is an abstract transfer to the caller. *)
LEMMA TakesMaps ==
  ASSUME IInv, IInv', OwnerIs, OwnerIs', NEW c \in Caller, Takes(c)
  PROVE  Ownership!Next
<1> USE DEF IInv
<1>h. PICK h \in Host : h = call[c].url
  BY DEF Takes
<1>q. PICK q \in Seq(Conn) : q = pool[h] /\ Len(q) > 0
  BY <1>h DEF Takes, TypeOK
<1>x. PICK x \in Conn : x = q[1] /\ 1 \in 1 .. Len(q)
  BY <1>q
<1>1. /\ conn'[c] = x /\ conn[c] = NoConn
      /\ \A d \in Caller : d # c => conn'[d] = conn[d]
      /\ socket' = socket
  BY <1>h, <1>q, <1>x DEF Takes, TypeOK
<1>2. /\ Len(pool'[h]) = Len(q) - 1
      /\ \A i \in 1 .. Len(q) - 1 : pool'[h][i] = q[i + 1]
      /\ \A g \in Host : g # h => pool'[g] = pool[g]
  BY <1>h, <1>q, TailFacts DEF Takes, TypeOK
<1>3. InPool(x, h)
  BY <1>q, <1>x DEF InPool
<1>4. Owner(x) = h /\ Owner(x)' = c
  BY <1>1, <1>3 DEF OwnerIs
<1>5. \A y \in Conn : y # x => Owner(y)' = Owner(y)
  <2> SUFFICES ASSUME NEW y \in Conn, y # x
               PROVE  Owner(y)' = Owner(y)
    OBVIOUS
  <2>1. \A d \in Caller : conn'[d] = y <=> conn[d] = y
    BY <1>1, ClientAssumption DEF NoConn
  <2>2. \A g \in Host : InPool(y, g)' <=> InPool(y, g)
    <3> SUFFICES ASSUME NEW g \in Host
                 PROVE  InPool(y, g)' <=> InPool(y, g)
      OBVIOUS
    <3>1. CASE g # h
      BY <1>2, <3>1 DEF InPool
    <3>2. CASE g = h
      <4>1. ASSUME NEW i \in 1 .. Len(pool'[h]), pool'[h][i] = y
            PROVE  InPool(y, h)
        <5>1. i + 1 \in 1 .. Len(pool[h]) /\ pool[h][i + 1] = y
          BY <1>q, <1>2, <4>1
        <5> QED
          BY <5>1 DEF InPool
      <4>2. ASSUME NEW i \in 1 .. Len(pool[h]), pool[h][i] = y
            PROVE  InPool(y, h)'
        <5>1. i - 1 \in 1 .. Len(pool'[h]) /\ pool'[h][i - 1] = y
          BY <1>q, <1>x, <1>2, <4>2
        <5> QED
          BY <5>1 DEF InPool
      <4> QED
        BY <3>2, <4>1, <4>2 DEF InPool
    <3> QED
      BY <3>1, <3>2
  <2> QED
    BY <2>1, <2>2, SameOwner
<1>6. Ownership!Take(x, c)
  BY <1>1, <1>4, <1>5 DEF Ownership!Take
<1> QED
  BY <1>6 DEF Ownership!Next

(* Making a connection is an abstract acquisition. *)
LEMMA MakesMaps ==
  ASSUME IInv, IInv', OwnerIs, OwnerIs', NEW c \in Caller, NEW x \in Conn,
         Makes(c, x)
  PROVE  Ownership!Next
<1> USE DEF IInv
<1>h. PICK h \in Host : h = call[c].url
  BY DEF Makes
<1>1. /\ conn'[c] = x /\ conn[c] = NoConn
      /\ \A d \in Caller : d # c => conn'[d] = conn[d]
      /\ pool' = pool
      /\ socket' = [socket EXCEPT ![x] = [peer |-> h, up |-> TRUE]]
  BY <1>h DEF Makes, TypeOK
<1>2. Owner(x) = "closed" /\ Owner(x)' = c
  BY <1>1 DEF OwnerIs, Connections, OpenOnes, Makes
<1>3. \A y \in Conn : y # x => Owner(y)' = Owner(y)
  <2> SUFFICES ASSUME NEW y \in Conn, y # x
               PROVE  Owner(y)' = Owner(y)
    OBVIOUS
  <2>1. \A d \in Caller : conn'[d] = y <=> conn[d] = y
    BY <1>1, ClientAssumption DEF NoConn
  <2>2. \A g \in Host : InPool(y, g)' <=> InPool(y, g)
    BY <1>1 DEF InPool
  <2> QED
    BY <2>1, <2>2, SameOwner
<1>4. \A y \in Conn :
        socket'[y].peer = IF y = x THEN h ELSE socket[y].peer
  BY <1>1 DEF TypeOK
<1>5. Ownership!Make(x, c, h)
  BY <1>2, <1>3, <1>4 DEF Ownership!Make
<1> QED
  BY <1>5 DEF Ownership!Next

(* Closing a caller's connection is an abstract release. *)
LEMMA DiscardsMaps ==
  ASSUME IInv, IInv', OwnerIs, OwnerIs', NEW c \in Caller, Discards(c)
  PROVE  Ownership!Next
<1> USE DEF IInv
<1>x. PICK x \in Conn : x = conn[c]
  BY DEF Discards, TypeOK
<1>1. /\ conn'[c] = NoConn
      /\ \A d \in Caller : d # c => conn'[d] = conn[d]
      /\ pool' = pool
      /\ socket' = [socket EXCEPT ![x] = Closed]
  BY <1>x DEF Discards, LetGo, Close, TypeOK
<1>2. Owner(x) = c
  BY <1>x DEF OwnerIs
<1>3. Owner(x)' = "closed"
  <2>1. ~Open(x)'
    BY <1>1 DEF Open, Closed, TypeOK
  <2> QED
    BY <2>1 DEF OwnerIs, Connections, OpenOnes
<1>4. \A y \in Conn : y # x => Owner(y)' = Owner(y)
  <2> SUFFICES ASSUME NEW y \in Conn, y # x
               PROVE  Owner(y)' = Owner(y)
    OBVIOUS
  <2>1. \A d \in Caller : conn'[d] = y <=> conn[d] = y
    BY <1>1, <1>x, ClientAssumption DEF NoConn
  <2>2. \A g \in Host : InPool(y, g)' <=> InPool(y, g)
    BY <1>1 DEF InPool
  <2> QED
    BY <2>1, <2>2, SameOwner
<1>5. \A y \in Conn :
        socket'[y].peer = IF y = x THEN "none" ELSE socket[y].peer
  BY <1>1 DEF TypeOK, Closed
<1>6. Ownership!Discard(x)
  BY <1>2, <1>3, <1>4, <1>5 DEF Ownership!Discard
<1> QED
  BY <1>6 DEF Ownership!Next

(* Returning a connection keeps it, or closes it where there is no room. *)
LEMMA KeepsMaps ==
  ASSUME IInv, IInv', OwnerIs, OwnerIs', NEW c \in Caller, Keeps(c)
  PROVE  Ownership!Next
<1> USE DEF IInv
<1>h. PICK h \in Host : h = call[c].url
  BY DEF Keeps
<1>q. PICK q \in Seq(Conn) : q = pool[h] /\ Len(q) \in Nat
  BY DEF TypeOK
<1>x. PICK x \in Conn : x = conn[c]
  BY DEF Keeps, TypeOK
<1>1. /\ conn'[c] = NoConn
      /\ \A d \in Caller : d # c => conn'[d] = conn[d]
      /\ socket' = socket
  BY DEF Keeps, LetGo, TypeOK
<1>2. /\ pool'[h] = Append(q, x)
      /\ \A g \in Host : g # h => pool'[g] = pool[g]
  BY <1>h, <1>q, <1>x DEF Keeps, TypeOK
<1>3. /\ Len(Append(q, x)) = Len(q) + 1
      /\ \A i \in 1 .. Len(q) : Append(q, x)[i] = q[i]
      /\ Append(q, x)[Len(q) + 1] = x
  BY AppendProperties
<1>4. Owner(x) = c /\ socket[x].peer = h
  BY <1>x, <1>h DEF OwnerIs, CallerHost, Keeps
<1>5. Owner(x)' = h
  <2>1. Len(q) + 1 \in 1 .. Len(pool'[h]) /\ pool'[h][Len(q) + 1] = x
    BY <1>q, <1>2, <1>3
  <2>2. InPool(x, h)'
    BY <2>1 DEF InPool
  <2> QED
    BY <2>2 DEF OwnerIs
<1>6. \A y \in Conn : y # x => Owner(y)' = Owner(y)
  <2> SUFFICES ASSUME NEW y \in Conn, y # x
               PROVE  Owner(y)' = Owner(y)
    OBVIOUS
  <2>1. \A d \in Caller : conn'[d] = y <=> conn[d] = y
    BY <1>1, <1>x, ClientAssumption DEF NoConn
  <2>2. \A g \in Host : InPool(y, g)' <=> InPool(y, g)
    <3> SUFFICES ASSUME NEW g \in Host
                 PROVE  InPool(y, g)' <=> InPool(y, g)
      OBVIOUS
    <3>1. CASE g # h
      BY <1>2, <3>1 DEF InPool
    <3>2. CASE g = h
      <4>1. ASSUME NEW i \in 1 .. Len(pool'[h]), pool'[h][i] = y
            PROVE  InPool(y, h)
        <5>1. i \in 1 .. Len(pool[h]) /\ pool[h][i] = y
          BY <1>q, <1>2, <1>3, <4>1
        <5> QED
          BY <5>1 DEF InPool
      <4>2. ASSUME NEW i \in 1 .. Len(pool[h]), pool[h][i] = y
            PROVE  InPool(y, h)'
        <5>1. i \in 1 .. Len(pool'[h]) /\ pool'[h][i] = y
          BY <1>q, <1>2, <1>3, <4>2
        <5> QED
          BY <5>1 DEF InPool
      <4> QED
        BY <3>2, <4>1, <4>2 DEF InPool
    <3> QED
      BY <3>1, <3>2
  <2> QED
    BY <2>1, <2>2, SameOwner
<1>7. Ownership!Keep(x)
  BY <1>1, <1>4, <1>5, <1>6 DEF Ownership!Keep
<1> QED
  BY <1>7 DEF Ownership!Next

(* Every other step is a stutter of the abstract specification. *)
LEMMA RestsMaps ==
  ASSUME IInv, OwnerIs, OwnerIs',
         \/ Rests
         \/ \E x \in Conn : Drops(x)
  PROVE  UNCHANGED Ownership!vars
<1>1. /\ pool' = pool /\ conn' = conn
      /\ \A y \in Conn : socket'[y].peer = socket[y].peer
  BY DropsKeeps DEF Rests, Drops, IInv
<1>2. \A y \in Conn : Owner(y)' = Owner(y)
  <2> SUFFICES ASSUME NEW y \in Conn
               PROVE  Owner(y)' = Owner(y)
    OBVIOUS
  <2>1. \A g \in Host : InPool(y, g)' <=> InPool(y, g)
    BY <1>1 DEF InPool
  <2> QED
    BY <1>1, <2>1, SameOwner
<1> QED
  BY <1>1, <1>2 DEF Ownership!vars

(* The clients and their pool implement the abstract ownership: each of their
   steps makes, takes, keeps or discards one connection, or none. *)
THEOREM ImplementsOwnership == Spec => OwnershipSpec
<1>1. Init => Ownership!Init
  <2> SUFFICES ASSUME Init
               PROVE  Ownership!Init
    OBVIOUS
  <2>1. IInv /\ OwnerIs
    BY InvInit, OwnerFacts
  <2>2. \A x \in Conn : socket[x].peer = "none" /\ Owner(x) = "closed"
    BY <2>1 DEF Init, Closed, Open, OwnerIs, IInv, Connections, OpenOnes
  <2> QED
    BY <2>2 DEF Ownership!Init
<1>2. IInv /\ IInv' /\ OwnerIs /\ OwnerIs' /\ [Next]_vars
        => [Ownership!Next]_(Ownership!vars)
  <2> SUFFICES ASSUME IInv, IInv', OwnerIs, OwnerIs', [Next]_vars
               PROVE  [Ownership!Next]_(Ownership!vars)
    OBVIOUS
  <2>1. CASE UNCHANGED vars
    BY <2>1, RestsMaps DEF vars, Rests
  <2>2. ASSUME NEW c \in Caller, Call(c) \/ request_impl(c)
        PROVE  [Ownership!Next]_(Ownership!vars)
    <3>1. \/ Rests \/ Takes(c) \/ Discards(c) \/ Keeps(c)
          \/ \E x \in Conn : Makes(c, x)
      BY <2>2, StepKinds DEF request_impl
    <3> QED
      BY <3>1, RestsMaps, TakesMaps, DiscardsMaps, KeepsMaps, MakesMaps
  <2>3. ASSUME NEW x \in Conn, PeerCloses(x)
        PROVE  UNCHANGED Ownership!vars
    <3>1. Drops(x)
      BY <2>3 DEF PeerCloses, Drops
    <3> QED
      BY <3>1, RestsMaps
  <2> QED
    BY <2>1, <2>2, <2>3 DEF Next
<1> QED
  BY <1>1, <1>2, Invariant, OwnerFacts, PTL
     DEF Spec, Ownership!Spec, OwnershipSpec
-----------------------------------------------------------------------------
(* Retries and redirects: what the two counters of a call say of the
   connections it has tried.  Each redirect and each retry stands for one
   connection at least, and for no more than the limits grant. *)

Most(c) == call[c].redirects * PerUrl + call[c].retries
Least(c) == call[c].redirects + call[c].retries
Within(c) == /\ call[c].redirects =< max_redirects_
             /\ call[c].retries =< max_retries_

Counts(c) ==
  /\ pc[c] = "idle" =>
       /\ attempts[c] =< AttemptBound
       /\ code[c] = -5 => attempts[c] > max_retries_
       /\ code[c] = -4 => attempts[c] > max_redirects_
  /\ pc[c] # "idle" => code[c] = 0
  /\ pc[c] = "enter" =>
       /\ \/ call[c].redirects =< max_redirects_ /\ call[c].retries =< PerUrl
          \/ call[c].redirects = max_redirects_ + 1 /\ call[c].retries = 0
       /\ attempts[c] =< Most(c)
       /\ attempts[c] >= Least(c)
  /\ pc[c] \in {"acquire", "create"} =>
       Within(c) /\ attempts[c] =< Most(c) /\ attempts[c] >= Least(c)
  /\ pc[c] \in {"write", "read", "return"} =>
       Within(c) /\ attempts[c] =< Most(c) + 1 /\ attempts[c] > Least(c)
Counted == \A c \in Caller : Counts(c)

(* The arithmetic of the attempts: rounds of k attempts each. *)
LEMMA Products ==
  ASSUME NEW r \in Nat, NEW m \in Nat, NEW k \in Nat
  PROVE  /\ r * k \in Nat
         /\ (r + 1) * k = r * k + k
         /\ r =< m => r * k =< m * k
<1>1. r * k \in Nat /\ (r + 1) * k = r * k + k
  OBVIOUS
<1>2. ASSUME r =< m PROVE r * k =< m * k
  <2>1. PICK d \in Nat : m = r + d
    <3>1. m - r \in Nat /\ m = r + (m - r)
      BY <1>2
    <3> QED
      BY <3>1
  <2>2. m * k = r * k + d * k /\ d * k >= 0
    BY <2>1
  <2> QED
    BY <1>1, <2>2
<1> QED
  BY <1>1, <1>2

(* The counters are numbers, and the bound of the attempts is what they may
   reach together. *)
LEMMA CountTypes ==
  ASSUME TypeOK, NEW c \in Caller
  PROVE  /\ call[c].redirects \in Nat /\ call[c].retries \in Nat
         /\ attempts[c] \in Nat
         /\ PerUrl \in Nat /\ PerUrl = max_retries_ + 1
         /\ Most(c) \in Nat /\ Least(c) \in Nat
         /\ Within(c) => Most(c) + 1 =< AttemptBound
         /\ pc[c] = "enter" /\ Counts(c) => attempts[c] =< AttemptBound
         /\ AttemptBound \in Nat
<1>1. /\ call[c].redirects \in Nat /\ call[c].retries \in Nat
      /\ attempts[c] \in Nat
  BY DEF TypeOK, CallType
<1>2. /\ PerUrl \in Nat /\ PerUrl = max_retries_ + 1
      /\ max_redirects_ \in Nat /\ max_retries_ \in Nat
  BY ClientAssumption DEF PerUrl
<1>3. PICK p \in Nat : p = call[c].redirects * PerUrl
  BY <1>1, <1>2, Products
<1>4. PICK b \in Nat : b = max_redirects_ * PerUrl
  BY <1>2, Products
<1>5. AttemptBound = b + PerUrl
  BY <1>2, <1>4, Products DEF AttemptBound
<1>6. Most(c) = p + call[c].retries /\ Least(c) \in Nat
  BY <1>1, <1>3 DEF Most, Least
<1>7. call[c].redirects =< max_redirects_ => p =< b
  BY <1>1, <1>2, <1>3, <1>4, Products
<1>8. Within(c) => Most(c) + 1 =< AttemptBound
  BY <1>1, <1>2, <1>5, <1>6, <1>7 DEF Within
<1>9. ASSUME pc[c] = "enter", Counts(c)
      PROVE  attempts[c] =< AttemptBound
  <2>1. CASE call[c].redirects =< max_redirects_ /\ call[c].retries =< PerUrl
    BY <1>1, <1>2, <1>5, <1>6, <1>7, <1>9, <2>1 DEF Counts
  <2>2. CASE call[c].redirects = max_redirects_ + 1 /\ call[c].retries = 0
    <3>1. p = b + PerUrl
      BY <1>2, <1>3, <1>4, <2>2, Products
    <3> QED
      BY <1>1, <1>2, <1>5, <1>6, <1>9, <2>2, <3>1 DEF Counts
  <2> QED
    BY <1>9, <2>1, <2>2 DEF Counts
<1>10. Most(c) \in Nat /\ AttemptBound \in Nat
  <2>1. p \in Nat /\ b \in Nat
    OBVIOUS
  <2> QED
    BY <1>1, <1>2, <1>5, <1>6, <2>1
<1> QED
  BY <1>1, <1>2, <1>6, <1>8, <1>9, <1>10

(* Below the bound the history counts every connection. *)
LEMMA AttemptAdds ==
  ASSUME TypeOK, NEW c \in Caller, Attempt(c), attempts[c] =< AttemptBound
  PROVE  attempts'[c] = attempts[c] + 1
<1>1. ~(attempts[c] > AttemptBound)
  BY CountTypes
<1> QED
  BY <1>1 DEF Attempt, TypeOK

(* A step of a caller keeps its own count of attempts in bounds. *)
LEMMA StepCounts ==
  ASSUME IInv, TypeOK', Counted, NEW c \in Caller, Call(c) \/ request_impl(c)
  PROVE  Counts(c)'
<1> USE DEF IInv
<1>1. /\ call[c].redirects \in Nat /\ call[c].retries \in Nat
      /\ attempts[c] \in Nat
      /\ PerUrl \in Nat /\ PerUrl = max_retries_ + 1
      /\ Most(c) \in Nat /\ Least(c) \in Nat
      /\ Within(c) => Most(c) + 1 =< AttemptBound
      /\ pc[c] = "enter" /\ Counts(c) => attempts[c] =< AttemptBound
      /\ AttemptBound \in Nat
  BY CountTypes
<1>2. Counts(c)
  BY DEF Counted
<1>3. max_redirects_ \in Nat /\ max_retries_ \in Nat
  BY ClientAssumption
<1>4. call[c].redirects * PerUrl \in Nat
  BY <1>1, Products
<1>a. CASE Call(c)
  <2>1. /\ pc'[c] = "enter" /\ code'[c] = 0 /\ attempts'[c] = 0
        /\ call'[c].redirects = 0 /\ call'[c].retries = 0
    BY <1>a DEF Call, Goto, Fresh, TypeOK
  <2>2. Most(c)' = 0 /\ Least(c)' = 0
    BY <1>1, <2>1 DEF Most, Least, PerUrl
  <2> QED
    BY <1>1, <1>3, <2>1, <2>2 DEF Counts
<1>b. CASE Refuse(c)
  <2>1. /\ pc[c] = "enter" /\ pc'[c] = "idle" /\ attempts'[c] = attempts[c]
        /\ code'[c] = Refusal(c)
    BY <1>b DEF Refuse, End, Goto, At, TypeOK
  <2>2. Refusal(c) = -4 => call[c].redirects > max_redirects_
    BY DEF Refusal, Exceeds
  <2>3. Refusal(c) = -5 => call[c].retries > max_retries_
    BY DEF Refusal, Exceeds
  <2>4. attempts[c] >= call[c].redirects + call[c].retries
    BY <1>2, <2>1 DEF Counts, Least
  <2>5. attempts[c] =< AttemptBound
    BY <1>1, <1>2, <2>1
  <2>6. Refusal(c) = -4 => attempts[c] > max_redirects_
    BY <1>1, <1>3, <2>2, <2>4
  <2>7. Refusal(c) = -5 => attempts[c] > max_retries_
    BY <1>1, <1>3, <2>3, <2>4
  <2> QED
    BY <2>1, <2>5, <2>6, <2>7 DEF Counts
<1>c. CASE Proceed(c)
  <2>1. /\ pc[c] = "enter" /\ pc'[c] \in {"acquire", "create"}
        /\ UNCHANGED <<call, code, attempts>>
    BY <1>c DEF Proceed, Goto, At, TypeOK
  <2>2. Within(c)
    BY <1>1, <1>3, <1>c DEF Proceed, Refusal, Exceeds, Within
  <2> QED
    BY <1>2, <2>1, <2>2 DEF Counts, Within, Most, Least
<1>d. CASE AcquireNone(c)
  <2>1. /\ pc[c] = "acquire" /\ pc'[c] = "create"
        /\ UNCHANGED <<call, code, attempts>>
    BY <1>d DEF AcquireNone, Goto, At, TypeOK
  <2> QED
    BY <1>2, <2>1 DEF Counts, Within, Most, Least
<1>e. CASE Acquire(c) \/ Create(c)
  <2>1. /\ pc[c] \in {"acquire", "create"} /\ pc'[c] = "write"
        /\ UNCHANGED <<call, code>> /\ Attempt(c)
    BY <1>e DEF Acquire, Create, Goto, At, TypeOK
  <2>2. Within(c) /\ attempts[c] =< Most(c) /\ attempts[c] >= Least(c)
    BY <1>2, <2>1 DEF Counts
  <2>3. attempts'[c] = attempts[c] + 1
    BY <1>1, <2>1, <2>2, AttemptAdds
  <2>4. Most(c)' = Most(c) /\ Least(c)' = Least(c) /\ Within(c)' /\ code'[c] = 0
    BY <1>2, <2>1, <2>2 DEF Most, Least, Within, Counts
  <2> QED
    BY <1>1, <2>1, <2>2, <2>3, <2>4 DEF Counts
<1>f. CASE CreateFails(c) \/ ExchangeFails(c)
  <2>1. /\ pc'[c] = "enter" /\ code'[c] = 0
        /\ call'[c].redirects = call[c].redirects
        /\ call'[c].retries = call[c].retries + 1
    BY <1>2, <1>f DEF CreateFails, ExchangeFails, Retry, Goto, At, Counts,
       TypeOK, CallType
  <2>2. Most(c)' = Most(c) + 1 /\ Least(c)' = Least(c) + 1
    BY <1>1, <1>4, <2>1 DEF Most, Least, PerUrl
  <2>3. Within(c) /\ attempts'[c] =< Most(c) + 1 /\ attempts'[c] > Least(c)
    <3>1. CASE CreateFails(c)
      <4>1. pc[c] = "create" /\ Attempt(c)
        BY <3>1 DEF CreateFails, At
      <4>2. Within(c) /\ attempts[c] =< Most(c) /\ attempts[c] >= Least(c)
        BY <1>2, <4>1 DEF Counts
      <4>3. attempts'[c] = attempts[c] + 1
        BY <1>1, <4>1, <4>2, AttemptAdds
      <4> QED
        BY <1>1, <4>2, <4>3
    <3>2. CASE ExchangeFails(c)
      BY <1>2, <3>2 DEF ExchangeFails, At, Counts
    <3> QED
      BY <1>f, <3>1, <3>2
  <2>4. attempts'[c] \in Nat
    BY DEF TypeOK
  <2> QED
    BY <1>1, <1>3, <2>1, <2>2, <2>3, <2>4 DEF Counts, Within
<1>g. CASE Write(c) \/ Responded(c)
  <2>1. /\ pc[c] \in {"write", "read"} /\ pc'[c] \in {"read", "return"}
        /\ UNCHANGED <<call, code, attempts>>
    BY <1>g DEF Write, Responded, Answering, Goto, At, TypeOK
  <2> QED
    BY <1>2, <2>1 DEF Counts, Within, Most, Least
<1>h. ASSUME NEW l \in Location, Redirected(c, l)
      PROVE  Counts(c)'
  <2>1. /\ pc[c] = "read" /\ pc'[c] = "enter"
        /\ UNCHANGED <<code, attempts>>
        /\ call'[c].redirects = call[c].redirects + 1
        /\ call'[c].retries = 0
    BY <1>h DEF Redirected, Answering, Goto, At, TypeOK, CallType
  <2>2. Within(c) /\ attempts[c] =< Most(c) + 1 /\ attempts[c] > Least(c)
    BY <1>2, <2>1 DEF Counts
  <2>3. Most(c)' = call[c].redirects * PerUrl + PerUrl
    BY <1>1, <2>1, Products DEF Most, PerUrl
  <2>4. Least(c)' = call[c].redirects + 1
    BY <1>1, <2>1 DEF Least
  <2>5. attempts'[c] =< Most(c)'
    BY <1>1, <1>3, <1>4, <2>1, <2>2, <2>3 DEF Most, Within
  <2>6. attempts'[c] >= Least(c)'
    BY <1>1, <2>1, <2>2, <2>4 DEF Least
  <2>7. \/ call'[c].redirects =< max_redirects_ /\ call'[c].retries =< PerUrl
        \/ call'[c].redirects = max_redirects_ + 1 /\ call'[c].retries = 0
    BY <1>1, <1>3, <2>1, <2>2 DEF Within
  <2>8. code'[c] = 0
    BY <1>2, <2>1 DEF Counts
  <2> QED
    BY <2>1, <2>5, <2>6, <2>7, <2>8 DEF Counts, PerUrl
<1>i. CASE RespondedLast(c) \/ Return(c)
  <2>1. /\ pc[c] \in {"read", "return"} /\ pc'[c] = "idle" /\ code'[c] = 200
        /\ attempts'[c] = attempts[c]
    BY <1>i DEF RespondedLast, Return, Answering, End, Goto, At, TypeOK
  <2>2. attempts[c] =< AttemptBound
    BY <1>1, <1>2, <2>1 DEF Counts
  <2> QED
    BY <2>1, <2>2 DEF Counts
<1> QED
  BY <1>a, <1>b, <1>c, <1>d, <1>e, <1>f, <1>g, <1>h, <1>i DEF request_impl

(* The counters of a call bound its attempts in every reachable state. *)
LEMMA CountedHolds == Spec => []Counted
<1>1. Init => Counted
  <2> SUFFICES ASSUME Init, NEW c \in Caller PROVE Counts(c)
    BY DEF Counted
  <2>1. TypeOK /\ pc[c] = "idle" /\ attempts[c] = 0 /\ code[c] = 0
    BY TypeInit DEF Init
  <2>2. AttemptBound \in Nat
    BY <2>1, CountTypes
  <2> QED
    BY <2>1, <2>2 DEF Counts
<1>2. IInv /\ IInv' /\ Counted /\ [Next]_vars => Counted'
  <2> SUFFICES ASSUME IInv, IInv', Counted, [Next]_vars, NEW d \in Caller
               PROVE  Counts(d)'
    BY DEF Counted
  <2>1. CASE /\ pc'[d] = pc[d] /\ call'[d] = call[d]
             /\ code'[d] = code[d] /\ attempts'[d] = attempts[d]
    BY <2>1 DEF Counted, Counts, Most, Least, Within, PerUrl
  <2>2. ASSUME NEW c \in Caller, Call(c) \/ request_impl(c)
        PROVE  Counts(d)'
    <3>1. CASE c = d
      BY <2>2, <3>1, StepCounts DEF IInv
    <3>2. CASE c # d
      <4>1. /\ pc'[d] = pc[d] /\ call'[d] = call[d]
            /\ code'[d] = code[d] /\ attempts'[d] = attempts[d]
        BY <2>2, <3>2 DEF request_impl, Call, Refuse, Proceed, Acquire,
           AcquireNone, Create, CreateFails, Write, ExchangeFails, Redirected,
           Responded, RespondedLast, Return, End, Goto, Retry, Attempt,
           IInv, TypeOK
      <4> QED
        BY <2>1, <4>1
    <3> QED
      BY <3>1, <3>2
  <2>3. ASSUME NEW x \in Conn, PeerCloses(x) PROVE Counts(d)'
    BY <2>1, <2>3 DEF PeerCloses
  <2>4. CASE UNCHANGED vars
    BY <2>1, <2>4 DEF vars
  <2> QED
    BY <2>2, <2>3, <2>4 DEF Next
<1> QED
  BY <1>1, <1>2, Invariant, PTL DEF Spec

(* Retries and redirects stay within their limits: a call tries no more
   connections than they grant, and gives up only after it tried as many as
   the limit it names. *)
THEOREM AttemptsBoundedHolds == Spec => []AttemptsBounded
<1>1. IInv /\ Counted => AttemptsBounded
  <2> SUFFICES ASSUME IInv, Counted, NEW c \in Caller
               PROVE  /\ attempts[c] =< AttemptBound
                      /\ code[c] = -5 => attempts[c] > max_retries_
                      /\ code[c] = -4 => attempts[c] > max_redirects_
    BY DEF AttemptsBounded
  <2>1. Counts(c) /\ pc[c] \in Step
    BY DEF Counted, IInv, TypeOK
  <2>2. CASE pc[c] = "idle"
    BY <2>1, <2>2 DEF Counts
  <2>3. CASE pc[c] # "idle"
    <3>1. code[c] = 0
      BY <2>1, <2>3 DEF Counts
    <3>2. attempts[c] =< AttemptBound
      <4>1. CASE pc[c] = "enter"
        BY <2>1, <4>1, CountTypes DEF IInv
      <4>2. CASE pc[c] # "enter"
        <5>1. Within(c) /\ attempts[c] =< Most(c) + 1
          BY <2>1, <2>3, <4>2, CountTypes DEF Counts, Step, IInv
        <5> QED
          BY <5>1, CountTypes DEF IInv
      <4> QED
        BY <4>1, <4>2
    <3> QED
      BY <3>1, <3>2
  <2> QED
    BY <2>2, <2>3
<1> QED
  BY <1>1, Invariant, CountedHolds, PTL
-----------------------------------------------------------------------------
(* A call ends after boundedly many steps: what it can still do, Work, shrinks. *)

(* A retry and a redirect each cost at least one round. *)
LEMMA RoundFacts ==
  ASSUME NEW r \in 0 .. max_redirects_ + 1, NEW t \in 0 .. PerUrl
  PROVE  /\ Rounds(r, t) \in Nat
         /\ t < PerUrl => Rounds(r, t + 1) + 1 =< Rounds(r, t)
         /\ r =< max_redirects_ => Rounds(r + 1, 0) + 1 =< Rounds(r, t)
<1>1. /\ max_redirects_ \in Nat /\ PerUrl \in Nat /\ r \in Nat /\ t \in Nat
      /\ t =< PerUrl /\ r =< max_redirects_ + 1
  BY ClientAssumption DEF PerUrl
<1>2. PICK k \in Nat : k = PerUrl + 1
  BY <1>1
<1>3. PICK a \in Nat : a = max_redirects_ + 1 - r
  BY <1>1
<1>4. PICK p \in Nat : p = a * k
  BY Products
<1>5. /\ Rounds(r, t) = p + (PerUrl - t)
      /\ Rounds(r, t + 1) = p + (PerUrl - (t + 1))
  BY <1>2, <1>3, <1>4 DEF Rounds
<1>6. ASSUME r =< max_redirects_
      PROVE  Rounds(r + 1, 0) + 1 =< Rounds(r, t)
  <2>1. PICK b \in Nat : a = b + 1
    <3>1. a - 1 \in Nat /\ a = a - 1 + 1
      BY <1>1, <1>3, <1>6
    <3> QED
      BY <3>1
  <2>2. PICK q \in Nat : q = b * k
    BY Products
  <2>3. p = q + k
    BY <1>4, <2>1, <2>2, Products
  <2>4. max_redirects_ + 1 - (r + 1) = b
    BY <1>1, <1>3, <2>1
  <2>5. Rounds(r + 1, 0) = q + (PerUrl - 0)
    BY <1>2, <2>2, <2>4 DEF Rounds
  <2> QED
    BY <1>1, <1>2, <1>5, <2>3, <2>5
<1> QED
  BY <1>1, <1>5, <1>6

(* What its place says of a caller's counters. *)
LEMMA CounterRanges ==
  ASSUME TypeOK, Counted, NEW c \in Caller, pc[c] # "idle"
  PROVE  /\ call[c].redirects \in 0 .. max_redirects_ + 1
         /\ call[c].retries \in 0 .. PerUrl
         /\ pc[c] # "enter" =>
              call[c].redirects =< max_redirects_ /\ call[c].retries < PerUrl
<1>1. /\ call[c].redirects \in Nat /\ call[c].retries \in Nat
      /\ PerUrl \in Nat /\ PerUrl = max_retries_ + 1
      /\ max_redirects_ \in Nat /\ max_retries_ \in Nat
      /\ pc[c] \in Step
  BY CountTypes, ClientAssumption DEF TypeOK
<1>2. Counts(c)
  BY DEF Counted
<1>3. CASE pc[c] = "enter"
  BY <1>1, <1>2, <1>3 DEF Counts
<1>4. CASE pc[c] # "enter"
  BY <1>1, <1>2, <1>4 DEF Counts, Within, Step
<1> QED
  BY <1>3, <1>4

(* The work left is a number. *)
LEMMA WorkType ==
  ASSUME TypeOK, Counted, NEW c \in Caller
  PROVE  /\ Work(c) \in Nat
         /\ pc[c] # "idle" =>
              /\ Rounds(call[c].redirects, call[c].retries) \in Nat
              /\ Way[pc[c]] \in 1 .. 6
              /\ Work(c) > 0
<1>1. CASE pc[c] = "idle"
  BY <1>1 DEF Work
<1>2. CASE pc[c] # "idle"
  <2>1. Rounds(call[c].redirects, call[c].retries) \in Nat
    BY <1>2, CounterRanges, RoundFacts
  <2>2. Way[pc[c]] \in 1 .. 6
    BY <1>2 DEF TypeOK, Step, Way
  <2> QED
    BY <1>2, <2>1, <2>2 DEF Work
<1> QED
  BY <1>1, <1>2

(* Each step of request_impl takes its caller nearer to the end of the call. *)
LEMMA StepShrinks ==
  ASSUME TypeOK, TypeOK', Counted, Counted', NEW c \in Caller, request_impl(c)
  PROVE  Work(c)' \in Nat /\ Work(c)' < Work(c)
<1>1. pc[c] # "idle"
  BY DEF request_impl, Refuse, Proceed, Acquire, AcquireNone, Create,
     CreateFails, Write, ExchangeFails, Redirected, Responded, RespondedLast,
     Return, Answering, At
<1>2. /\ Rounds(call[c].redirects, call[c].retries) \in Nat
      /\ Way[pc[c]] \in 1 .. 6 /\ Work(c) > 0
      /\ Work(c) = 7 * Rounds(call[c].redirects, call[c].retries) + Way[pc[c]]
  BY <1>1, WorkType DEF Work
<1>3. CASE Refuse(c) \/ RespondedLast(c) \/ Return(c)
  <2>1. pc'[c] = "idle"
    BY <1>3 DEF Refuse, RespondedLast, Return, End, Goto, TypeOK
  <2> QED
    BY <1>2, <2>1 DEF Work
<1>4. CASE Proceed(c) \/ Acquire(c) \/ AcquireNone(c) \/ Create(c) \/ Write(c)
             \/ Responded(c)
  <2>1. /\ UNCHANGED call
        /\ \/ pc[c] = "enter" /\ pc'[c] \in {"acquire", "create"}
           \/ pc[c] = "acquire" /\ pc'[c] \in {"write", "create"}
           \/ pc[c] = "create" /\ pc'[c] = "write"
           \/ pc[c] = "write" /\ pc'[c] = "read"
           \/ pc[c] = "read" /\ pc'[c] = "return"
    BY <1>4 DEF Proceed, Acquire, AcquireNone, Create, Write, Responded,
       Answering, Goto, At, TypeOK
  <2>2. /\ Way[pc'[c]] \in Nat /\ Way[pc'[c]] < Way[pc[c]] /\ pc'[c] # "idle"
    BY <2>1 DEF Way
  <2>3. Work(c)' = 7 * Rounds(call[c].redirects, call[c].retries) + Way[pc'[c]]
    BY <2>1, <2>2 DEF Work, Rounds, PerUrl
  <2> QED
    BY <1>2, <2>2, <2>3
<1>5. ASSUME NEW r \in Nat, NEW t \in Nat, pc'[c] = "enter",
             call'[c].redirects = r, call'[c].retries = t,
             Rounds(r, t) \in Nat,
             Rounds(r, t) + 1 =< Rounds(call[c].redirects, call[c].retries)
      PROVE  Work(c)' \in Nat /\ Work(c)' < Work(c)
  <2>1. Work(c)' = 7 * Rounds(r, t) + 6
    BY <1>5 DEF Work, Rounds, PerUrl, Way
  <2>2. 7 * Rounds(r, t) + 7 =< 7 * Rounds(call[c].redirects, call[c].retries)
    BY <1>2, <1>5
  <2> QED
    BY <1>2, <1>5, <2>1, <2>2
<1>6. CASE CreateFails(c) \/ ExchangeFails(c)
  <2>1. /\ pc[c] \in {"create", "write", "read"} /\ pc'[c] = "enter"
        /\ call'[c].redirects = call[c].redirects
        /\ call'[c].retries = call[c].retries + 1
    BY <1>6 DEF CreateFails, ExchangeFails, Retry, Goto, At, TypeOK, CallType
  <2>2. /\ call[c].redirects \in 0 .. max_redirects_ + 1
        /\ call[c].retries \in 0 .. PerUrl /\ call[c].retries < PerUrl
    BY <2>1, CounterRanges
  <2>3. call[c].redirects \in Nat /\ call[c].retries + 1 \in 0 .. PerUrl
    <3>1. PerUrl \in Nat /\ max_redirects_ \in Nat
      BY ClientAssumption DEF PerUrl
    <3> QED
      BY <2>2, <3>1
  <2> QED
    BY <1>5, <2>1, <2>2, <2>3, RoundFacts
<1>7. ASSUME NEW l \in Location, Redirected(c, l)
      PROVE  Work(c)' \in Nat /\ Work(c)' < Work(c)
  <2>1. /\ pc[c] = "read" /\ pc'[c] = "enter"
        /\ call'[c].redirects = call[c].redirects + 1
        /\ call'[c].retries = 0
    BY <1>7 DEF Redirected, Answering, Goto, At, TypeOK, CallType
  <2>2. /\ call[c].redirects \in 0 .. max_redirects_ + 1
        /\ call[c].retries \in 0 .. PerUrl
        /\ call[c].redirects =< max_redirects_
    BY <2>1, CounterRanges
  <2>3. call[c].redirects + 1 \in 0 .. max_redirects_ + 1 /\ 0 \in 0 .. PerUrl
    <3>1. PerUrl \in Nat /\ max_redirects_ \in Nat
      BY ClientAssumption DEF PerUrl
    <3> QED
      BY <2>2, <3>1
  <2> QED
    BY <1>5, <2>1, <2>2, <2>3, RoundFacts
<1> QED
  BY <1>3, <1>4, <1>6, <1>7 DEF request_impl

(* A call that is under way takes at most CallWork steps, whatever its peers
   and the other callers do: each step of it uses some of that up, and only a
   new call renews it. *)
THEOREM CallShrinksHolds == Spec => CallShrinks
<1>1. ASSUME TypeOK, TypeOK', Counted, Counted', Next, NEW c \in Caller
      PROVE  /\ Call(c) => Work(c)' = CallWork
             /\ request_impl(c) => Work(c)' < Work(c)
             /\ ~Call(c) => Work(c)' =< Work(c)
  <2> USE <1>1
  <2>1. ASSUME Call(c) PROVE Work(c)' = CallWork
    <3>1. pc'[c] = "enter" /\ call'[c].redirects = 0 /\ call'[c].retries = 0
      BY <2>1 DEF Call, Goto, Fresh, TypeOK
    <3> QED
      BY <3>1 DEF Work, CallWork, Rounds, PerUrl, Way
  <2>2. request_impl(c) => Work(c)' \in Nat /\ Work(c)' < Work(c)
    BY StepShrinks
  <2>3. Work(c) \in Nat
    BY WorkType
  <2>4. ASSUME pc'[c] = pc[c], call'[c] = call[c]
        PROVE  Work(c)' =< Work(c)
    <3>1. Work(c)' = Work(c)
      BY <2>4 DEF Work, Rounds, PerUrl
    <3> QED
      BY <2>3, <3>1
  <2>5. ASSUME NEW d \in Caller, d # c, Call(d) \/ request_impl(d)
        PROVE  pc'[c] = pc[c] /\ call'[c] = call[c]
    BY <2>5 DEF request_impl, Call, Refuse, Proceed, Acquire,
       AcquireNone, Create, CreateFails, Write, ExchangeFails, Redirected,
       Responded, RespondedLast, Return, End, Goto, Retry, TypeOK
  <2>6. ASSUME NEW x \in Conn, PeerCloses(x)
        PROVE  pc'[c] = pc[c] /\ call'[c] = call[c]
    BY <2>6 DEF PeerCloses
  <2>7. \/ Call(c) \/ request_impl(c)
        \/ pc'[c] = pc[c] /\ call'[c] = call[c]
    BY <2>5, <2>6 DEF Next
  <2> QED
    BY <2>1, <2>2, <2>3, <2>4, <2>7
<1>2. IInv /\ IInv' /\ Counted /\ Counted' /\ [Next]_vars
        => [\A c \in Caller :
               /\ Call(c) => Work(c)' = CallWork
               /\ request_impl(c) => Work(c)' < Work(c)
               /\ ~Call(c) => Work(c)' =< Work(c)]_vars
  BY <1>1 DEF IInv
<1> QED
  BY <1>2, Invariant, CountedHolds, PTL DEF Spec, CallShrinks
=============================================================================
