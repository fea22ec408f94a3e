------------------------ MODULE RequestSession_proofs ------------------------
(***************************************************************************)
(* Proofs about one HTTP connection, for any kinds of requests, any number *)
(* of them and any limits of their bodies.                                 *)
(***************************************************************************)
EXTENDS RequestSession, SequenceTheorems, TLAPS

-----------------------------------------------------------------------------
(* The bytes the server has not given to a parser: first what the buffer
   holds, then what is still on the wire. *)
Count == Len(buffer) + Len(wire)
Tok(i) == IF i =< Len(buffer) THEN buffer[i] ELSE wire[i - Len(buffer)]

(* The last token the client sent. *)
LastSent == [req |-> Len(sent), part |-> sent[Len(sent)].body - owed]

(* The stream: every token belongs to a request that was sent, the last one
   was sent last, a header is followed by its body, piece by piece, and then
   by the next header, and headers come in the order of their requests. *)
StreamOK ==
  /\ \A i \in 1 .. Count : Tok(i).req \in 1 .. Len(sent)
  /\ Count > 0 => Tok(Count) = LastSent
  /\ \A i, j \in 1 .. Count :
       /\ Tok(i).part = HEAD /\ i =< j
            /\ j - i =< sent[Tok(i).req].body
          => Tok(j) = [req |-> Tok(i).req, part |-> j - i]
       /\ Tok(i).part = HEAD /\ j - i = sent[Tok(i).req].body + 1
          => Tok(j).part = HEAD
       /\ i < j /\ Tok(j).part = HEAD => Tok(i).req < Tok(j).req

(* The client owes pieces of the last request only, and no request is
   answered that it has not sent. *)
Owes ==
  /\ sent = <<>> => owed = 0
  /\ sent # <<>> => owed =< sent[Len(sent)].body
  /\ \A k \in 1 .. Len(replies) : replies[k].req \in 0 .. Len(sent)

(* A header not read yet is of a later request than any read or answered. *)
HeadsFresh ==
  \A i \in 1 .. Count : Tok(i).part = HEAD =>
    /\ cur < Tok(i).req
    /\ \A k \in 1 .. Len(replies) : replies[k].req < Tok(i).req

(* A request that was sent is held as it was sent. *)
Held == cur # NoRequest => kind = sent[cur]

(* What the parser was given is the body so far, and what comes next in the
   stream is the rest of it and then a header. *)
Busy == cur # NoRequest /\ pc \notin {"header", "partial", "error", "closed"}
Receiving ==
  Busy =>
    /\ Len(got) + need = kind.body
    /\ \A i \in 1 .. Len(got) : got[i] = [req |-> cur, part |-> i]
    /\ \A i \in 1 .. Count :
         i =< need => Tok(i) = [req |-> cur, part |-> Len(got) + i]
    /\ Count =< need => LastSent = [req |-> cur, part |-> Len(got) + Count]
    /\ \A i \in 1 .. Count : i = need + 1 => Tok(i).part = HEAD

(* Between requests nothing is kept, and only a complete body is handled. *)
Places ==
  /\ pc \in {"header", "partial"} => buffer = <<>> /\ cur = NoRequest
  /\ pc \in {"continue", "body"} => kind.post
  /\ pc \in {"handle", "after", "closing", "reply"} /\ kind.post => need = 0
-----------------------------------------------------------------------------
(* The operators on sequences. *)

LEMMA TakeFacts ==
  ASSUME NEW T, NEW s \in Seq(T), NEW n \in 0 .. Len(s)
  PROVE  /\ Take(s, n) \in Seq(T)
         /\ Len(Take(s, n)) = n
         /\ \A i \in 1 .. n : Take(s, n)[i] = s[i]
<1>1. 1 \in Int /\ n \in Int /\ \A i \in 1 .. n : s[i] \in T
  OBVIOUS
<1>2. /\ SubSeq(s, 1, n) \in Seq(T)
      /\ Len(SubSeq(s, 1, n)) = IF 1 =< n THEN n - 1 + 1 ELSE 0
      /\ \A i \in 1 .. n - 1 + 1 : SubSeq(s, 1, n)[i] = s[1 + i - 1]
  BY <1>1, SubSeqProperties
<1> QED
  BY <1>1, <1>2 DEF Take

(* A slice of a sequence: its type, length and members. *)
LEMMA SliceFacts ==
  ASSUME NEW T, NEW s \in Seq(T), NEW m \in 0 .. Len(s),
         NEW n \in 0 .. Len(s), m =< n
  PROVE  /\ SubSeq(s, m + 1, n) \in Seq(T)
         /\ Len(SubSeq(s, m + 1, n)) = n - m
         /\ \A i \in 1 .. n - m : SubSeq(s, m + 1, n)[i] = s[i + m]
<1>1. m + 1 \in Int /\ n \in Int /\ \A i \in m + 1 .. n : s[i] \in T
  OBVIOUS
<1>2. /\ SubSeq(s, m + 1, n) \in Seq(T)
      /\ Len(SubSeq(s, m + 1, n))
           = IF m + 1 =< n THEN n - (m + 1) + 1 ELSE 0
      /\ \A i \in 1 .. n - (m + 1) + 1 :
           SubSeq(s, m + 1, n)[i] = s[m + 1 + i - 1]
  BY <1>1, SubSeqProperties
<1> QED
  BY <1>1, <1>2

(* A sequence without its first n members. *)
LEMMA DropFacts ==
  ASSUME NEW T, NEW s \in Seq(T), NEW n \in 0 .. Len(s)
  PROVE  /\ Drop(s, n) \in Seq(T)
         /\ Len(Drop(s, n)) = Len(s) - n
         /\ \A i \in 1 .. Len(s) - n : Drop(s, n)[i] = s[i + n]
<1>1. Len(s) \in 0 .. Len(s) /\ n =< Len(s)
  OBVIOUS
<1> QED
  BY <1>1, SliceFacts DEF Drop
-----------------------------------------------------------------------------
(* What a step does to the stream. *)

Adds(t) == wire' = Append(wire, t) /\ UNCHANGED buffer
Consumes(d) ==
  /\ Count' = Count - d
  /\ \A i \in 1 .. Count - d : Tok(i)' = Tok(i + d)

(* The bytes in flight or buffered are counted by a natural number. *)
LEMMA CountType ==
  ASSUME wire \in Seq(Token), buffer \in Seq(Token)
  PROVE  /\ Count \in Nat /\ Len(wire) \in Nat /\ Len(buffer) \in Nat
         /\ \A i \in 1 .. Count : Tok(i) \in Token
<1>1. Len(wire) \in Nat /\ Len(buffer) \in Nat
  OBVIOUS
<1>2. \A i \in 1 .. Count : Tok(i) \in Token
  <2> SUFFICES ASSUME NEW i \in 1 .. Count PROVE Tok(i) \in Token
    OBVIOUS
  <2>1. CASE i =< Len(buffer)
    BY <1>1, <2>1 DEF Tok, Count
  <2>2. CASE ~(i =< Len(buffer))
    <3>1. i - Len(buffer) \in 1 .. Len(wire)
      BY <1>1, <2>2 DEF Count
    <3> QED
      BY <2>2, <3>1 DEF Tok
  <2> QED
    BY <2>1, <2>2
<1> QED
  BY <1>1, <1>2 DEF Count

(* A token sent is behind all that are in flight. *)
LEMMA AddsFacts ==
  ASSUME wire \in Seq(Token), buffer \in Seq(Token), NEW t \in Token, Adds(t)
  PROVE  /\ wire' \in Seq(Token)
         /\ Count' = Count + 1
         /\ \A i \in 1 .. Count : Tok(i)' = Tok(i)
         /\ \A n : n = Count + 1 => Tok(n)' = t
<1>1. Count \in Nat /\ Len(wire) \in Nat /\ Len(buffer) \in Nat
  BY CountType
<1>2. /\ wire' \in Seq(Token) /\ Len(wire') = Len(wire) + 1
      /\ \A i \in 1 .. Len(wire) : wire'[i] = wire[i]
      /\ wire'[Len(wire) + 1] = t /\ buffer' = buffer
  BY AppendProperties DEF Adds
<1>3. Count' = Count + 1
  BY <1>1, <1>2 DEF Count
<1>4. \A i \in 1 .. Count : Tok(i)' = Tok(i)
  <2> SUFFICES ASSUME NEW i \in 1 .. Count PROVE Tok(i)' = Tok(i)
    OBVIOUS
  <2>1. CASE i =< Len(buffer)
    BY <1>2, <2>1 DEF Tok
  <2>2. CASE ~(i =< Len(buffer))
    <3>1. i - Len(buffer) \in 1 .. Len(wire)
      BY <1>1, <2>2 DEF Count
    <3> QED
      BY <1>2, <2>2, <3>1 DEF Tok
  <2> QED
    BY <2>1, <2>2
<1>5. ASSUME NEW n, n = Count + 1
      PROVE  Tok(n)' = t
  <2>1. ~(n =< Len(buffer)) /\ n - Len(buffer) = Len(wire) + 1
    BY <1>1, <1>5 DEF Count
  <2> QED
    BY <1>2, <2>1 DEF Tok
<1> QED
  BY <1>2, <1>3, <1>4, <1>5

(* Reading a header: the buffer is empty then. *)
LEMMA HeaderConsumes ==
  ASSUME wire \in Seq(Token), buffer = <<>>, NEW n \in 1 .. Len(wire),
         wire' = Drop(wire, n), buffer' = SubSeq(wire, 2, n)
  PROVE  /\ wire' \in Seq(Token) /\ buffer' \in Seq(Token)
         /\ Count > 0 /\ Tok(1) = wire[1] /\ Consumes(1)
<1>1. Len(wire) \in Nat /\ n \in 0 .. Len(wire) /\ 1 \in 0 .. Len(wire)
  OBVIOUS
<1>2. /\ wire' \in Seq(Token) /\ Len(wire') = Len(wire) - n
      /\ \A i \in 1 .. Len(wire) - n : wire'[i] = wire[i + n]
  BY <1>1, DropFacts
<1>3. /\ buffer' \in Seq(Token) /\ Len(buffer') = n - 1
      /\ \A i \in 1 .. n - 1 : buffer'[i] = wire[i + 1]
  <2>1. 1 =< n /\ SubSeq(wire, 2, n) = SubSeq(wire, 1 + 1, n)
    OBVIOUS
  <2> QED
    BY <1>1, <2>1, SliceFacts
<1>4. Len(buffer) = 0
  OBVIOUS
<1>5. Count = Len(wire) /\ Count' = Len(wire) - 1
  BY <1>1, <1>2, <1>3, <1>4 DEF Count
<1>6. \A i \in 1 .. Len(wire) : Tok(i) = wire[i]
  BY <1>1, <1>4 DEF Tok
<1>7. \A i \in 1 .. Len(wire) - 1 : Tok(i)' = wire[i + 1]
  <2> SUFFICES ASSUME NEW i \in 1 .. Len(wire) - 1 PROVE Tok(i)' = wire[i + 1]
    OBVIOUS
  <2>1. CASE i =< n - 1
    BY <1>1, <1>3, <2>1 DEF Tok
  <2>2. CASE ~(i =< n - 1)
    <3>1. i - (n - 1) \in 1 .. Len(wire) - n /\ i - (n - 1) + n = i + 1
      BY <1>1, <2>2
    <3>2. wire'[i - (n - 1)] = wire[i + 1]
      BY <1>2, <3>1
    <3> QED
      BY <1>3, <2>2, <3>2 DEF Tok
  <2> QED
    BY <2>1, <2>2
<1>8. \A i \in 1 .. Len(wire) - 1 : i + 1 \in 1 .. Len(wire)
  BY <1>1
<1>9. Consumes(1)
  BY <1>5, <1>6, <1>7, <1>8 DEF Consumes
<1>10. Count > 0 /\ Tok(1) = wire[1]
  BY <1>1, <1>5, <1>6
<1> QED
  BY <1>2, <1>3, <1>9, <1>10

(* Reading a piece of the body. *)
LEMMA BodyConsumes ==
  ASSUME wire \in Seq(Token), buffer \in Seq(Token), NEW n \in 1 .. Len(wire),
         NEW d \in 1 .. Len(buffer) + n, wire' = Drop(wire, n),
         buffer' = Drop(buffer \o Take(wire, n), d)
  PROVE  /\ wire' \in Seq(Token) /\ buffer' \in Seq(Token)
         /\ Consumes(d) /\ d =< Count
         /\ Take(buffer \o Take(wire, n), d) \in Seq(Token)
         /\ Len(Take(buffer \o Take(wire, n), d)) = d
         /\ \A i \in 1 .. d : Take(buffer \o Take(wire, n), d)[i] = Tok(i)
<1>1. /\ Len(wire) \in Nat /\ Len(buffer) \in Nat /\ n \in 0 .. Len(wire)
      /\ n =< Len(wire)
  OBVIOUS
<1>2. /\ wire' \in Seq(Token) /\ Len(wire') = Len(wire) - n
      /\ \A i \in 1 .. Len(wire) - n : wire'[i] = wire[i + n]
  BY <1>1, DropFacts
<1>3. /\ Take(wire, n) \in Seq(Token) /\ Len(Take(wire, n)) = n
      /\ \A i \in 1 .. n : Take(wire, n)[i] = wire[i]
  BY <1>1, TakeFacts
<1>4. PICK filled : filled = buffer \o Take(wire, n)
  OBVIOUS
<1>5. /\ filled \in Seq(Token) /\ Len(filled) = Len(buffer) + n
      /\ \A i \in 1 .. Len(buffer) + n :
           filled[i] = IF i =< Len(buffer) THEN buffer[i]
                       ELSE Take(wire, n)[i - Len(buffer)]
  BY <1>3, <1>4, ConcatProperties
<1>6. \A i \in 1 .. Len(buffer) + n : filled[i] = Tok(i)
  <2> SUFFICES ASSUME NEW i \in 1 .. Len(buffer) + n PROVE filled[i] = Tok(i)
    OBVIOUS
  <2>1. CASE i =< Len(buffer)
    BY <1>5, <2>1 DEF Tok
  <2>2. CASE ~(i =< Len(buffer))
    <3>1. i - Len(buffer) \in 1 .. n
      BY <1>1, <2>2
    <3> QED
      BY <1>3, <1>5, <2>2, <3>1 DEF Tok
  <2> QED
    BY <2>1, <2>2
<1>7. d \in 0 .. Len(filled) /\ d =< Len(buffer) + n
  BY <1>1, <1>5
<1>8. /\ buffer' \in Seq(Token) /\ Len(buffer') = Len(buffer) + n - d
      /\ \A i \in 1 .. Len(buffer) + n - d : buffer'[i] = filled[i + d]
  <2>1. buffer' = Drop(filled, d)
    BY <1>4
  <2>2. /\ Drop(filled, d) \in Seq(Token)
        /\ Len(Drop(filled, d)) = Len(filled) - d
        /\ \A i \in 1 .. Len(filled) - d : Drop(filled, d)[i] = filled[i + d]
    BY <1>5, <1>7, DropFacts
  <2> QED
    BY <1>5, <2>1, <2>2
<1>9. /\ Take(filled, d) \in Seq(Token) /\ Len(Take(filled, d)) = d
      /\ \A i \in 1 .. d : Take(filled, d)[i] = filled[i]
  BY <1>5, <1>7, TakeFacts
<1>10. Count' = Count - d /\ d =< Count
  BY <1>1, <1>2, <1>7, <1>8 DEF Count
<1>11. ASSUME NEW i \in 1 .. Count - d
       PROVE  Tok(i)' = Tok(i + d)
  <2>1. CASE i =< Len(buffer) + n - d
    <3>1. i + d \in 1 .. Len(buffer) + n /\ i \in 1 .. Len(buffer) + n - d
      BY <1>1, <1>7, <2>1
    <3>2. Tok(i)' = buffer'[i]
      BY <1>8, <2>1 DEF Tok
    <3> QED
      BY <1>6, <1>8, <3>1, <3>2
  <2>2. CASE ~(i =< Len(buffer) + n - d)
    <3>0. i - (Len(buffer) + n - d) \in 1 .. Len(wire) - n
      <4>1. i \in Nat /\ i =< Len(buffer) + Len(wire) - d
        BY <1>1, <1>10 DEF Count
      <4> QED
        BY <1>1, <1>7, <2>2, <4>1
    <3>1. PICK k \in 1 .. Len(wire) - n : k = i - (Len(buffer) + n - d)
      BY <3>0
    <3>2. Tok(i)' = wire'[k]
      BY <1>8, <2>2, <3>1 DEF Tok
    <3>3. ~(i + d =< Len(buffer)) /\ i + d - Len(buffer) = k + n
      BY <1>1, <1>7, <2>2, <3>1
    <3>4. Tok(i + d) = wire[k + n]
      BY <3>3 DEF Tok
    <3> QED
      BY <1>2, <3>2, <3>4
  <2> QED
    BY <2>1, <2>2
<1>12. \A i \in 1 .. d : i \in 1 .. Len(buffer) + n
  BY <1>1, <1>7
<1> QED
  BY <1>2, <1>4, <1>6, <1>8, <1>9, <1>10, <1>11, <1>12 DEF Consumes

(* Reading a part of a header. *)
LEMMA PartConsumes ==
  ASSUME wire \in Seq(Token), buffer = <<>>, NEW n \in 1 .. Len(wire),
         wire' = Drop(wire, n), buffer' = buffer
  PROVE  wire' \in Seq(Token) /\ n \in 0 .. Count /\ Consumes(n)
<1>1. Len(wire) \in Nat /\ n \in 0 .. Len(wire) /\ Len(buffer) = 0
  OBVIOUS
<1>2. /\ wire' \in Seq(Token) /\ Len(wire') = Len(wire) - n
      /\ \A i \in 1 .. Len(wire) - n : wire'[i] = wire[i + n]
  BY <1>1, DropFacts
<1>3. Count = Len(wire) /\ Count' = Count - n
  BY <1>1, <1>2 DEF Count
<1>4. ASSUME NEW i \in 1 .. Count - n
      PROVE  Tok(i)' = Tok(i + n)
  <2>1. Tok(i)' = wire'[i] /\ Tok(i + n) = wire[i + n]
    BY <1>1, <1>3 DEF Tok
  <2> QED
    BY <1>2, <1>3, <2>1
<1> QED
  BY <1>1, <1>2, <1>3, <1>4 DEF Consumes

(* A read of a header is a read. *)
LEMMA Reads ==
  ASSUME TypeOK, NEW n \in 1 .. Smaller(Len(wire), HeadRoom + 1)
  PROVE  n \in 1 .. Len(wire)
<1>1. Len(wire) \in Nat /\ HeadRoom \in Nat
  BY BoundAssumption DEF TypeOK
<1> QED
  BY <1>1 DEF Smaller

(* Dropping what the buffer holds. *)
LEMMA ClearConsumes ==
  ASSUME wire \in Seq(Token), buffer \in Seq(Token), wire' = wire,
         buffer' = <<>>
  PROVE  /\ buffer' \in Seq(Token)
         /\ \E d \in 0 .. Count : d = Len(buffer) /\ Consumes(d)
<1>1. Len(wire) \in Nat /\ Len(buffer) \in Nat /\ Len(buffer') = 0
  OBVIOUS
<1>2. Count' = Count - Len(buffer) /\ Len(buffer) \in 0 .. Count
  BY <1>1 DEF Count
<1>3. ASSUME NEW d, d = Len(buffer), NEW i \in 1 .. Count - d
      PROVE  Tok(i)' = Tok(i + d)
  <2>1. Tok(i)' = wire[i]
    BY <1>1, <1>2, <1>3 DEF Tok
  <2>2. Tok(i + d) = wire[i]
    BY <1>1, <1>2, <1>3 DEF Tok
  <2> QED
    BY <2>1, <2>2
<1>4. buffer' \in Seq(Token)
  BY EmptySeq
<1> QED
  BY <1>2, <1>3, <1>4 DEF Consumes
-----------------------------------------------------------------------------
(* The invariant of the stream and of the reads. *)

Framing ==
  TypeOK /\ StreamOK /\ Owes /\ HeadsFresh /\ Held /\ Receiving /\ Places

(* The five ways of the server with its input: it leaves it alone, drops what
   is left of a request, reads a header, a stray or a piece of a body. *)
Says == UNCHANGED replies \/ \E s \in {"100", "final", "500"} : Send(s)
Stays ==
  /\ UNCHANGED <<client, wire, inputs, expired>>
  /\ Says
  /\ \/ pc' \in {"error", "closed"}
     \/ pc = "continue" /\ pc' = "body"
     \/ pc = "body" /\ need = 0 /\ pc' = "handle"
     \/ pc \in {"handle", "after"} /\ pc' \in {"after", "closing", "reply"}
Forgets ==
  /\ UNCHANGED <<client, wire, expired>>
  /\ Says
  /\ NextRequest
  /\ pc' \in {"header", "closed"}

(* The fields of the requests. *)
LEMMA Kinds ==
  ASSUME TypeOK
  PROVE  /\ Len(sent) \in Nat
         /\ \A k \in Kind :
              /\ k.body \in Nat
              /\ k.post \in BOOLEAN /\ k.keep_alive \in BOOLEAN
              /\ k.manual \in BOOLEAN /\ k.valid \in BOOLEAN
         /\ \A i \in 1 .. Len(sent) : sent[i] \in Kind /\ sent[i].body \in Nat
         /\ cur # NoRequest => cur \in 1 .. Len(sent)
         /\ kind.body \in Nat
         /\ kind.post \in BOOLEAN /\ kind.keep_alive \in BOOLEAN
<1>1. \A k \in Kind :
        /\ k.body \in Nat
        /\ k.post \in BOOLEAN /\ k.keep_alive \in BOOLEAN
        /\ k.manual \in BOOLEAN /\ k.valid \in BOOLEAN
  BY KindAssumption DEF KindType
<1>2. Len(sent) \in Nat /\ \A i \in 1 .. Len(sent) : sent[i] \in Kind
  BY DEF TypeOK
<1>3. cur \in 0 .. Len(sent)
  BY DEF TypeOK
<1>4. cur # NoRequest => cur \in 1 .. Len(sent)
  BY <1>2, <1>3 DEF NoRequest
<1>5. kind.body \in Nat /\ kind.post \in BOOLEAN /\ kind.keep_alive \in BOOLEAN
  BY DEF TypeOK, KindType
<1> QED
  BY <1>1, <1>2, <1>4, <1>5

(* Taking tokens off the front of the stream leaves it in order. *)
LEMMA StreamConsumes ==
  ASSUME TypeOK, StreamOK, NEW d \in 0 .. Count, Consumes(d),
         UNCHANGED <<sent, owed>>
  PROVE  StreamOK'
<1>1. Count \in Nat /\ Count' = Count - d /\ Len(sent) \in Nat
  BY CountType DEF TypeOK, Consumes
<1>2. \A i \in 1 .. Count' : i + d \in 1 .. Count /\ Tok(i)' = Tok(i + d)
  BY <1>1 DEF Consumes
<1>3. \A i \in 1 .. Count' : Tok(i)'.req \in 1 .. Len(sent)
  BY <1>2 DEF StreamOK
<1>4. Count' > 0 => Tok(Count)' = LastSent
  <2> SUFFICES ASSUME Count' > 0 PROVE Tok(Count)' = LastSent
    OBVIOUS
  <2>1. PICK n \in 1 .. Count' : n = Count'
    BY <1>1
  <2>2. Tok(n)' = Tok(n + d) /\ n + d = Count
    BY <1>1, <1>2, <2>1
  <2>3. Tok(Count)' = Tok(n)'
    BY <2>1 DEF Tok
  <2>4. Tok(Count) = LastSent
    BY <1>1, <2>1 DEF StreamOK
  <2> QED
    BY <2>2, <2>3, <2>4
<1>5. LastSent' = LastSent
  BY DEF LastSent
<1>6. ASSUME NEW i \in 1 .. Count', NEW j \in 1 .. Count'
      PROVE  /\ Tok(i)'.part = HEAD /\ i =< j
                  /\ j - i =< sent[Tok(i)'.req].body
                => Tok(j)' = [req |-> Tok(i)'.req, part |-> j - i]
             /\ Tok(i)'.part = HEAD /\ j - i = sent[Tok(i)'.req].body + 1
                => Tok(j)'.part = HEAD
             /\ i < j /\ Tok(j)'.part = HEAD => Tok(i)'.req < Tok(j)'.req
  <2>1. PICK m \in 1 .. Count : m = i + d /\ Tok(i)' = Tok(m)
    BY <1>2
  <2>2. PICK n \in 1 .. Count : n = j + d /\ Tok(j)' = Tok(n)
    BY <1>2
  <2>3. /\ n - m = j - i /\ (i =< j <=> m =< n) /\ (i < j <=> m < n)
    BY <1>1, <2>1, <2>2
  <2> QED
    BY <2>1, <2>2, <2>3 DEF StreamOK
<1> QED
  BY <1>3, <1>4, <1>5, <1>6 DEF StreamOK

(* A token the client sends next keeps the stream in order. *)
LEMMA StreamAdds ==
  ASSUME TypeOK, StreamOK, Owes, NEW t \in [req : Nat, part : Nat],
         t \in Token, Adds(t),
         \/ \E k \in Kind : /\ owed = 0 /\ sent' = Append(sent, k)
                           /\ owed' = k.body
                           /\ t = [req |-> Len(sent) + 1, part |-> HEAD]
         \/ /\ owed > 0 /\ UNCHANGED sent /\ owed' = owed - 1
            /\ t = [req |-> Len(sent),
                    part |-> sent[Len(sent)].body - owed']
  PROVE  /\ StreamOK' /\ t = LastSent'
         /\ \A i \in 1 .. Len(sent) : sent'[i] = sent[i]
         /\ Len(sent') \in Nat /\ Len(sent') >= Len(sent)
         /\ t.part = HEAD => owed = 0 /\ t.req = Len(sent) + 1
         /\ t.part # HEAD =>
              /\ owed > 0 /\ sent # <<>>
              /\ t = [req |-> LastSent.req, part |-> LastSent.part + 1]
<1>1. /\ Count \in Nat /\ Count' = Count + 1 /\ Len(sent) \in Nat
      /\ \A i \in 1 .. Count : Tok(i)' = Tok(i)
      /\ \A n : n = Count + 1 => Tok(n)' = t
  BY CountType, AddsFacts DEF TypeOK
<1>2. \A i \in 1 .. Len(sent) : sent[i].body \in Nat
  BY Kinds
<1>o. owed \in Nat
  BY DEF TypeOK
<1>3. CASE \E k \in Kind : /\ owed = 0 /\ sent' = Append(sent, k)
                         /\ owed' = k.body
                         /\ t = [req |-> Len(sent) + 1, part |-> HEAD]
  <2>1. PICK k \in Kind : /\ owed = 0 /\ sent' = Append(sent, k)
                         /\ owed' = k.body
                         /\ t = [req |-> Len(sent) + 1, part |-> HEAD]
    BY <1>3
  <2>2. /\ Len(sent') = Len(sent) + 1 /\ sent'[Len(sent) + 1] = k
        /\ \A i \in 1 .. Len(sent) : sent'[i] = sent[i]
        /\ sent \in Seq(Kind)
    BY <2>1, AppendProperties DEF TypeOK
  <2>3. k.body \in Nat
    BY <2>1, Kinds
  <2>4. t = LastSent'
    BY <2>1, <2>2, <2>3 DEF LastSent, HEAD
  <2>5. /\ Len(sent') \in Nat /\ Len(sent') >= Len(sent)
        /\ t.part = HEAD /\ t.req = Len(sent) + 1 /\ owed = 0
    BY <1>1, <2>1, <2>2
  <2>6. \A i \in 1 .. Count' : Tok(i)'.req \in 1 .. Len(sent')
    <3> SUFFICES ASSUME NEW i \in 1 .. Count'
                 PROVE  Tok(i)'.req \in 1 .. Len(sent')
      OBVIOUS
    <3>1. CASE i = Count + 1
      BY <1>1, <2>2, <2>5, <3>1
    <3>2. CASE i # Count + 1
      <4>1. i \in 1 .. Count
        BY <1>1, <3>2
      <4> QED
        BY <1>1, <2>2, <4>1 DEF StreamOK
    <3> QED
      BY <3>1, <3>2
  <2>7. Tok(Count)' = LastSent'
    <3>1. \A n : n = Count' => Tok(n)' = t
      BY <1>1
    <3>2. \A n : n = Count' => Tok(n)' = Tok(Count)'
      BY DEF Tok
    <3> QED
      BY <2>4, <3>1, <3>2
  <2>8. ASSUME NEW i \in 1 .. Count', NEW j \in 1 .. Count'
        PROVE  /\ Tok(i)'.part = HEAD /\ i =< j
                    /\ j - i =< sent'[Tok(i)'.req].body
                  => Tok(j)' = [req |-> Tok(i)'.req, part |-> j - i]
               /\ Tok(i)'.part = HEAD /\ j - i = sent'[Tok(i)'.req].body + 1
                  => Tok(j)'.part = HEAD
               /\ i < j /\ Tok(j)'.part = HEAD => Tok(i)'.req < Tok(j)'.req
    <3>1. CASE i \in 1 .. Count /\ j \in 1 .. Count
      <4>1. /\ Tok(i)' = Tok(i) /\ Tok(j)' = Tok(j)
            /\ sent'[Tok(i).req] = sent[Tok(i).req]
        BY <1>1, <2>2, <3>1 DEF StreamOK
      <4> QED
        BY <3>1, <4>1 DEF StreamOK
    <3>2. CASE i = Count + 1
      <4>1. Tok(i)' = t /\ sent'[Tok(i)'.req] = k
        BY <1>1, <2>1, <2>2, <3>2
      <4>2. j =< i /\ j \in Nat /\ i \in Nat
        BY <1>1, <3>2
      <4>3. CASE j = i
        BY <1>1, <2>1, <2>3, <4>1, <4>2, <4>3 DEF HEAD
      <4>4. CASE j # i
        BY <2>3, <4>1, <4>2, <4>4
      <4> QED
        BY <4>3, <4>4
    <3>3. CASE i \in 1 .. Count /\ j = Count + 1
      <4>1. /\ Tok(i)' = Tok(i) /\ Tok(j)' = t /\ Tok(i).req \in 1 .. Len(sent)
            /\ sent'[Tok(i).req] = sent[Tok(i).req] /\ sent[Tok(i).req].body \in Nat
        BY <1>1, <1>2, <2>2, <3>3 DEF StreamOK
      <4>2. ASSUME Tok(i).part = HEAD, j - i =< sent[Tok(i).req].body
            PROVE  FALSE
        <5>1. /\ Count \in 1 .. Count /\ i =< Count
              /\ Count - i =< sent[Tok(i).req].body
          BY <1>1, <3>3, <4>1, <4>2
        <5>2. Tok(Count) = [req |-> Tok(i).req, part |-> Count - i]
          BY <3>3, <4>2, <5>1 DEF StreamOK
        <5>3. Tok(Count) = LastSent
          BY <5>1 DEF StreamOK
        <5>4. Tok(i).req = Len(sent) /\ Count - i = sent[Len(sent)].body
          BY <1>o, <2>1, <4>1, <5>2, <5>3 DEF LastSent
        <5> QED
          BY <1>1, <3>3, <4>1, <4>2, <5>4
      <4>3. Tok(i)'.req < Tok(j)'.req
        BY <1>1, <2>5, <4>1
      <4> QED
        BY <2>5, <4>1, <4>2, <4>3
    <3> QED
      BY <1>1, <3>1, <3>2, <3>3
  <2> QED
    BY <2>2, <2>4, <2>5, <2>6, <2>7, <2>8 DEF StreamOK
<1>4. CASE /\ owed > 0 /\ UNCHANGED sent /\ owed' = owed - 1
           /\ t = [req |-> Len(sent), part |-> sent[Len(sent)].body - owed']
  <2>1. sent # <<>> /\ Len(sent) \in 1 .. Len(sent)
    <3>1. sent # <<>>
      BY <1>o, <1>4 DEF Owes
    <3>2. Len(sent) # 0
      BY <3>1 DEF TypeOK
    <3> QED
      BY <1>1, <3>1, <3>2
  <2>2. PICK b \in Nat : b = sent[Len(sent)].body
    BY <1>2, <2>1
  <2>3. /\ t = [req |-> Len(sent), part |-> b - owed + 1] /\ owed =< b
        /\ LastSent = [req |-> Len(sent), part |-> b - owed]
    BY <1>o, <1>4, <2>1, <2>2 DEF LastSent, Owes
  <2>4. t = LastSent' /\ t.part # HEAD
    BY <1>o, <1>4, <2>2, <2>3 DEF LastSent, HEAD
  <2>5. \A i \in 1 .. Count' : Tok(i)'.req \in 1 .. Len(sent')
    <3> SUFFICES ASSUME NEW i \in 1 .. Count'
                 PROVE  Tok(i)'.req \in 1 .. Len(sent')
      OBVIOUS
    <3>1. CASE i = Count + 1
      BY <1>1, <1>4, <2>1, <2>3, <3>1
    <3>2. CASE i # Count + 1
      <4>1. i \in 1 .. Count
        BY <1>1, <3>2
      <4> QED
        BY <1>1, <1>4, <4>1 DEF StreamOK
    <3> QED
      BY <3>1, <3>2
  <2>6. Tok(Count)' = LastSent'
    <3>1. \A n : n = Count' => Tok(n)' = t
      BY <1>1
    <3>2. \A n : n = Count' => Tok(n)' = Tok(Count)'
      BY DEF Tok
    <3> QED
      BY <2>4, <3>1, <3>2
  <2>7. ASSUME NEW i \in 1 .. Count', NEW j \in 1 .. Count'
        PROVE  /\ Tok(i)'.part = HEAD /\ i =< j
                    /\ j - i =< sent[Tok(i)'.req].body
                  => Tok(j)' = [req |-> Tok(i)'.req, part |-> j - i]
               /\ Tok(i)'.part = HEAD /\ j - i = sent[Tok(i)'.req].body + 1
                  => Tok(j)'.part = HEAD
               /\ i < j /\ Tok(j)'.part = HEAD => Tok(i)'.req < Tok(j)'.req
    <3>1. CASE i \in 1 .. Count /\ j \in 1 .. Count
      <4>1. Tok(i)' = Tok(i) /\ Tok(j)' = Tok(j)
        BY <1>1, <3>1
      <4> QED
        BY <3>1, <4>1 DEF StreamOK
    <3>2. CASE i = Count + 1
      <4>1. Tok(i)'.part # HEAD /\ j =< i /\ i \in Nat /\ j \in Nat
        BY <1>1, <2>4, <3>2
      <4> QED
        BY <4>1
    <3>3. CASE i \in 1 .. Count /\ j = Count + 1
      <4>1. /\ Tok(i)' = Tok(i) /\ Tok(j)' = t /\ Tok(i).req \in 1 .. Len(sent)
            /\ sent[Tok(i).req].body \in Nat
        BY <1>1, <1>2, <3>3 DEF StreamOK
      <4>2. ASSUME Tok(i).part = HEAD, j - i =< sent[Tok(i).req].body + 1
            PROVE  /\ j - i =< sent[Tok(i).req].body
                   /\ t = [req |-> Tok(i).req, part |-> j - i]
        <5>1. /\ Count \in 1 .. Count /\ i =< Count
              /\ Count - i =< sent[Tok(i).req].body
          BY <1>1, <3>3, <4>1, <4>2
        <5>2. Tok(Count) = [req |-> Tok(i).req, part |-> Count - i]
          BY <3>3, <4>2, <5>1 DEF StreamOK
        <5>3. Tok(Count) = LastSent
          BY <5>1 DEF StreamOK
        <5>4. Tok(i).req = Len(sent) /\ Count - i = b - owed
          BY <2>3, <5>2, <5>3
        <5>5. j - i = b - owed + 1 /\ b - owed + 1 =< b
          BY <1>1, <1>o, <1>4, <2>3, <3>3, <5>4
        <5> QED
          BY <2>2, <2>3, <5>4, <5>5
      <4> QED
        BY <1>1, <2>4, <3>3, <4>1, <4>2
    <3> QED
      BY <1>1, <3>1, <3>2, <3>3
  <2>8. t = [req |-> LastSent.req, part |-> LastSent.part + 1]
    BY <2>3
  <2> QED
    BY <1>1, <1>4, <2>1, <2>4, <2>5, <2>6, <2>7, <2>8 DEF StreamOK
<1> QED
  BY <1>3, <1>4
-----------------------------------------------------------------------------
(* The client's steps keep the invariant of the stream. *)

LEMMA ClientAdds ==
  ASSUME Framing, NEW t \in Token, Adds(t), UNCHANGED server,
         sent' \in Seq(Kind), owed' \in Nat,
         \/ \E k \in Kind : /\ owed = 0 /\ sent' = Append(sent, k)
                           /\ owed' = k.body
                           /\ t = [req |-> Len(sent) + 1, part |-> HEAD]
         \/ /\ owed > 0 /\ UNCHANGED sent /\ owed' = owed - 1
            /\ t = [req |-> Len(sent),
                    part |-> sent[Len(sent)].body - owed']
  PROVE  StreamOK' /\ HeadsFresh' /\ Held' /\ Receiving' /\ Places'
         /\ Len(sent') >= Len(sent)
<1> USE DEF Framing
<1>1. t.req \in Nat /\ t.part \in Nat /\ t \in [req : Nat, part : Nat]
  BY BoundAssumption DEF Token
<1>2. /\ StreamOK' /\ t = LastSent'
      /\ \A i \in 1 .. Len(sent) : sent'[i] = sent[i]
      /\ Len(sent') \in Nat /\ Len(sent') >= Len(sent)
      /\ t.part = HEAD => owed = 0 /\ t.req = Len(sent) + 1
      /\ t.part # HEAD =>
           /\ owed > 0 /\ sent # <<>>
           /\ t = [req |-> LastSent.req, part |-> LastSent.part + 1]
  BY <1>1, StreamAdds
<1>3. /\ Count \in Nat /\ Count' = Count + 1 /\ Len(sent) \in Nat
      /\ \A i \in 1 .. Count : Tok(i)' = Tok(i)
      /\ \A n : n = Count + 1 => Tok(n)' = t
  BY CountType, AddsFacts DEF TypeOK
<1>4. /\ UNCHANGED <<pc, buffer, cur, kind, need, got, replies>>
      /\ cur \in 0 .. Len(sent) /\ need \in Nat /\ Len(got) \in Nat
      /\ owed \in Nat
  BY DEF server, TypeOK
<1>5. HeadsFresh'
  <2> SUFFICES ASSUME NEW i \in 1 .. Count', Tok(i)'.part = HEAD
               PROVE  /\ cur < Tok(i)'.req
                      /\ \A k \in 1 .. Len(replies) : replies[k].req < Tok(i)'.req
    BY <1>4 DEF HeadsFresh
  <2>1. CASE i \in 1 .. Count
    BY <1>3, <2>1 DEF HeadsFresh
  <2>2. CASE i = Count + 1
    <3>1. Tok(i)'.req = Len(sent) + 1
      BY <1>2, <1>3, <2>2
    <3>2. \A k \in 1 .. Len(replies) : replies[k].req < Len(sent) + 1
      BY <1>3 DEF Owes
    <3> QED
      BY <1>3, <1>4, <3>1, <3>2
  <2> QED
    BY <1>3, <2>1, <2>2
<1>6. ASSUME cur # NoRequest
      PROVE  /\ cur \in 1 .. Len(sent) /\ kind.body \in Nat
             /\ sent[cur] = kind /\ sent'[cur] = kind
    BY <1>2, <1>6, Kinds DEF Held
<1>7. Receiving'
  <2> SUFFICES ASSUME Busy
               PROVE  /\ \A i \in 1 .. Count' : i =< need =>
                           Tok(i)' = [req |-> cur, part |-> Len(got) + i]
                      /\ Count' =< need =>
                           LastSent' = [req |-> cur, part |-> Len(got) + Count']
                      /\ \A i \in 1 .. Count' :
                           i = need + 1 => Tok(i)'.part = HEAD
    BY <1>4 DEF Receiving, Busy
  <2>0. cur # NoRequest
    BY DEF Busy
  <2>1. /\ Len(got) + need = kind.body
        /\ \A i \in 1 .. Count :
             i =< need => Tok(i) = [req |-> cur, part |-> Len(got) + i]
        /\ Count =< need => LastSent = [req |-> cur, part |-> Len(got) + Count]
        /\ \A i \in 1 .. Count : i = need + 1 => Tok(i).part = HEAD
    BY DEF Receiving
  <2>2. ASSUME Count =< need
        PROVE  IF t.part = HEAD THEN Count = need
               ELSE Count < need /\ t = [req |-> cur, part |-> Len(got) + Count + 1]
    <3>1. /\ LastSent = [req |-> cur, part |-> Len(got) + Count]
          /\ LastSent = [req |-> cur, part |-> kind.body - owed]
      BY <1>6, <2>0, <2>1, <2>2 DEF LastSent
    <3>2. Len(got) + Count = kind.body - owed
      BY <3>1
    <3>3. CASE t.part = HEAD
      BY <1>2, <1>3, <1>4, <1>6, <2>0, <2>1, <3>2, <3>3
    <3>4. CASE t.part # HEAD
      <4>1. Count < need
        BY <1>2, <1>3, <1>4, <1>6, <2>0, <2>1, <3>2, <3>4
      <4> QED
        BY <1>2, <3>1, <3>4, <4>1
    <3> QED
      BY <3>3, <3>4
  <2>3. ASSUME NEW i \in 1 .. Count', i =< need
        PROVE  Tok(i)' = [req |-> cur, part |-> Len(got) + i]
    <3>1. CASE i \in 1 .. Count
      BY <1>3, <2>1, <2>3, <3>1
    <3>2. CASE i = Count + 1
      <4>1. Count =< need /\ Count # need
        BY <1>3, <1>4, <2>3, <3>2
      <4> QED
        BY <1>3, <1>4, <2>2, <3>2, <4>1
    <3> QED
      BY <1>3, <3>1, <3>2
  <2>4. ASSUME Count' =< need
        PROVE  LastSent' = [req |-> cur, part |-> Len(got) + Count']
    <3>1. Count =< need /\ Count # need
      BY <1>3, <1>4, <2>4
    <3> QED
      BY <1>2, <1>3, <1>4, <2>2, <3>1
  <2>5. ASSUME NEW i \in 1 .. Count', i = need + 1
        PROVE  Tok(i)'.part = HEAD
    <3>1. CASE i \in 1 .. Count
      BY <1>3, <2>1, <2>5, <3>1
    <3>2. CASE i = Count + 1
      <4>1. Count = need
        BY <1>3, <1>4, <2>5, <3>2
      <4> QED
        BY <1>3, <1>4, <2>2, <3>2, <4>1
    <3> QED
      BY <1>3, <3>1, <3>2
  <2> QED
    BY <2>3, <2>4, <2>5
<1>8. Places' /\ Held'
  BY <1>4, <1>6 DEF Places, Held
<1> QED
  BY <1>2, <1>5, <1>7, <1>8

(* The client sends a header. *)
LEMMA SendHeadKeeps ==
  ASSUME Framing, NEW k \in Kind, SendHead(k)
  PROVE  Framing'
<1> USE DEF Framing
<1>1. PICK t : t = [req |-> Len(sent) + 1, part |-> HEAD]
  OBVIOUS
<1>2. /\ sent \in Seq(Kind) /\ Len(sent) \in Nat /\ Len(sent) < MaxRequests
      /\ owed = 0 /\ k.body \in Nat /\ UNCHANGED <<eof, reset, server, expired>>
      /\ sent' = Append(sent, k) /\ owed' = k.body
      /\ pipelined' \in BOOLEAN
  BY Kinds DEF SendHead, TypeOK
<1>3. /\ sent' \in Seq(Kind) /\ Len(sent') = Len(sent) + 1
      /\ sent'[Len(sent) + 1] = k /\ sent' # <<>>
  BY <1>2, AppendProperties
<1>4. t \in Token /\ Adds(t)
  <2>1. t \in Token
    BY <1>1, <1>2, BoundAssumption DEF Token, HEAD
  <2>2. wire' = Append(wire, t) /\ buffer' = buffer
    BY <1>1, <1>2, <1>3 DEF SendHead, server
  <2> QED
    BY <2>1, <2>2 DEF Adds
<1>5. StreamOK' /\ HeadsFresh' /\ Held' /\ Receiving' /\ Places'
  BY <1>1, <1>2, <1>3, <1>4, ClientAdds
<1>6. Owes'
  BY <1>2, <1>3 DEF Owes, server
<1>7. wire' \in Seq(Token)
  BY <1>4, AddsFacts DEF TypeOK
<1>8. TypeOK'
  BY <1>2, <1>3, <1>7, BoundAssumption DEF TypeOK, server
<1> QED
  BY <1>5, <1>6, <1>8

(* The client sends a piece of a body. *)
LEMMA SendBodyKeeps ==
  ASSUME Framing, SendBody
  PROVE  Framing'
<1> USE DEF Framing
<1>1. /\ sent \in Seq(Kind) /\ Len(sent) \in Nat /\ Len(sent) =< MaxRequests
      /\ owed > 0 /\ owed \in Nat /\ owed' = owed - 1
      /\ UNCHANGED <<sent, eof, reset, pipelined, server, expired>>
  BY DEF SendBody, TypeOK
<1>2. sent # <<>> /\ Len(sent) \in 1 .. Len(sent)
  <2>1. sent # <<>>
    BY <1>1 DEF Owes
  <2>2. Len(sent) # 0
    BY <1>1, <2>1
  <2> QED
    BY <1>1, <2>1, <2>2
<1>3. PICK b \in Nat : b = sent[Len(sent)].body /\ owed =< b
  BY <1>2, Kinds DEF Owes
<1>4. PICK t : t = [req |-> Len(sent), part |-> b - owed']
  OBVIOUS
<1>5. t \in Token /\ Adds(t)
  <2>1. t \in Token
    BY <1>1, <1>2, <1>3, <1>4, BoundAssumption DEF Token
  <2>2. wire' = Append(wire, t) /\ buffer' = buffer
    BY <1>1, <1>3, <1>4 DEF SendBody, server
  <2> QED
    BY <2>1, <2>2 DEF Adds
<1>6. StreamOK' /\ HeadsFresh' /\ Held' /\ Receiving' /\ Places'
  BY <1>1, <1>3, <1>4, <1>5, ClientAdds
<1>7. Owes'
  BY <1>1, <1>3 DEF Owes, server
<1>8. wire' \in Seq(Token)
  BY <1>5, AddsFacts DEF TypeOK
<1>9. TypeOK'
  BY <1>1, <1>8 DEF TypeOK, server
<1> QED
  BY <1>6, <1>7, <1>9
-----------------------------------------------------------------------------
(* The server's steps keep the invariant of the stream. *)

(* A reply answers the current request. *)
LEMMA SaysFacts ==
  ASSUME TypeOK, Says
  PROVE  /\ replies' \in Seq(Reply)
         /\ Len(replies) \in Nat
         /\ \/ replies' = replies
            \/ /\ Len(replies') = Len(replies) + 1
               /\ replies'[Len(replies) + 1].req = cur
               /\ \A k \in 1 .. Len(replies) : replies'[k] = replies[k]
         /\ \A k \in 1 .. Len(replies') :
              replies'[k].req = cur
                \/ (k \in 1 .. Len(replies) /\ replies'[k] = replies[k])
<1>1. replies \in Seq(Reply) /\ Len(replies) \in Nat
  BY DEF TypeOK
<1>2. ASSUME NEW s \in {"100", "final", "500"}, Send(s)
      PROVE  /\ replies' \in Seq(Reply)
             /\ Len(replies') = Len(replies) + 1
             /\ replies'[Len(replies) + 1].req = cur
             /\ \A k \in 1 .. Len(replies) : replies'[k] = replies[k]
  <2>1. [req |-> cur, status |-> s] \in Reply
    BY BoundAssumption DEF Reply, TypeOK
  <2> QED
    BY <1>1, <1>2, <2>1, AppendProperties DEF Send
<1>3. CASE UNCHANGED replies
  BY <1>1, <1>3
<1>4. ASSUME NEW s \in {"100", "final", "500"}, Send(s)
      PROVE  \A k \in 1 .. Len(replies') :
               replies'[k].req = cur
                 \/ (k \in 1 .. Len(replies) /\ replies'[k] = replies[k])
  BY <1>1, <1>2, <1>4
<1> QED
  BY <1>1, <1>2, <1>3, <1>4 DEF Says

(* A step of the session that reads nothing and keeps its request. *)
LEMMA StaysKeeps ==
  ASSUME Framing, Stays
  PROVE  Framing'
<1> USE DEF Framing
<1>1. /\ UNCHANGED <<sent, owed, eof, reset, pipelined, expired, wire, buffer,
                     cur, kind, need, got>>
      /\ Count' = Count /\ \A i : Tok(i)' = Tok(i)
  BY DEF Stays, client, inputs, Count, Tok
<1>2. /\ replies' \in Seq(Reply)
      /\ \A k \in 1 .. Len(replies') :
           replies'[k].req = cur
             \/ (k \in 1 .. Len(replies) /\ replies'[k] = replies[k])
  BY SaysFacts DEF Stays
<1>3. pc' \in Location /\ (Busy' => Busy)
  BY <1>1 DEF Stays, Busy, Location
<1>4. TypeOK'
  BY <1>1, <1>2, <1>3 DEF TypeOK
<1>5. StreamOK'
  BY <1>1 DEF StreamOK, LastSent
<1>6. Owes'
  <2>1. cur \in 0 .. Len(sent)
    BY DEF TypeOK
  <2> QED
    BY <1>1, <1>2, <2>1 DEF Owes
<1>7. HeadsFresh'
  BY <1>1, <1>2 DEF HeadsFresh
<1>8. Held'
  BY <1>1 DEF Held
<1>9. Receiving'
  BY <1>1, <1>3 DEF Receiving, LastSent
<1>10. Places'
  BY <1>1 DEF Places, Stays
<1> QED
  BY <1>4, <1>5, <1>6, <1>7, <1>8, <1>9, <1>10

(* A step of the session that drops its buffer and its request. *)
LEMMA ForgetsKeeps ==
  ASSUME Framing, Forgets
  PROVE  Framing'
<1> USE DEF Framing
<1>1. /\ UNCHANGED <<sent, owed, eof, reset, pipelined, expired, wire>>
      /\ buffer' = <<>> /\ cur' = 0 /\ need' = 0 /\ got' = <<>>
      /\ kind' = NoKind /\ NoKind \in KindType
  BY DEF Forgets, client, NextRequest, NoRequest, NoKind, KindType
<1>2. PICK d \in 0 .. Count : Consumes(d)
  BY <1>1, ClearConsumes DEF TypeOK
<1>3. /\ replies' \in Seq(Reply)
      /\ \A k \in 1 .. Len(replies') :
           replies'[k].req = cur
             \/ (k \in 1 .. Len(replies) /\ replies'[k] = replies[k])
  BY SaysFacts DEF Forgets
<1>4. /\ Count \in Nat /\ Len(sent) \in Nat
      /\ \A i \in 1 .. Count' : i + d \in 1 .. Count /\ Tok(i)' = Tok(i + d)
  BY <1>2, CountType DEF Consumes, TypeOK
<1>5. TypeOK'
  <2>1. <<>> \in Seq(Token)
    BY EmptySeq
  <2> QED
    BY <1>1, <1>3, <1>4, <2>1 DEF TypeOK, Forgets, Location
<1>6. StreamOK'
  BY <1>1, <1>2, StreamConsumes
<1>7. Owes'
  <2>1. cur \in 0 .. Len(sent)
    BY DEF TypeOK
  <2> QED
    BY <1>1, <1>3, <2>1 DEF Owes
<1>8. HeadsFresh'
  <2> SUFFICES ASSUME NEW i \in 1 .. Count', Tok(i)'.part = HEAD
               PROVE  /\ cur' < Tok(i)'.req
                      /\ \A k \in 1 .. Len(replies') :
                           replies'[k].req < Tok(i)'.req
    BY DEF HeadsFresh
  <2>1. PICK m \in 1 .. Count : Tok(i)' = Tok(m) /\ Tok(m).part = HEAD
    BY <1>4
  <2>2. /\ cur < Tok(m).req /\ Tok(m).req \in 1 .. Len(sent)
        /\ \A k \in 1 .. Len(replies) : replies[k].req < Tok(m).req
    BY <2>1 DEF HeadsFresh, StreamOK
  <2>3. cur' < Tok(m).req
    BY <1>1, <1>4, <2>2
  <2>4. \A k \in 1 .. Len(replies') : replies'[k].req < Tok(m).req
    BY <1>3, <2>2
  <2> QED
    BY <2>1, <2>3, <2>4
<1>9. Held' /\ Receiving' /\ Places'
  BY <1>1 DEF Held, Receiving, Places, Busy, Forgets, NoRequest
<1> QED
  BY <1>5, <1>6, <1>7, <1>8, <1>9

(* What a header that was read leads to. *)
LEMMA HeaderFacts ==
  ASSUME NEW i, NEW k \in KindType, Header(i, k)
  PROVE  \/ /\ k.valid /\ content_length(k) =< max_request_body_size
            /\ pc' = AfterHeader(k) /\ cur' = i /\ kind' = k /\ need' = k.body
            /\ pc' \in {"continue", "body", "handle"}
            /\ pc' = "handle" <=> ~k.post
         \/ /\ ~(k.valid /\ content_length(k) =< max_request_body_size)
            /\ pc' = "error" /\ cur' = 0 /\ kind' = NoKind /\ need' = 0
<1>1. k.post \in BOOLEAN
  BY DEF KindType
<1> QED
  BY <1>1 DEF Header, AfterHeader, NoRequest

(* A header goes to the parser, and the rest of the read to the buffer. *)
LEMMA ReadHeaderFacts ==
  ASSUME Framing, ReadHeader
  PROVE  /\ wire' \in Seq(Token) /\ buffer' \in Seq(Token)
         /\ Count > 0 /\ Consumes(1) /\ got' = <<>> /\ Tok(1).part = HEAD
         /\ UNCHANGED <<client, replies, expired>>
         /\ sent[Tok(1).req] \in Kind /\ sent[Tok(1).req] \in KindType
         /\ Header(Tok(1).req, sent[Tok(1).req])
<1> USE DEF Framing
<1>1. buffer = <<>> /\ wire \in Seq(Token)
  BY DEF ReadHeader, Places, TypeOK
<1>2. PICK n \in 1 .. Smaller(Len(wire), HeadRoom + 1) :
        /\ wire[1].part = HEAD
        /\ Header(wire[1].req, sent[wire[1].req])
        /\ wire' = Drop(wire, n)
        /\ buffer' = SubSeq(wire, 2, n)
  BY DEF ReadHeader
<1>3. n \in 1 .. Len(wire)
  BY Reads
<1>4. /\ wire' \in Seq(Token) /\ buffer' \in Seq(Token)
      /\ Count > 0 /\ Tok(1) = wire[1] /\ Consumes(1)
  BY <1>1, <1>2, <1>3, HeaderConsumes
<1>5. sent[Tok(1).req] \in Kind
  <2>1. 1 \in 1 .. Count
    BY <1>4, CountType DEF TypeOK
  <2> QED
    BY <2>1, Kinds DEF StreamOK
<1> QED
  BY <1>2, <1>4, <1>5, KindAssumption DEF ReadHeader

(* async_read_header: a header is taken, more may come into the buffer. *)
LEMMA ReadHeaderKeeps ==
  ASSUME Framing, ReadHeader
  PROVE  Framing'
<1> USE DEF Framing
<1>1. PICK t, k : t = Tok(1) /\ k = sent[t.req]
  OBVIOUS
<1>2. /\ wire' \in Seq(Token) /\ buffer' \in Seq(Token)
      /\ Count > 0 /\ Consumes(1) /\ got' = <<>>
      /\ UNCHANGED <<sent, owed, eof, reset, pipelined, replies, expired>>
      /\ t.part = HEAD /\ k \in Kind /\ k \in KindType /\ Header(t.req, k)
  BY <1>1, ReadHeaderFacts DEF client
<1>3. \/ /\ cur' = t.req /\ kind' = k /\ need' = k.body
         /\ pc' \in {"continue", "body", "handle"}
         /\ pc' = "handle" <=> ~k.post
      \/ cur' = 0 /\ kind' = NoKind /\ need' = 0 /\ pc' = "error"
  BY <1>2, HeaderFacts
<1>4. /\ Count \in Nat /\ Count' = Count - 1 /\ 1 \in 1 .. Count
      /\ Len(sent) \in Nat /\ t.req \in 1 .. Len(sent)
      /\ \A i \in 1 .. Count' : i + 1 \in 1 .. Count /\ Tok(i)' = Tok(i + 1)
  <2>1. Count \in Nat /\ Count' = Count - 1 /\ 1 \in 1 .. Count
    BY <1>2, CountType DEF Consumes, TypeOK
  <2>2. Len(sent) \in Nat /\ t.req \in 1 .. Len(sent)
    BY <1>1, <2>1, Kinds DEF StreamOK
  <2> QED
    BY <1>2, <2>1, <2>2 DEF Consumes
<1>5. k.body \in Nat /\ k.post \in BOOLEAN
  BY <1>2, Kinds
<1>6. pc' \in {"continue", "body", "handle", "error"} /\ kind' \in KindType
  <2>1. NoKind \in KindType
    BY DEF NoKind, KindType
  <2> QED
    BY <1>2, <1>3, <2>1
<1>7. TypeOK'
  <2>1. <<>> \in Seq(Token)
    BY EmptySeq
  <2>2. cur' \in 0 .. Len(sent) /\ need' \in Nat
    BY <1>3, <1>4, <1>5
  <2> QED
    BY <1>2, <1>6, <2>1, <2>2 DEF TypeOK, Location
<1>8. StreamOK'
  BY <1>2, <1>4, StreamConsumes
<1>9. Owes'
  BY <1>2 DEF Owes
<1>10. HeadsFresh'
  <2> SUFFICES ASSUME NEW i \in 1 .. Count', Tok(i)'.part = HEAD
               PROVE  /\ cur' < Tok(i)'.req
                      /\ \A j \in 1 .. Len(replies) :
                           replies[j].req < Tok(i)'.req
    BY <1>2 DEF HeadsFresh
  <2>1. PICK m \in 1 .. Count : m = i + 1 /\ Tok(i)' = Tok(m) /\ 1 < m
    BY <1>4
  <2>2. t.req < Tok(m).req /\ 0 < Tok(m).req
    BY <1>1, <1>4, <2>1 DEF StreamOK
  <2>3. \A j \in 1 .. Len(replies) : replies[j].req < Tok(m).req
    BY <2>1 DEF HeadsFresh
  <2> QED
    BY <1>3, <2>1, <2>2, <2>3
<1>11. Receiving'
  <2> SUFFICES ASSUME Busy'
               PROVE  Receiving'
    BY DEF Receiving
  <2>1. /\ t.part = HEAD /\ cur' = t.req /\ need' = k.body
        /\ kind' = k /\ Len(got') = 0
    BY <1>1, <1>2, <1>3 DEF Busy
  <2>2. \A j \in 1 .. Count :
          /\ j - 1 =< k.body => Tok(j) = [req |-> t.req, part |-> j - 1]
          /\ j - 1 = k.body + 1 => Tok(j).part = HEAD
    BY <1>1, <1>4, <2>1 DEF StreamOK
  <2>3. ASSUME NEW i \in 1 .. Count'
        PROVE  /\ i =< k.body => Tok(i)' = [req |-> t.req, part |-> 0 + i]
               /\ i = k.body + 1 => Tok(i)'.part = HEAD
    <3>1. PICK m \in 1 .. Count : m = i + 1 /\ Tok(i)' = Tok(m)
      BY <1>4
    <3>2. m - 1 = i /\ 0 + i = i
      BY <1>4, <3>1
    <3> QED
      BY <2>2, <3>1, <3>2
  <2>4. ASSUME Count' =< k.body
        PROVE  LastSent = [req |-> t.req, part |-> 0 + Count']
    <3>1. PICK m \in 1 .. Count : m = Count /\ m - 1 = Count' /\ 0 + Count' = m - 1
      BY <1>4
    <3>2. Tok(m) = [req |-> t.req, part |-> m - 1]
      BY <2>2, <2>4, <3>1
    <3>3. Tok(m) = LastSent
      BY <1>2, <3>1 DEF StreamOK
    <3> QED
      BY <3>1, <3>2, <3>3
  <2>5. LastSent' = LastSent
    BY <1>2 DEF LastSent
  <2>6. 0 + k.body = k.body /\ \A i \in 1 .. 0 : FALSE
    BY <1>5
  <2> QED
    BY <2>1, <2>3, <2>4, <2>5, <2>6 DEF Receiving
<1>12. Places' /\ Held'
  BY <1>1, <1>2, <1>3, <1>5 DEF Places, Held, NoRequest
<1> QED
  BY <1>7, <1>8, <1>9, <1>10, <1>11, <1>12

(* Bytes that are no header of the client's go the same way. *)
LEMMA ReadStrayFacts ==
  ASSUME Framing, ReadStray
  PROVE  /\ wire' \in Seq(Token) /\ buffer' \in Seq(Token) /\ got' = <<>>
         /\ \E d \in 0 .. Count : Consumes(d)
         /\ UNCHANGED <<client, replies, expired>>
         /\ pc \in {"header", "partial"} /\ cur' = 0
         /\ kind' \in KindType /\ need' \in Nat
         /\ pc' \in {"partial", "error", "continue", "body", "handle"}
         /\ pc' = "partial" => buffer' = <<>>
         /\ pc' \in {"continue", "body"} => kind'.post
         /\ pc' = "handle" => ~kind'.post
<1> USE DEF Framing
<1>1. /\ buffer = <<>> /\ wire \in Seq(Token) /\ buffer \in Seq(Token)
      /\ cur = 0 /\ kind \in KindType /\ need \in Nat
  BY DEF ReadStray, Places, TypeOK, NoRequest
<1>2. PICK n \in 1 .. Smaller(Len(wire), HeadRoom + 1) :
        /\ wire' = Drop(wire, n)
        /\ \/ \E k \in Kind \cup {[NoKind EXCEPT !.valid = FALSE]} :
                Header(NoRequest, k) /\ buffer' = SubSeq(wire, 2, n)
           \/ pc' = "partial" /\ UNCHANGED inputs
  BY DEF ReadStray
<1>3. n \in 1 .. Len(wire) /\ Count \in Nat
  BY Reads, CountType DEF TypeOK
<1>4. CASE pc' = "partial" /\ UNCHANGED inputs
  <2>1. UNCHANGED <<buffer, cur, kind, need>>
    BY <1>4 DEF inputs
  <2>2. wire' \in Seq(Token) /\ n \in 0 .. Count /\ Consumes(n)
    BY <1>1, <1>2, <1>3, <2>1, PartConsumes
  <2> QED
    BY <1>1, <1>4, <2>1, <2>2 DEF ReadStray
<1>5. ASSUME NEW k \in Kind \cup {[NoKind EXCEPT !.valid = FALSE]},
             Header(NoRequest, k), buffer' = SubSeq(wire, 2, n)
      PROVE  /\ wire' \in Seq(Token) /\ buffer' \in Seq(Token)
             /\ 1 \in 0 .. Count /\ Consumes(1)
             /\ cur' = 0 /\ kind' \in KindType /\ need' \in Nat
             /\ pc' \in {"error", "continue", "body", "handle"}
             /\ pc' \in {"continue", "body"} => kind'.post
             /\ pc' = "handle" => ~kind'.post
  <2>1. /\ wire' \in Seq(Token) /\ buffer' \in Seq(Token)
        /\ Count > 0 /\ Consumes(1)
    BY <1>1, <1>2, <1>3, <1>5, HeaderConsumes
  <2>2. k \in KindType /\ NoKind \in KindType
    <3>1. NoKind \in KindType /\ [NoKind EXCEPT !.valid = FALSE] \in KindType
      BY DEF NoKind, KindType
    <3> QED
      BY <3>1, KindAssumption
  <2>3. k.body \in Nat
    BY <2>2 DEF KindType
  <2> QED
    BY <1>3, <1>5, <2>1, <2>2, <2>3, HeaderFacts DEF NoRequest
<1> QED
  BY <1>2, <1>4, <1>5 DEF ReadStray

(* What comes of a stray is no request of the client's. *)
LEMMA ReadStrayKeeps ==
  ASSUME Framing, ReadStray
  PROVE  Framing'
<1> USE DEF Framing
<1>1. /\ wire' \in Seq(Token) /\ buffer' \in Seq(Token) /\ got' = <<>>
      /\ UNCHANGED <<sent, owed, eof, reset, pipelined, replies, expired>>
      /\ cur' = 0 /\ kind' \in KindType /\ need' \in Nat
      /\ pc' \in {"partial", "error", "continue", "body", "handle"}
      /\ pc' = "partial" => buffer' = <<>>
      /\ pc' \in {"continue", "body"} => kind'.post
      /\ pc' = "handle" => ~kind'.post
  BY ReadStrayFacts DEF client
<1>2. PICK d \in 0 .. Count : Consumes(d)
  BY ReadStrayFacts
<1>3. /\ Count \in Nat /\ Len(sent) \in Nat
      /\ \A i \in 1 .. Count' : i + d \in 1 .. Count /\ Tok(i)' = Tok(i + d)
  BY <1>2, CountType DEF Consumes, TypeOK
<1>4. TypeOK'
  <2>1. <<>> \in Seq(Token) /\ cur' \in 0 .. Len(sent)
    BY <1>1, <1>3, EmptySeq
  <2> QED
    BY <1>1, <2>1 DEF TypeOK, Location
<1>5. StreamOK'
  BY <1>1, <1>2, StreamConsumes
<1>6. Owes'
  BY <1>1 DEF Owes
<1>7. HeadsFresh'
  <2> SUFFICES ASSUME NEW i \in 1 .. Count', Tok(i)'.part = HEAD
               PROVE  /\ cur' < Tok(i)'.req
                      /\ \A j \in 1 .. Len(replies) :
                           replies[j].req < Tok(i)'.req
    BY <1>1 DEF HeadsFresh
  <2>1. PICK m \in 1 .. Count : Tok(i)' = Tok(m) /\ Tok(m).part = HEAD
    BY <1>3
  <2>2. Tok(m).req \in 1 .. Len(sent)
    BY <2>1 DEF StreamOK
  <2> QED
    BY <1>1, <1>3, <2>1, <2>2 DEF HeadsFresh
<1>8. Held' /\ Receiving' /\ Places'
  BY <1>1 DEF Held, Receiving, Busy, Places, NoRequest
<1> QED
  BY <1>4, <1>5, <1>6, <1>7, <1>8

(* One round of the body loop. *)
LEMMA ReadBodyKeeps ==
  ASSUME Framing, ReadBody
  PROVE  Framing' /\ pc = "body" /\ UNCHANGED <<client, pc, cur, kind, replies>>
<1> USE DEF Framing
<1>1. /\ wire \in Seq(Token) /\ buffer \in Seq(Token) /\ got \in Seq(Token)
      /\ need \in Nat /\ Len(wire) \in Nat /\ Len(buffer) \in Nat
      /\ Len(got) \in Nat
  BY DEF TypeOK
<1>n. PICK n \in 1 .. Len(wire) :
        \E d \in 1 .. Wanted(buffer \o Take(wire, n)) :
          /\ wire' = Drop(wire, n)
          /\ buffer' = Drop(buffer \o Take(wire, n), d)
          /\ got' = got \o Take(buffer \o Take(wire, n), d)
          /\ need' = need - d
  BY DEF ReadBody, Unparsed
<1>2. PICK d \in 1 .. Wanted(buffer \o Take(wire, n)) :
        /\ wire' = Drop(wire, n)
        /\ buffer' = Drop(buffer \o Take(wire, n), d)
        /\ got' = got \o Take(buffer \o Take(wire, n), d)
        /\ need' = need - d
  BY <1>n
<1>3. /\ pc = "body" /\ need > 0
      /\ UNCHANGED <<sent, owed, eof, reset, pipelined, pc, cur, kind, replies,
                     expired>>
  BY DEF ReadBody, client
<1>4. d \in 1 .. Len(buffer) + n /\ d \in 1 .. need
  <2>1. n \in 0 .. Len(wire)
    BY <1>1
  <2>2. Take(wire, n) \in Seq(Token) /\ Len(Take(wire, n)) = n
    BY <1>1, <2>1, TakeFacts
  <2>3. Len(buffer \o Take(wire, n)) = Len(buffer) + n
    BY <1>1, <2>2, ConcatProperties
  <2>4. /\ Wanted(buffer \o Take(wire, n)) =< need
        /\ Wanted(buffer \o Take(wire, n)) =< Len(buffer) + n
        /\ Wanted(buffer \o Take(wire, n)) \in Nat
    BY <1>1, <2>3 DEF Wanted, Smaller
  <2> QED
    BY <1>1, <2>4
<1>5. PICK piece : piece = Take(buffer \o Take(wire, n), d)
  OBVIOUS
<1>6. /\ wire' \in Seq(Token) /\ buffer' \in Seq(Token)
      /\ Consumes(d) /\ d =< Count
      /\ piece \in Seq(Token) /\ Len(piece) = d
      /\ \A i \in 1 .. d : piece[i] = Tok(i)
  BY <1>1, <1>2, <1>4, <1>5, BodyConsumes
<1>7. /\ got' \in Seq(Token) /\ Len(got') = Len(got) + d
      /\ \A i \in 1 .. Len(got) + d :
           got'[i] = IF i =< Len(got) THEN got[i] ELSE piece[i - Len(got)]
  <2>1. got' = got \o piece
    BY <1>2, <1>5
  <2> QED
    BY <1>1, <1>6, <2>1, ConcatProperties
<1>8. /\ Count \in Nat /\ Count' = Count - d /\ d \in 0 .. Count
      /\ \A i \in 1 .. Count' : i + d \in 1 .. Count /\ Tok(i)' = Tok(i + d)
  <2>1. Count \in Nat
    BY CountType DEF TypeOK
  <2>2. Count' = Count - d /\ d \in 0 .. Count
    BY <1>6, <2>1 DEF Consumes
  <2> QED
    BY <1>6, <2>1, <2>2 DEF Consumes
<1>9. need' \in Nat /\ need' = need - d
  BY <1>1, <1>2, <1>4
<1>10. TypeOK'
  BY <1>3, <1>6, <1>7, <1>9 DEF TypeOK
<1>11. StreamOK'
  BY <1>3, <1>6, <1>8, StreamConsumes
<1>12. Owes'
  BY <1>3 DEF Owes
<1>13. HeadsFresh'
  BY <1>3, <1>8 DEF HeadsFresh
<1>14. Receiving'
  <2> SUFFICES ASSUME cur # NoRequest
               PROVE  Receiving'
    BY <1>3 DEF Receiving, Busy
  <2>1. /\ Len(got) + need = kind.body
        /\ \A i \in 1 .. Len(got) : got[i] = [req |-> cur, part |-> i]
        /\ \A i \in 1 .. Count :
             i =< need => Tok(i) = [req |-> cur, part |-> Len(got) + i]
        /\ Count =< need => LastSent = [req |-> cur, part |-> Len(got) + Count]
        /\ \A i \in 1 .. Count : i = need + 1 => Tok(i).part = HEAD
    BY <1>3 DEF Receiving, Busy
  <2>2. kind' = kind /\ LastSent' = LastSent /\ Len(got') + need' = kind.body
    BY <1>1, <1>3, <1>4, <1>7, <1>9, <2>1 DEF LastSent
  <2>3. ASSUME NEW i \in 1 .. Len(got')
        PROVE  got'[i] = [req |-> cur, part |-> i]
    <3>0. i \in 1 .. Len(got) + d
      BY <1>7
    <3>1. CASE i =< Len(got)
      <4>1. i \in 1 .. Len(got) /\ got'[i] = got[i]
        BY <1>1, <1>7, <3>0, <3>1
      <4> QED
        BY <2>1, <4>1
    <3>2. CASE ~(i =< Len(got))
      <4>1. PICK m \in 1 .. d : m = i - Len(got)
        <5>1. i - Len(got) \in 1 .. d
          BY <1>1, <1>4, <1>7, <3>2
        <5> QED
          BY <5>1
      <4>2. m \in 1 .. Count /\ m =< need /\ Len(got) + m = i
        BY <1>1, <1>4, <1>8, <4>1
      <4>3. Tok(m) = [req |-> cur, part |-> i]
        BY <2>1, <4>2
      <4> QED
        BY <1>6, <1>7, <3>2, <4>1, <4>3
    <3> QED
      BY <3>1, <3>2
  <2>4. ASSUME NEW i \in 1 .. Count'
        PROVE  /\ i =< need' => Tok(i)' = [req |-> cur, part |-> Len(got') + i]
               /\ i = need' + 1 => Tok(i)'.part = HEAD
    <3>1. PICK m \in 1 .. Count : m = i + d /\ Tok(i)' = Tok(m)
      BY <1>8
    <3>2. /\ i =< need' => m =< need
          /\ i = need' + 1 => m = need + 1
          /\ Len(got') + i = Len(got) + m
      <4>1. i \in Nat /\ d \in Nat
        BY <1>4, <1>8
      <4>2. Len(got') + i = Len(got) + m
        BY <1>1, <1>7, <3>1, <4>1
      <4> QED
        BY <1>1, <1>9, <3>1, <4>1, <4>2
    <3> QED
      BY <2>1, <3>1, <3>2
  <2>5. ASSUME Count' =< need'
        PROVE  LastSent = [req |-> cur, part |-> Len(got') + Count']
    <3>1. Count =< need /\ Len(got') + Count' = Len(got) + Count
      BY <1>1, <1>4, <1>7, <1>8, <1>9, <2>5
    <3> QED
      BY <2>1, <3>1
  <2> QED
    BY <1>3, <2>2, <2>3, <2>4, <2>5 DEF Receiving
<1>15. Places' /\ Held'
  BY <1>3 DEF Places, Held
<1> QED
  BY <1>3, <1>10, <1>11, <1>12, <1>13, <1>14, <1>15 DEF client

(* Which step of the server is of which kind. *)
LEMMA ServerKinds ==
  ASSUME Framing, Server
  PROVE  ReadHeader \/ ReadStray \/ ReadBody \/ Stays \/ Forgets
<1> USE DEF Framing
<1>1. SendContinue => Stays
  BY DEF SendContinue, Stays, Says
<1>2. ChunkFails \/ HandlerThrows \/ HandlerEndsClosed \/ ClientGone \/ HeaderCut
        \/ Timeout \/ ReplyTimesOut
        => Stays
  BY DEF ChunkFails, HandlerThrows, HandlerEndsClosed, ClientGone, HeaderCut,
         Timeout, ReplyTimesOut, Stays, Says
<1>3. BodyDone => Stays
  BY DEF BodyDone, Stays, Says
<1>4. ManualRespond => Stays
  BY DEF ManualRespond, Stays, Says
<1>5. HandlerReturns => Stays \/ Forgets
  BY DEF HandlerReturns, Stays, Forgets, Says
<1>6. Respond \/ RespondFails => Forgets
  BY DEF Respond, RespondFails, AfterAnswer, Forgets, Says
<1>7. SendError => Stays
  BY DEF SendError, AfterError, Stays, Says
<1> QED
  BY <1>1, <1>2, <1>3, <1>4, <1>5, <1>6, <1>7 DEF Server

(* A fresh connection is in frame. *)
LEMMA FramingInit == Init => Framing
<1> SUFFICES ASSUME Init PROVE Framing
  OBVIOUS
<1>1. Count = 0
  BY DEF Init, Count
<1>2. TypeOK
  <2>1. <<>> \in Seq(Kind) /\ <<>> \in Seq(Token) /\ <<>> \in Seq(Reply)
    BY EmptySeq
  <2>2. Len(sent) = 0 /\ cur \in 0 .. Len(sent)
    BY DEF Init, NoRequest
  <2>3. {eof, reset, pipelined, expired} \subseteq BOOLEAN
    BY DEF Init
  <2>4. sent \in Seq(Kind) /\ Len(sent) =< MaxRequests /\ replies \in Seq(Reply)
    BY <2>1, <2>2, BoundAssumption DEF Init
  <2>5. wire \in Seq(Token) /\ buffer \in Seq(Token) /\ got \in Seq(Token)
    BY <2>1 DEF Init
  <2>6. /\ pc = "header" /\ owed \in Nat /\ need \in Nat /\ kind \in KindType
    BY DEF Init, NoKind, KindType
  <2> QED
    BY <2>2, <2>3, <2>4, <2>5, <2>6 DEF TypeOK, Location
<1>3. StreamOK /\ HeadsFresh
  BY <1>1 DEF StreamOK, HeadsFresh
<1>4. Owes /\ Held /\ Receiving /\ Places
  BY DEF Init, Owes, Held, Receiving, Places, Busy
<1> QED
  BY <1>2, <1>3, <1>4 DEF Framing

(* Every action keeps the framing. *)
LEMMA FramingStep ==
  ASSUME Framing, [Next]_vars
  PROVE  Framing'
<1>1. ASSUME UNCHANGED <<sent, owed, wire, server>>,
             {eof', reset', pipelined', expired'} \subseteq BOOLEAN
      PROVE  Framing'
  BY <1>1 DEF Framing, TypeOK, StreamOK, Owes, HeadsFresh, Held, Receiving,
     Places, Busy, Count, Tok, LastSent, server
<1>2. {eof, reset, pipelined, expired} \subseteq BOOLEAN
  BY DEF Framing, TypeOK
<1>3. CASE ShutSend \/ Reset \/ Expire \/ UNCHANGED vars
  BY <1>1, <1>2, <1>3 DEF ShutSend, Reset, Expire, vars, client
<1>4. CASE Server
  BY <1>4, ServerKinds, ReadHeaderKeeps, ReadStrayKeeps, ReadBodyKeeps,
     StaysKeeps, ForgetsKeeps
<1> QED
  BY <1>3, <1>4, SendHeadKeeps, SendBodyKeeps DEF Next, Client

(* What the session reads stays in frame with what the client sent. *)
THEOREM FramingHolds == Spec => []Framing
  BY FramingInit, FramingStep, PTL DEF Spec

(* Every variable keeps the type the code declares for it. *)
THEOREM TypeCorrect == Spec => []TypeOK
  BY FramingHolds, PTL DEF Framing

(* A handler of a POST or PUT gets the body of its request, whole and alone,
   however the reads were cut: request_session::handle_request_body. *)
THEOREM BodyIntactHolds == Spec => []BodyIntact
<1>1. Framing => BodyIntact
  <2> SUFFICES ASSUME Framing,
                      pc \in {"handle", "after", "closing", "reply"},
                      cur # NoRequest, kind.post
               PROVE  got = [i \in 1 .. kind.body |-> [req |-> cur, part |-> i]]
    BY DEF BodyIntact
  <2>1. /\ Len(got) + need = kind.body /\ need = 0
        /\ \A i \in 1 .. Len(got) : got[i] = [req |-> cur, part |-> i]
    BY DEF Framing, Receiving, Places, Busy
  <2>2. got \in Seq(Token) /\ Len(got) \in Nat /\ Len(got) = kind.body
    BY <2>1 DEF Framing, TypeOK
  <2>3. got = [i \in 1 .. Len(got) |-> got[i]]
    BY <2>2
  <2> QED
    BY <2>1, <2>2, <2>3
<1> QED
  BY <1>1, FramingHolds, PTL
-----------------------------------------------------------------------------
(* The replies: what may have been answered before, at each place. *)

Answers ==
  cur # NoRequest =>
    /\ pc \in {"continue", "body", "handle", "reply"} =>
         \A j \in 1 .. Len(replies) :
           replies[j].status = "final" => replies[j].req < cur
    /\ pc \in {"after", "closing"} =>
         /\ kind.manual
         /\ \A j \in 1 .. Len(replies) :
              replies[j].status = "final" => replies[j].req =< cur
    /\ pc = "error" =>
         \A j \in 1 .. Len(replies) :
           replies[j].status = "final" =>
             replies[j].req < cur \/ (replies[j].req = cur /\ kind.manual)

InOrder == Answers /\ RepliesOrdered /\ LastWords

(* An answer is the last of the answers. *)
LEMMA SendFacts ==
  ASSUME TypeOK, NEW s \in {"100", "final", "500"}, Send(s)
  PROVE  /\ Len(replies) \in Nat /\ Len(replies') = Len(replies) + 1
         /\ replies'[Len(replies) + 1] = [req |-> cur, status |-> s]
         /\ \A k \in 1 .. Len(replies) : replies'[k] = replies[k]
<1>1. replies \in Seq(Reply) /\ [req |-> cur, status |-> s] \in Reply
  BY BoundAssumption DEF Reply, TypeOK
<1> QED
  BY <1>1, AppendProperties DEF Send

(* A step that answers nothing keeps the answers in order. *)
LEMMA OrderSilent ==
  ASSUME Framing, InOrder, UNCHANGED replies,
         \A i \in 1 .. Len(sent) : sent'[i] = sent[i],
         pc' = pc \/ pc \notin {"closing", "closed"}
           \/ pc' \in {"closing", "closed"}
  PROVE  RepliesOrdered' /\ LastWords'
<1>1. \A k \in 1 .. Len(replies) :
        replies[k].req # NoRequest => sent'[replies[k].req] = sent[replies[k].req]
  BY DEF Framing, Owes, NoRequest, TypeOK
<1>2. RepliesOrdered'
  BY <1>1 DEF InOrder, RepliesOrdered
<1>3. LastWords'
  BY <1>1 DEF InOrder, LastWords
<1> QED
  BY <1>2, <1>3

(* An answer keeps the answers in order. *)
LEMMA OrderSend ==
  ASSUME Framing, InOrder, NEW s \in {"100", "final", "500"}, Send(s),
         UNCHANGED sent,
         pc \in {"continue", "handle", "reply"} \/ (pc = "error" /\ s = "500"),
         s = "500" \/ (s = "final" /\ ~kind.keep_alive)
           => pc' \in {"closing", "closed"}
  PROVE  RepliesOrdered' /\ LastWords'
<1>1. /\ Len(replies) \in Nat /\ Len(replies') = Len(replies) + 1
      /\ replies'[Len(replies) + 1] = [req |-> cur, status |-> s]
      /\ \A k \in 1 .. Len(replies) : replies'[k] = replies[k]
  BY SendFacts DEF Framing
<1>2. \A k \in 1 .. Len(replies') : k \in 1 .. Len(replies) \/ k = Len(replies) + 1
  BY <1>1
<1>3. RepliesOrdered'
  <2> SUFFICES ASSUME NEW j \in 1 .. Len(replies'), NEW k \in 1 .. Len(replies'),
                      j < k, replies'[j].status = "final",
                      replies'[k].req # NoRequest
               PROVE  \/ replies'[j].req < replies'[k].req
                      \/ /\ replies'[j].req = replies'[k].req
                         /\ replies'[k].status = "500"
                         /\ sent[replies'[k].req].manual
    BY DEF RepliesOrdered
  <2>1. j \in 1 .. Len(replies) /\ replies'[j] = replies[j]
    BY <1>1
  <2>2. CASE k \in 1 .. Len(replies)
    BY <1>1, <2>1, <2>2 DEF InOrder, RepliesOrdered
  <2>3. CASE k = Len(replies) + 1
    <3>1. replies'[k] = [req |-> cur, status |-> s] /\ cur # NoRequest
      BY <1>1, <2>3
    <3>2. CASE pc \in {"continue", "handle", "reply"}
      BY <2>1, <3>1, <3>2 DEF InOrder, Answers
    <3>3. CASE pc = "error" /\ s = "500"
      BY <2>1, <3>1, <3>3 DEF InOrder, Answers, Framing, Held
    <3> QED
      BY <3>2, <3>3
  <2> QED
    BY <1>2, <2>2, <2>3
<1>4. LastWords'
  <2> SUFFICES ASSUME NEW k \in 1 .. Len(replies'),
                      \/ replies'[k].status = "500"
                      \/ /\ replies'[k].status = "final"
                         /\ replies'[k].req # NoRequest
                         /\ ~sent[replies'[k].req].keep_alive
               PROVE  k = Len(replies') /\ pc' \in {"closing", "closed"}
    BY DEF LastWords
  <2>1. CASE k \in 1 .. Len(replies)
    BY <1>1, <2>1 DEF InOrder, LastWords
  <2>2. CASE k = Len(replies) + 1
    BY <1>1, <2>2 DEF Framing, Held
  <2> QED
    BY <1>2, <2>1, <2>2
<1> QED
  BY <1>3, <1>4

(* The client and the deadline answer nothing. *)
LEMMA ClientAnswers ==
  ASSUME Framing, InOrder,
         Client \/ Expire \/ UNCHANGED vars
  PROVE  /\ InOrder'
         /\ \A i \in 1 .. Len(sent) : sent'[i] = sent[i]
         /\ UNCHANGED <<pc, buffer, cur, kind, need, got, replies>>
<1>1. UNCHANGED <<pc, buffer, cur, kind, need, got, replies>>
  BY DEF Client, SendHead, SendBody, ShutSend, Reset, Expire, vars, server
<1>2. \A i \in 1 .. Len(sent) : sent'[i] = sent[i]
  <2>1. CASE UNCHANGED sent
    BY <2>1
  <2>2. ASSUME NEW k \in Kind, sent' = Append(sent, k)
        PROVE  \A i \in 1 .. Len(sent) : sent'[i] = sent[i]
    BY <2>2, AppendProperties DEF Framing, TypeOK
  <2> QED
    BY <2>1, <2>2 DEF Client, SendHead, SendBody, ShutSend, Reset, Expire,
       vars, client
<1>3. Answers'
  BY <1>1 DEF InOrder, Answers
<1> QED
  BY <1>1, <1>2, <1>3, OrderSilent DEF InOrder

(* Every step of the session keeps the answers in order. *)
LEMMA ServerAnswers ==
  ASSUME Framing, InOrder, Server
  PROVE  InOrder'
<1> USE DEF Framing
<1>1. CASE ReadHeader
  <2>1. /\ replies' = replies /\ sent' = sent /\ pc = "header" /\ Count > 0
        /\ 1 \in 1 .. Count
    <3>1. Count > 0 /\ Count \in Nat
      BY <1>1, ReadHeaderFacts, CountType DEF TypeOK
    <3> QED
      BY <1>1, <3>1 DEF ReadHeader, client
  <2>2. \/ Tok(1).part = HEAD /\ cur' = Tok(1).req
           /\ pc' \in {"continue", "body", "handle"}
        \/ cur' = NoRequest
    BY <1>1, ReadHeaderFacts, HeaderFacts DEF NoRequest
  <2>3. Answers'
    BY <2>1, <2>2 DEF InOrder, Answers, HeadsFresh
  <2> QED
    BY <2>1, <2>3, OrderSilent DEF InOrder
<1>s. CASE ReadStray
  <2>1. /\ UNCHANGED <<sent, replies>> /\ cur' = NoRequest
        /\ pc \in {"header", "partial"}
    BY <1>s, ReadStrayFacts DEF client, NoRequest
  <2> QED
    BY <2>1, OrderSilent DEF InOrder, Answers
<1>2. CASE ReadBody
  <2>1. UNCHANGED <<pc, cur, replies, sent>> /\ pc = "body"
    BY <1>2 DEF ReadBody, client
  <2>2. Answers'
    BY <2>1 DEF InOrder, Answers
  <2> QED
    BY <2>1, <2>2, OrderSilent DEF InOrder
<1>3. CASE SendContinue
  <2>1. /\ pc = "continue" /\ pc' = "body" /\ Send("100")
        /\ UNCHANGED <<cur, sent>>
    BY <1>3 DEF SendContinue, inputs, client
  <2>2. Answers'
    BY <2>1, SendFacts DEF InOrder, Answers
  <2> QED
    BY <2>1, <2>2, OrderSend DEF InOrder
<1>4. CASE ChunkFails \/ BodyDone
  <2>1. /\ pc = "body" /\ pc' \in {"handle", "error"}
        /\ UNCHANGED <<cur, sent, replies>>
    BY <1>4 DEF ChunkFails, BodyDone, inputs, client
  <2>2. Answers'
    BY <2>1 DEF InOrder, Answers
  <2> QED
    BY <2>1, <2>2, OrderSilent DEF InOrder
<1>5. CASE ManualRespond
  <2>1. /\ pc = "handle" /\ kind.manual /\ UNCHANGED <<cur, sent>>
        /\ pc' \in {"after", "closing"} /\ kind' = kind
    BY <1>5 DEF ManualRespond, inputs, client
  <2>2. CASE UNCHANGED replies
    <3>1. Answers'
      <4> SUFFICES ASSUME cur # NoRequest PROVE Answers'
        BY <2>1 DEF Answers
      <4>1. \A j \in 1 .. Len(replies) :
              replies[j].status = "final" => replies[j].req =< cur
        <5>1. \A j \in 1 .. Len(replies) :
                replies[j].status = "final" => replies[j].req < cur
          BY <2>1 DEF InOrder, Answers
        <5>2. cur \in Nat /\ \A j \in 1 .. Len(replies) : replies[j].req \in Nat
          BY DEF TypeOK, Owes
        <5> QED
          BY <5>1, <5>2
      <4> QED
        BY <2>1, <2>2, <4>1 DEF InOrder, Answers
    <3> QED
      BY <2>1, <2>2, <3>1, OrderSilent DEF InOrder
  <2>3. CASE Send("final") /\ pc' = IF kind.keep_alive THEN "after" ELSE "closing"
    <3>1. Answers'
      <4> SUFFICES ASSUME cur # NoRequest PROVE Answers'
        BY <2>1 DEF Answers
      <4>1. cur \in Nat
        BY <2>1 DEF TypeOK
      <4>2. /\ Len(replies) \in Nat /\ Len(replies') = Len(replies) + 1
            /\ replies'[Len(replies) + 1] = [req |-> cur, status |-> "final"]
            /\ \A k \in 1 .. Len(replies) : replies'[k] = replies[k]
        BY <2>3, SendFacts
      <4>3. \A j \in 1 .. Len(replies) :
              replies[j].status = "final" =>
                replies[j].req < cur /\ replies[j].req \in Nat
        BY <2>1 DEF InOrder, Answers, Owes, TypeOK
      <4>4. ASSUME NEW j \in 1 .. Len(replies'), replies'[j].status = "final"
            PROVE  replies'[j].req =< cur
        <5>1. CASE j \in 1 .. Len(replies)
          BY <4>1, <4>2, <4>3, <4>4, <5>1
        <5>2. CASE j = Len(replies) + 1
          BY <4>1, <4>2, <5>2
        <5> QED
          BY <4>2, <5>1, <5>2
      <4> QED
        BY <2>1, <4>4 DEF Answers
    <3> QED
      BY <2>1, <2>3, <3>1, OrderSend DEF InOrder
  <2> QED
    BY <1>5, <2>2, <2>3 DEF ManualRespond
<1>6. CASE HandlerReturns
  <2>1. /\ pc \in {"handle", "after"} /\ UNCHANGED <<sent, replies>>
        /\ \/ pc' = "header"
           \/ pc' = "reply" /\ ~kind.manual /\ cur' = cur
    BY <1>6 DEF HandlerReturns, AutoResponds, inputs, client
  <2>2. Answers'
    BY <2>1 DEF InOrder, Answers
  <2> QED
    BY <2>1, <2>2, OrderSilent DEF InOrder
<1>7. CASE HandlerThrows
  <2>1. /\ pc \in {"handle", "after"} /\ UNCHANGED <<cur, sent, replies>>
        /\ pc' = "error" /\ kind' = kind
    BY <1>7 DEF HandlerThrows, inputs, client
  <2>2. cur \in Nat /\ \A j \in 1 .. Len(replies) : replies[j].req \in Nat
    BY DEF TypeOK, Owes
  <2>3. Answers'
    BY <2>1, <2>2 DEF InOrder, Answers
  <2> QED
    BY <2>1, <2>3, OrderSilent DEF InOrder
<1>8. CASE HandlerEndsClosed \/ ClientGone \/ Timeout \/ ReplyTimesOut
  <2>1. pc' = "closed" /\ UNCHANGED <<sent, replies>>
    BY <1>8 DEF HandlerEndsClosed, ClientGone, Timeout, ReplyTimesOut, client
  <2>2. Answers'
    BY <2>1 DEF InOrder, Answers
  <2> QED
    BY <2>1, <2>2, OrderSilent DEF InOrder
<1>c. CASE HeaderCut
  <2>1. /\ pc = "partial" /\ UNCHANGED <<sent, replies>>
        /\ cur' = NoRequest
    BY <1>c DEF HeaderCut, Places, inputs, client
  <2> QED
    BY <2>1, OrderSilent DEF InOrder, Answers
<1>9. CASE Respond
  <2>1. /\ pc = "reply" /\ Send("final") /\ UNCHANGED sent
        /\ pc' \in {"header", "closed"}
        /\ ~kind.keep_alive => pc' = "closed"
    BY <1>9 DEF Respond, AfterAnswer, client
  <2>2. Answers'
    BY <2>1 DEF Answers
  <2> QED
    BY <2>1, <2>2, OrderSend DEF InOrder
<1>10. CASE RespondFails
  <2>1. /\ pc = "reply" /\ UNCHANGED <<sent, replies>>
        /\ pc' \in {"header", "closed"}
    BY <1>10 DEF RespondFails, AfterAnswer, client
  <2>2. Answers'
    BY <2>1 DEF InOrder, Answers
  <2> QED
    BY <2>1, <2>2, OrderSilent DEF InOrder
<1>11. CASE SendError
  <2>1. pc = "error" /\ pc' = "closed" /\ UNCHANGED sent
    BY <1>11 DEF SendError, AfterError, client
  <2>2. CASE UNCHANGED replies
    BY <2>1, <2>2, OrderSilent DEF InOrder, Answers
  <2>3. CASE Send("500")
    <3>1. Answers'
      BY <2>1 DEF Answers
    <3> QED
      BY <2>1, <2>3, <3>1, OrderSend DEF InOrder
  <2> QED
    BY <1>11, <2>2, <2>3 DEF SendError
<1> QED
  BY <1>1, <1>s, <1>2, <1>3, <1>4, <1>5, <1>6, <1>7, <1>8, <1>c, <1>9, <1>10,
     <1>11 DEF Server

(* The answers are in order in every reachable state. *)
LEMMA InOrderHolds == Spec => []InOrder
<1>1. Init => InOrder
  BY DEF Init, InOrder, Answers, RepliesOrdered, LastWords
<1>2. Framing /\ InOrder /\ [Next]_vars => InOrder'
  BY ClientAnswers, ServerAnswers DEF Next
<1> QED
  BY <1>1, <1>2, FramingHolds, PTL DEF Spec

(* No request is answered twice, none after a later one, and 100 Continue
   comes before the answer it announces. *)
THEOREM RepliesOrderedHolds == Spec => []RepliesOrdered
  BY InOrderHolds, PTL DEF InOrder

(* A 500, or the answer to a request that asked to close, is the last word of
   a connection. *)
THEOREM LastWordsHolds == Spec => []LastWords
  BY InOrderHolds, PTL DEF InOrder
-----------------------------------------------------------------------------
(* A client that waits for its answers and frames its requests: between two of
   them nothing is left over, so that the next read finds a header. *)

Clean == ~pipelined /\ \A i \in 1 .. Len(sent) : ~Misframed(sent[i])

InStep ==
  /\ ~pipelined => \A i \in 1 .. Len(sent) - 1 : Answered(i)
  /\ Clean =>
       /\ cur = NoRequest => pc \in {"header", "closed"}
       /\ \A j \in 1 .. Len(replies) : replies[j].req # NoRequest
       /\ pc = "after" => buffer = <<>>
       /\ pc = "header" /\ Count > 0 => Tok(1).part = HEAD
       /\ pc = "header" /\ Count = 0 => owed = 0

(* A handled request leaves nothing unread that belongs to it. *)
LEMMA NothingWanted ==
  ASSUME Framing, Clean, cur # NoRequest, pc \in {"handle", "after", "reply"}
  PROVE  /\ need = 0 /\ Count \in Nat
         /\ Count > 0 => Tok(1).part = HEAD
         /\ Count = 0 => owed = 0
<1> USE DEF Framing
<1>1. /\ cur \in 1 .. Len(sent) /\ kind.body \in Nat
      /\ kind.post \in BOOLEAN /\ kind = sent[cur] /\ Len(sent) \in Nat
  BY Kinds DEF Held
<1>2. /\ Len(got) + need = kind.body
      /\ Count =< need => LastSent = [req |-> cur, part |-> Len(got) + Count]
      /\ \A i \in 1 .. Count : i = need + 1 => Tok(i).part = HEAD
  BY DEF Receiving, Busy
<1>3. need \in Nat /\ Len(got) \in Nat /\ Count \in Nat /\ owed \in Nat
  BY CountType DEF TypeOK
<1>4. need = 0
  <2>1. CASE kind.post
    BY <2>1 DEF Places
  <2>2. CASE ~kind.post
    <3>1. ~(kind.body > 0)
      BY <1>1, <2>2 DEF Clean, Misframed
    <3> QED
      BY <1>1, <1>2, <1>3, <3>1
  <2> QED
    BY <2>1, <2>2
<1>5. Count > 0 => Tok(1).part = HEAD
  BY <1>2, <1>3, <1>4
<1>6. ASSUME Count = 0 PROVE owed = 0
  <2>1. LastSent = [req |-> cur, part |-> kind.body]
    BY <1>2, <1>3, <1>4, <1>6
  <2>2. Len(sent) = cur /\ sent[cur].body - owed = kind.body
    BY <2>1 DEF LastSent
  <2> QED
    BY <1>1, <1>3, <2>2
<1> QED
  BY <1>3, <1>4, <1>5, <1>6

(* Until it is answered it is the last one sent, and nothing is unread. *)
LEMMA Alone ==
  ASSUME Framing, InOrder, InStep, Clean, pc \in {"handle", "reply"}
  PROVE  Count = 0 /\ owed = 0
<1> USE DEF Framing
<1>1. cur # NoRequest /\ cur \in 1 .. Len(sent) /\ Len(sent) \in Nat
  BY Kinds DEF InStep
<1>2. ~Answered(cur)
  BY <1>1 DEF InOrder, Answers, Answered
<1>3. cur = Len(sent)
  <2>1. \A i \in 1 .. Len(sent) - 1 : Answered(i)
    BY DEF InStep, Clean
  <2> QED
    BY <1>1, <1>2, <2>1
<1>4. Count = 0
  <2> SUFFICES ASSUME Count # 0 PROVE FALSE
    OBVIOUS
  <2>1. 1 \in 1 .. Count /\ Tok(1).part = HEAD
    BY <1>1, NothingWanted
  <2>2. cur < Tok(1).req /\ Tok(1).req \in 1 .. Len(sent)
    BY <2>1 DEF HeadsFresh, StreamOK
  <2> QED
    BY <1>1, <1>3, <2>2
<1> QED
  BY <1>1, <1>4, NothingWanted

(* The client, waiting for its answer, keeps the stream clean. *)
LEMMA ClientInStep ==
  ASSUME Framing, Framing', InOrder, InStep,
         Client \/ Expire \/ UNCHANGED vars
  PROVE  InStep'
<1> USE DEF Framing
<1>1. /\ UNCHANGED <<pc, buffer, cur, need, got, replies>>
      /\ \A i \in 1 .. Len(sent) : sent'[i] = sent[i]
  BY ClientAnswers
<1>2. Len(sent) \in Nat /\ Count \in Nat /\ \A i : Answered(i)' <=> Answered(i)
  BY <1>1, CountType DEF TypeOK, Answered
<1>3. ASSUME NEW k \in Kind, SendHead(k)
      PROVE  InStep'
  <2>1. PICK t : t = [req |-> Len(sent) + 1, part |-> HEAD]
    OBVIOUS
  <2>2. /\ sent' = Append(sent, k) /\ Len(sent') = Len(sent) + 1 /\ owed = 0
        /\ pipelined' = (pipelined \/ (sent # <<>> /\ ~Answered(Len(sent))))
    BY <1>3, AppendProperties DEF SendHead, TypeOK
  <2>3. wire' = Append(wire, t) /\ t \in Token
    <3>1. wire' = Append(wire, t)
      BY <1>3, <2>1, <2>2 DEF SendHead
    <3>2. Len(sent) + 1 \in 1 .. MaxRequests
      BY <1>2, <1>3, BoundAssumption DEF SendHead
    <3> QED
      BY <2>1, <3>1, <3>2 DEF Token, HEAD
  <2>4. /\ Count' = Count + 1 /\ \A i \in 1 .. Count : Tok(i)' = Tok(i)
        /\ \A n : n = Count + 1 => Tok(n)' = t
    BY <1>1, <2>3, AddsFacts DEF Adds, TypeOK
  <2>5. ~pipelined' => \A i \in 1 .. Len(sent') - 1 : Answered(i)'
    <3> SUFFICES ASSUME ~pipelined', NEW i \in 1 .. Len(sent') - 1
                 PROVE  Answered(i)
      BY <1>2
    <3>1. ~pipelined /\ (sent # <<>> => Answered(Len(sent)))
      BY <2>2
    <3>2. CASE i = Len(sent)
      <4>1. sent # <<>>
        BY <3>2
      <4> QED
        BY <3>1, <3>2, <4>1
    <3>3. CASE i # Len(sent)
      <4>1. i \in 1 .. Len(sent) - 1
        BY <1>2, <2>2, <3>3
      <4> QED
        BY <3>1, <4>1 DEF InStep
    <3> QED
      BY <3>2, <3>3
  <2>6. Clean' => Clean
    <3>1. ~pipelined' => ~pipelined
      BY <2>2
    <3>2. \A i \in 1 .. Len(sent) : i \in 1 .. Len(sent') /\ sent'[i] = sent[i]
      BY <1>1, <1>2, <2>2
    <3> QED
      BY <3>1, <3>2 DEF Clean
  <2>7. ASSUME Clean', pc = "header"
        PROVE  Tok(1)'.part = HEAD /\ Count' # 0
    <3>1. CASE Count = 0
      BY <2>1, <2>4, <3>1
    <3>2. CASE Count # 0
      <4>1. 1 \in 1 .. Count
        BY <1>2, <3>2
      <4> QED
        BY <1>2, <2>4, <2>6, <2>7, <4>1 DEF InStep
    <3> QED
      BY <3>1, <3>2
  <2> QED
    BY <1>1, <2>5, <2>6, <2>7 DEF InStep
<1>4. CASE SendBody
  <2>1. UNCHANGED <<sent, pipelined>> /\ owed > 0 /\ owed \in Nat
    BY <1>4 DEF SendBody, TypeOK
  <2>2. Clean' <=> Clean
    BY <2>1 DEF Clean
  <2>3. ASSUME Clean, pc = "header"
        PROVE  Tok(1)'.part = HEAD /\ Count' # 0
    <3>1. 1 \in 1 .. Count /\ Tok(1).part = HEAD
      BY <1>2, <2>1, <2>3 DEF InStep
    <3>2. PICK t : wire' = Append(wire, t)
      BY <1>4 DEF SendBody
    <3>3. Len(wire) \in Nat /\ Len(buffer) \in Nat /\ Len(wire') = Len(wire) + 1
          /\ \A i \in 1 .. Len(wire) : wire'[i] = wire[i]
      BY <3>2, LenProperties DEF TypeOK
    <3>4. Tok(1)' = Tok(1) /\ Count' = Count + 1
      BY <1>1, <3>1, <3>3 DEF Tok, Count
    <3> QED
      BY <1>2, <3>1, <3>4
  <2> QED
    BY <1>1, <1>2, <2>1, <2>2, <2>3 DEF InStep
<1>5. CASE ShutSend \/ Reset \/ Expire \/ UNCHANGED vars
  <2>1. UNCHANGED <<sent, owed, pipelined, wire>>
    BY <1>5 DEF ShutSend, Reset, Expire, vars, client
  <2>2. Count' = Count /\ \A i : Tok(i)' = Tok(i)
    BY <1>1, <2>1 DEF Count, Tok
  <2> QED
    BY <1>1, <1>2, <2>1, <2>2 DEF InStep, Clean
<1> QED
  BY <1>3, <1>4, <1>5 DEF Client

(* Every step of the session keeps it in step with such a client. *)
LEMMA ServerInStep ==
  ASSUME Framing, Framing', InOrder, InStep, Server
  PROVE  InStep'
<1> USE DEF Framing
<1>1. UNCHANGED <<sent, owed, pipelined>> /\ (Clean' <=> Clean) /\ Says
  <2>1. UNCHANGED client /\ Says
    BY ServerKinds DEF ReadHeader, ReadStray, ReadBody, Stays, Forgets, Says
  <2> QED
    BY <2>1 DEF client, Clean
<1>2. \A i : Answered(i) => Answered(i)'
  BY <1>1, SaysFacts DEF Answered
<1>3. ~pipelined' => \A i \in 1 .. Len(sent') - 1 : Answered(i)'
  BY <1>1, <1>2 DEF InStep
<1> SUFFICES ASSUME Clean
             PROVE  /\ cur' = NoRequest => pc' \in {"header", "closed"}
                    /\ \A j \in 1 .. Len(replies') : replies'[j].req # NoRequest
                    /\ pc' = "after" => buffer' = <<>>
                    /\ pc' = "header" /\ Count' > 0 => Tok(1)'.part = HEAD
                    /\ pc' = "header" /\ Count' = 0 => owed = 0
  BY <1>1, <1>3 DEF InStep
<1>4. /\ cur = NoRequest => pc \in {"header", "closed"}
      /\ \A j \in 1 .. Len(replies) : replies[j].req # NoRequest
      /\ pc = "after" => buffer = <<>>
      /\ pc = "header" /\ Count > 0 => Tok(1).part = HEAD
  BY DEF InStep
<1>5. \A j \in 1 .. Len(replies') : replies'[j].req # NoRequest
  <2>1. CASE UNCHANGED replies
    BY <1>4, <2>1
  <2>2. CASE ~UNCHANGED replies
    <3>1. pc \in {"continue", "handle", "reply", "error"}
      BY <2>2 DEF Server, ReadHeader, ReadStray, HeaderCut, SendContinue,
         ReadBody, ChunkFails, BodyDone, ManualRespond, HandlerReturns,
         HandlerThrows, HandlerEndsClosed, Respond, RespondFails, SendError,
         ClientGone, Timeout, ReplyTimesOut
    <3>2. cur # NoRequest
      BY <1>4, <3>1
    <3> QED
      BY <1>1, <1>4, <3>2, SaysFacts
  <2> QED
    BY <2>1, <2>2
<1>6. CASE ReadHeader
  <2>1. /\ Count > 0 /\ sent[Tok(1).req] \in Kind
        /\ sent[Tok(1).req] \in KindType
        /\ Header(Tok(1).req, sent[Tok(1).req])
    BY <1>6, ReadHeaderFacts
  <2>2. Tok(1).req \in 1 .. Len(sent) /\ ~Misframed(sent[Tok(1).req])
    <3>1. 1 \in 1 .. Count
      BY <2>1, CountType DEF TypeOK
    <3> QED
      BY <3>1 DEF Clean, StreamOK
  <2>3. /\ sent[Tok(1).req].valid
        /\ content_length(sent[Tok(1).req]) =< max_request_body_size
    <3>1. content_length(sent[Tok(1).req]) \in Nat
      BY <2>1, Kinds DEF content_length
    <3> QED
      BY <2>2, <3>1, BoundAssumption DEF Misframed
  <2>4. pc' \in {"continue", "body", "handle"} /\ cur' = Tok(1).req
    BY <2>1, <2>3, HeaderFacts
  <2>5. cur' # NoRequest
    BY <2>2, <2>4 DEF NoRequest
  <2> QED
    BY <1>5, <2>4, <2>5
<1>s. CASE ReadStray
  <2>1. PICK n \in 1 .. Smaller(Len(wire), HeadRoom + 1) :
          pc = "header" => wire[1].part # HEAD
    BY <1>s DEF ReadStray
  <2>2. buffer = <<>> /\ cur = NoRequest /\ pc \in {"header", "partial"}
    BY <1>s DEF ReadStray, Places
  <2>3. Len(wire) \in Nat /\ n \in 1 .. Len(wire) /\ Len(buffer) = 0
    BY <2>2, Reads DEF TypeOK
  <2>4. Count > 0 /\ Tok(1) = wire[1]
    BY <2>3 DEF Count, Tok
  <2> QED
    BY <1>4, <2>1, <2>2, <2>4
<1>7. CASE ReadBody
  <2>1. pc = "body" /\ pc' = "body" /\ cur' = cur
    BY <1>7, ReadBodyKeeps
  <2> QED
    BY <1>4, <1>5, <2>1
<1>8. CASE SendContinue \/ HandlerEndsClosed \/ SendError \/ ClientGone
             \/ Timeout \/ ReplyTimesOut
  <2>1. \/ pc = "continue" /\ pc' = "body" /\ cur' = cur
        \/ pc' = "closed"
    BY <1>8 DEF SendContinue, HandlerEndsClosed, SendError, AfterError,
       ClientGone, Timeout, ReplyTimesOut, inputs
  <2> QED
    BY <1>4, <1>5, <2>1
<1>c. CASE HeaderCut
  <2>1. pc = "partial" /\ cur = NoRequest
    BY <1>c DEF HeaderCut, Places
  <2> QED
    BY <1>4, <2>1
<1>9. CASE ChunkFails \/ BodyDone \/ HandlerThrows
  <2>1. /\ pc \in {"body", "handle", "after"} /\ pc' \in {"error", "handle"}
        /\ cur' = cur
    BY <1>9 DEF ChunkFails, BodyDone, HandlerThrows, inputs
  <2> QED
    BY <1>4, <1>5, <2>1
<1>10. CASE ManualRespond
  <2>1. /\ pc = "handle" /\ pc' \in {"after", "closing"}
        /\ buffer' = buffer /\ cur' = cur
    BY <1>10 DEF ManualRespond, inputs
  <2>2. Count = 0
    BY <2>1, Alone
  <2>3. buffer = <<>>
    <3>1. Len(buffer) \in Nat /\ Len(wire) \in Nat /\ buffer \in Seq(Token)
      BY DEF TypeOK
    <3>2. Len(buffer) = 0
      BY <2>2, <3>1 DEF Count
    <3> QED
      BY <3>1, <3>2
  <2> QED
    BY <1>4, <1>5, <2>1, <2>3
<1>11. ASSUME pc \in {"handle", "after", "reply"}, Forgets
       PROVE  /\ pc' = "header" /\ Count' > 0 => Tok(1)'.part = HEAD
              /\ pc' = "header" /\ Count' = 0 => owed = 0
  <2>1. wire' = wire /\ buffer' = <<>> /\ Len(wire) \in Nat /\ Len(buffer) \in Nat
    BY <1>11 DEF Forgets, NextRequest, TypeOK
  <2>2. Count' = Len(wire)
    BY <2>1 DEF Count
  <2>3. CASE pc \in {"handle", "reply"}
    <3>1. Count = 0 /\ owed = 0
      BY <2>3, Alone
    <3>2. Len(wire) = 0
      BY <2>1, <3>1 DEF Count
    <3> QED
      BY <2>2, <3>1, <3>2
  <2>4. CASE pc = "after"
    <3>1. buffer = <<>> /\ Len(buffer) = 0
      BY <1>4, <2>4
    <3>2. Count' = Count /\ Tok(1)' = Tok(1)
      BY <2>1, <2>2, <3>1 DEF Count, Tok
    <3> QED
      BY <1>4, <2>4, <3>2, NothingWanted
  <2> QED
    BY <1>11, <2>3, <2>4
<1>12. CASE HandlerReturns \/ Respond \/ RespondFails
  <2>1. /\ pc \in {"handle", "after", "reply"}
        /\ pc' \in {"header", "reply", "closed"}
        /\ pc' = "reply" => cur' = cur
    BY <1>12 DEF HandlerReturns, Respond, RespondFails, AfterAnswer, inputs
  <2>2. pc' # "reply" => Forgets
    BY <1>12, <2>1 DEF HandlerReturns, Respond, RespondFails, AfterAnswer,
       Forgets, Says
  <2> QED
    BY <1>4, <1>5, <1>11, <2>1, <2>2
<1> QED
  BY <1>6, <1>s, <1>7, <1>8, <1>c, <1>9, <1>10, <1>12 DEF Server

(* The session is in step with such a client in every reachable state. *)
LEMMA InStepHolds == Spec => []InStep
<1>1. Init => InStep
  <2> SUFFICES ASSUME Init PROVE InStep
    OBVIOUS
  <2>1. Len(sent) = 0 /\ 1 .. Len(sent) - 1 = {} /\ Len(replies) = 0 /\ Count = 0
    BY DEF Init, Count
  <2> QED
    BY <2>1 DEF Init, InStep
<1>2. /\ Framing /\ Framing' /\ InOrder /\ InStep /\ [Next]_vars
      => InStep'
  BY ClientInStep, ServerInStep DEF Next
<1> QED
  BY <1>1, <1>2, FramingHolds, InOrderHolds, PTL DEF Spec

(* With a client that waits for each answer the session never answers what is
   no request of its own, unless a request was framed for it to do so. *)
THEOREM InFrameHolds == Spec => []InFrame
<1>1. InStep => InFrame
  BY DEF InStep, Clean, InFrame
<1> QED
  BY <1>1, InStepHolds, PTL
-----------------------------------------------------------------------------
(* What the client hears is what ReplyStream lets it hear. *)

(* No answer is to a request after the one being read or handled, and nothing
   was said to that one before 100 Continue. *)
Fresh ==
  cur # NoRequest =>
    /\ pc = "continue" => \A k \in 1 .. Len(replies) : replies[k].req < cur
    /\ pc \in {"body", "handle", "after", "reply", "error"}
         => \A k \in 1 .. Len(replies) : replies[k].req =< cur

(* An answer that is due, or that its handler was trusted with. *)
LEMMA DueFacts ==
  ASSUME Framing, InOrder, Fresh, cur # NoRequest
  PROVE  /\ pc = "continue" => Stream!New(cur)
         /\ pc \in {"handle", "reply"} => Stream!Due(cur)
         /\ pc = "error" => Stream!Due(cur) \/ Stream!Trusted(cur)
<1> USE DEF Framing
<1>1. cur \in 1 .. Len(sent) /\ cur \in Nat /\ kind = sent[cur]
  BY Kinds DEF TypeOK, Held
<1>2. \A k \in 1 .. Len(replies) :
        /\ replies[k].req \in Nat
        /\ replies[k].status \in {"100", "final", "500"}
  <2>1. \A k \in 1 .. Len(replies) : replies[k] \in Reply
    BY DEF TypeOK
  <2> QED
    BY <2>1, BoundAssumption DEF Reply
<1>3. pc \in {"handle", "reply", "error"} =>
        \A k \in 1 .. Len(replies) : replies[k].status # "500"
  BY DEF InOrder, LastWords
<1>4. CASE pc = "continue"
  BY <1>1, <1>4 DEF Fresh, Stream!New
<1>5. CASE pc \in {"handle", "reply"}
  <2>1. ASSUME NEW k \in 1 .. Len(replies)
        PROVE  replies[k].req < cur
                 \/ (replies[k].req = cur /\ replies[k].status = "100")
    <3>1. replies[k].req =< cur
      BY <1>5 DEF Fresh
    <3>2. replies[k].status = "final" => replies[k].req < cur
      BY <1>5 DEF InOrder, Answers
    <3> QED
      BY <1>1, <1>2, <1>3, <1>5, <3>1, <3>2
  <2> QED
    BY <1>1, <1>5, <2>1 DEF Stream!Due
<1>6. CASE pc = "error"
  <2>1. \A k \in 1 .. Len(replies) : replies[k].req =< cur
    BY <1>6 DEF Fresh
  <2>2. CASE kind.manual
    BY <1>1, <1>6, <2>1, <2>2 DEF Stream!Trusted
  <2>3. CASE ~kind.manual
    <3>1. ASSUME NEW k \in 1 .. Len(replies)
          PROVE  replies[k].req < cur
                   \/ (replies[k].req = cur /\ replies[k].status = "100")
      <4>1. replies[k].status = "final" => replies[k].req < cur
        BY <1>6, <2>3 DEF InOrder, Answers
      <4> QED
        BY <1>1, <1>2, <1>3, <1>6, <2>1, <4>1
    <3> QED
      BY <1>1, <1>6, <3>1 DEF Stream!Due
  <2> QED
    BY <2>2, <2>3
<1> QED
  BY <1>4, <1>5, <1>6

(* What is taken for a request though nobody sent it has a cause. *)
LEMMA StrayFacts ==
  ASSUME TypeOK, InStep, cur = NoRequest, pc \notin {"header", "closed"}
  PROVE  \/ pipelined
         \/ \E i \in 1 .. Len(sent) :
              sent[i] \notin {k \in KindType : ~Misframed(k)}
  BY DEF InStep, Clean

(* A reply is a step of the stream. *)
LEMMA HearFacts ==
  ASSUME Framing, InOrder, Fresh, InStep, NEW s \in {"100", "final", "500"},
         Send(s), UNCHANGED <<sent, pipelined>>,
         \/ s = "100" /\ pc = "continue" /\ pc' = "body"
         \/ /\ s = "final" /\ pc \in {"handle", "reply"}
            /\ (pc' \notin {"closing", "closed"}) = kind.keep_alive
         \/ s = "500" /\ pc = "error" /\ pc' = "closed"
  PROVE  Stream!Next
<1>1. Stream!Hear(cur, s)
  BY DEF Send, Stream!Hear
<1>2. CASE cur = NoRequest
  <2>1. Stream!Stray(s)
    BY <1>1, <1>2, StrayFacts DEF Stream!Stray, Framing, NoRequest
  <2> QED
    BY <2>1 DEF Stream!Next
<1>3. CASE cur # NoRequest
  <2>1. cur \in 1 .. Len(sent) /\ kind = sent[cur]
    BY <1>3, Kinds DEF Framing, Held
  <2>2. CASE s = "100" /\ pc = "continue" /\ pc' = "body"
    <3>1. Stream!Continue(cur)
      BY <1>1, <1>3, <2>2, DueFacts DEF Stream!Continue
    <3> QED
      BY <2>1, <3>1 DEF Stream!Next
  <2>3. CASE /\ s = "final" /\ pc \in {"handle", "reply"}
             /\ (pc' \notin {"closing", "closed"}) = kind.keep_alive
    <3>1. Stream!Answer(cur)
      BY <1>1, <1>3, <2>1, <2>3, DueFacts DEF Stream!Answer
    <3> QED
      BY <2>1, <3>1 DEF Stream!Next
  <2>4. CASE s = "500" /\ pc = "error" /\ pc' = "closed"
    <3>1. Stream!Fail(cur)
      BY <1>1, <1>3, <2>4, DueFacts DEF Stream!Fail
    <3> QED
      BY <2>1, <3>1 DEF Stream!Next
  <2> QED
    BY <2>2, <2>3, <2>4
<1> QED
  BY <1>2, <1>3

(* A step that says nothing changes the stream in no way, or hangs up. *)
LEMMA SilentFacts ==
  ASSUME UNCHANGED <<sent, pipelined, replies>>,
         pc' = pc \/ pc \notin {"closing", "closed"}
           \/ pc' \in {"closing", "closed"}
  PROVE  [Stream!Next]_Stream!vars
<1>1. CASE (pc' \in {"closing", "closed"}) <=> (pc \in {"closing", "closed"})
  BY <1>1 DEF Stream!vars
<1>2. CASE pc \notin {"closing", "closed"} /\ pc' \in {"closing", "closed"}
  BY <1>2 DEF Stream!Next, Stream!HangUp
<1> QED
  BY <1>1, <1>2

(* What the client does is a request asked, or nothing to the stream. *)
LEMMA ClientStreams ==
  ASSUME Framing, InOrder, Fresh, Client \/ Expire \/ UNCHANGED vars
  PROVE  Fresh' /\ [Stream!Next]_Stream!vars
<1>1. /\ UNCHANGED <<pc, cur, replies>>
      /\ \A i \in 1 .. Len(sent) : sent'[i] = sent[i]
  BY ClientAnswers
<1>2. Fresh'
  BY <1>1 DEF Fresh
<1>3. CASE UNCHANGED <<sent, pipelined>>
  BY <1>1, <1>2, <1>3, SilentFacts
<1>4. ASSUME NEW k \in Kind, SendHead(k)
      PROVE  Stream!Next
  <2>1. Len(sent') = Len(sent) + 1
    BY <1>4, AppendProperties DEF SendHead, Framing, TypeOK
  <2>2. pipelined' = (pipelined \/ (sent # <<>> /\ ~Answered(Len(sent))))
    BY <1>4 DEF SendHead
  <2>3. ~Answered(Len(sent)) <=>
          \A j \in 1 .. Len(replies) :
            replies[j] # [req |-> Len(sent), status |-> "final"]
    BY DEF Answered
  <2>4. Stream!Ask
    BY <1>1, <2>1, <2>2, <2>3 DEF Stream!Ask
  <2> QED
    BY <2>4 DEF Stream!Next
<1>5. UNCHANGED <<sent, pipelined>> \/ \E k \in Kind : SendHead(k)
  BY DEF Client, SendBody, ShutSend, Reset, Expire, vars, client
<1> QED
  BY <1>2, <1>3, <1>4, <1>5

(* Every step of the session is one of the stream, or none. *)
LEMMA ServerStreams ==
  ASSUME Framing, InOrder, Fresh, InStep, Server
  PROVE  Fresh' /\ [Stream!Next]_Stream!vars
<1> USE DEF Framing
<1>1. /\ \A k \in 1 .. Len(replies) : replies[k].req \in Nat
      /\ cur \in Nat /\ Len(replies) \in Nat /\ UNCHANGED <<sent, pipelined>>
  <2>1. UNCHANGED client
    BY ServerKinds DEF ReadHeader, ReadStray, ReadBody, Stays, Forgets
  <2> QED
    BY <2>1 DEF client, TypeOK, Owes
<1>2. CASE ReadHeader
  <2>1. /\ UNCHANGED <<sent, replies>> /\ pc = "header"
        /\ 1 \in 1 .. Count
    <3>1. Count > 0 /\ Count \in Nat
      BY <1>2, ReadHeaderFacts, CountType DEF TypeOK
    <3> QED
      BY <1>2, <3>1 DEF ReadHeader, client
  <2>2. /\ Tok(1).part = HEAD
        /\ \/ cur' = Tok(1).req /\ pc' \in {"continue", "body", "handle"}
           \/ pc' = "error" /\ cur' = NoRequest
    BY <1>2, ReadHeaderFacts, HeaderFacts DEF NoRequest
  <2>3. CASE cur' = Tok(1).req
    <3>1. \A k \in 1 .. Len(replies) : replies[k].req < cur'
      BY <2>1, <2>2, <2>3 DEF HeadsFresh
    <3>2. cur' \in Nat
      BY <2>1, <2>3, CountType DEF TypeOK, Token
    <3>3. \A k \in 1 .. Len(replies) : replies[k].req =< cur'
      BY <1>1, <3>1, <3>2
    <3> QED
      BY <1>1, <2>1, <2>2, <3>1, <3>3, SilentFacts DEF Fresh
  <2>4. CASE pc' = "error" /\ cur' = NoRequest
    BY <1>1, <2>1, <2>4, SilentFacts DEF Fresh
  <2> QED
    BY <2>2, <2>3, <2>4
<1>s. CASE ReadStray \/ HeaderCut
  <2>1. /\ UNCHANGED <<sent, replies>> /\ cur' = NoRequest
        /\ pc \in {"header", "partial"}
    <3>1. CASE ReadStray
      BY <3>1, ReadStrayFacts DEF client, NoRequest
    <3>2. CASE HeaderCut
      BY <3>2 DEF HeaderCut, Places, inputs, client
    <3> QED
      BY <1>s, <3>1, <3>2
  <2> QED
    BY <1>1, <2>1, SilentFacts DEF Fresh
<1>3. CASE ReadBody \/ ChunkFails \/ BodyDone \/ HandlerThrows
  <2>1. /\ pc \in {"body", "handle", "after"} /\ UNCHANGED <<cur, sent, replies>>
        /\ pc' \in {"body", "handle", "error"}
    BY <1>3 DEF ReadBody, ChunkFails, BodyDone, HandlerThrows, inputs, client
  <2>2. Fresh'
    BY <2>1 DEF Fresh
  <2> QED
    BY <1>1, <2>1, <2>2, SilentFacts
<1>4. CASE SendContinue
  <2>1. /\ pc = "continue" /\ pc' = "body" /\ Send("100")
        /\ UNCHANGED <<cur, sent>>
    BY <1>4 DEF SendContinue, inputs, client
  <2>2. Fresh'
    BY <1>1, <2>1, SendFacts DEF Fresh
  <2>3. Stream!Next
    BY <1>1, <2>1, HearFacts
  <2> QED
    BY <2>2, <2>3
<1>5. CASE ManualRespond
  <2>1. /\ pc = "handle" /\ UNCHANGED <<cur, sent>>
        /\ pc' \in {"after", "closing"} /\ kind.keep_alive \in BOOLEAN
    BY <1>5, Kinds DEF ManualRespond, inputs, client
  <2>2. CASE UNCHANGED replies
    BY <1>1, <2>1, <2>2, SilentFacts DEF Fresh
  <2>3. CASE Send("final") /\ pc' = IF kind.keep_alive THEN "after" ELSE "closing"
    <3>1. Fresh'
      BY <1>1, <2>1, <2>3, SendFacts DEF Fresh
    <3>2. (pc' \notin {"closing", "closed"}) = kind.keep_alive
      BY <2>1, <2>3
    <3> QED
      BY <1>1, <2>1, <2>3, <3>1, <3>2, HearFacts
  <2> QED
    BY <1>5, <2>2, <2>3 DEF ManualRespond
<1>6. CASE HandlerReturns
  <2>1. /\ pc \in {"handle", "after"} /\ UNCHANGED <<sent, replies>>
        /\ \/ pc' = "header"
           \/ pc' = "reply" /\ cur' = cur
    BY <1>6 DEF HandlerReturns, inputs, client
  <2> QED
    BY <1>1, <2>1, SilentFacts DEF Fresh
<1>7. CASE HandlerEndsClosed \/ ClientGone \/ Timeout \/ ReplyTimesOut
  <2>1. pc' = "closed" /\ UNCHANGED <<sent, replies>>
    BY <1>7 DEF HandlerEndsClosed, ClientGone, Timeout, ReplyTimesOut, client
  <2> QED
    BY <1>1, <2>1, SilentFacts DEF Fresh
<1>8. CASE Respond
  <2>1. /\ pc = "reply" /\ Send("final") /\ UNCHANGED sent
        /\ pc' = AfterAnswer(kind)
        /\ kind.keep_alive \in BOOLEAN
    BY <1>8, Kinds DEF Respond, client
  <2>2. Fresh' /\ ((pc' \notin {"closing", "closed"}) = kind.keep_alive)
    BY <2>1 DEF AfterAnswer, Fresh
  <2> QED
    BY <1>1, <2>1, <2>2, HearFacts
<1>9. CASE RespondFails
  <2>1. /\ pc = "reply" /\ UNCHANGED <<sent, replies>>
        /\ pc' \in {"header", "closed"}
    BY <1>9 DEF RespondFails, AfterAnswer, client
  <2> QED
    BY <1>1, <2>1, SilentFacts DEF Fresh
<1>10. CASE SendError
  <2>1. pc = "error" /\ pc' = "closed" /\ UNCHANGED sent
    BY <1>10 DEF SendError, AfterError, client
  <2>2. Fresh'
    BY <2>1 DEF Fresh
  <2>3. CASE UNCHANGED replies
    BY <1>1, <2>1, <2>2, <2>3, SilentFacts
  <2>4. CASE Send("500")
    BY <1>1, <2>1, <2>2, <2>4, HearFacts
  <2> QED
    BY <1>10, <2>3, <2>4 DEF SendError
<1> QED
  BY <1>2, <1>s, <1>3, <1>4, <1>5, <1>6, <1>7, <1>8, <1>9, <1>10 DEF Server

(* The session implements ReplyStream: whatever the client does and the
   network brings, it hears what that stream lets it hear. *)
THEOREM ImplementsReplyStream == Spec => StreamSpec
<1>1. Init => Fresh /\ Stream!Init
  BY DEF Init, Fresh, Stream!Init
<1>2. Framing /\ InOrder /\ InStep /\ Fresh /\ [Next]_vars
        => Fresh' /\ [Stream!Next]_Stream!vars
  BY ClientStreams, ServerStreams DEF Next
<1> QED
  BY <1>1, <1>2, FramingHolds, InOrderHolds, InStepHolds, PTL
     DEF Spec, StreamSpec, Stream!Spec
-----------------------------------------------------------------------------
(* How much the session can still do with what it was sent: each token may
   take a request once through the loop, and each place has its way to the
   end of it. *)
Way ==
  [header |-> 1, partial |-> 3, continue |-> 7, body |-> 6, handle |-> 5,
   after |-> 4, closing |-> 3, reply |-> 3, error |-> 2, closed |-> 0]
Left == 7 * Len(wire) + Way[pc]

(* Reading takes something off the wire. *)
LEMMA ReadShrinks ==
  ASSUME TypeOK, NEW n \in 1 .. Len(wire), wire' = Drop(wire, n), pc' \in Location,
         pc \in {"header", "partial"} \/ pc' = pc
  PROVE  Left' < Left
<1>1. Len(wire) \in Nat /\ n \in 0 .. Len(wire) /\ wire \in Seq(Token)
  BY DEF TypeOK
<1>2. Len(wire') = Len(wire) - n
  BY <1>1, DropFacts
<1>3. 7 * Len(wire') + 7 =< 7 * Len(wire) /\ Len(wire') \in Nat
  BY <1>1, <1>2
<1>4. pc \in Location /\ Way[pc] \in Nat /\ Way[pc'] \in 0 .. 7
  BY DEF TypeOK, Location, Way
<1>5. CASE pc \in {"header", "partial"}
  BY <1>3, <1>4, <1>5 DEF Left, Way
<1>6. CASE pc' = pc
  BY <1>3, <1>4, <1>6 DEF Left
<1> QED
  BY <1>5, <1>6

(* A step that reads nothing goes on towards the end of the loop. *)
LEMMA GoesOn ==
  ASSUME TypeOK, UNCHANGED wire, pc' \in Location, Way[pc'] < Way[pc]
  PROVE  Left' < Left
<1>1. Len(wire) \in Nat /\ Way[pc] \in Nat /\ Way[pc'] \in Nat
  BY DEF TypeOK, Location, Way
<1> QED
  BY <1>1 DEF Left

(* Every step of a session brings it nearer to its end, and only what the
   client sends takes it further away: once the client has shut its side, a
   session ends after as many steps as are left, if it takes them. *)
THEOREM SessionShrinks ==
  Spec => [][/\ Server => Left' < Left
             /\ eof => Left' =< Left]_vars
<1>1. ASSUME TypeOK, TypeOK', Server
      PROVE  Left' < Left
  <2> USE <1>1
  <2>1. UNCHANGED client /\ pc \in Location /\ pc' \in Location
    BY DEF TypeOK, Server, ReadHeader, ReadStray, HeaderCut, SendContinue,
       ReadBody, ChunkFails, BodyDone, ManualRespond, HandlerReturns,
       HandlerThrows, HandlerEndsClosed, Respond, RespondFails, SendError,
       ClientGone, Timeout, ReplyTimesOut
  <2>2. CASE ReadHeader \/ ReadStray
    <3>1. PICK n \in 1 .. Smaller(Len(wire), HeadRoom + 1) : wire' = Drop(wire, n)
      BY <2>2 DEF ReadHeader, ReadStray
    <3>2. n \in 1 .. Len(wire)
      BY Reads
    <3> QED
      BY <2>1, <2>2, <3>1, <3>2, ReadShrinks DEF ReadHeader, ReadStray
  <2>3. CASE ReadBody
    <3>1. PICK n \in 1 .. Len(wire) : wire' = Drop(wire, n)
      BY <2>3 DEF ReadBody
    <3> QED
      BY <2>1, <2>3, <3>1, ReadShrinks DEF ReadBody
  <2>4. CASE SendContinue \/ ChunkFails \/ BodyDone \/ HandlerThrows
    <3>1. /\ UNCHANGED wire
          /\ \/ pc = "continue" /\ pc' = "body"
             \/ pc = "body" /\ pc' \in {"handle", "error"}
             \/ pc \in {"handle", "after"} /\ pc' = "error"
      BY <2>4 DEF SendContinue, ChunkFails, BodyDone, HandlerThrows
    <3>2. Way[pc'] < Way[pc]
      BY <3>1 DEF Way
    <3> QED
      BY <2>1, <3>1, <3>2, GoesOn
  <2>5. CASE ManualRespond \/ HandlerReturns
    <3>1. /\ UNCHANGED wire
          /\ \/ pc = "handle" /\ pc' \in {"after", "closing"}
             \/ pc \in {"handle", "after"} /\ pc' \in {"reply", "header"}
      BY <2>5 DEF ManualRespond, HandlerReturns
    <3>2. Way[pc'] < Way[pc]
      BY <3>1 DEF Way
    <3> QED
      BY <2>1, <3>1, <3>2, GoesOn
  <2>6. CASE Respond \/ RespondFails \/ SendError
    <3>1. /\ UNCHANGED wire
          /\ \/ pc = "reply" /\ pc' \in {"header", "closed"}
             \/ pc = "error" /\ pc' = "closed"
      BY <2>6 DEF Respond, RespondFails, SendError, AfterError, AfterAnswer
    <3>2. Way[pc'] < Way[pc]
      BY <3>1 DEF Way
    <3> QED
      BY <2>1, <3>1, <3>2, GoesOn
  <2>c. CASE HeaderCut
    <3>1. UNCHANGED wire /\ pc = "partial" /\ pc' = "error"
      BY <2>c DEF HeaderCut
    <3>2. Way[pc'] < Way[pc]
      BY <3>1 DEF Way
    <3> QED
      BY <2>1, <3>1, <3>2, GoesOn
  <2>7. CASE HandlerEndsClosed \/ ClientGone \/ Timeout \/ ReplyTimesOut
    <3>1. UNCHANGED wire /\ pc # "closed" /\ pc' = "closed"
      BY <2>7 DEF HandlerEndsClosed, ClientGone, Timeout, ReplyTimesOut, Awaits
    <3>2. Way[pc'] < Way[pc]
      BY <2>1, <3>1 DEF Way, Location
    <3> QED
      BY <2>1, <3>1, <3>2, GoesOn
  <2> QED
    BY <2>2, <2>3, <2>4, <2>5, <2>6, <2>c, <2>7 DEF Server
<1>2. ASSUME TypeOK, TypeOK', [Next]_vars, eof
      PROVE  Left' =< Left
  <2> USE <1>2
  <2>1. Left \in Nat /\ Left' \in Nat
    <3>1. Len(wire) \in Nat /\ Way[pc] \in Nat
      BY DEF TypeOK, Location, Way
    <3>2. Len(wire') \in Nat /\ Way[pc'] \in Nat
      BY DEF TypeOK, Location, Way
    <3> QED
      BY <3>1, <3>2 DEF Left
  <2>2. Server \/ UNCHANGED <<wire, pc>>
    BY DEF Next, Client, SendHead, SendBody, CanSend, ShutSend, Reset, Expire,
       vars, server
  <2> QED
    BY <1>1, <2>1, <2>2 DEF Left
<1> QED
  BY <1>1, <1>2, TypeCorrect, PTL DEF Spec
=============================================================================
