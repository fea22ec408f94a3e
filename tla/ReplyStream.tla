---------------------------- MODULE ReplyStream ----------------------------
(***************************************************************************)
(* What the client of one connection may hear, with no word on bytes,      *)
(* buffers or handlers: every answer is to a request it has asked, answers *)
(* come in the order of the requests and none twice, 100 Continue comes    *)
(* once and before the answer it announces, and nothing follows a 500, the *)
(* answer to a request that asked to close, or a hang-up.  Only a client   *)
(* that asked before it was answered, or asked what the server does not    *)
(* read to its end, may hear answers to what it never asked (0).           *)
(***************************************************************************)
EXTENDS Naturals, Sequences

CONSTANT Framed   \* the requests that are read to their end

VARIABLES asked,  \* the client's requests, each with keep_alive and manual
          eager,  \* did the client ever ask before it was answered?
          heard,  \* the replies, each with its request and status
          open    \* may anything follow?

vars == <<asked, eager, heard, open>>

Init == asked = <<>> /\ eager = FALSE /\ heard = <<>> /\ open = TRUE

Ask ==
  /\ Len(asked') = Len(asked) + 1
  /\ \A i \in 1 .. Len(asked) : asked'[i] = asked[i]
  /\ eager' = \/ eager
              \/ asked # <<>> /\ \A k \in 1 .. Len(heard) :
                   heard[k] # [req |-> Len(asked), status |-> "final"]
  /\ UNCHANGED <<heard, open>>

(* Nothing was heard of a request after i, and no answer to i. *)
Due(i) ==
  /\ i \in 1 .. Len(asked)
  /\ \A k \in 1 .. Len(heard) :
       heard[k].req < i \/ (heard[k].req = i /\ heard[k].status = "100")
(* Nothing was heard of i either. *)
New(i) == i \in 1 .. Len(asked) /\ \A k \in 1 .. Len(heard) : heard[k].req < i
(* The handler of i was trusted with the answer and may have given it. *)
Trusted(i) ==
  /\ i \in 1 .. Len(asked)
  /\ asked[i].manual
  /\ \A k \in 1 .. Len(heard) : heard[k].req =< i

Hear(i, status) ==
  /\ open
  /\ heard' = Append(heard, [req |-> i, status |-> status])
  /\ UNCHANGED <<asked, eager>>

Continue(i) == New(i) /\ Hear(i, "100") /\ open' = TRUE

(* The answer; the last one if the request asked to close. *)
Answer(i) == Due(i) /\ Hear(i, "final") /\ open' = asked[i].keep_alive

(* A 500, for a request that is due or for one whose own handler failed. *)
Fail(i) == (Due(i) \/ Trusted(i)) /\ Hear(i, "500") /\ open' = FALSE

(* Anything, for what the client never asked. *)
Stray(status) ==
  /\ eager \/ \E i \in 1 .. Len(asked) : asked[i] \notin Framed
  /\ Hear(0, status)
  /\ open' \in BOOLEAN
  /\ status = "500" => ~open'

HangUp == open /\ open' = FALSE /\ UNCHANGED <<asked, eager, heard>>

Next ==
  \/ Ask
  \/ \E i \in 1 .. Len(asked) : Continue(i) \/ Answer(i) \/ Fail(i)
  \/ \E status \in {"100", "final", "500"} : Stray(status)
  \/ HangUp

Spec == Init /\ [][Next]_vars
=============================================================================
