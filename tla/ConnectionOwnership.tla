------------------------ MODULE ConnectionOwnership ------------------------
(***************************************************************************)
(* What the pool and its users promise about connections, without requests *)
(* or queues: a connection is made by a caller, kept in the pool under the *)
(* host it leads to, taken from there by one caller, and closed by the     *)
(* caller that has it.  It never passes from caller to caller directly,    *)
(* nor changes its peer while it is open.                                  *)
(***************************************************************************)
CONSTANTS Caller, Conn, Host

VARIABLES
  owner,   \* the caller that uses it, the host it is pooled for, or "closed"
  peer     \* the host it leads to, or "none"

vars == <<owner, peer>>

Init == owner = [x \in Conn |-> "closed"] /\ peer = [x \in Conn |-> "none"]

Make(x, c, h) ==
  /\ owner[x] = "closed"
  /\ owner' = [owner EXCEPT ![x] = c]
  /\ peer' = [peer EXCEPT ![x] = h]

Keep(x) ==
  /\ owner[x] \in Caller
  /\ owner' = [owner EXCEPT ![x] = peer[x]]
  /\ UNCHANGED peer

Take(x, c) ==
  /\ owner[x] \in Host
  /\ owner' = [owner EXCEPT ![x] = c]
  /\ UNCHANGED peer

Discard(x) ==
  /\ owner[x] \in Caller
  /\ owner' = [owner EXCEPT ![x] = "closed"]
  /\ peer' = [peer EXCEPT ![x] = "none"]

Next ==
  \E x \in Conn :
    \/ Keep(x) \/ Discard(x)
    \/ \E c \in Caller : Take(x, c) \/ \E h \in Host : Make(x, c, h)

Spec == Init /\ [][Next]_vars
=============================================================================
