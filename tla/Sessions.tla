------------------------------ MODULE Sessions ------------------------------
(***************************************************************************)
(* What the listen mode of sl promises to the clients that connect to it:  *)
(* a connection waits, is served in one session and is then over; at most  *)
(* one session is open at any time, because every session may drive the    *)
(* one device connection; and a connection that is lost is lost before its *)
(* session starts, never in the middle of one.                             *)
(***************************************************************************)

CONSTANT Conns    \* the connections clients open over the life of the server

VARIABLE status   \* connection -> what a client can tell about it

Statuses == {"new", "waiting", "serving", "over", "lost"}

Serving == {c \in Conns : status[c] = "serving"}

Move(c, from, to) ==
  /\ status[c] = from
  /\ status' = [status EXCEPT ![c] = to]

Init == status = [c \in Conns |-> "new"]

Next ==
  \E c \in Conns :
    \/ Move(c, "new", "waiting")
    \/ Move(c, "waiting", "serving") /\ Serving = {}
    \/ Move(c, "serving", "over")
    \/ Move(c, "waiting", "lost")

Spec == Init /\ [][Next]_status
=============================================================================
