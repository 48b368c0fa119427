---------------------------- MODULE TrafficLedger ----------------------------
(***************************************************************************)
(* What the traffic accounting of the portal promises, with no tracker, no *)
(* flusher and no database in sight.  A proxied request that moved bytes   *)
(* is booked once, when its handler returns; a booked request is later     *)
(* stored, or lost with the process or a failed write; a stored one can    *)
(* only be erased by an administrator.  Nothing ever goes back.            *)
(***************************************************************************)
CONSTANT Requests

VARIABLE account

Statuses == {"open", "booked", "stored", "erased", "lost"}

Init == account = [r \in Requests |-> "open"]

(* Every member of S moves from one status to another in a single step. *)
Move(S, from, to) ==
  /\ S # {}
  /\ \A r \in S : account[r] = from
  /\ account' = [r \in Requests |-> IF r \in S THEN to ELSE account[r]]

Book(r)  == Move({r}, "open", "booked")
Store(S) == Move(S, "booked", "stored")
Lose(S)  == Move(S, "booked", "lost")
Erase(S) == Move(S, "stored", "erased")

Next ==
  \/ \E r \in Requests : Book(r)
  \/ \E S \in SUBSET Requests : Store(S) \/ Lose(S) \/ Erase(S)

Spec == Init /\ [][Next]_account

(* A booked request does not stay in limbo: it is stored or lost. *)
BookedSettles ==
  \A r \in Requests : account[r] = "booked" ~> account[r] # "booked"

==============================================================================
