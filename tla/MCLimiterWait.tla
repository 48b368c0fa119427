---------------------------- MODULE MCLimiterWait ----------------------------
(* Instances of LimiterWait for TLC. *)
EXTENDS LimiterWait, TLC

CONSTANTS q1, q2, l1, l2

(* A user's stream and an anonymous one under the same global limit. *)
UserAndGlobal == q1 :> <<l1, l2>> @@ q2 :> <<l2>>

(* The global limit is the wider one, or the only one. *)
Starts == {l1 :> 1 @@ l2 :> 2, l1 :> 0 @@ l2 :> 1}

==============================================================================
