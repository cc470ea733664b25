---------------------------- MODULE MCDrainRows ----------------------------
(* A content lane submitted as an idea or as a plan, the idea that drains it, *)
(* and a thought; one executor slot for all, breakers that compete from the   *)
(* second visit on, and two moves of the drain idea.                         *)
EXTENDS DrainRows

CONSTANTS lane, drain, loopback

MCKinds == lane :> {"idea", "plan"} @@ drain :> {"idea"} @@ loopback :> {}

MCCapacity == [r \in Resource |-> 1]

MCMaxVisits == [process |-> 1, review |-> 1]
=============================================================================
