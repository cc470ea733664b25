---------------------------- MODULE MCLaneRecord ----------------------------
(* One lane, whose PRD names no branch and whose agent may work on another   *)
(* branch than that of the lane.                                            *)
EXTENDS LaneRecord, TLC

CONSTANTS p1, p2, a, b

MCSymmetry == Permutations({p1, p2})

MCPrdBranch == a :> NoBranch
=============================================================================
