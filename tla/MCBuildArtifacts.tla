-------------------------- MODULE MCBuildArtifacts --------------------------
(* A production build and two exports; with b3 left out, one build of each   *)
(* kind.                                                                    *)
EXTENDS BuildArtifacts, TLC

CONSTANTS b1, b2, b3

MCKinds == [b \in Builder |-> IF b = b1 THEN "next" ELSE "export"]
OneBase == [b \in Builder |-> "/"]

MCSymmetry == Permutations({b2, b3})
=============================================================================
