-------------------------- MODULE MCContentRuntime --------------------------
(* One module of each kind, in the order of the code: committed and always   *)
(* written, ignored and always written, ignored and compared first; a file   *)
(* that shows in all of them and one that the committed one does not list.   *)
EXTENDS ContentRuntime, TLC

CONSTANTS p1, p2, a, b, localized, published, registry

MCSteps == <<localized, published, registry>>

MCLists == localized :> {a} @@ published :> {a, b} @@ registry :> {a, b}

MCSymmetry == Permutations({p1, p2})
=============================================================================
