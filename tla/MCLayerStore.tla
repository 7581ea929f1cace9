---------------------------- MODULE MCLayerStore ----------------------------
(* Small instances of LayerStore for TLC: a base layer with two children, or
   a chain of three that is longer than MaxDepth allows.                    *)
EXTENDS LayerStore, TLC

CONSTANTS base, left, right

TreeChains == {base, left, right}
TreeParent == (base :> None) @@ (left :> base) @@ (right :> base)
LineParent == (base :> None) @@ (left :> base) @@ (right :> left)

CleanFaults == {"create", "apply", "commit"}

Symmetry == Permutations(Procs) \cup Permutations(Ids) \cup Permutations(Refs)
=============================================================================
