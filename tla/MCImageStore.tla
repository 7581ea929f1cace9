----------------------------- MODULE MCImageStore -----------------------------
(* Three images, two of them on one layer; the first can be parent of the others. *)
EXTENDS ImageStore, TLC

CONSTANTS base, child, other, l1, l2

MCImages == {base, child, other}
MCLayers == {l1, l2}
MCLayerOf == (base :> l1) @@ (child :> l2) @@ (other :> l2)
MCParents == (base :> {}) @@ (child :> {base}) @@ (other :> {base, child})

Symmetry == Permutations(Procs)
=============================================================================
