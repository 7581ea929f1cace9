------------------------ MODULE MCContainerLifecycle ------------------------
(***************************************************************************)
(* ContainerLifecycle for TLC: the callers are interchangeable.            *)
(***************************************************************************)
EXTENDS ContainerLifecycle, TLC

Symmetry == Permutations(Callers)
=============================================================================
