---------------------------- MODULE MCVolumeStore ----------------------------
(* Instances of VolumeStore for TLC. *)
EXTENDS VolumeStore, TLC

\* Containers are alike, and so are names.
Symmetry == Permutations(Containers) \cup Permutations(Names)
=============================================================================
