--------------------------- MODULE MCHealthMonitor ---------------------------
(***************************************************************************)
(* HealthMonitor for TLC: the stoppers are interchangeable.                    *)
(***************************************************************************)
EXTENDS HealthMonitor, TLC

Symmetry == Permutations(Stoppers)
=============================================================================
