--------------------------- MODULE MCLayerDownload ---------------------------
(***************************************************************************)
(* LayerDownload for TLC: all pull the same image, of two different layers *)
(* or of the same blob twice.                                              *)
(***************************************************************************)
EXTENDS LayerDownload, TLC

CONSTANTS a, b

Images == {[p \in Pulls |-> <<a, b>>], [p \in Pulls |-> <<a, a>>]}
TwoLayers == {[p \in Pulls |-> <<a, b>>]}
Three == {[p \in Pulls |-> <<a, b, a>>]}
Symmetry == Permutations(Pulls)
=============================================================================
