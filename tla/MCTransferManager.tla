------------------------- MODULE MCTransferManager -------------------------
(* Small instances of TransferManager for TLC.                              *)
EXTENDS TransferManager, TLC

Symmetry == Permutations(Callers) \cup Permutations(Keys) \cup Permutations(Transfers)
=============================================================================
