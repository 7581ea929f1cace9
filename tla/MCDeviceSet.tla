----------------------------- MODULE MCDeviceSet -----------------------------
(* Instances of DeviceSet for TLC: the options of the daemon.               *)
EXTENDS DeviceSet, TLC

Mode(r, d, l) == [remove |-> r, delete |-> d, loopback |-> l]

\* Deferred removal and deletion, or neither; the pool on loopback files, or given
Loopback == {Mode(TRUE, TRUE, TRUE)}
ThinPool == {Mode(TRUE, TRUE, FALSE), Mode(FALSE, FALSE, FALSE)}
AllModes == Loopback \cup ThinPool \cup {Mode(FALSE, FALSE, TRUE)}
TwoModes == Loopback \cup {Mode(FALSE, FALSE, FALSE)}

Symmetry == Permutations(Callers) \cup Permutations(Hashes)
=============================================================================
