------------------------------ MODULE NamedMutex ------------------------------
(***************************************************************************)
(* What pkg/locker promises: for every name, a lock that one caller at a   *)
(* time holds.                                                             *)
(***************************************************************************)
CONSTANTS Procs, Names, None

VARIABLE held   \* caller -> the name it has locked, or None

Init == held = [p \in Procs |-> None]

Lock(p, n) ==
    /\ held[p] = None
    /\ \A q \in Procs : held[q] # n
    /\ held' = [held EXCEPT ![p] = n]

Unlock(p) ==
    /\ held[p] # None
    /\ held' = [held EXCEPT ![p] = None]

Next == \E p \in Procs : Unlock(p) \/ \E n \in Names : Lock(p, n)

Spec == Init /\ [][Next]_held
=============================================================================
