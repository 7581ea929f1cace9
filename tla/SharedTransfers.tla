--------------------------- MODULE SharedTransfers ---------------------------
(***************************************************************************)
(* What the transfer manager of distribution/xfer/transfer.go promises its *)
(* callers, without the locks, slots and retries of TransferManager:       *)
(* Transfer and Release are single steps.  A caller joins the transfer of  *)
(* its key unless that one is cancelled, and begins one when the key has   *)
(* none; a transfer is cancelled exactly when its last watcher leaves it   *)
(* before it is closed, and released when it is closed and has none.       *)
(***************************************************************************)
CONSTANTS Users,      \* holders of watchers
          Keys, Transfers, None

VARIABLES transfers,  \* key -> tracked transfer, or None
          phase,      \* free, tracked (in the map), removed, closed
          key, watchers, cancelled, done, released

vars == <<transfers, phase, key, watchers, cancelled, done, released>>

Init ==
    /\ transfers = [k \in Keys |-> None]
    /\ phase = [t \in Transfers |-> "free"]
    /\ key = [t \in Transfers |-> None]
    /\ watchers = [t \in Transfers |-> {}]
    /\ cancelled = {} /\ done = {} /\ released = {}

\* Transfer, when the key has no transfer: t is a new one.
Begin(u, k, t) ==
    /\ transfers[k] = None
    /\ phase[t] = "free" \/ (phase[t] = "closed" /\ t \in released)
    /\ transfers' = [transfers EXCEPT ![k] = t]
    /\ phase' = [phase EXCEPT ![t] = "tracked"]
    /\ key' = [key EXCEPT ![t] = k]
    /\ watchers' = [watchers EXCEPT ![t] = {u}]
    /\ cancelled' = cancelled \ {t} /\ done' = done \ {t} /\ released' = released \ {t}

\* Transfer, when the key has a transfer that is not cancelled.
Join(u, k) ==
    /\ transfers[k] # None /\ transfers[k] \notin cancelled
    /\ watchers' = [watchers EXCEPT ![transfers[k]] = @ \cup {u}]
    /\ UNCHANGED <<transfers, phase, key, cancelled, done, released>>

\* Release
Leave(u, t) ==
    /\ u \in watchers[t]
    /\ watchers' = [watchers EXCEPT ![t] = @ \ {u}]
    /\ LET last == watchers[t] = {u}
       IN  /\ released'  = IF last /\ phase[t] = "closed"
                           THEN released \cup {t} ELSE released
           /\ cancelled' = IF last /\ phase[t] # "closed"
                           THEN cancelled \cup {t} ELSE cancelled
    /\ UNCHANGED <<transfers, phase, key, done>>

\* The transfer function has ended.
Finish(t) ==
    /\ phase[t] = "tracked" /\ t \notin done
    /\ done' = done \cup {t}
    /\ UNCHANGED <<transfers, phase, key, watchers, cancelled, released>>

\* The key is free again.
Remove(t) ==
    /\ phase[t] = "tracked" /\ t \in done
    /\ transfers' = [transfers EXCEPT ![key[t]] = None]
    /\ phase' = [phase EXCEPT ![t] = "removed"]
    /\ UNCHANGED <<key, watchers, cancelled, done, released>>

Close(t) ==
    /\ phase[t] = "removed"
    /\ phase' = [phase EXCEPT ![t] = "closed"]
    /\ released' = IF watchers[t] = {} THEN released \cup {t} ELSE released
    /\ UNCHANGED <<transfers, key, watchers, cancelled, done>>

Next ==
    \/ \E u \in Users, k \in Keys :
          Join(u, k) \/ \E t \in Transfers : Begin(u, k, t)
    \/ \E u \in Users, t \in Transfers : Leave(u, t)
    \/ \E t \in Transfers : Finish(t) \/ Remove(t) \/ Close(t)

Spec == Init /\ [][Next]_vars
=============================================================================
