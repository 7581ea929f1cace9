--------------------------- MODULE TransferManager ---------------------------
(***************************************************************************)
(* The scheduler of layer pulls and pushes: distribution/xfer/transfer.go. *)
(* Callers of Transfer(key) share the transfer already running for a key   *)
(* or begin one; at most concurrencyLimit transfers move data, the others  *)
(* wait in a queue of start channels; a transfer that loses its last       *)
(* watcher is cancelled; one goroutine per transfer returns its slot,      *)
(* forgets it and closes it.                                               *)
(*                                                                         *)
(* A channel that is only ever closed is the set of the transfers whose    *)
(* channel has been closed.  tm.mu is a variable, because Transfer keeps   *)
(* it while t.mu is taken and dropped twice; every t.mu section is one     *)
(* step.  A transfer object is a member of Transfers, reused once nothing  *)
(* in the program points to it.                                            *)
(***************************************************************************)
EXTENDS Naturals, Sequences, FiniteSets

CONSTANTS Callers,    \* goroutines that call Transfer and Release
          Keys,       \* transfer keys
          Transfers,  \* transfer objects
          Limits,     \* values SetConcurrency is called with; 0 is "no limit"
          None        \* nil

ASSUME ConstantsAssumption ==
    /\ Limits \subseteq Nat
    /\ None \notin Transfers /\ None \notin Callers /\ None \notin Keys

VARIABLES
    \* transferManager
    mu,                \* holder of tm.mu between two steps
    concurrencyLimit, activeTransfers,
    transfers,         \* key -> tracked transfer, or None
    waitingTransfers,  \* start channels that are still open, oldest first
    \* transfer
    phase,             \* free, tracked (in the map), removed, closed
    key,
    watchers,          \* callers with a watcher in t.watchers
    started, inactive, slotFreed, cancelled, done, released,
    \* callers
    pc, xfer, want

tmVars     == <<mu, concurrencyLimit, activeTransfers, transfers, waitingTransfers>>
chanVars   == <<started, inactive, slotFreed, done>>
callerVars == <<pc, xfer, want>>
vars == <<tmVars, phase, key, watchers, chanVars, cancelled, released, callerVars>>

TypeOK ==
    /\ mu \in Callers \cup {None}
    /\ concurrencyLimit \in Nat
    /\ activeTransfers \in Nat
    /\ transfers \in [Keys -> Transfers \cup {None}]
    /\ waitingTransfers \in Seq(Transfers)
    /\ phase \in [Transfers -> {"free", "tracked", "removed", "closed"}]
    /\ key \in [Transfers -> Keys \cup {None}]
    /\ watchers \in [Transfers -> SUBSET Callers]
    /\ started \subseteq Transfers
    /\ inactive \subseteq Transfers
    /\ slotFreed \subseteq Transfers
    /\ cancelled \subseteq Transfers
    /\ done \subseteq Transfers
    /\ released \subseteq Transfers
    /\ pc \in [Callers -> {"idle", "lookup", "check", "detach", "wait",
                           "watching", "releasing"}]
    /\ xfer \in [Callers -> Transfers \cup {None}]
    /\ want \in [Callers -> Keys \cup {None}]

\* NewTransferManager
Init ==
    /\ mu = None
    /\ concurrencyLimit \in Limits
    /\ activeTransfers = 0
    /\ transfers = [k \in Keys |-> None]
    /\ waitingTransfers = <<>>
    /\ phase = [t \in Transfers |-> "free"]
    /\ key = [t \in Transfers |-> None]
    /\ watchers = [t \in Transfers |-> {}]
    /\ started = {} /\ inactive = {} /\ slotFreed = {}
    /\ cancelled = {} /\ done = {} /\ released = {}
    /\ pc = [c \in Callers |-> "idle"]
    /\ xfer = [c \in Callers |-> None]
    /\ want = [c \in Callers |-> None]

-----------------------------------------------------------------------------
\* Mutants of ReleaseAll: any leaving watcher cancels; released is never closed.
ReleaseCancels(t, c) ==
    /\ watchers' = [watchers EXCEPT ![t] = @ \ {c}]
    /\ released'  = IF phase[t] = "closed" THEN released \cup {t} ELSE released
    /\ cancelled' = IF phase[t] # "closed" THEN cancelled \cup {t} ELSE cancelled

ReleaseForgets(t, c) ==
    /\ watchers' = [watchers EXCEPT ![t] = @ \ {c}]
    /\ cancelled' = IF watchers[t] \ {c} = {} THEN cancelled \cup {t} ELSE cancelled
    /\ UNCHANGED released

(* t.Release up to its Unlock: the last watcher to leave a transfer cancels
   it, or, once the manager has forgotten the transfer, closes released.    *)
ReleaseAll(t, c) ==
    /\ watchers' = [watchers EXCEPT ![t] = @ \ {c}]
    /\ LET last == watchers[t] \ {c} = {}
       IN  /\ released'  = IF last /\ phase[t] = "closed"
                           THEN released \cup {t} ELSE released
           /\ cancelled' = IF last /\ phase[t] # "closed"
                           THEN cancelled \cup {t} ELSE cancelled

\* Mutants of HandOver: the slot is given back although transfers wait; the
\* start channel stays in the queue.
HandOverToNobody(t) ==
    /\ activeTransfers' = IF t \in started THEN activeTransfers - 1 ELSE activeTransfers
    /\ UNCHANGED <<started, waitingTransfers>>

HandOverTwice(t) ==
    IF t \in started /\ waitingTransfers # <<>>
    THEN /\ started' = started \cup {Head(waitingTransfers)}
         /\ UNCHANGED <<waitingTransfers, activeTransfers>>
    ELSE HandOverToNobody(t)

(* inactivate(start): a started transfer hands its slot to the longest
   waiting one, or gives it back.                                           *)
HandOver(t) ==
    IF t \notin started
    THEN UNCHANGED <<started, waitingTransfers, activeTransfers>>
    ELSE IF waitingTransfers # <<>>
    THEN /\ started' = started \cup {Head(waitingTransfers)}
         /\ waitingTransfers' = Tail(waitingTransfers)
         /\ UNCHANGED activeTransfers
    ELSE /\ activeTransfers' = activeTransfers - 1
         /\ UNCHANGED <<started, waitingTransfers>>

SetConcurrency(n) ==
    /\ mu = None
    /\ concurrencyLimit' = n
    /\ UNCHANGED <<mu, activeTransfers, transfers, waitingTransfers, phase, key,
                   watchers, chanVars, cancelled, released, callerVars>>

-----------------------------------------------------------------------------
(* A caller: Transfer(key), then Release.                                   *)

Call(c, k) ==
    /\ pc[c] = "idle"
    /\ pc' = [pc EXCEPT ![c] = "lookup"]
    /\ want' = [want EXCEPT ![c] = k]
    /\ UNCHANGED <<tmVars, phase, key, watchers, chanVars, cancelled, released, xfer>>

\* The key has a transfer: Watch it, keeping tm.mu.
Join(c) ==
    LET t == transfers[want[c]]
    IN  /\ pc[c] = "lookup" /\ mu = None
        /\ t # None
        /\ mu' = c
        /\ watchers' = [watchers EXCEPT ![t] = @ \cup {c}]
        /\ xfer' = [xfer EXCEPT ![c] = t]
        /\ pc' = [pc EXCEPT ![c] = "check"]
        /\ UNCHANGED <<concurrencyLimit, activeTransfers, transfers, waitingTransfers,
                       phase, key, chanVars, cancelled, released, want>>

\* The transfer's context is alive: return it with the watcher.
Return(c) ==
    /\ pc[c] = "check" /\ xfer[c] \notin cancelled
    /\ mu' = None
    /\ pc' = [pc EXCEPT ![c] = "watching"]
    /\ UNCHANGED <<concurrencyLimit, activeTransfers, transfers, waitingTransfers,
                   phase, key, watchers, chanVars, cancelled, released, xfer, want>>

\* The transfer was cancelled: Release the watcher, with tm.mu held.
Reject(c) ==
    /\ pc[c] = "check" /\ xfer[c] \in cancelled
    /\ ReleaseAll(xfer[c], c)
    /\ pc' = [pc EXCEPT ![c] = "detach"]
    /\ UNCHANGED <<tmVars, phase, key, chanVars, xfer, want>>

\* The watcher goroutine has ended; unlock tm.mu.
Yield(c) ==
    /\ pc[c] = "detach"
    /\ mu' = None
    /\ pc' = [pc EXCEPT ![c] = "wait"]
    /\ UNCHANGED <<concurrencyLimit, activeTransfers, transfers, waitingTransfers,
                   phase, key, watchers, chanVars, cancelled, released, xfer, want>>

\* The cancelled transfer is Done; look the key up again.
Retry(c) ==
    /\ pc[c] = "wait" /\ xfer[c] \in done
    /\ pc' = [pc EXCEPT ![c] = "lookup"]
    /\ xfer' = [xfer EXCEPT ![c] = None]
    /\ UNCHANGED <<tmVars, phase, key, watchers, chanVars, cancelled, released, want>>

\* Nothing refers to the object t any more.
Free(t) ==
    \/ phase[t] = "free"
    \/ /\ phase[t] = "closed" /\ t \in released
       /\ \A c \in Callers : xfer[c] # t

\* Mutants of Begin: no look at the map; one transfer too many.
BeginAs(c, t, slot) ==
    /\ pc[c] = "lookup" /\ mu = None /\ Free(t)
    /\ started' = IF slot THEN started \cup {t} ELSE started \ {t}
    /\ activeTransfers' = activeTransfers + (IF slot THEN 1 ELSE 0)
    /\ waitingTransfers' = IF slot THEN waitingTransfers ELSE Append(waitingTransfers, t)
    /\ transfers' = [transfers EXCEPT ![want[c]] = t]
    /\ phase' = [phase EXCEPT ![t] = "tracked"]
    /\ key' = [key EXCEPT ![t] = want[c]]
    /\ watchers' = [watchers EXCEPT ![t] = {c}]
    /\ inactive' = inactive \ {t} /\ slotFreed' = slotFreed \ {t}
    /\ cancelled' = cancelled \ {t} /\ done' = done \ {t}
    /\ released' = released \ {t}
    /\ xfer' = [xfer EXCEPT ![c] = t]
    /\ pc' = [pc EXCEPT ![c] = "watching"]
    /\ UNCHANGED <<mu, concurrencyLimit, want>>

BeginAlways(c, t) == BeginAs(c, t, concurrencyLimit = 0 \/ activeTransfers < concurrencyLimit)

BeginOneMore(c, t) ==
    /\ pc[c] = "lookup" /\ transfers[want[c]] = None
    /\ BeginAs(c, t, concurrencyLimit = 0 \/ activeTransfers <= concurrencyLimit)

\* The key has no transfer: create one, started or queued, and Watch it.
Begin(c, t) ==
    LET slot == concurrencyLimit = 0 \/ activeTransfers < concurrencyLimit
    IN  /\ pc[c] = "lookup" /\ mu = None
        /\ transfers[want[c]] = None
        /\ Free(t)
        /\ IF slot
           THEN /\ started' = started \cup {t}
                /\ activeTransfers' = activeTransfers + 1
                /\ UNCHANGED waitingTransfers
           ELSE /\ started' = started \ {t}
                /\ waitingTransfers' = Append(waitingTransfers, t)
                /\ UNCHANGED activeTransfers
        /\ transfers' = [transfers EXCEPT ![want[c]] = t]
        /\ phase' = [phase EXCEPT ![t] = "tracked"]
        /\ key' = [key EXCEPT ![t] = want[c]]
        /\ watchers' = [watchers EXCEPT ![t] = {c}]
        /\ inactive' = inactive \ {t} /\ slotFreed' = slotFreed \ {t}
        /\ cancelled' = cancelled \ {t} /\ done' = done \ {t}
        /\ released' = released \ {t}
        /\ xfer' = [xfer EXCEPT ![c] = t]
        /\ pc' = [pc EXCEPT ![c] = "watching"]
        /\ UNCHANGED <<mu, concurrencyLimit, want>>

Release(c) ==
    /\ pc[c] = "watching"
    /\ ReleaseAll(xfer[c], c)
    /\ pc' = [pc EXCEPT ![c] = "releasing"]
    /\ UNCHANGED <<tmVars, phase, key, chanVars, xfer, want>>

\* The watcher goroutine has ended; Release returns.
ReleaseReturn(c) ==
    /\ pc[c] = "releasing"
    /\ pc' = [pc EXCEPT ![c] = "idle"]
    /\ xfer' = [xfer EXCEPT ![c] = None]
    /\ want' = [want EXCEPT ![c] = None]
    /\ UNCHANGED <<tmVars, phase, key, watchers, chanVars, cancelled, released>>

-----------------------------------------------------------------------------
(* The transfer function, as far as DoFunc obliges it: nothing before start
   is closed, then it may close inactive, and it closes its progress channel
   when it ends, upon which Broadcast closes running.                       *)

GoInactive(t) ==
    /\ t \in started /\ t \notin inactive /\ t \notin done
    /\ inactive' = inactive \cup {t}
    /\ UNCHANGED <<tmVars, phase, key, watchers, started, slotFreed, done,
                   cancelled, released, callerVars>>

Finish(t) ==
    /\ t \in started /\ t \notin done
    /\ done' = done \cup {t}
    /\ UNCHANGED <<tmVars, phase, key, watchers, started, inactive, slotFreed,
                   cancelled, released, callerVars>>

-----------------------------------------------------------------------------
(* The goroutine Transfer leaves behind for each transfer it creates.       *)

\* case <-inactive
Inactivate(t) ==
    /\ phase[t] = "tracked" /\ t \in inactive /\ t \notin slotFreed
    /\ mu = None
    /\ HandOver(t)
    /\ slotFreed' = slotFreed \cup {t}
    /\ UNCHANGED <<mu, concurrencyLimit, transfers, phase, key, watchers, inactive,
                   done, cancelled, released, callerVars>>

\* Mutant of Remove: the key stays in the map.
RemoveKeepsKey(t) ==
    /\ phase[t] = "tracked" /\ t \in done /\ mu = None
    /\ IF t \in slotFreed
       THEN UNCHANGED <<started, waitingTransfers, activeTransfers>>
       ELSE HandOver(t)
    /\ slotFreed' = slotFreed \cup {t}
    /\ phase' = [phase EXCEPT ![t] = "removed"]
    /\ UNCHANGED <<mu, concurrencyLimit, transfers, key, watchers, inactive, done,
                   cancelled, released, callerVars>>

\* case <-xfer.Done(), up to the Unlock
Remove(t) ==
    /\ phase[t] = "tracked" /\ t \in done
    /\ mu = None
    /\ IF t \in slotFreed
       THEN UNCHANGED <<started, waitingTransfers, activeTransfers>>
       ELSE HandOver(t)
    /\ slotFreed' = slotFreed \cup {t}
    /\ transfers' = [transfers EXCEPT ![key[t]] = None]
    /\ phase' = [phase EXCEPT ![t] = "removed"]
    /\ UNCHANGED <<mu, concurrencyLimit, key, watchers, inactive, done,
                   cancelled, released, callerVars>>

\* xfer.Close()
Close(t) ==
    /\ phase[t] = "removed"
    /\ phase' = [phase EXCEPT ![t] = "closed"]
    /\ released' = IF watchers[t] = {} THEN released \cup {t} ELSE released
    /\ UNCHANGED <<tmVars, key, watchers, chanVars, cancelled, callerVars>>

-----------------------------------------------------------------------------
CallerStep(c) ==
    \/ \E k \in Keys : Call(c, k)
    \/ Join(c) \/ Return(c) \/ Reject(c) \/ Yield(c) \/ Retry(c)
    \/ \E t \in Transfers : Begin(c, t)
    \/ Release(c) \/ ReleaseReturn(c)

TransferStep(t) ==
    GoInactive(t) \/ Finish(t) \/ Inactivate(t) \/ Remove(t) \/ Close(t)

Next ==
    \/ \E n \in Limits : SetConcurrency(n)
    \/ \E c \in Callers : CallerStep(c)
    \/ \E t \in Transfers : TransferStep(t)

Spec == Init /\ [][Next]_vars

(* Fairness.  A goroutine that can run does run, and one that queues for
   tm.mu gets it although others take it in between.  A started transfer ends
   or goes inactive, and ends once it is cancelled: what DoFunc asks for, and
   no more, as an inactive transfer may wait for another one.  Nothing obliges
   a caller to call Transfer or Release.                                    *)
CallerProgress(c) ==
    \/ Join(c) \/ Return(c) \/ Reject(c) \/ Yield(c) \/ Retry(c)
    \/ \E t \in Transfers : Begin(c, t)
    \/ ReleaseReturn(c)

TransferProgress(t) ==
    \/ t \notin inactive /\ (GoInactive(t) \/ Finish(t))
    \/ t \in cancelled /\ Finish(t)
    \/ Inactivate(t) \/ Remove(t) \/ Close(t)

Fairness ==
    /\ \A c \in Callers : SF_vars(CallerProgress(c))
    /\ \A t \in Transfers : SF_vars(TransferProgress(t))

FairSpec == Spec /\ Fairness
-----------------------------------------------------------------------------
(* Properties                                                               *)

\* The slots in use are exactly those of the transfers whose start channel is
\* closed and whose goroutine has not yet called inactivate for them: no slot
\* leaks when transfers end, go inactive or are cancelled in the queue.
Holding == {t \in started : phase[t] = "tracked" /\ t \notin slotFreed}
SlotAccounting == activeTransfers = Cardinality(Holding)

\* The queue holds each tracked, not yet started transfer once, and nothing
\* else: inactivate never closes a start channel twice, and no cancelled or
\* finished transfer is left in the queue to swallow a slot.
QueueIsUnstarted ==
    /\ \A i, j \in 1..Len(waitingTransfers) :
          i # j => waitingTransfers[i] # waitingTransfers[j]
    /\ \A t \in Transfers :
          (phase[t] = "tracked" /\ t \notin started)
             <=> (\E i \in 1..Len(waitingTransfers) : waitingTransfers[i] = t)

\* Transfers wait only while some slot is in use that will be handed to them,
\* whatever SetConcurrency did since they were queued.
QueueHasDonor == waitingTransfers # <<>> => Holding # {}

\* At most one transfer is tracked for a key, and it is the one in the map: the
\* goroutine that deletes transfers[key] never deletes a successor.
OneTransferPerKey ==
    \A t \in Transfers : phase[t] = "tracked" => transfers[key[t]] = t

\* What Transfer returned is alive for as long as the caller holds its watcher:
\* a transfer is never cancelled under a caller that did not release it,
\* although other callers release theirs at any moment.
WatchedIsAlive ==
    \A c \in Callers : pc[c] = "watching" => xfer[c] \notin cancelled

\* Released() fires only when no watcher is left and the manager has forgotten
\* the transfer; the layer reference a download holds until then is therefore
\* still held when a watching caller takes the result.
ReleasedIsUnwatched ==
    \A t \in released : phase[t] = "closed" /\ watchers[t] = {}

\* A step starts a transfer only within the limit in force or by taking over a
\* slot already in use: lowering the limit never lets more data move.  The limit
\* changes in TransferManager_safety.cfg and in the theorem about this property.
StartsWithinLimit ==
    [][ LET n  == Cardinality(Holding)
            n2 == Cardinality(Holding')
        IN  n2 > n => concurrencyLimit = 0 \/ n2 <= concurrencyLimit ]_vars

\* The callers a transfer counts for SharedTransfers: a watcher on a cancelled
\* transfer, which Transfer takes off again before it retries, is none.
viewers == [t \in Transfers |-> IF t \in cancelled THEN {} ELSE watchers[t]]

Shared == INSTANCE SharedTransfers WITH Users <- Callers, watchers <- viewers

\* The manager implements SharedTransfers: every Transfer and every Release
\* takes effect in a single step, in which it joins or begins the transfer it
\* returns, or leaves it, whatever other calls and goroutines do meanwhile.
ImplementsShared == Shared!Spec

\* A queued transfer is eventually started, also when its watchers have left.
QueuedStarts ==
    \A t \in Transfers :
        (phase[t] = "tracked" /\ t \notin started) ~> (t \in started)

\* Once callers stop leaving transfers early, every call of Transfer returns:
\* the loop that waits for a cancelled transfer to be removed ends.  (While
\* other callers keep starting and cancelling the same key it may not.)
TransferReturns ==
    <>[][\A d \in Callers : ~Release(d)]_vars
        => \A c \in Callers : (pc[c] = "lookup") ~> (pc[c] = "watching")

\* A transfer all callers have left is eventually released, so that a finished
\* download lets go of its layer.
UnwatchedIsReleased ==
    \A t \in Transfers :
        (phase[t] # "free" /\ watchers[t] = {}) ~> (t \in released \/ watchers[t] # {})
=============================================================================
