------------------------ MODULE TransferManagerProofs ------------------------
(***************************************************************************)
(* Proofs, for any sets of callers, keys and transfers, that no transfer   *)
(* is cancelled under a caller that watches it, that a key has one tracked *)
(* transfer, that a released transfer is unwatched, that slots are counted *)
(* exactly, that the queue holds the transfers that have not started, and  *)
(* that all of this implements SharedTransfers.                            *)
(***************************************************************************)
EXTENDS TransferManager, FiniteSetTheorems, TLAPS

\* Zenon unless a leaf says SMT: most steps are first-order.
USE Zenon

\* A caller has a watcher in a transfer exactly between Watch and Release.
WatcherBookkeeping ==
    /\ \A c \in Callers :
          pc[c] \in {"check", "watching"} => c \in watchers[xfer[c]]
    /\ \A t \in Transfers : \A c \in watchers[t] :
          pc[c] \in {"check", "watching"} /\ xfer[c] = t

\* Inside Transfer or Release a caller holds a transfer that was created; a
\* caller in a call has a key.
CallerBookkeeping ==
    /\ \A c \in Callers :
          /\ pc[c] \in {"check", "detach", "wait", "watching", "releasing"}
                => xfer[c] \in Transfers /\ phase[xfer[c]] # "free"
          /\ pc[c] \in {"idle", "lookup"} => xfer[c] = None
          /\ pc[c] # "idle" => want[c] \in Keys

\* The map and the transfers agree on what is tracked.
MapBookkeeping ==
    /\ \A k \in Keys : transfers[k] # None =>
          phase[transfers[k]] = "tracked" /\ key[transfers[k]] = k
    /\ \A t \in Transfers : phase[t] = "tracked" =>
          key[t] \in Keys /\ transfers[key[t]] = t

\* No transfer function acts before its start channel is closed.
StartFirst ==
    inactive \subseteq started /\ done \subseteq started /\ slotFreed \subseteq started

\* The accounting of slots and of the queue.
Slots ==
    /\ IsFiniteSet(Holding)
    /\ SlotAccounting
    /\ QueueIsUnstarted

Books ==
    /\ WatcherBookkeeping
    /\ CallerBookkeeping
    /\ MapBookkeeping
    /\ StartFirst
    /\ WatchedIsAlive
    /\ ReleasedIsUnwatched

IInv == TypeOK /\ Books /\ Slots

\* inactivate moves one slot: the transfer that had it leaves Holding, and the
\* head of the queue, if there is one, joins it.
LEMMA HandOverSlots ==
    ASSUME IInv, NEW t \in Transfers,
           phase[t] = "tracked", t \notin slotFreed, t \in started,
           HandOver(t), slotFreed' = slotFreed \cup {t},
           \A u \in Transfers \ {t} : phase'[u] = phase[u],
           phase' \in [Transfers -> {"free", "tracked", "removed", "closed"}]
    PROVE  /\ activeTransfers' \in Nat
           /\ waitingTransfers' \in Seq(Transfers)
           /\ started' \subseteq Transfers /\ started \subseteq started'
           /\ Slots'
<1> USE DEF IInv, TypeOK, Slots, SlotAccounting
<1>1. t \in Holding
      BY DEF Holding
<1>2. /\ IsFiniteSet(Holding \ {t})
      /\ Cardinality(Holding \ {t}) = Cardinality(Holding) - 1
      /\ Cardinality(Holding) \in Nat
      /\ Cardinality(Holding \ {t}) \in Nat
      BY <1>1, FS_RemoveElement, FS_CardinalityType
<1>3. CASE waitingTransfers = <<>>
  <2>1. /\ activeTransfers' = activeTransfers - 1 
        /\ UNCHANGED <<started, waitingTransfers>>
        BY <1>3 DEF HandOver
  <2>2. Holding' = Holding \ {t}
        BY <2>1 DEF Holding
  <2>3. QueueIsUnstarted'
        BY SMT, <2>1 DEF QueueIsUnstarted
  <2> QED
      BY <1>2, <2>1, <2>2, <2>3
<1>4. CASE waitingTransfers # <<>>
  <2> DEFINE h == Head(waitingTransfers)
  <2>1. /\ started' = started \cup {h}
        /\ waitingTransfers' = Tail(waitingTransfers)
        /\ activeTransfers' = activeTransfers
        BY <1>4 DEF HandOver
  <2>2. /\ h = waitingTransfers[1] /\ Len(waitingTransfers) \in Nat \ {0}
        /\ h \in Transfers
        BY SMT, <1>4
  <2>3. /\ phase[h] = "tracked" /\ h \notin started /\ h # t
        /\ h \notin slotFreed
        BY SMT, <2>2 DEF QueueIsUnstarted, Books, StartFirst
  <2>4. Holding' = (Holding \ {t}) \cup {h} /\ h \notin Holding \ {t}
        BY SMT, <2>1, <2>2, <2>3 DEF Holding
  <2>5. IsFiniteSet(Holding') /\ Cardinality(Holding') = Cardinality(Holding)
    <3> DEFINE H == Holding \ {t}
    <3>1. IsFiniteSet(H) /\ h \notin H
          BY <1>2, <2>4
    <3>2. IsFiniteSet(H \cup {h}) /\ Cardinality(H \cup {h}) = Cardinality(H) + 1
          BY <3>1, FS_AddElement
    <3> QED
        BY SMT, <3>2, <1>2, <2>4
  <2>6. QueueIsUnstarted'
    <3>1. /\ Len(waitingTransfers') = Len(waitingTransfers) - 1
          /\ \A i \in 1..Len(waitingTransfers') :
                waitingTransfers'[i] = waitingTransfers[i + 1]
          BY SMT, <2>1, <2>2
    <3>2. \A i, j \in 1..Len(waitingTransfers') :
             i # j => waitingTransfers'[i] # waitingTransfers'[j]
      <4> SUFFICES ASSUME NEW i \in 1..Len(waitingTransfers'),
                          NEW j \in 1..Len(waitingTransfers'), i # j
                   PROVE  waitingTransfers'[i] # waitingTransfers'[j]
          OBVIOUS
      <4>1. /\ i + 1 \in 1..Len(waitingTransfers) /\ j + 1 \in 1..Len(waitingTransfers)
            /\ i + 1 # j + 1
            BY SMT, <3>1, <2>2
      <4> QED
          BY SMT, <3>1, <4>1 DEF QueueIsUnstarted
    <3>3. ASSUME NEW u \in Transfers, phase'[u] = "tracked", u \notin started'
          PROVE  \E i \in 1..Len(waitingTransfers') : waitingTransfers'[i] = u
      <4>1. phase[u] = "tracked" /\ u \notin started /\ u # h
            BY <3>3, <2>1
      <4>2. PICK i \in 1..Len(waitingTransfers) : waitingTransfers[i] = u
            BY <4>1 DEF QueueIsUnstarted
      <4>3. i # 1 /\ i - 1 \in 1..Len(waitingTransfers')
            BY SMT, <4>1, <4>2, <2>2, <3>1
      <4>4. waitingTransfers'[i - 1] = u
            BY SMT, <4>2, <4>3, <3>1, <2>2
      <4> QED
          BY <4>3, <4>4
    <3>4. ASSUME NEW i \in 1..Len(waitingTransfers')
          PROVE  /\ phase'[waitingTransfers'[i]] = "tracked"
                 /\ waitingTransfers'[i] \notin started'
      <4>1. i + 1 \in 1..Len(waitingTransfers) /\ i + 1 # 1
            BY SMT, <3>1, <2>2
      <4>2. waitingTransfers[i + 1] # h /\ waitingTransfers[i + 1] \in Transfers
            BY SMT, <4>1, <2>2 DEF QueueIsUnstarted
      <4>3. /\ phase[waitingTransfers[i + 1]] = "tracked"
            /\ waitingTransfers[i + 1] \notin started
            BY <4>1, <4>2 DEF QueueIsUnstarted
      <4> QED
          BY <3>1, <4>2, <4>3, <2>1
    <3> QED
        BY SMT, <3>2, <3>3, <3>4 DEF QueueIsUnstarted
  <2>7. waitingTransfers' \in Seq(Transfers)
        BY SMT, <2>1, <1>4
  <2> QED
      BY <1>2, <2>1, <2>2, <2>5, <2>6, <2>7
<1> QED
    BY <1>3, <1>4

\* Initially no transfer exists and every caller is idle.
LEMMA InitIInv == Init => IInv
<1> SUFFICES ASSUME Init PROVE IInv
    OBVIOUS
<1>1. TypeOK /\ Books
      BY SMT, ConstantsAssumption
      DEF Init, TypeOK, Books, WatcherBookkeeping, CallerBookkeeping, MapBookkeeping,
          StartFirst, WatchedIsAlive, ReleasedIsUnwatched
<1>2. Holding = {}
      BY DEF Init, Holding
<1>3. Slots
      BY SMT, <1>2, FS_EmptySet DEF Init, Slots, SlotAccounting, QueueIsUnstarted
<1> QED
    BY <1>1, <1>3 DEF IInv

\* Steps that touch neither slots nor queue nor what Holding is made of.
LEMMA SlotsUnchanged ==
    ASSUME Slots, UNCHANGED <<activeTransfers, waitingTransfers, started, slotFreed, phase>>
    PROVE  Slots'
  BY DEF Slots, SlotAccounting, QueueIsUnstarted, Holding

\* Steps of a transfer's goroutines that leave callers, map and watchers alone.
LEMMA BooksUnchanged ==
    ASSUME Books, StartFirst',
           UNCHANGED <<transfers, phase, key, watchers, cancelled, released, pc, xfer, want>>
    PROVE  Books'
<1>1. WatcherBookkeeping' /\ CallerBookkeeping'
      BY DEF Books, WatcherBookkeeping, CallerBookkeeping
<1>2. MapBookkeeping'
      BY DEF Books, MapBookkeeping
<1>3. WatchedIsAlive' /\ ReleasedIsUnwatched'
      BY DEF Books, WatchedIsAlive, ReleasedIsUnwatched
<1> QED
    BY <1>1, <1>2, <1>3 DEF Books

\* Steps of one caller that takes or releases no watcher.
LEMMA CallerMoves ==
    ASSUME Books, TypeOK, NEW c \in Callers,
           NEW p, NEW x, NEW w,
           pc' = [pc EXCEPT ![c] = p], xfer' = [xfer EXCEPT ![c] = x],
           want' = [want EXCEPT ![c] = w],
           UNCHANGED <<transfers, phase, key, watchers, started, inactive, slotFreed, done,
                       cancelled, released>>,
           p \in {"check", "watching"} <=> pc[c] \in {"check", "watching"},
           p \in {"check", "watching"} => x = xfer[c],
           p = "watching" => x \notin cancelled,
           p \in {"check", "detach", "wait", "watching", "releasing"} => x = xfer[c],
           p \in {"detach", "wait", "releasing"}
              => pc[c] \in {"check", "detach", "wait", "watching", "releasing"},
           p \in {"idle", "lookup"} => x = None,
           p # "idle" => w \in Keys
    PROVE  Books'
<1>1. /\ pc'[c] = p /\ xfer'[c] = x /\ want'[c] = w
      /\ \A d \in Callers \ {c} : pc'[d] = pc[d] /\ xfer'[d] = xfer[d] /\ want'[d] = want[d]
      /\ \A t \in Transfers : watchers[t] \subseteq Callers
      BY DEF TypeOK
<1>2. WatcherBookkeeping'
      BY SMT, <1>1 DEF Books, WatcherBookkeeping
<1>3. CallerBookkeeping'
      BY SMT, <1>1 DEF Books, CallerBookkeeping
<1>4. MapBookkeeping'
      BY DEF Books, MapBookkeeping
<1>5. StartFirst' /\ ReleasedIsUnwatched'
      BY DEF Books, StartFirst, ReleasedIsUnwatched
<1>6. WatchedIsAlive'
      BY SMT, <1>1 DEF Books, WatchedIsAlive
<1> QED
    BY <1>2, <1>3, <1>4, <1>5, <1>6 DEF Books

\* A caller releases its watcher: Release, or the retry of Transfer. Whoever still
\* watches the transfer keeps it alive.
LEMMA WatcherLeaves ==
    ASSUME Books, TypeOK, NEW c \in Callers,
           pc[c] \in {"check", "watching"}, NEW p \in {"detach", "releasing"},
           ReleaseAll(xfer[c], c), pc' = [pc EXCEPT ![c] = p],
           UNCHANGED <<mu, concurrencyLimit, activeTransfers, transfers, waitingTransfers,
                       phase, key, started, inactive, slotFreed, done, xfer, want>>
    PROVE  TypeOK' /\ Books'
<1>1. xfer[c] \in Transfers /\ phase[xfer[c]] # "free" /\ want[c] \in Keys
      BY DEF Books, CallerBookkeeping
<1>2. /\ pc'[c] = p /\ \A d \in Callers \ {c} : pc'[d] = pc[d]
      /\ watchers'[xfer[c]] = watchers[xfer[c]] \ {c}
      /\ \A t \in Transfers \ {xfer[c]} : watchers'[t] = watchers[t]
      /\ \A t \in Transfers : watchers[t] \subseteq Callers
      /\ released \subseteq Transfers
      BY <1>1 DEF ReleaseAll, TypeOK
<1>3. /\ cancelled' \in {cancelled, cancelled \cup {xfer[c]}}
      /\ cancelled' # cancelled => watchers'[xfer[c]] = {}
      /\ released' \in {released, released \cup {xfer[c]}}
      /\ released' # released => watchers'[xfer[c]] = {} /\ phase[xfer[c]] = "closed"
      BY <1>2 DEF ReleaseAll
<1>4. TypeOK'
  <2>1. watchers' \in [Transfers -> SUBSET Callers]
        BY DEF ReleaseAll, TypeOK
  <2>2. /\ pc' \in [Callers -> {"idle", "lookup", "check", "detach", "wait",
                                "watching", "releasing"}]
        BY DEF TypeOK
  <2> QED
      BY <1>1, <1>3, <2>1, <2>2 DEF TypeOK
<1>5. WatcherBookkeeping'
  <2>1. ASSUME NEW d \in Callers, pc'[d] \in {"check", "watching"}
        PROVE  d \in watchers'[xfer[d]]
    <3>1. d # c /\ d \in watchers[xfer[d]] /\ xfer[d] \in Transfers
          BY <1>2, <2>1 DEF Books, WatcherBookkeeping, CallerBookkeeping
    <3> QED
        BY <1>2, <3>1
  <2>2. ASSUME NEW t \in Transfers, NEW d \in watchers'[t]
        PROVE  pc'[d] \in {"check", "watching"} /\ xfer[d] = t
    <3>1. d \in watchers[t] /\ d \in Callers /\ xfer[d] = t /\ pc[d] \in {"check", "watching"}
          BY <1>2 DEF Books, WatcherBookkeeping
    <3> QED
        BY <1>2, <3>1
  <2> QED
      BY <2>1, <2>2 DEF WatcherBookkeeping
<1>6. CallerBookkeeping'
      BY <1>1, <1>2 DEF Books, CallerBookkeeping
<1>7. MapBookkeeping'
      BY DEF Books, MapBookkeeping
<1>8. StartFirst'
      BY DEF Books, StartFirst
<1>9. ReleasedIsUnwatched'
      BY <1>1, <1>2, <1>3 DEF Books, ReleasedIsUnwatched
<1>10. WatchedIsAlive'
  <2>1. ASSUME NEW d \in Callers, pc'[d] = "watching" PROVE xfer[d] \notin cancelled'
    <3>1. pc[d] = "watching" /\ xfer[d] \notin cancelled
          BY <1>2, <2>1 DEF Books, WatchedIsAlive
    <3>2. d \in watchers'[xfer[d]]
          BY <1>5, <2>1 DEF WatcherBookkeeping
    <3> QED
        BY <1>3, <3>1, <3>2
  <2> QED
      BY <2>1 DEF WatchedIsAlive
<1> QED
    BY <1>4, <1>5, <1>6, <1>7, <1>8, <1>9, <1>10 DEF Books

\* Every step of a caller, of a transfer's goroutines or of SetConcurrency
\* preserves the bookkeeping and with it the safety properties.
LEMMA NextIInv == IInv /\ [Next]_vars => IInv'
<1> SUFFICES ASSUME TypeOK, Books, Slots, [Next]_vars PROVE IInv'
    BY DEF IInv
<1>a. /\ pc \in [Callers -> {"idle", "lookup", "check", "detach", "wait",
                             "watching", "releasing"}]
      /\ xfer \in [Callers -> Transfers \cup {None}]
      BY DEF TypeOK
<1>b. phase \in [Transfers -> {"free", "tracked", "removed", "closed"}]
      BY DEF TypeOK
<1>c. /\ transfers \in [Keys -> Transfers \cup {None}]
      /\ key \in [Transfers -> Keys \cup {None}]
      BY DEF TypeOK
<1>d. watchers \in [Transfers -> SUBSET Callers]
      BY DEF TypeOK
<1>e. /\ waitingTransfers \in Seq(Transfers) /\ started \subseteq Transfers
      /\ activeTransfers \in Nat
      BY DEF TypeOK
<1>1. ASSUME NEW n \in Limits, SetConcurrency(n) PROVE IInv'
  <2>1. /\ concurrencyLimit' = n
        /\ UNCHANGED <<mu, activeTransfers, transfers, waitingTransfers, phase, key, watchers,
                       started, inactive, slotFreed, done, cancelled, released, pc, xfer, want>>
        BY <1>1 DEF SetConcurrency, chanVars, callerVars
  <2>2. TypeOK'
        BY <2>1, ConstantsAssumption DEF TypeOK
  <2>3. StartFirst'
        BY <2>1 DEF Books, StartFirst
  <2> QED
      BY <2>1, <2>2, <2>3, BooksUnchanged, SlotsUnchanged DEF IInv
<1>2. ASSUME NEW c \in Callers, NEW k \in Keys, Call(c, k) PROVE IInv'
  <2>1. /\ pc[c] = "idle"
        /\ pc' = [pc EXCEPT ![c] = "lookup"] /\ xfer' = [xfer EXCEPT ![c] = xfer[c]]
        /\ want' = [want EXCEPT ![c] = k] /\ mu' = mu
        /\ UNCHANGED <<concurrencyLimit, activeTransfers, transfers, waitingTransfers, phase, key,
                       watchers, started, inactive, slotFreed, done, cancelled, released>>
        BY <1>2 DEF Call, TypeOK, tmVars, chanVars
  <2>2. TypeOK'
        BY <2>1, ConstantsAssumption DEF TypeOK
  <2>3. Books'
    <3>1. xfer[c] = None
          BY <2>1 DEF Books, CallerBookkeeping
    <3> QED
        BY <2>1, <3>1, CallerMoves
  <2>4. Slots'
        BY <2>1, SlotsUnchanged
  <2> QED
      BY <2>2, <2>3, <2>4 DEF IInv
<1>3. ASSUME NEW c \in Callers, Join(c) PROVE IInv'
  <2> DEFINE t == transfers[want[c]]
  <2>1. /\ pc[c] = "lookup" /\ t # None /\ mu' = c
        /\ watchers' = [watchers EXCEPT ![t] = @ \cup {c}]
        /\ xfer' = [xfer EXCEPT ![c] = t] /\ pc' = [pc EXCEPT ![c] = "check"]
        /\ UNCHANGED <<concurrencyLimit, activeTransfers, transfers, waitingTransfers, phase, key,
                       started, inactive, slotFreed, done, cancelled, released, want>>
        BY <1>3 DEF Join, chanVars
  <2>2. want[c] \in Keys
        BY <2>1 DEF Books, CallerBookkeeping
  <2>3. t \in Transfers /\ phase[t] = "tracked"
        BY SMT, <2>1, <2>2 DEF TypeOK, Books, MapBookkeeping
  <2> HIDE DEF t
  <2>4. /\ watchers'[t] = watchers[t] \cup {c}
        /\ \A u \in Transfers \ {t} : watchers'[u] = watchers[u]
        /\ \A u \in Transfers : watchers[u] \subseteq Callers
        /\ pc'[c] = "check" /\ xfer'[c] = t
        /\ \A d \in Callers \ {c} : pc'[d] = pc[d] /\ xfer'[d] = xfer[d]
        BY <2>1, <2>3 DEF TypeOK
  <2>5. TypeOK'
        BY <2>1, <2>3 DEF TypeOK
  <2>6. Books'
    <3>1. \A d \in Callers : pc[d] \in {"check", "watching"} => xfer[d] \in Transfers
          BY DEF Books, CallerBookkeeping
    <3>2. WatcherBookkeeping'
      <4>1. WatcherBookkeeping
            BY DEF Books
      <4>2. \A d \in Callers \ {c}, u \in Transfers : d \in watchers'[u] <=> d \in watchers[u]
            BY <2>4
      <4>3. \A u \in Transfers : c \in watchers'[u] <=> u = t
            BY SMT, <2>1, <2>3, <2>4, <4>1 DEF WatcherBookkeeping
      <4>4. \A u \in Transfers : watchers'[u] \subseteq Callers
            BY <2>3, <2>4
      <4> QED
          BY SMT, <2>3, <2>4, <3>1, <4>1, <4>2, <4>3, <4>4 DEF WatcherBookkeeping
    <3>3. CallerBookkeeping'
      <4>1. phase' = phase /\ want' = want
            BY <2>1
      <4> QED
          BY <2>2, <2>3, <2>4, <4>1 DEF Books, CallerBookkeeping
    <3>4. MapBookkeeping' /\ StartFirst'
          BY <2>1 DEF Books, MapBookkeeping, StartFirst
    <3>5. WatchedIsAlive'
          BY SMT, <2>1, <2>4 DEF Books, WatchedIsAlive
    <3>6. ReleasedIsUnwatched'
          BY <2>1, <2>3, <2>4 DEF TypeOK, Books, ReleasedIsUnwatched
    <3> QED
        BY <3>2, <3>3, <3>4, <3>5, <3>6 DEF Books
  <2>7. Slots'
        BY <2>1, SlotsUnchanged
  <2> QED
      BY <2>5, <2>6, <2>7 DEF IInv
<1>4. ASSUME NEW c \in Callers, Return(c) PROVE IInv'
  <2>1. /\ pc[c] = "check" /\ xfer[c] \notin cancelled
        /\ pc' = [pc EXCEPT ![c] = "watching"] /\ xfer' = [xfer EXCEPT ![c] = xfer[c]]
        /\ want' = [want EXCEPT ![c] = want[c]] /\ mu' = None
        /\ UNCHANGED <<concurrencyLimit, activeTransfers, transfers, waitingTransfers, phase, key,
                       watchers, started, inactive, slotFreed, done, cancelled, released>>
        BY <1>4 DEF Return, TypeOK, tmVars, chanVars
  <2>2. TypeOK'
        BY <2>1, ConstantsAssumption DEF TypeOK
  <2>3. Books'
    <3>1. want[c] \in Keys
          BY <2>1 DEF Books, CallerBookkeeping
    <3> QED
        BY <2>1, <3>1, CallerMoves
  <2>4. Slots'
        BY <2>1, SlotsUnchanged
  <2> QED
      BY <2>2, <2>3, <2>4 DEF IInv
<1>5. ASSUME NEW c \in Callers, Reject(c) PROVE IInv'
  <2>1. /\ pc[c] = "check" /\ ReleaseAll(xfer[c], c) /\ pc' = [pc EXCEPT ![c] = "detach"]
        /\ UNCHANGED <<mu, concurrencyLimit, activeTransfers, transfers, waitingTransfers, phase,
                       key, started, inactive, slotFreed, done, xfer, want>>
        BY <1>5 DEF Reject, tmVars, chanVars
  <2>2. TypeOK' /\ Books'
        BY <2>1, WatcherLeaves
  <2>3. Slots'
        BY <2>1, SlotsUnchanged
  <2> QED
      BY <2>2, <2>3 DEF IInv
<1>6. ASSUME NEW c \in Callers, Yield(c) PROVE IInv'
  <2>1. /\ pc[c] = "detach"
        /\ pc' = [pc EXCEPT ![c] = "wait"] /\ xfer' = [xfer EXCEPT ![c] = xfer[c]]
        /\ want' = [want EXCEPT ![c] = want[c]] /\ mu' = None
        /\ UNCHANGED <<concurrencyLimit, activeTransfers, transfers, waitingTransfers, phase, key,
                       watchers, started, inactive, slotFreed, done, cancelled, released>>
        BY <1>6 DEF Yield, TypeOK, tmVars, chanVars
  <2>2. TypeOK'
        BY <2>1, ConstantsAssumption DEF TypeOK
  <2>3. Books'
    <3>1. want[c] \in Keys
          BY <2>1 DEF Books, CallerBookkeeping
    <3> QED
        BY <2>1, <3>1, CallerMoves
  <2>4. Slots'
        BY <2>1, SlotsUnchanged
  <2> QED
      BY <2>2, <2>3, <2>4 DEF IInv
<1>7. ASSUME NEW c \in Callers, Retry(c) PROVE IInv'
  <2>1. /\ pc[c] = "wait"
        /\ pc' = [pc EXCEPT ![c] = "lookup"] /\ xfer' = [xfer EXCEPT ![c] = None]
        /\ want' = [want EXCEPT ![c] = want[c]] /\ mu' = mu
        /\ UNCHANGED <<concurrencyLimit, activeTransfers, transfers, waitingTransfers, phase, key,
                       watchers, started, inactive, slotFreed, done, cancelled, released>>
        BY <1>7 DEF Retry, TypeOK, tmVars, chanVars
  <2>2. TypeOK'
        BY <2>1, ConstantsAssumption DEF TypeOK
  <2>3. Books'
    <3>1. want[c] \in Keys
          BY <2>1 DEF Books, CallerBookkeeping
    <3> QED
        BY <2>1, <3>1, CallerMoves
  <2>4. Slots'
        BY <2>1, SlotsUnchanged
  <2> QED
      BY <2>2, <2>3, <2>4 DEF IInv
<1>8. ASSUME NEW c \in Callers, NEW t \in Transfers, Begin(c, t) PROVE IInv'
  <2> DEFINE slot == concurrencyLimit = 0 \/ activeTransfers < concurrencyLimit
  <2>1. /\ pc[c] = "lookup" /\ transfers[want[c]] = None
        /\ transfers' = [transfers EXCEPT ![want[c]] = t]
        /\ phase' = [phase EXCEPT ![t] = "tracked"]
        /\ key' = [key EXCEPT ![t] = want[c]]
        /\ watchers' = [watchers EXCEPT ![t] = {c}]
        /\ inactive' = inactive \ {t} /\ slotFreed' = slotFreed \ {t}
        /\ cancelled' = cancelled \ {t} /\ done' = done \ {t} /\ released' = released \ {t}
        /\ xfer' = [xfer EXCEPT ![c] = t] /\ pc' = [pc EXCEPT ![c] = "watching"]
        /\ UNCHANGED <<mu, concurrencyLimit, want>>
        BY <1>8 DEF Begin
  <2>2. slot => /\ started' = started \cup {t} /\ activeTransfers' = activeTransfers + 1
                /\ waitingTransfers' = waitingTransfers
        BY <1>8 DEF Begin
  <2>3. ~slot => /\ started' = started \ {t} /\ activeTransfers' = activeTransfers
                 /\ waitingTransfers' = Append(waitingTransfers, t)
        BY <1>8 DEF Begin
  <2>4. want[c] \in Keys
        BY <2>1 DEF Books, CallerBookkeeping
  <2>5. phase[t] # "tracked" /\ t \notin Holding
        BY <1>8 DEF Begin, Free, Holding
  <2>6. \A d \in Callers : xfer[d] # t
    <3>1. phase[t] = "free" \/ \A d \in Callers : xfer[d] # t
          BY <1>8 DEF Begin, Free
    <3> QED
        BY <1>a, <3>1, ConstantsAssumption DEF Books, CallerBookkeeping
  <2> HIDE DEF slot
  <2>7. TypeOK'
    <3>1. /\ activeTransfers' \in Nat /\ waitingTransfers' \in Seq(Transfers)
          /\ started' \subseteq Transfers
      <4>1. CASE slot
            BY SMT, <1>e, <2>2, <4>1
      <4>2. CASE ~slot
            BY SMT, <1>e, <2>3, <4>2
      <4> QED
          BY <4>1, <4>2
    <3> QED
        BY <2>1, <2>4, <3>1 DEF TypeOK
  <2>8. Books'
    <3>1. CallerBookkeeping'
          BY <1>a, <1>b, <2>1, <2>4 DEF Books, CallerBookkeeping
    <3>2. WatcherBookkeeping'
      <4>1. watchers[t] = {}
            BY <1>d, <2>6 DEF Books, WatcherBookkeeping
      <4> QED
          BY SMT, <1>a, <1>d, <2>1, <2>6, <4>1 DEF Books, WatcherBookkeeping
    <3>3. MapBookkeeping'
      <4>1. \A k \in Keys : transfers[k] # None => transfers[k] \in Transfers \ {t}
            BY SMT, <1>c, <2>5 DEF Books, MapBookkeeping
      <4>2. \A u \in Transfers : phase[u] = "tracked" => key[u] # want[c]
            BY SMT, <2>1, ConstantsAssumption DEF Books, MapBookkeeping
      <4> QED
        <5>1. /\ phase'[t] = "tracked" /\ key'[t] = want[c] /\ transfers'[want[c]] = t
              /\ \A u \in Transfers \ {t} : phase'[u] = phase[u] /\ key'[u] = key[u]
              /\ \A k \in Keys \ {want[c]} : transfers'[k] = transfers[k]
              BY <1>b, <1>c, <2>1, <2>4
        <5> QED
            BY SMT, <2>4, <4>1, <4>2, <5>1 DEF Books, MapBookkeeping
    <3>4. StartFirst'
          BY <2>1, <2>2, <2>3 DEF Books, StartFirst
    <3>5. WatchedIsAlive'
          BY <1>a, <2>1 DEF Books, WatchedIsAlive
    <3>6. ReleasedIsUnwatched'
      <4>1. released \subseteq Transfers
            BY DEF TypeOK
      <4> QED
          BY <1>b, <1>d, <2>1, <4>1 DEF Books, ReleasedIsUnwatched
    <3> QED
        BY <3>1, <3>2, <3>3, <3>4, <3>5, <3>6 DEF Books
  <2>9. Slots'
    <3>1. CASE slot
      <4>1. Holding' = Holding \cup {t}
            BY <1>b, <1>e, <2>1, <2>2, <3>1 DEF Holding
      <4>2. IsFiniteSet(Holding') /\ Cardinality(Holding') = Cardinality(Holding) + 1
            BY <4>1, <2>5, FS_AddElement DEF Slots
      <4>3. QueueIsUnstarted'
            BY SMT, <1>b, <2>1, <2>2, <2>5, <3>1 DEF Slots, QueueIsUnstarted
      <4> QED
          BY <2>2, <3>1, <4>1, <4>2, <4>3 DEF Slots, SlotAccounting
    <3>2. CASE ~slot
      <4>1. Holding' = Holding
            BY <1>b, <1>e, <2>1, <2>3, <2>5, <3>2 DEF Holding
      <4>2. /\ Len(waitingTransfers') = Len(waitingTransfers) + 1
            /\ \A i \in 1..Len(waitingTransfers) :
                  waitingTransfers'[i] = waitingTransfers[i] /\ waitingTransfers[i] # t
            /\ waitingTransfers'[Len(waitingTransfers) + 1] = t
            BY SMT, <1>e, <2>3, <2>5, <3>2 DEF Slots, QueueIsUnstarted
      <4>3. QueueIsUnstarted'
        <5>1. /\ Len(waitingTransfers) \in Nat /\ phase'[t] = "tracked" /\ t \notin started'
              /\ \A u \in Transfers \ {t} : /\ phase'[u] = phase[u]
                                            /\ u \in started' <=> u \in started
              BY SMT, <1>b, <1>e, <2>1, <2>3, <3>2
        <5>2. QueueIsUnstarted
              BY DEF Slots
        <5>3. \A i \in 1..Len(waitingTransfers') :
                 i \in 1..Len(waitingTransfers) \/ i = Len(waitingTransfers) + 1
              BY SMT, <4>2, <5>1
        <5>4. \A i, j \in 1..Len(waitingTransfers') :
                 i # j => waitingTransfers'[i] # waitingTransfers'[j]
              BY <4>2, <5>2, <5>3 DEF QueueIsUnstarted
        <5>5. ASSUME NEW u \in Transfers \ {t}
              PROVE  (phase'[u] = "tracked" /\ u \notin started')
                        <=> \E i \in 1..Len(waitingTransfers') : waitingTransfers'[i] = u
              BY SMT, <4>2, <5>1, <5>2, <5>3 DEF QueueIsUnstarted
        <5>6. \E i \in 1..Len(waitingTransfers') : waitingTransfers'[i] = t
              BY SMT, <4>2, <5>1
        <5> QED
            BY <5>1, <5>4, <5>5, <5>6 DEF QueueIsUnstarted
      <4> QED
          BY <2>3, <3>2, <4>1, <4>3 DEF Slots, SlotAccounting
    <3> QED
        BY <3>1, <3>2
  <2> QED
      BY <2>7, <2>8, <2>9 DEF IInv
<1>9. ASSUME NEW c \in Callers, Release(c) PROVE IInv'
  <2>1. /\ pc[c] = "watching" /\ ReleaseAll(xfer[c], c) /\ pc' = [pc EXCEPT ![c] = "releasing"]
        /\ UNCHANGED <<mu, concurrencyLimit, activeTransfers, transfers, waitingTransfers, phase,
                       key, started, inactive, slotFreed, done, xfer, want>>
        BY <1>9 DEF Release, tmVars, chanVars
  <2>2. TypeOK' /\ Books'
        BY <2>1, WatcherLeaves
  <2>3. Slots'
        BY <2>1, SlotsUnchanged
  <2> QED
      BY <2>2, <2>3 DEF IInv
<1>10. ASSUME NEW c \in Callers, ReleaseReturn(c) PROVE IInv'
  <2>1. /\ pc[c] = "releasing"
        /\ pc' = [pc EXCEPT ![c] = "idle"] /\ xfer' = [xfer EXCEPT ![c] = None]
        /\ want' = [want EXCEPT ![c] = None] /\ mu' = mu
        /\ UNCHANGED <<concurrencyLimit, activeTransfers, transfers, waitingTransfers, phase, key,
                       watchers, started, inactive, slotFreed, done, cancelled, released>>
        BY <1>10 DEF ReleaseReturn, TypeOK, tmVars, chanVars
  <2>2. TypeOK'
        BY <2>1, ConstantsAssumption DEF TypeOK
  <2>3. Books'
    <3>1. TRUE
          BY <2>1 DEF Books, CallerBookkeeping
    <3> QED
        BY <2>1, <3>1, CallerMoves
  <2>4. Slots'
        BY <2>1, SlotsUnchanged
  <2> QED
      BY <2>2, <2>3, <2>4 DEF IInv
<1>11. ASSUME NEW t \in Transfers, GoInactive(t) \/ Finish(t) PROVE IInv'
  <2>1. /\ t \in started
        /\ inactive' \in {inactive, inactive \cup {t}} /\ done' \in {done, done \cup {t}}
        /\ UNCHANGED <<mu, concurrencyLimit, activeTransfers, transfers, waitingTransfers, phase,
                       key, watchers, started, slotFreed, cancelled, released, pc, xfer, want>>
        BY <1>11 DEF GoInactive, Finish, tmVars, callerVars
  <2>2. TypeOK'
        BY <2>1 DEF TypeOK
  <2>3. StartFirst'
        BY <2>1 DEF Books, StartFirst
  <2> QED
      BY <2>1, <2>2, <2>3, BooksUnchanged, SlotsUnchanged DEF IInv
<1>12. ASSUME NEW t \in Transfers, Inactivate(t) PROVE IInv'
  <2>1. /\ phase[t] = "tracked" /\ t \in inactive /\ t \notin slotFreed /\ HandOver(t)
        /\ slotFreed' = slotFreed \cup {t}
        /\ UNCHANGED <<mu, concurrencyLimit, transfers, phase, key, watchers, inactive, done,
                       cancelled, released, pc, want, xfer>>
        BY <1>12 DEF Inactivate, callerVars
  <2>2. /\ activeTransfers' \in Nat /\ waitingTransfers' \in Seq(Transfers)
        /\ started' \subseteq Transfers /\ started \subseteq started'
        /\ Slots'
    <3>1. IInv /\ t \in started /\ phase' \in [Transfers -> {"free", "tracked", "removed", "closed"}]
          BY <2>1 DEF IInv, TypeOK, Books, StartFirst
    <3> QED
        BY <2>1, <3>1, HandOverSlots
  <2>3. TypeOK'
        BY <2>1, <2>2 DEF TypeOK
  <2>4. Books'
    <3>1. StartFirst'
          BY <2>1, <2>2 DEF Books, StartFirst
    <3> QED
        BY <2>1, <3>1, BooksUnchanged
  <2> QED
      BY <2>2, <2>3, <2>4 DEF IInv
<1>13. ASSUME NEW t \in Transfers, Remove(t) PROVE IInv'
  <2>1. /\ phase[t] = "tracked" /\ t \in done
        /\ slotFreed' = slotFreed \cup {t}
        /\ transfers' = [transfers EXCEPT ![key[t]] = None]
        /\ phase' = [phase EXCEPT ![t] = "removed"]
        /\ UNCHANGED <<mu, concurrencyLimit, key, watchers, inactive, done,
                       cancelled, released, pc, want, xfer>>
        BY <1>13 DEF Remove, callerVars
  <2>a. /\ phase[t] = "tracked" /\ phase'[t] = "removed"
        /\ \A u \in Transfers \ {t} : phase'[u] = phase[u]
        BY <1>b, <2>1
  <2>b. UNCHANGED <<watchers, cancelled, released, pc, want, xfer>>
        BY <2>1
  <2>c. UNCHANGED key /\ transfers' = [transfers EXCEPT ![key[t]] = None]
        BY <2>1
  <2>d. t \in done /\ done' = done /\ inactive' = inactive /\ slotFreed' = slotFreed \cup {t}
        BY <2>1
  <2>e. released \subseteq Transfers
        BY DEF TypeOK
  <2>2. /\ activeTransfers' \in Nat /\ waitingTransfers' \in Seq(Transfers)
        /\ started' \subseteq Transfers /\ started \subseteq started'
        /\ Slots'
    <3>1. /\ IInv /\ t \in started
          /\ phase' \in [Transfers -> {"free", "tracked", "removed", "closed"}]
          BY <1>b, <2>1, <2>d DEF IInv, Books, StartFirst
    <3>2. CASE t \in slotFreed
      <4>1. UNCHANGED <<started, waitingTransfers, activeTransfers, slotFreed>>
            BY <1>13, <3>2 DEF Remove
      <4>2. Holding' = Holding
            BY <1>e, <2>a, <3>2, <4>1 DEF Holding
      <4>3. QueueIsUnstarted'
            BY SMT, <2>a, <3>1, <4>1 DEF Slots, QueueIsUnstarted
      <4> QED
          BY <1>e, <4>1, <4>2, <4>3 DEF Slots, SlotAccounting
    <3>3. CASE t \notin slotFreed
      <4>1. HandOver(t)
            BY <1>13, <3>3 DEF Remove
      <4> QED
          BY <2>a, <2>d, <3>1, <3>3, <4>1, HandOverSlots
    <3> QED
        BY <3>2, <3>3
  <2>3. TypeOK'
        BY <2>1, <2>2 DEF TypeOK
  <2>4. Books'
    <3>1. WatcherBookkeeping' /\ WatchedIsAlive'
          BY <2>b DEF Books, WatcherBookkeeping, WatchedIsAlive
    <3>2. CallerBookkeeping'
          BY <2>a, <2>b DEF Books, CallerBookkeeping
    <3>3. MapBookkeeping'
          BY SMT, <1>c, <2>a, <2>c, ConstantsAssumption DEF Books, MapBookkeeping
    <3>4. StartFirst'
          BY <2>2, <2>d DEF Books, StartFirst
    <3>5. ReleasedIsUnwatched'
          BY <2>a, <2>b, <2>e DEF Books, ReleasedIsUnwatched
    <3> QED
        BY <3>1, <3>2, <3>3, <3>4, <3>5 DEF Books
  <2> QED
      BY <2>2, <2>3, <2>4 DEF IInv
<1>14. ASSUME NEW t \in Transfers, Close(t) PROVE IInv'
  <2>1. /\ phase[t] = "removed" /\ phase' = [phase EXCEPT ![t] = "closed"]
        /\ released' = IF watchers[t] = {} THEN released \cup {t} ELSE released
        /\ UNCHANGED <<mu, concurrencyLimit, activeTransfers, transfers, waitingTransfers, key,
                       watchers, started, inactive, slotFreed, done, cancelled, pc, xfer, want>>
        BY <1>14 DEF Close, tmVars, chanVars, callerVars
  <2>a. /\ phase[t] = "removed" /\ phase'[t] = "closed"
        /\ \A u \in Transfers \ {t} : phase'[u] = phase[u]
        BY <1>b, <2>1
  <2>b. UNCHANGED <<watchers, cancelled, pc, want, xfer>>
        BY <2>1
  <2>c. UNCHANGED <<key, transfers>>
        BY <2>1
  <2>d. UNCHANGED <<activeTransfers, waitingTransfers, started, inactive, slotFreed, done>>
        BY <2>1
  <2>e. /\ released \subseteq Transfers
        /\ released' = IF watchers[t] = {} THEN released \cup {t} ELSE released
        BY <2>1 DEF TypeOK
  <2>2. TypeOK'
        BY <2>1 DEF TypeOK
  <2>3. Books'
    <3>1. WatcherBookkeeping' /\ WatchedIsAlive'
          BY <2>b DEF Books, WatcherBookkeeping, WatchedIsAlive
    <3>2. CallerBookkeeping'
          BY <2>a, <2>b DEF Books, CallerBookkeeping
    <3>3. MapBookkeeping'
          BY SMT, <1>c, <2>a, <2>c, ConstantsAssumption DEF Books, MapBookkeeping
    <3>4. StartFirst'
          BY <2>d DEF Books, StartFirst
    <3>5. ReleasedIsUnwatched'
          BY <2>a, <2>b, <2>e DEF Books, ReleasedIsUnwatched
    <3> QED
        BY <3>1, <3>2, <3>3, <3>4, <3>5 DEF Books
  <2>4. Holding' = Holding
        BY <1>e, <2>a, <2>d DEF Holding
  <2>5. QueueIsUnstarted'
        BY SMT, <2>a, <2>d DEF Slots, QueueIsUnstarted
  <2>6. Slots'
        BY <2>d, <2>4, <2>5 DEF Slots, SlotAccounting
  <2> QED
      BY <2>2, <2>3, <2>6 DEF IInv
<1>15. CASE UNCHANGED vars
  <2>1. UNCHANGED <<mu, concurrencyLimit, activeTransfers, transfers, waitingTransfers, phase, key,
                    watchers, started, inactive, slotFreed, done, cancelled, released,
                    pc, xfer, want>>
        BY <1>15 DEF vars, tmVars, chanVars, callerVars
  <2>2. TypeOK'
        BY <2>1 DEF TypeOK
  <2>3. StartFirst'
        BY <2>1 DEF Books, StartFirst
  <2> QED
      BY <2>1, <2>2, <2>3, BooksUnchanged, SlotsUnchanged DEF IInv
<1> QED
    BY <1>1, <1>2, <1>3, <1>4, <1>5, <1>6, <1>7, <1>8, <1>9, <1>10, <1>11,
       <1>12, <1>13, <1>14, <1>15 DEF Next, CallerStep, TransferStep

\* The inductive invariant holds in every reachable state.
THEOREM Invariance == Spec => []IInv
<1>1. IInv /\ UNCHANGED vars => IInv'
      BY NextIInv
<1> QED
    BY InitIInv, NextIInv, PTL DEF Spec

\* No transfer is cancelled under a caller that holds a watcher on it, however
\* the other callers join and leave (Watch, Release and the context check of
\* Transfer).
THEOREM WatchedStaysAlive == Spec => []WatchedIsAlive
  BY Invariance, PTL DEF IInv, Books

\* A key never has two tracked transfers, so the goroutine of a finished one
\* deletes its own entry of tm.transfers.
THEOREM DeduplicatesKeys == Spec => []OneTransferPerKey
<1>1. IInv => OneTransferPerKey
      BY DEF IInv, Books, MapBookkeeping, OneTransferPerKey
<1> QED
    BY <1>1, Invariance, PTL

\* Released() fires only for a forgotten transfer without watchers.
THEOREM ReleasesUnwatched == Spec => []ReleasedIsUnwatched
  BY Invariance, PTL DEF IInv, Books

\* activeTransfers counts the started transfers that still have their slot.
THEOREM CountsSlots == Spec => []SlotAccounting
  BY Invariance, PTL DEF IInv, Slots

\* The queue of start channels holds the unstarted transfers, each once.
THEOREM QueuesUnstarted == Spec => []QueueIsUnstarted
  BY Invariance, PTL DEF IInv, Slots

\* What one step can do to the slots in use and to the queue: nothing, queue a
\* transfer because no slot is free, start one in a free slot, give a slot back, or
\* hand one over.
SlotStep ==
    \/ Holding' = Holding /\ waitingTransfers' = waitingTransfers
    \/ Holding' = Holding /\ activeTransfers > 0
    \/ \E t \in Transfers \ Holding :
          /\ Holding' = Holding \cup {t} /\ waitingTransfers' = waitingTransfers
          /\ concurrencyLimit = 0 \/ activeTransfers < concurrencyLimit
    \/ \E t \in Holding : Holding' = Holding \ {t} /\ waitingTransfers' = <<>>
    \/ \E t \in Holding, h \in Transfers \ Holding : Holding' = (Holding \ {t}) \cup {h}

\* inactivate gives the slot back, or hands it over.
LEMMA HandOverSlotStep ==
    ASSUME IInv, NEW t \in Transfers,
           phase[t] = "tracked", t \notin slotFreed, t \in started,
           HandOver(t), slotFreed' = slotFreed \cup {t},
           \A u \in Transfers \ {t} : phase'[u] = phase[u]
    PROVE  SlotStep
<1>0. /\ waitingTransfers \in Seq(Transfers) /\ started \subseteq Transfers
      /\ activeTransfers \in Nat /\ concurrencyLimit \in Nat
      /\ phase \in [Transfers -> {"free", "tracked", "removed", "closed"}]
      /\ inactive \subseteq started /\ done \subseteq started /\ slotFreed \subseteq started
  BY DEF IInv, TypeOK, Books, StartFirst
<1>1. t \in Holding
  BY DEF Holding
<1>2. CASE waitingTransfers = <<>>
  <2>1. started' = started /\ waitingTransfers' = <<>>
    BY <1>2 DEF HandOver
  <2>2. Holding' = Holding \ {t}
    BY <1>0, <2>1 DEF Holding
  <2> QED BY <1>1, <2>1, <2>2 DEF SlotStep
<1>3. CASE waitingTransfers # <<>>
  <2> DEFINE h == Head(waitingTransfers)
  <2>1. h = waitingTransfers[1] /\ Len(waitingTransfers) \in Nat \ {0} /\ h \in Transfers
    BY SMT, <1>0, <1>3
  <2>2. phase[h] = "tracked" /\ h \notin started /\ h # t /\ h \notin slotFreed
    <3>1. QueueIsUnstarted
      BY DEF IInv, Slots
    <3>2. 1 \in 1..Len(waitingTransfers)
      BY SMT, <2>1
    <3> HIDE DEF h
    <3> QED BY <1>0, <2>1, <3>1, <3>2 DEF QueueIsUnstarted
  <2>3. started' = started \cup {h}
    BY <1>3 DEF HandOver
  <2> HIDE DEF h
  <2>4. Holding' = (Holding \ {t}) \cup {h} /\ h \notin Holding
    <3>1. started \subseteq Transfers
      BY <1>0
    <3> QED BY SMT, <2>1, <2>2, <2>3, <3>1 DEF Holding
  <2> QED BY <1>1, <2>1, <2>4 DEF SlotStep
<1> QED BY <1>2, <1>3

\* Every step is one of these.
LEMMA NextSlotStep == ASSUME IInv, [Next]_vars PROVE SlotStep
<1>0. /\ waitingTransfers \in Seq(Transfers) /\ started \subseteq Transfers
      /\ activeTransfers \in Nat /\ concurrencyLimit \in Nat
      /\ phase \in [Transfers -> {"free", "tracked", "removed", "closed"}]
      /\ inactive \subseteq started /\ done \subseteq started /\ slotFreed \subseteq started
  BY DEF IInv, TypeOK, Books, StartFirst
<1>1. CASE UNCHANGED <<waitingTransfers, started, slotFreed, phase>>
  BY <1>1 DEF SlotStep, Holding
<1>2. ASSUME NEW c \in Callers, NEW t \in Transfers, Begin(c, t) PROVE SlotStep
  <2>1. phase[t] # "tracked" /\ t \notin Holding
    BY <1>2 DEF Begin, Free, Holding
  <2>2. CASE concurrencyLimit = 0 \/ activeTransfers < concurrencyLimit
    <3>1. /\ started' = started \cup {t} /\ waitingTransfers' = waitingTransfers
          /\ slotFreed' = slotFreed \ {t} /\ phase' = [phase EXCEPT ![t] = "tracked"]
      BY <1>2, <2>2 DEF Begin
    <3>2. Holding' = Holding \cup {t}
      BY <1>0, <3>1 DEF Holding
    <3> QED BY <2>1, <2>2, <3>1, <3>2 DEF SlotStep
  <2>3. CASE ~(concurrencyLimit = 0 \/ activeTransfers < concurrencyLimit)
    <3>1. /\ started' = started \ {t} /\ slotFreed' = slotFreed \ {t}
          /\ phase' = [phase EXCEPT ![t] = "tracked"]
      BY <1>2, <2>3 DEF Begin
    <3>2. Holding' = Holding
      BY <1>0, <2>1, <3>1 DEF Holding
    <3> QED BY SMT, <1>0, <2>3, <3>2 DEF SlotStep
  <2> QED BY <2>2, <2>3
<1>3. ASSUME NEW t \in Transfers, Inactivate(t) PROVE SlotStep
  <2>1. /\ phase[t] = "tracked" /\ t \in inactive /\ t \notin slotFreed /\ HandOver(t)
        /\ slotFreed' = slotFreed \cup {t} /\ phase' = phase
    BY <1>3 DEF Inactivate
  <2> QED BY <1>0, <2>1, HandOverSlotStep
<1>4. ASSUME NEW t \in Transfers, Remove(t) PROVE SlotStep
  <2>0. /\ phase[t] = "tracked" /\ t \in done /\ slotFreed' = slotFreed \cup {t}
        /\ phase' = [phase EXCEPT ![t] = "removed"]
    BY <1>4 DEF Remove
  <2>1. CASE t \in slotFreed
    <3>1. started' = started /\ waitingTransfers' = waitingTransfers
      BY <1>4, <2>1 DEF Remove
    <3>2. Holding' = Holding
      BY <1>0, <2>0, <2>1, <3>1 DEF Holding
    <3> QED BY <3>1, <3>2 DEF SlotStep
  <2>2. CASE t \notin slotFreed
    <3>1. HandOver(t)
      BY <1>4, <2>2 DEF Remove
    <3> QED BY <1>0, <2>0, <2>2, <3>1, HandOverSlotStep
  <2> QED BY <2>1, <2>2
<1>5. ASSUME NEW t \in Transfers, Close(t) PROVE SlotStep
  <2>1. Holding' = Holding /\ waitingTransfers' = waitingTransfers
    BY <1>0, <1>5 DEF Close, Holding, tmVars, chanVars
  <2> QED BY <2>1 DEF SlotStep
<1>6. CASE UNCHANGED vars
  BY <1>1, <1>6 DEF vars, tmVars, chanVars
<1>7. ASSUME NEW c \in Callers,
             \/ \E k \in Keys : Call(c, k)
             \/ Join(c) \/ Return(c) \/ Reject(c) \/ Yield(c) \/ Retry(c)
             \/ Release(c) \/ ReleaseReturn(c)
      PROVE  SlotStep
  BY <1>1, <1>7 DEF Call, Join, Return, Reject, Yield, Retry, Release, ReleaseReturn,
     tmVars, chanVars
<1>8. ASSUME NEW t \in Transfers, GoInactive(t) \/ Finish(t) PROVE SlotStep
  BY <1>1, <1>8 DEF GoInactive, Finish, tmVars
<1>9. ASSUME NEW n \in Limits, SetConcurrency(n) PROVE SlotStep
  BY <1>1, <1>9 DEF SetConcurrency, chanVars
<1> QED
  BY <1>2, <1>3, <1>4, <1>5, <1>6, <1>7, <1>8, <1>9 DEF Next, CallerStep, TransferStep

\* Transfers wait only while a slot is in use that will be handed to them, however often
\* SetConcurrency has changed the limit since they were queued.
THEOREM QueueIsServed == Spec => []QueueHasDonor
<1> DEFINE J == IInv /\ QueueHasDonor
<1>1. Init => J
  BY InitIInv DEF Init, QueueHasDonor
<1>2. J /\ [Next]_vars => J'
  <2> SUFFICES ASSUME J, [Next]_vars PROVE J'
    OBVIOUS
  <2>1. IInv' /\ SlotStep
    BY NextIInv, NextSlotStep
  <2>2. activeTransfers > 0 => Holding # {}
    BY SMT, FS_EmptySet DEF IInv, Slots, SlotAccounting
  <2>3. QueueHasDonor'
    BY <2>1, <2>2 DEF SlotStep, QueueHasDonor
  <2> QED BY <2>1, <2>3
<1> QED BY <1>1, <1>2, PTL DEF Spec

\* A step starts a transfer only within the limit in force, or in a slot it takes over:
\* lowering the limit with SetConcurrency never lets more data move.
THEOREM StartsAreLimited == Spec => StartsWithinLimit
<1>1. ASSUME IInv, [Next]_vars
      PROVE  [ LET n  == Cardinality(Holding)
                   n2 == Cardinality(Holding')
               IN  n2 > n => concurrencyLimit = 0 \/ n2 <= concurrencyLimit ]_vars
  <2> DEFINE H == Holding
             K == Holding'
  <2>1. /\ IsFiniteSet(H) /\ Cardinality(H) \in Nat /\ activeTransfers = Cardinality(H)
        /\ concurrencyLimit \in Nat
    BY <1>1, FS_CardinalityType DEF IInv, TypeOK, Slots, SlotAccounting
  <2>2. SlotStep
    BY <1>1, NextSlotStep
  <2>3. \/ K = H
        \/ /\ concurrencyLimit = 0 \/ activeTransfers < concurrencyLimit
           /\ \E t : t \notin H /\ K = H \cup {t}
        \/ \E t \in H : K = H \ {t}
        \/ \E t \in H : \E h : h \notin H /\ K = (H \ {t}) \cup {h}
    BY <2>2 DEF SlotStep
  <2> HIDE DEF H, K
  <2>4. ASSUME NEW t, t \notin H, K = H \cup {t}
        PROVE  Cardinality(K) = Cardinality(H) + 1
    BY <2>1, <2>4, FS_AddElement
  <2>5. ASSUME NEW t \in H PROVE /\ IsFiniteSet(H \ {t}) /\ Cardinality(H \ {t}) = Cardinality(H) - 1
                                 /\ \A h : h \notin H => Cardinality((H \ {t}) \cup {h}) = Cardinality(H)
    <3>1. IsFiniteSet(H \ {t}) /\ Cardinality(H \ {t}) = Cardinality(H) - 1
      BY <2>1, FS_RemoveElement
    <3>2. ASSUME NEW h, h \notin H
          PROVE  Cardinality((H \ {t}) \cup {h}) = Cardinality(H)
      <4> DEFINE G == H \ {t}
      <4>1. IsFiniteSet(G) /\ h \notin G
        BY <3>1, <3>2
      <4>2. Cardinality(G \cup {h}) = Cardinality(G) + 1
        BY <4>1, FS_AddElement
      <4> QED BY SMT, <2>1, <3>1, <4>2
    <3> QED BY <3>1, <3>2
  <2>6. Cardinality(K) > Cardinality(H)
           => concurrencyLimit = 0 \/ Cardinality(K) <= concurrencyLimit
    <3>1. CASE K = H
      BY SMT, <2>1, <3>1
    <3>2. CASE /\ concurrencyLimit = 0 \/ activeTransfers < concurrencyLimit
               /\ \E t : t \notin H /\ K = H \cup {t}
      BY SMT, <2>1, <2>4, <3>2
    <3>3. CASE \E t \in H : K = H \ {t}
      <4>1. PICK t \in H : K = H \ {t}
        BY <3>3
      <4>2. Cardinality(K) = Cardinality(H) - 1
        BY <2>5, <4>1, Zenon
      <4> QED BY SMT, <2>1, <4>2
    <3>4. CASE \E t \in H : \E h : h \notin H /\ K = (H \ {t}) \cup {h}
      <4>1. PICK t \in H : \E h : h \notin H /\ K = (H \ {t}) \cup {h}
        BY <3>4
      <4>h. PICK h : h \notin H /\ K = (H \ {t}) \cup {h}
        BY <4>1
      <4>2. Cardinality(K) = Cardinality(H)
        BY <2>5, <4>h, Zenon
      <4> QED BY SMT, <2>1, <4>2
    <3> QED BY <2>3, <3>1, <3>2, <3>3, <3>4
  <2> QED BY <2>6 DEF H, K
<1> QED BY <1>1, Invariance, PTL DEF Spec, StartsWithinLimit

\* The variables keep their types; activeTransfers never goes below zero.
THEOREM TypeCorrect == Spec => []TypeOK
  BY Invariance, PTL DEF IInv

\* What the refinement needs beyond IInv: tm.mu is held from Watch to the check
\* of the context, so the transfer is not removed in between; a transfer that
\* is gone from the map is done.
Sections ==
    /\ \A c \in Callers : pc[c] \in {"check", "detach"} => mu = c
    /\ \A c \in Callers : pc[c] = "check" => phase[xfer[c]] = "tracked"
    /\ \A t \in Transfers : /\ phase[t] = "free" => t \notin started
                            /\ phase[t] \in {"removed", "closed"} => t \in done

\* Sections is inductive relative to IInv.
LEMMA SectionsHold == Spec => []Sections
<1> USE DEF tmVars, chanVars, callerVars
<1>1. Init => Sections
      BY ConstantsAssumption DEF Init, Sections
<1>2. ASSUME IInv, Sections, [Next]_vars PROVE Sections'
  <2>0. /\ pc \in [Callers -> {"idle", "lookup", "check", "detach", "wait", "watching",
                              "releasing"}]
        /\ xfer \in [Callers -> Transfers \cup {None}]
        /\ phase \in [Transfers -> {"free", "tracked", "removed", "closed"}]
        /\ None \notin Callers
        /\ \A c \in Callers : pc[c] \in {"check", "detach"} =>
              /\ xfer[c] \in Transfers /\ mu = c
              /\ pc[c] = "check" => phase[xfer[c]] = "tracked"
        /\ \A t \in Transfers : /\ phase[t] = "free" => t \notin started
                                /\ phase[t] \in {"removed", "closed"} => t \in done
        BY <1>2, ConstantsAssumption DEF IInv, TypeOK, Books, CallerBookkeeping, Sections
  <2>1. ASSUME NEW n \in Limits, SetConcurrency(n) PROVE Sections'
        BY <2>0, <2>1 DEF SetConcurrency, Sections
  <2>2. ASSUME NEW c \in Callers, NEW k \in Keys, Call(c, k) PROVE Sections'
        BY <2>0, <2>2 DEF Call, Sections
  <2>3. ASSUME NEW c \in Callers, Join(c) PROVE Sections'
    <3>1. /\ transfers[want[c]] \in Transfers
          /\ phase[transfers[want[c]]] = "tracked"
      <4>1. pc[c] = "lookup" /\ transfers[want[c]] # None
            BY <2>3 DEF Join
      <4>2. want[c] \in Keys
            BY <1>2, <4>1 DEF IInv, Books, CallerBookkeeping
      <4> QED
        <5>1. transfers \in [Keys -> Transfers \cup {None}]
              BY <1>2 DEF IInv, TypeOK
        <5>2. MapBookkeeping
              BY <1>2 DEF IInv, Books
        <5> QED
            BY SMT, <4>1, <4>2, <5>1, <5>2 DEF MapBookkeeping
    <3>2. /\ xfer' = [xfer EXCEPT ![c] = transfers[want[c]]]
          /\ pc' = [pc EXCEPT ![c] = "check"]
          /\ mu' = c /\ mu = None /\ UNCHANGED <<phase, started, done>>
          BY <2>3 DEF Join, chanVars
    <3> QED
        BY <2>0, <3>1, <3>2 DEF Sections
  <2>4. ASSUME NEW c \in Callers, Return(c) PROVE Sections'
        BY <2>0, <2>4 DEF Return, Sections
  <2>5. ASSUME NEW c \in Callers, Reject(c) PROVE Sections'
        BY <2>0, <2>5 DEF Reject, Sections
  <2>6. ASSUME NEW c \in Callers, Yield(c) PROVE Sections'
        BY <2>0, <2>6 DEF Yield, Sections
  <2>7. ASSUME NEW c \in Callers, Retry(c) PROVE Sections'
        BY <2>0, <2>7 DEF Retry, Sections
  <2>8. ASSUME NEW c \in Callers, NEW t \in Transfers, Begin(c, t) PROVE Sections'
    <3>1. started' \subseteq started \cup {t}
          BY <2>8 DEF Begin
    <3>2. \A d \in Callers : pc[d] = "check" => xfer[d] # t
          BY <2>0, <2>8 DEF Begin, Free
    <3>3. /\ phase' = [phase EXCEPT ![t] = "tracked"] /\ done' = done \ {t}
          /\ xfer' = [xfer EXCEPT ![c] = t] /\ pc' = [pc EXCEPT ![c] = "watching"]
          /\ pc[c] = "lookup" /\ mu = None /\ UNCHANGED mu
          BY <2>8 DEF Begin
    <3> QED
        BY <2>0, <3>1, <3>2, <3>3 DEF Sections
  <2>9. ASSUME NEW c \in Callers, Release(c) PROVE Sections'
        BY <2>0, <2>9 DEF Release, Sections
  <2>10. ASSUME NEW c \in Callers, ReleaseReturn(c) PROVE Sections'
        BY <2>0, <2>10 DEF ReleaseReturn, Sections
  <2>11. ASSUME NEW t \in Transfers, GoInactive(t) \/ Finish(t) PROVE Sections'
        BY <2>0, <2>11 DEF GoInactive, Finish, Sections
  <2>12. ASSUME NEW t \in Transfers, HandOver(t)
         PROVE  \A u \in started' : u \in started \/ phase[u] = "tracked"
    <3>1. CASE t \in started /\ waitingTransfers # <<>>
      <4>1. Head(waitingTransfers) = waitingTransfers[1] /\ 1 \in 1..Len(waitingTransfers)
            /\ Head(waitingTransfers) \in Transfers
        <5>1. waitingTransfers \in Seq(Transfers)
              BY <1>2 DEF IInv, TypeOK
        <5> QED
            BY SMT, <3>1, <5>1
      <4>2. phase[Head(waitingTransfers)] = "tracked"
            BY <1>2, <4>1 DEF IInv, Slots, QueueIsUnstarted
      <4> QED
          BY <2>12, <3>1, <4>2 DEF HandOver
    <3> QED
        BY <2>12, <3>1 DEF HandOver
  <2>13. ASSUME NEW t \in Transfers, Inactivate(t) PROVE Sections'
        BY <2>0, <2>12, <2>13 DEF Inactivate, Sections
  <2>14. ASSUME NEW t \in Transfers, Remove(t) PROVE Sections'
    <3>1. \A u \in started' : u \in started \/ phase[u] = "tracked"
          BY <2>12, <2>14 DEF Remove
    <3>2. /\ phase' = [phase EXCEPT ![t] = "removed"] /\ t \in done /\ mu = None
          /\ phase[t] = "tracked" /\ UNCHANGED <<mu, pc, xfer, done>>
          BY <2>14 DEF Remove
    <3> QED
        BY <2>0, <3>1, <3>2 DEF Sections
  <2>15. ASSUME NEW t \in Transfers, Close(t) PROVE Sections'
        BY <2>0, <2>15 DEF Close, Sections
  <2>16. CASE UNCHANGED vars
        BY <2>0, <2>16 DEF vars, Sections
  <2> QED
      BY <1>2, <2>1, <2>2, <2>3, <2>4, <2>5, <2>6, <2>7, <2>8, <2>9, <2>10, <2>11, <2>13,
         <2>14, <2>15, <2>16 DEF Next, CallerStep, TransferStep
<1> QED
    BY <1>1, <1>2, Invariance, PTL DEF Spec

\* The transfer manager implements SharedTransfers: Join on a transfer that is
\* not cancelled, Begin, Release, and the end of a transfer are its steps, and
\* the detour over a cancelled transfer (Watch, Release, wait, look again) and
\* all handling of slots are invisible there.
THEOREM Implements == Spec => ImplementsShared
<1>1. Init => Shared!Init
      BY DEF Init, viewers, Shared!Init
<1>2. ASSUME IInv, Sections, [Next]_vars PROVE [Shared!Next]_(Shared!vars)
  <2> USE DEF tmVars, chanVars, callerVars
  <2>0. /\ transfers \in [Keys -> Transfers \cup {None}]
        /\ phase \in [Transfers -> {"free", "tracked", "removed", "closed"}]
        /\ watchers \in [Transfers -> SUBSET Callers]
        /\ None \notin Transfers /\ None \notin Callers
        /\ \A c \in Callers : pc[c] # "idle" => want[c] \in Keys
        /\ \A c \in Callers : pc[c] \in {"check", "watching"} =>
              xfer[c] \in Transfers /\ c \in watchers[xfer[c]]
        BY <1>2, ConstantsAssumption
        DEF IInv, TypeOK, Books, WatcherBookkeeping, CallerBookkeeping
  <2>1. ASSUME NEW n \in Limits, SetConcurrency(n) PROVE UNCHANGED Shared!vars
        BY <2>1 DEF SetConcurrency, viewers, Shared!vars
  <2>2. ASSUME NEW c \in Callers, NEW k \in Keys, Call(c, k) PROVE UNCHANGED Shared!vars
        BY <2>2 DEF Call, viewers, Shared!vars
  <2>3. ASSUME NEW c \in Callers, Join(c)
        PROVE  (want[c] \in Keys /\ Shared!Join(c, want[c])) \/ UNCHANGED Shared!vars
    <3> DEFINE t == transfers[want[c]]
    <3>1. want[c] \in Keys /\ t \in Transfers
          BY <2>0, <2>3 DEF Join
    <3>2. /\ watchers' = [watchers EXCEPT ![t] = @ \cup {c}]
          /\ UNCHANGED <<transfers, phase, key, cancelled, done, released>>
          BY <2>3 DEF Join
    <3>3. CASE t \in cancelled
      <4>1. viewers' = viewers
            BY <2>0, <3>1, <3>2, <3>3 DEF viewers
      <4> QED
          BY <3>2, <4>1 DEF Shared!vars
    <3>4. CASE t \notin cancelled
      <4>1. viewers' = [viewers EXCEPT ![t] = @ \cup {c}]
        <5>1. \A u \in Transfers : watchers'[u] = IF u = t THEN watchers[t] \cup {c}
                                                           ELSE watchers[u]
              BY <2>0, <3>1, <3>2
        <5> HIDE DEF t
        <5> QED
            BY <3>1, <3>2, <3>4, <5>1 DEF viewers
      <4>2. t # None
            BY <2>3 DEF Join
      <4> QED
          BY <3>1, <3>2, <3>4, <4>1, <4>2 DEF Shared!Join
    <3> QED
        BY <3>3, <3>4
  <2>4. ASSUME NEW c \in Callers, Return(c) PROVE UNCHANGED Shared!vars
        BY <2>4 DEF Return, viewers, Shared!vars
  <2>5. ASSUME NEW c \in Callers, Reject(c) PROVE UNCHANGED Shared!vars
    <3>1. /\ xfer[c] \in Transfers /\ xfer[c] \in cancelled
          /\ phase[xfer[c]] = "tracked"
          BY <1>2, <2>0, <2>5 DEF Reject, Sections
    <3>2. /\ watchers' = [watchers EXCEPT ![xfer[c]] = @ \ {c}]
          /\ UNCHANGED <<transfers, phase, key, cancelled, done, released>>
          BY <2>5, <3>1 DEF Reject, ReleaseAll
    <3>3. viewers' = viewers
          BY <2>0, <3>1, <3>2 DEF viewers
    <3> QED
        BY <3>2, <3>3 DEF Shared!vars
  <2>6. ASSUME NEW c \in Callers, Yield(c) \/ Retry(c) \/ ReleaseReturn(c)
        PROVE  UNCHANGED Shared!vars
        BY <2>6 DEF Yield, Retry, ReleaseReturn, viewers, Shared!vars
  <2>7. ASSUME NEW c \in Callers, NEW t \in Transfers, Begin(c, t)
        PROVE  Shared!Begin(c, want[c], t) /\ want[c] \in Keys
    <3>1. /\ want[c] \in Keys /\ transfers[want[c]] = None
          /\ phase[t] = "free" \/ (phase[t] = "closed" /\ t \in released)
          /\ watchers' = [watchers EXCEPT ![t] = {c}]
          /\ cancelled' = cancelled \ {t}
          BY <2>0, <2>7 DEF Begin, Free
    <3>2. viewers' = [viewers EXCEPT ![t] = {c}]
          BY <2>0, <3>1 DEF viewers
    <3> QED
        BY <2>7, <3>1, <3>2 DEF Begin, Shared!Begin
  <2>8. ASSUME NEW c \in Callers, Release(c)
        PROVE  Shared!Leave(c, xfer[c]) /\ xfer[c] \in Transfers
    <3> DEFINE t == xfer[c]
    <3>1. /\ t \in Transfers /\ t \notin cancelled /\ c \in watchers[t]
          /\ ReleaseAll(t, c)
          /\ UNCHANGED <<transfers, phase, key, done>>
          BY <1>2, <2>0, <2>8 DEF Release, IInv, Books, WatchedIsAlive
    <3>2. viewers[t] = watchers[t] /\ (watchers[t] \ {c} = {} <=> watchers[t] = {c})
          BY <3>1 DEF viewers
    <3>3. viewers' = [viewers EXCEPT ![t] = @ \ {c}]
      <4>1. watchers' = [watchers EXCEPT ![t] = @ \ {c}]
            BY <3>1 DEF ReleaseAll
      <4>2. /\ \A u \in Transfers \ {t} : u \in cancelled' <=> u \in cancelled
            /\ t \in cancelled' => watchers[t] \ {c} = {}
            BY <3>1 DEF ReleaseAll
      <4>3. \A u \in Transfers : watchers'[u] = IF u = t THEN watchers[t] \ {c}
                                                         ELSE watchers[u]
            BY <2>0, <3>1, <4>1
      <4> HIDE DEF t
      <4> QED
          BY <3>1, <4>2, <4>3 DEF viewers
    <3> QED
        BY <3>1, <3>2, <3>3 DEF ReleaseAll, Shared!Leave
  <2>9. ASSUME NEW t \in Transfers, GoInactive(t) PROVE UNCHANGED Shared!vars
        BY <2>9 DEF GoInactive, viewers, Shared!vars
  <2>10. ASSUME NEW t \in Transfers, Finish(t) PROVE Shared!Finish(t)
    <3>1. phase[t] = "tracked"
          BY <1>2, <2>0, <2>10 DEF Finish, Sections
    <3> QED
        BY <2>10, <3>1 DEF Finish, viewers, Shared!Finish
  <2>11. ASSUME NEW t \in Transfers, Inactivate(t) PROVE UNCHANGED Shared!vars
        BY <2>11 DEF Inactivate, viewers, Shared!vars
  <2>12. ASSUME NEW t \in Transfers, Remove(t) PROVE Shared!Remove(t)
        BY <2>12 DEF Remove, viewers, Shared!Remove
  <2>13. ASSUME NEW t \in Transfers, Close(t) PROVE Shared!Close(t)
    <3>1. phase[t] = "removed"
          BY <2>13 DEF Close
    <3>2. viewers[t] = {} <=> watchers[t] = {}
      <4>1. t \in cancelled => watchers[t] = {}
        <5> SUFFICES ASSUME t \in cancelled, NEW c \in watchers[t] PROVE FALSE
            OBVIOUS
        <5>1. c \in Callers /\ pc[c] \in {"check", "watching"} /\ xfer[c] = t
              BY <1>2, <2>0 DEF IInv, Books, WatcherBookkeeping
        <5> QED
            BY <1>2, <3>1, <5>1 DEF IInv, Books, WatchedIsAlive, Sections
      <4> QED
          BY <4>1 DEF viewers
    <3> QED
        BY <2>13, <3>2 DEF Close, viewers, Shared!Close
  <2>14. CASE UNCHANGED vars
        BY <2>14 DEF vars, viewers, Shared!vars
  <2>15. CASE \E c \in Callers : CallerStep(c)
         BY <2>2, <2>3, <2>4, <2>5, <2>6, <2>7, <2>8, <2>15 DEF CallerStep, Shared!Next
  <2>16. CASE \E t \in Transfers : TransferStep(t)
         BY <2>9, <2>10, <2>11, <2>12, <2>13, <2>16 DEF TransferStep, Shared!Next
  <2> QED
      BY <1>2, <2>1, <2>14, <2>15, <2>16 DEF Next
<1> QED
    BY <1>1, <1>2, Invariance, SectionsHold, PTL DEF Spec, ImplementsShared, Shared!Spec
=============================================================================
