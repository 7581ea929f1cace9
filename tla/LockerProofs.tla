----------------------------- MODULE LockerProofs -----------------------------
(***************************************************************************)
(* Proofs about Locker, for any finite set of callers and any names and    *)
(* lockCtr objects.  The inductive invariant says that a caller between    *)
(* the look-up and Unlock uses the lockCtr its name has in the map, and    *)
(* that waiters counts the callers that have looked it up and not yet      *)
(* counted down; so an Unlock that sees zero drops a lockCtr only when     *)
(* nobody else can be using it.                                            *)
(***************************************************************************)
EXTENDS Locker, FiniteSetTheorems, TLAPS

\* Zenon unless a leaf says SMT: most steps are first-order.
USE Zenon

Waiting(l) == {p \in Procs : ctr[p] = l /\ pc[p] \in {"waiting", "locked"}}

\* What a caller works with is what the map has for its name.
UsesMap ==
    \A p \in Procs :
        /\ pc[p] = "idle" => name[p] = None /\ ctr[p] = None
        /\ pc[p] # "idle" => name[p] \in Names /\ ctr[p] \in Ctrs /\ locks[name[p]] = ctr[p]

\* No lockCtr serves two names.
OneName == \A m, n \in Names : locks[m] = locks[n] /\ locks[m] # None => m = n

Owns == \A p \in Procs : InLock(p) => owner[ctr[p]] = p

Counts == \A n \in Names : locks[n] # None => waiters[locks[n]] = Cardinality(Waiting(locks[n]))

IInv == TypeOK /\ UsesMap /\ OneName /\ Owns /\ Counts /\ NoStaleLocks /\ failed = {}

\* The callers that use a lockCtr are finitely many.
LEMMA WaitingFinite == \A l : IsFiniteSet(Waiting(l))
  BY FS_Subset, ConstantsAssumption DEF Waiting

\* The invariant holds for an empty map.
LEMMA InitIInv == Init => IInv
  BY SMT, ConstantsAssumption
     DEF Init, IInv, TypeOK, UsesMap, OneName, Owns, Counts, NoStaleLocks, InLock

\* Waiting sets that a step leaves alone keep their count.
LEMMA LookupIInv ==
  ASSUME IInv, NEW p \in Procs, NEW n \in Names, NEW l \in Ctrs, Lookup(p, n, l)
  PROVE  IInv'
  <1> USE ConstantsAssumption DEF IInv
  <1>1. pc[p] = "idle" /\ ctr[p] = None /\ name[p] = None
    BY DEF Lookup, UsesMap
  <1>2. /\ locks' = [locks EXCEPT ![n] = l]
        /\ \A m \in Names : m # n => locks[m] # l
        /\ locks[n] \in {l, None}
    BY SMT DEF Lookup, Unused, OneName, TypeOK
  <1>3. TypeOK'
    BY SMT, <1>2 DEF TypeOK, Lookup
  <1>4. UsesMap'
    <2> SUFFICES ASSUME NEW q \in Procs
                 PROVE  /\ pc'[q] = "idle" => name'[q] = None /\ ctr'[q] = None
                        /\ pc'[q] # "idle" => /\ name'[q] \in Names /\ ctr'[q] \in Ctrs
                                              /\ locks'[name'[q]] = ctr'[q]
      BY DEF UsesMap
    <2>1. CASE q = p  BY <2>1, <1>2 DEF Lookup, TypeOK
    <2>2. CASE q # p
      <3>1. pc'[q] = pc[q] /\ name'[q] = name[q] /\ ctr'[q] = ctr[q]
        BY <2>2 DEF Lookup, TypeOK
      <3>2. CASE pc[q] = "idle"  BY <3>1, <3>2 DEF UsesMap
      <3>3. CASE pc[q] # "idle"
        BY SMT, <3>1, <3>3, <1>2 DEF UsesMap, TypeOK
      <3> QED BY <3>2, <3>3
    <2> QED BY <2>1, <2>2
  <1>5. OneName'
    BY <1>2 DEF OneName, TypeOK
  <1>6. Owns'
    <2> SUFFICES ASSUME NEW q \in Procs, InLock(q)'  PROVE owner'[ctr'[q]] = q
      BY DEF Owns
    <2>1. q # p /\ pc'[q] = pc[q] /\ ctr'[q] = ctr[q] /\ InLock(q)
      BY DEF Lookup, TypeOK, InLock
    <2>2. owner[ctr[q]] = q /\ ctr[q] \in Ctrs
      BY <2>1 DEF Owns, UsesMap, InLock
    <2>3. CASE locks[n] = l  BY <2>1, <2>2, <2>3 DEF Lookup
    <2>4. CASE locks[n] # l
      <3>1. Unused(l) /\ owner' = [owner EXCEPT ![l] = None]
        BY <2>4 DEF Lookup
      <3> QED BY <3>1, <2>1, <2>2 DEF Unused, TypeOK
    <2> QED BY <2>3, <2>4
  <1>7. Counts'
    <2> SUFFICES ASSUME NEW m \in Names, locks'[m] # None
                 PROVE  waiters'[locks'[m]] = Cardinality(Waiting(locks[m])')
      BY DEF Counts
    <2>1. CASE m # n
      <3>1. locks'[m] = locks[m] /\ locks[m] # l /\ locks[m] \in Ctrs
        BY <2>1, <1>2 DEF TypeOK
      <3>2. waiters'[locks[m]] = waiters[locks[m]]
        BY <3>1 DEF Lookup, TypeOK
      <3>3. Waiting(locks[m])' = Waiting(locks[m])
        BY <3>1, <1>1 DEF Waiting, Lookup, TypeOK
      <3> QED BY <3>1, <3>2, <3>3 DEF Counts
    <2>2. CASE m = n
      <3>1. locks'[m] = l  BY <2>2, <1>2 DEF TypeOK
      <3>2. Waiting(l)' = Waiting(l) \cup {p} /\ p \notin Waiting(l)
        BY SMT, <1>1 DEF Waiting, Lookup, TypeOK
      <3>3. Cardinality(Waiting(l) \cup {p}) = Cardinality(Waiting(l)) + 1
        BY <3>2, WaitingFinite, FS_AddElement
      <3>6. Waiting(locks[m])' = Waiting(l)'  BY <3>1 DEF Waiting
      <3>4. CASE locks[n] = l
        <4>1. waiters[l] = Cardinality(Waiting(l)) /\ l # None  BY <3>4 DEF Counts
        <4>2. waiters'[l] = waiters[l] + 1  BY <3>4 DEF Lookup, TypeOK
        <4> QED BY <4>1, <4>2, <3>1, <3>2, <3>3, <3>6
      <3>5. CASE locks[n] # l
        <4>1. Unused(l) /\ waiters' = [waiters EXCEPT ![l] = 1]
          BY <3>5 DEF Lookup
        <4>2. Waiting(l) = {}  BY <4>1 DEF Unused, Waiting
        <4>3. Cardinality(Waiting(l)) = 0  BY <4>2, FS_EmptySet
        <4>4. waiters'[l] = 1  BY <4>1 DEF TypeOK
        <4> QED BY SMT, <4>3, <4>4, <3>1, <3>2, <3>3, <3>6
      <3> QED BY <3>4, <3>5
    <2> QED BY <2>1, <2>2
  <1>8. NoStaleLocks'
    <2> SUFFICES ASSUME NEW m \in Names, locks'[m] # None
                 PROVE  \E q \in Procs : name'[q] = m
      BY DEF NoStaleLocks
    <2>1. name'[p] = n  BY DEF Lookup, TypeOK
    <2>2. CASE m # n
      <3>1. locks[m] # None  BY <2>2, <1>2 DEF TypeOK
      <3>2. PICK q \in Procs : name[q] = m  BY <3>1 DEF NoStaleLocks
      <3>3. q # p  BY <3>2, <1>1
      <3> QED BY <3>2, <3>3 DEF Lookup, TypeOK
    <2> QED BY <2>1, <2>2
  <1>9. failed' = {}  BY DEF Lookup
  <1> QED BY <1>3, <1>4, <1>5, <1>6, <1>7, <1>8, <1>9

\* It is kept when a caller gets the mutex of its lockCtr.
LEMMA AcquireIInv == ASSUME IInv, NEW p \in Procs, Acquire(p) PROVE IInv'
  <1> USE ConstantsAssumption DEF IInv
  <1>1. ctr[p] \in Ctrs /\ locks[name[p]] = ctr[p]
    BY DEF Acquire, UsesMap
  <1>2. TypeOK'  BY <1>1 DEF TypeOK, Acquire
  <1>3. UsesMap'  BY DEF UsesMap, Acquire, TypeOK
  <1>4. OneName' /\ failed' = {}  BY DEF OneName, Acquire
  <1>5. Owns'
    <2> SUFFICES ASSUME NEW q \in Procs, InLock(q)'  PROVE owner'[ctr'[q]] = q
      BY DEF Owns
    <2>1. CASE q = p  BY <2>1, <1>1 DEF Acquire, TypeOK
    <2>2. CASE q # p
      <3>1. InLock(q) /\ owner[ctr[q]] = q
        BY <2>2 DEF InLock, Acquire, TypeOK, Owns
      <3>2. ctr[q] # ctr[p]  BY <3>1 DEF Acquire
      <3> QED BY SMT, <3>1, <3>2 DEF Acquire, TypeOK
    <2> QED BY <2>1, <2>2
  <1>6. \A l : Waiting(l)' = Waiting(l)
    BY DEF Waiting, Acquire, TypeOK
  <1>7. Counts'  BY <1>6 DEF Counts, Acquire
  <1>8. NoStaleLocks'  BY DEF NoStaleLocks, Acquire
  <1> QED BY <1>2, <1>3, <1>4, <1>5, <1>7, <1>8

\* It is kept when a caller counts itself down.
LEMMA DecIInv == ASSUME IInv, NEW p \in Procs, Dec(p) PROVE IInv'
  <1> USE ConstantsAssumption DEF IInv
  <1>1. /\ ctr[p] \in Ctrs /\ name[p] \in Names /\ locks[name[p]] = ctr[p]
        /\ pc[p] = "locked"
    BY DEF Dec, UsesMap
  <1>2. p \in Waiting(ctr[p])  BY <1>1 DEF Waiting
  <1>3. waiters[ctr[p]] = Cardinality(Waiting(ctr[p]))
    BY <1>1 DEF Counts
  <1>4. /\ Cardinality(Waiting(ctr[p]) \ {p}) = Cardinality(Waiting(ctr[p])) - 1
        /\ Cardinality(Waiting(ctr[p]) \ {p}) \in Nat
    <2>1. IsFiniteSet(Waiting(ctr[p]))  BY WaitingFinite
    <2>2. Cardinality(Waiting(ctr[p]) \ {p}) = Cardinality(Waiting(ctr[p])) - 1
      BY <2>1, <1>2, FS_RemoveElement
    <2>3. IsFiniteSet(Waiting(ctr[p]) \ {p})  BY <2>1, FS_RemoveElement
    <2> QED BY <2>2, <2>3, FS_CardinalityType
  <1>5. waiters' = [waiters EXCEPT ![ctr[p]] = Cardinality(Waiting(ctr[p]) \ {p})]
    BY <1>3, <1>4 DEF Dec
  <1>6. TypeOK'  BY SMT, <1>1, <1>4, <1>5 DEF TypeOK, Dec
  <1>7. UsesMap'  BY DEF UsesMap, Dec, TypeOK
  <1>8. OneName' /\ failed' = {} /\ NoStaleLocks'
    BY DEF OneName, NoStaleLocks, Dec
  <1>9. Owns'  BY DEF Owns, InLock, Dec, TypeOK
  <1>10. Counts'
    <2> SUFFICES ASSUME NEW m \in Names, locks[m] # None
                 PROVE  waiters'[locks[m]] = Cardinality(Waiting(locks[m])')
      BY DEF Counts, Dec
    <2>1. CASE locks[m] = ctr[p]
      <3>1. Waiting(locks[m])' = Waiting(ctr[p]) \ {p}
        BY <2>1 DEF Waiting, Dec, TypeOK
      <3>2. waiters'[ctr[p]] = Cardinality(Waiting(ctr[p]) \ {p})
        BY <1>1, <1>5 DEF TypeOK
      <3> QED BY <2>1, <3>1, <3>2
    <2>2. CASE locks[m] # ctr[p]
      <3>1. Waiting(locks[m])' = Waiting(locks[m])
        BY <2>2 DEF Waiting, Dec, TypeOK
      <3>2. waiters'[locks[m]] = waiters[locks[m]]
        BY <2>2, <1>5 DEF TypeOK
      <3> QED BY <3>1, <3>2 DEF Counts
    <2> QED BY <2>1, <2>2
  <1> QED BY <1>6, <1>7, <1>8, <1>9, <1>10

\* It is kept by Unlock, which may drop the lockCtr from the map.
LEMMA UnlockIInv == ASSUME IInv, NEW p \in Procs, Unlock(p) PROVE IInv'
  <1> USE ConstantsAssumption DEF IInv
  <1> DEFINE n == name[p]
  <1> DEFINE l == locks[n]
  <1>1. /\ n \in Names /\ l \in Ctrs /\ l = ctr[p] /\ l # None /\ pc[p] = "held"
    BY DEF Unlock, UsesMap
  <1>2. /\ locks' = IF waiters[l] = 0 THEN [locks EXCEPT ![n] = None] ELSE locks
        /\ owner' = [owner EXCEPT ![l] = None]
        /\ waiters' = waiters /\ failed' = {}
        /\ pc' = [pc EXCEPT ![p] = "idle"] /\ name' = [name EXCEPT ![p] = None]
        /\ ctr' = [ctr EXCEPT ![p] = None]
    BY <1>1 DEF Unlock
  <1> HIDE DEF n, l
  <1>3. TypeOK'  BY <1>1, <1>2 DEF TypeOK
  <1>4. \A k \in Ctrs : Waiting(k)' = Waiting(k)
    BY <1>1, <1>2 DEF Waiting, TypeOK
  <1>5. waiters[l] = 0 => Waiting(l) = {}
    <2>1. waiters[l] = Cardinality(Waiting(l))  BY <1>1 DEF Counts, l
    <2> QED BY <2>1, WaitingFinite, FS_EmptySet
  <1>6. \A q \in Procs : InLock(q) /\ ctr[q] = l => q = p
    BY <1>1 DEF Owns, InLock
  <1>7. UsesMap'
    <2> SUFFICES ASSUME NEW q \in Procs
                 PROVE  /\ pc'[q] = "idle" => name'[q] = None /\ ctr'[q] = None
                        /\ pc'[q] # "idle" => /\ name'[q] \in Names /\ ctr'[q] \in Ctrs
                                              /\ locks'[name'[q]] = ctr'[q]
      BY DEF UsesMap
    <2>1. CASE q = p  BY <2>1, <1>2 DEF TypeOK
    <2>2. CASE q # p
      <3>1. pc'[q] = pc[q] /\ name'[q] = name[q] /\ ctr'[q] = ctr[q]
        BY <2>2, <1>2 DEF TypeOK
      <3>2. CASE pc[q] = "idle"  BY <3>1, <3>2 DEF UsesMap
      <3>3. CASE pc[q] # "idle"
        <4>1. name[q] \in Names /\ ctr[q] \in Ctrs /\ locks[name[q]] = ctr[q]
          BY <3>3 DEF UsesMap
        <4>2. waiters[l] = 0 => ctr[q] # l
          <5> SUFFICES ASSUME waiters[l] = 0, ctr[q] = l  PROVE FALSE
            OBVIOUS
          <5>1. q \notin Waiting(l)  BY <1>5
          <5>2. ~ InLock(q)  BY <1>6, <2>2
          <5> QED BY <5>1, <5>2, <3>3 DEF Waiting, InLock, TypeOK
        <4>3. locks'[name[q]] = locks[name[q]]
          BY <4>1, <4>2, <1>2, <1>1 DEF TypeOK, l
        <4> QED BY <4>1, <4>3, <3>1, <3>3
      <3> QED BY <3>2, <3>3
    <2> QED BY <2>1, <2>2
  <1>8. OneName'  BY <1>1, <1>2 DEF OneName, TypeOK
  <1>9. Owns'
    <2> SUFFICES ASSUME NEW q \in Procs, InLock(q)'  PROVE owner'[ctr'[q]] = q
      BY DEF Owns
    <2>1. q # p /\ InLock(q) /\ ctr'[q] = ctr[q]
      BY <1>2 DEF InLock, TypeOK
    <2>2. owner[ctr[q]] = q /\ ctr[q] # l  BY <2>1, <1>6 DEF Owns
    <2> QED BY SMT, <2>1, <2>2, <1>1, <1>2 DEF TypeOK
  <1>10. Counts'
    <2> SUFFICES ASSUME NEW m \in Names, locks'[m] # None
                 PROVE  waiters'[locks'[m]] = Cardinality(Waiting(locks[m])')
      BY DEF Counts
    <2>1. locks'[m] = locks[m] /\ locks[m] \in Ctrs
      BY <1>1, <1>2 DEF TypeOK
    <2>2. Waiting(locks[m])' = Waiting(locks[m])
      BY <2>1, <1>1, <1>2 DEF Waiting, TypeOK
    <2> QED BY <2>1, <2>2, <1>2 DEF Counts
  <1>11. NoStaleLocks'
    <2> SUFFICES ASSUME NEW m \in Names, locks'[m] # None
                 PROVE  \E q \in Procs : name'[q] = m
      BY DEF NoStaleLocks
    <2>1. locks'[m] = locks[m] /\ (m = n => waiters[l] # 0)
      BY <1>1, <1>2 DEF TypeOK
    <2>2. CASE m # n
      <3>1. PICK q \in Procs : name[q] = m  BY <2>1 DEF NoStaleLocks
      <3>2. q # p  BY <3>1, <2>2 DEF n
      <3> QED BY <3>1, <3>2, <1>2 DEF TypeOK
    <2>3. CASE m = n
      <3>1. Cardinality(Waiting(l)) # 0  BY <1>1, <2>1, <2>3 DEF Counts, l
      <3>2. PICK q \in Waiting(l) : TRUE  BY <3>1, FS_EmptySet
      <3>3. q \in Procs /\ ctr[q] = l /\ pc[q] # "idle" /\ q # p
        BY <3>2, <1>1 DEF Waiting
      <3>4. name[q] \in Names /\ locks[name[q]] = l  BY <3>3 DEF UsesMap
      <3>5. name[q] = n  BY <3>4, <1>1 DEF OneName, l
      <3> QED BY <3>3, <3>5, <2>3, <1>2 DEF TypeOK
    <2> QED BY <2>2, <2>3
  <1> QED BY <1>2, <1>3, <1>7, <1>8, <1>9, <1>10, <1>11

\* It is kept when nothing happens.
LEMMA StutterIInv == IInv /\ UNCHANGED vars => IInv'
  BY SMT DEF IInv, TypeOK, UsesMap, OneName, Owns, Counts, NoStaleLocks, InLock, Waiting,
         vars, ctrVars

\* Every step of Lock and Unlock keeps the invariant.
LEMMA NextIInv == IInv /\ [Next]_vars => IInv'
  <1> SUFFICES ASSUME IInv, [Next]_vars PROVE IInv'
    OBVIOUS
  <1>1. CASE UNCHANGED vars  BY <1>1, StutterIInv
  <1>2. ASSUME NEW p \in Procs, Step(p) PROVE IInv'
    BY <1>2, LookupIInv, AcquireIInv, DecIInv, UnlockIInv DEF Step
  <1> QED BY <1>1, <1>2 DEF Next

\* The inductive invariant holds for ever: callers of Lock and Unlock use what the map
\* has for their name, and waiters counts them.
THEOREM Invariance == Spec => []IInv
  BY InitIInv, NextIInv, PTL DEF Spec

\* No two callers ever have the same name locked, for any number of callers and
\* names, although Unlock drops lockCtrs and Lock creates new ones.
THEOREM Excludes == Spec => []MutualExclusion
  <1>1. IInv => MutualExclusion
    BY SMT DEF IInv, UsesMap, Owns, MutualExclusion, InLock
  <1> QED BY <1>1, Invariance, PTL

\* Unlock of a locked name always finds the lock of this caller.
THEOREM UnlockSucceeds == Spec => []UnlockFinds
  <1>1. IInv => UnlockFinds
    BY DEF IInv, UsesMap, Owns, UnlockFinds, InLock
  <1> QED BY <1>1, Invariance, PTL

\* The map never keeps a lock that nobody uses.
THEOREM CleansUp == Spec => []NoStaleLocks
  <1>1. IInv => NoStaleLocks  BY DEF IInv
  <1> QED BY <1>1, Invariance, PTL

\* The types of the locker's state; the waiter count never goes below zero.
THEOREM TypeCorrect == Spec => []TypeOK
  <1>1. IInv => TypeOK  BY DEF IInv
  <1> QED BY <1>1, Invariance, PTL

\* pkg/locker implements one lock per name: each of its steps is a Lock or an
\* Unlock of NamedMutex, or invisible there.
THEOREM Implements == Spec => ImplementsNamedMutex
  <1>1. Init => Mutex!Init
    BY DEF Init, Mutex!Init, heldNow, InLock
  <1>2. IInv /\ IInv' /\ [Next]_vars => [Mutex!Next]_heldNow
    <2> SUFFICES ASSUME IInv, IInv', [Next]_vars  PROVE [Mutex!Next]_heldNow
      OBVIOUS
    <2> USE ConstantsAssumption DEF IInv
    <2>1. CASE UNCHANGED vars
      BY <2>1 DEF vars, ctrVars, heldNow, InLock
    <2>2. ASSUME NEW p \in Procs, NEW n \in Names, NEW l \in Ctrs, Lookup(p, n, l)
          PROVE  UNCHANGED heldNow
      BY <2>2 DEF Lookup, heldNow, InLock, TypeOK
    <2>3. ASSUME NEW p \in Procs, Acquire(p)  PROVE Mutex!Lock(p, name[p]) /\ name[p] \in Names
      <3>1. name[p] \in Names /\ locks[name[p]] = ctr[p] /\ owner[ctr[p]] = None /\ pc[p] = "waiting"
        BY <2>3 DEF Acquire, UsesMap
      <3>2. heldNow[p] = None  BY <3>1 DEF heldNow, InLock
      <3>3. \A q \in Procs : heldNow[q] # name[p]
        <4> SUFFICES ASSUME NEW q \in Procs, heldNow[q] = name[p]  PROVE FALSE
          OBVIOUS
        <4>1. InLock(q) /\ name[q] = name[p]  BY <3>1 DEF heldNow
        <4>2. ctr[q] = ctr[p] /\ owner[ctr[q]] = q
          BY <4>1, <3>1 DEF UsesMap, Owns, InLock
        <4> QED BY <4>2, <3>1
      <3>4. heldNow' = [heldNow EXCEPT ![p] = name[p]]
        BY <2>3 DEF heldNow, InLock, Acquire, TypeOK
      <3> QED BY <3>1, <3>2, <3>3, <3>4 DEF Mutex!Lock
    <2>4. ASSUME NEW p \in Procs, Dec(p)  PROVE UNCHANGED heldNow
      BY <2>4 DEF Dec, heldNow, InLock, TypeOK
    <2>5. ASSUME NEW p \in Procs, Unlock(p)  PROVE Mutex!Unlock(p)
      <3>1. pc[p] = "held" /\ name[p] \in Names  BY <2>5 DEF Unlock, UsesMap
      <3>2. heldNow[p] # None  BY <3>1 DEF heldNow, InLock
      <3>3. heldNow' = [heldNow EXCEPT ![p] = None]
        BY <2>5 DEF heldNow, InLock, Unlock, TypeOK
      <3> QED BY <3>2, <3>3 DEF Mutex!Unlock
    <2> QED BY <2>1, <2>2, <2>3, <2>4, <2>5 DEF Next, Step, Mutex!Next
  <1> QED BY <1>1, <1>2, Invariance, PTL DEF Spec, ImplementsNamedMutex, Mutex!Spec
=============================================================================
