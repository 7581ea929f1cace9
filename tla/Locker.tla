-------------------------------- MODULE Locker --------------------------------
(***************************************************************************)
(* pkg/locker: locks by name.  A lockCtr (a mutex and a count of waiters)  *)
(* is created by the first Lock of a name and dropped from the map by an   *)
(* Unlock that sees no waiters.  The volume store serialises work on a     *)
(* volume with it.                                                         *)
(*                                                                         *)
(* A section under l.mu is one step; taking the lockCtr's mutex and        *)
(* counting down afterwards are steps of their own, outside l.mu.          *)
(***************************************************************************)
EXTENDS Integers, FiniteSets

CONSTANTS Procs,   \* callers; each has at most one name locked at a time
          Names,
          Ctrs,    \* lockCtr objects
          None

ASSUME ConstantsAssumption ==
    /\ IsFiniteSet(Procs)
    /\ None \notin Procs /\ None \notin Names /\ None \notin Ctrs

VARIABLES
    locks,             \* l.locks: name -> lockCtr or None
    waiters, owner,    \* lockCtr: waiters, and the holder of its mutex
    pc, name, ctr,     \* callers: where they are, the name, nameLock
    failed             \* callers whose Unlock returned ErrNoSuchLock

ctrVars  == <<locks, waiters, owner>>
vars == <<ctrVars, pc, name, ctr, failed>>

TypeOK ==
    /\ locks \in [Names -> Ctrs \cup {None}]
    /\ waiters \in [Ctrs -> Nat]
    /\ owner \in [Ctrs -> Procs \cup {None}]
    /\ pc \in [Procs -> {"idle", "waiting", "locked", "held"}]
    /\ name \in [Procs -> Names \cup {None}]
    /\ ctr \in [Procs -> Ctrs \cup {None}]
    /\ failed \subseteq Procs

\* New
Init ==
    /\ locks = [n \in Names |-> None]
    /\ waiters = [l \in Ctrs |-> 0]
    /\ owner = [l \in Ctrs |-> None]
    /\ pc = [p \in Procs |-> "idle"]
    /\ name = [p \in Procs |-> None]
    /\ ctr = [p \in Procs |-> None]
    /\ failed = {}

-----------------------------------------------------------------------------
\* A lockCtr nothing points to: the allocator can hand it out.
Unused(l) == /\ \A n \in Names : locks[n] # l
             /\ \A p \in Procs : ctr[p] # l

\* Lock(name) under l.mu: find or create the lockCtr and count this waiter.
Lookup(p, n, l) ==
    /\ pc[p] = "idle"
    /\ \/ /\ locks[n] = l
          /\ waiters' = [waiters EXCEPT ![l] = @ + 1]
          /\ UNCHANGED <<locks, owner>>
       \/ /\ locks[n] = None /\ Unused(l)
          /\ locks' = [locks EXCEPT ![n] = l]
          /\ waiters' = [waiters EXCEPT ![l] = 1]
          /\ owner' = [owner EXCEPT ![l] = None]
    /\ pc' = [pc EXCEPT ![p] = "waiting"]
    /\ name' = [name EXCEPT ![p] = n]
    /\ ctr' = [ctr EXCEPT ![p] = l]
    /\ UNCHANGED failed

\* Mutant of Acquire: a caller that finds the mutex taken gives up.
AcquireOrGiveUp(p) ==
    /\ pc[p] = "waiting"
    /\ IF owner[ctr[p]] = None
       THEN /\ owner' = [owner EXCEPT ![ctr[p]] = p]
            /\ pc' = [pc EXCEPT ![p] = "locked"]
            /\ UNCHANGED <<waiters, name, ctr>>
       ELSE /\ waiters' = [waiters EXCEPT ![ctr[p]] = @ - 1]
            /\ pc' = [pc EXCEPT ![p] = "idle"]
            /\ name' = [name EXCEPT ![p] = None]
            /\ ctr' = [ctr EXCEPT ![p] = None]
            /\ UNCHANGED owner
    /\ UNCHANGED <<locks, failed>>

\* nameLock.Lock()
Acquire(p) ==
    /\ pc[p] = "waiting" /\ owner[ctr[p]] = None
    /\ owner' = [owner EXCEPT ![ctr[p]] = p]
    /\ pc' = [pc EXCEPT ![p] = "locked"]
    /\ UNCHANGED <<locks, waiters, name, ctr, failed>>

\* Mutant of Dec: the count is left alone.
DecNothing(p) ==
    /\ pc[p] = "locked"
    /\ pc' = [pc EXCEPT ![p] = "held"]
    /\ UNCHANGED <<ctrVars, name, ctr, failed>>

\* nameLock.dec(); Lock returns.
Dec(p) ==
    /\ pc[p] = "locked"
    /\ waiters' = [waiters EXCEPT ![ctr[p]] = @ - 1]
    /\ pc' = [pc EXCEPT ![p] = "held"]
    /\ UNCHANGED <<locks, owner, name, ctr, failed>>

\* Mutant of Unlock: the lockCtr is dropped whoever waits for it.
UnlockDrops(p) ==
    LET n == name[p]
        l == locks[n]
    IN  /\ pc[p] = "held"
        /\ failed' = IF l = None THEN failed \cup {p} ELSE failed
        /\ locks' = [locks EXCEPT ![n] = None]
        /\ owner' = IF l = None THEN owner ELSE [owner EXCEPT ![l] = None]
        /\ pc' = [pc EXCEPT ![p] = "idle"]
        /\ name' = [name EXCEPT ![p] = None]
        /\ ctr' = [ctr EXCEPT ![p] = None]
        /\ UNCHANGED waiters

\* Unlock(name), all of it under l.mu: drop the lockCtr if nobody waits for
\* it, and unlock it.
Unlock(p) ==
    LET n == name[p]
        l == locks[n]
    IN  /\ pc[p] = "held"
        /\ failed' = IF l = None THEN failed \cup {p} ELSE failed
        /\ locks' = IF l # None /\ waiters[l] = 0 THEN [locks EXCEPT ![n] = None] ELSE locks
        /\ owner' = IF l # None THEN [owner EXCEPT ![l] = None] ELSE owner
        /\ pc' = [pc EXCEPT ![p] = "idle"]
        /\ name' = [name EXCEPT ![p] = None]
        /\ ctr' = [ctr EXCEPT ![p] = None]
        /\ UNCHANGED waiters

-----------------------------------------------------------------------------
Step(p) ==
    \/ \E n \in Names, l \in Ctrs : Lookup(p, n, l)
    \/ Acquire(p) \/ Dec(p) \/ Unlock(p)

Next == \E p \in Procs : Step(p)

Spec == Init /\ [][Next]_vars

(* A caller unlocks what it has locked, and the mutexes are fair.  The second
   is an assumption: sync.Mutex hands itself to a waiter that has waited for
   long since Go 1.9, and leaves it to the scheduler before.                *)
FairSpec ==
    Spec /\ \A p \in Procs : SF_vars(Acquire(p)) /\ WF_vars(Dec(p)) /\ WF_vars(Unlock(p))

-----------------------------------------------------------------------------
(* Properties                                                               *)

InLock(p) == pc[p] \in {"locked", "held"}

\* No two callers have the same name locked, although the lockCtr of a name is
\* dropped and created anew while callers come and go.
MutualExclusion ==
    \A p, q \in Procs : p # q /\ InLock(p) /\ InLock(q) => name[p] # name[q]

\* Unlock of a name one has locked finds the lock: it neither returns
\* ErrNoSuchLock nor unlocks somebody else's.
UnlockFinds ==
    /\ failed = {}
    /\ \A p \in Procs : InLock(p) => locks[name[p]] = ctr[p] /\ owner[ctr[p]] = p

\* "Lock references are automatically cleaned up on Unlock if nothing else is
\* waiting": the map holds no lock for a name nobody is using.
NoStaleLocks ==
    \A n \in Names : locks[n] # None => \E p \in Procs : name[p] = n

\* The locker implements a lock per name.
heldNow == [p \in Procs |-> IF InLock(p) THEN name[p] ELSE None]
Mutex == INSTANCE NamedMutex WITH held <- heldNow
ImplementsNamedMutex == Mutex!Spec

\* Everyone who asks for a lock gets it.
LockReturns == \A p \in Procs : (pc[p] = "waiting") ~> (pc[p] = "held")
=============================================================================
