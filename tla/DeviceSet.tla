------------------------------- MODULE DeviceSet -------------------------------
(***************************************************************************)
(* The devicemapper graph driver, daemon/graphdriver/devmapper: devices by *)
(* hash, each a thin device of a pool, known by a number.  The pool, the   *)
(* metadata files and the memory of the daemon are changed one after the   *)
(* other; a transaction, recorded in a file and counted by the pool, lets  *)
(* the next start undo what a crash has cut off.                           *)
(*                                                                         *)
(* A step is what one goroutine does up to its next write to a file, to    *)
(* the pool, or to the end of a lock: memory does not outlive a crash.     *)
(* The kernel is the set of active devices, with the mounts and foreign    *)
(* mount namespaces that keep them open.  The callers are the layer store: *)
(* they make a hash up once, and remove it only when they are done with it.*)
(***************************************************************************)
EXTENDS Integers, FiniteSets

CONSTANTS Callers,       \* goroutines that call the driver
          Hashes, Base,  \* devices; Base is the hash "" of the base image
          MaxDeviceID,   \* maxDeviceID, one less than a power of two
          Modes,         \* the options of the daemon, see mode
          Faults,        \* what may happen: "write", "dm", "tid", "full", "grow", "mkdir",
                         \* "crash", "reboot", "shutdown"
          Uses,          \* what callers do besides creating: "remove", "mount"
          MaxTid,        \* bound: transactions
          MaxStarts,     \* bound: starts of the daemon
          None

Starter == "starter"   \* the goroutine that initialises the driver
Worker  == "worker"    \* the goroutine that deletes what was deferred

ASSUME DeviceSetAssumption ==
    /\ MaxDeviceID \in Nat /\ MaxTid \in Nat /\ MaxStarts \in Nat
    /\ Base \notin Hashes /\ {Starter, Worker} \cap Callers = {}
    /\ None \notin Callers \cup {Starter, Worker} /\ None \notin Hashes \cup {Base}
    /\ Modes \subseteq [remove : BOOLEAN, delete : BOOLEAN, loopback : BOOLEAN]

Threads == Callers \cup {Starter, Worker}
All     == Hashes \cup {Base}
Ids     == 0 .. MaxDeviceID
Wiped   == "wiped"   \* a thin device that does not hold what it should

VARIABLES
    meta, txn, setmeta,    \* files: of devices, of the transaction, of the set
    thin, poolTid,         \* the pool: whose a thin device is; the transaction ID
    active, doomed,        \* the kernel: hash -> active ID; removal is deferred
    mounted, held,         \* ... mounted by the driver; open in another namespace
    mode, fresh,           \* options; the pool's loopback files are yet to be made
    phase, starts,         \* the daemon
    listed, info,          \* devices.Devices, and the devInfo objects
    used, next,            \* deviceIDMap, NextDeviceID
    tid, open,             \* TransactionID, OpenTransactionID
    nrDeleted, ticking, todo,    \* nrDeletedDevices; the deletion worker
    lock, ilock,           \* devices.Lock, devInfo.lock
    pc, call,              \* where a goroutine is, and in which call
    ctr,                   \* RefCounter
    owned, got,            \* what callers know of a hash; what they have mounted
    astray, orphans        \* history, see CommittedIsKept, FreeIsUnused

files  == <<meta, txn, setmeta>>
pool   == <<thin, poolTid>>
kernel == <<active, doomed, mounted, held>>
tables == <<listed, info, used, next>>
trans  == <<tid, open>>
work   == <<nrDeleted, ticking, todo>>
locks  == <<lock, ilock>>
users  == <<ctr, owned, got>>
ghosts == <<astray, orphans>>
daemon == <<mode, fresh, phase, starts>>
vars   == <<files, pool, kernel, daemon, tables, trans, work, locks, pc, call, users, ghosts>>

NoCall  == [op |-> "none", h |-> Base, b |-> Base, id |-> 0, res |-> "ok"]
Fresh(i) == [id |-> i, init |-> FALSE, deleted |-> FALSE]

TypeOK ==
    LET Info == [id : Ids, init : BOOLEAN, deleted : BOOLEAN] IN
    /\ meta \in [All -> Info \cup {None}]
    /\ txn \in [open : Nat, h : All, id : Ids] \cup {None}
    /\ setmeta \in [next : Ids, uuid : BOOLEAN]
    /\ thin \in [Ids -> All \cup {Wiped, None}] /\ poolTid \in Nat
    /\ active \in [All -> Ids \cup {None}] /\ doomed \subseteq All
    /\ mounted \subseteq All /\ held \subseteq All
    /\ mode \in Modes /\ fresh \in BOOLEAN
    /\ phase \in {"down", "failed", "init", "up"} /\ starts \in Nat
    /\ listed \subseteq All /\ info \in [All -> Info]
    /\ used \subseteq Ids /\ next \in Ids /\ tid \in Nat /\ open \in Nat
    /\ nrDeleted \in Int /\ ticking \in BOOLEAN /\ todo \subseteq All
    /\ lock \in Threads \cup {None} /\ ilock \in [All -> Threads \cup {None}]
    /\ pc \in [Threads -> {"idle", "lookup", "ilock", "locked", "create", "register",
                           "close", "unregister", "undo", "busy", "open", "delete",
                           "unlink", "mark", "commit", "rollthin", "rollmeta", "rolltxn",
                           "base", "format", "mkfs", "uuid", "done"}]
    /\ call \in [Threads -> [op : {"none", "add", "delete", "mount", "unmount"},
                             h : All, b : All, id : Ids, res : {"ok", "err"}]]
    /\ ctr \in [All -> [check : BOOLEAN, count : Int]]
    /\ owned \in [Hashes -> {"new", "creating", "kept", "removing", "gone"}]
    /\ got \in [Callers -> Hashes \cup {None}]
    /\ astray \subseteq All /\ orphans \subseteq Ids

Init ==
    /\ meta = [h \in All |-> None] /\ txn = None
    /\ setmeta = [next |-> 0, uuid |-> FALSE]
    /\ thin = [i \in Ids |-> None] /\ poolTid = 0
    /\ active = [h \in All |-> None] /\ doomed = {} /\ mounted = {} /\ held = {}
    /\ mode \in Modes /\ fresh = TRUE /\ phase = "down" /\ starts = 0
    /\ listed = {} /\ info = [h \in All |-> Fresh(0)] /\ used = {} /\ next = 0
    /\ tid = 0 /\ open = 0
    /\ nrDeleted = 0 /\ ticking = FALSE /\ todo = {}
    /\ lock = None /\ ilock = [h \in All |-> None]
    /\ pc = [t \in Threads |-> "idle"] /\ call = [t \in Threads |-> NoCall]
    /\ ctr = [h \in All |-> [check |-> FALSE, count |-> 0]]
    /\ owned = [h \in Hashes |-> "new"] /\ got = [t \in Callers |-> None]
    /\ astray = {} /\ orphans = {}

-----------------------------------------------------------------------------
(* Calls, locks and look-ups                                                *)

Goto(t, l) == pc' = [pc EXCEPT ![t] = l]
Rest(t)    == Goto(t, "idle") /\ call' = [call EXCEPT ![t] = NoCall]

\* Mutant of Return: an error leaves the device locked.
ReturnLocked(t, r) ==
    /\ pc' = [pc EXCEPT ![t] = "done"] /\ call' = [call EXCEPT ![t].res = r]
    /\ lock' = IF lock = t THEN None ELSE lock
    /\ ilock' = [h \in All |-> IF ilock[h] = t /\ r = "ok" THEN None ELSE ilock[h]]

\* A call returns and its deferred unlocks run.
Return(t, r) ==
    /\ pc' = [pc EXCEPT ![t] = "done"] /\ call' = [call EXCEPT ![t].res = r]
    /\ lock' = IF lock = t THEN None ELSE lock
    /\ ilock' = [h \in All |-> IF ilock[h] = t THEN None ELSE ilock[h]]

Begin(t, o, h, b) ==
    call' = [call EXCEPT ![t] = [op |-> o, h |-> h, b |-> b, id |-> 0, res |-> "ok"]]

Target(t) == IF call[t].op = "add" THEN call[t].b ELSE call[t].h

Unknown(h) == h \notin listed /\ meta[h] = None

\* lookupDevice: the file is read if the device is not in the table.
lookupDevice(h) ==
    /\ listed' = listed \cup {h}
    /\ info' = IF h \in listed THEN info ELSE [info EXCEPT ![h] = meta[h]]

\* Every call looks its device up and lets go of the lock; adding to and mounting a
\* deleted device is refused.
Lookup(t) ==
    LET h == Target(t) IN
    /\ pc[t] = "lookup" /\ lock = None
    /\ IF Unknown(h) THEN Return(t, "err") /\ UNCHANGED <<listed, info>>
       ELSE /\ lookupDevice(h)
            /\ IF info'[h].deleted /\ call[t].op \in {"add", "mount"}
               THEN Return(t, "err")
               ELSE Goto(t, "ilock") /\ UNCHANGED <<call, locks>>
    /\ UNCHANGED <<files, pool, kernel, daemon, used, next, trans, work, users, ghosts>>

\* The lock of the device, then devices.Lock.
LockInfo(t) ==
    /\ pc[t] = "ilock" /\ ilock[Target(t)] = None
    /\ ilock' = [ilock EXCEPT ![Target(t)] = t] /\ Goto(t, "locked")
    /\ UNCHANGED <<files, pool, kernel, daemon, tables, trans, work, lock, call, users, ghosts>>

\* devices.Lock is held by t, or can be taken.
Owns(t) == lock \in {t, None}

-----------------------------------------------------------------------------
(* Numbers and transactions                                                 *)

Succ(i, k) == (i + k) % (MaxDeviceID + 1)

\* getNextFreeDeviceID: the first free number after next, going round once.
NextFree(i) ==
    \E k \in 1 .. (MaxDeviceID + 1) :
        /\ i = Succ(next, k) /\ i \notin used
        /\ \A j \in 1 .. (k - 1) : Succ(next, j) \in used

NoneFree == Ids \subseteq used

\* Mutant of Txn: the transaction that is written is the last one.
TxnStale(h, i) == [open |-> tid, h |-> h, id |-> i]

\* openTransaction, up to the write of the file
Txn(h, i) == [open |-> tid + 1, h |-> h, id |-> i]

\* Mutant of Closed: the pool is not told.
ClosedInMemory == tid' = open /\ UNCHANGED poolTid

\* updatePoolTransactionID
Closed == poolTid' = open /\ tid' = open

\* Thin device i stays in the pool, and its number is free to be given out.
Orphan(i) == orphans' = IF thin[i] = None THEN orphans ELSE orphans \cup {i}

\* DeleteDevice of libdevmapper: not of a device some name is active for
InUse(i) == \E g \in All : active[g] = i

-----------------------------------------------------------------------------
(* createRegisterDevice, createRegisterSnapDevice                           *)

\* AddDevice under its locks, and createRegisterDevice: number and transaction.
Allocate(t) ==
    LET h == call[t].h IN
    /\ pc[t] = "locked" /\ call[t].op = "add" /\ Owns(t)
    /\ \/ /\ t # Starter /\ ~Unknown(h) /\ lookupDevice(h) /\ Return(t, "err")
          /\ UNCHANGED <<txn, used, next, open>>
       \/ /\ t # Starter /\ "full" \in Faults /\ Return(t, "err")
          /\ UNCHANGED <<txn, tables, open>>
       \/ /\ Unknown(h) \/ t = Starter
          /\ NoneFree /\ next' = Succ(next, 1) /\ Return(t, "err")
          /\ UNCHANGED <<txn, listed, info, used, open>>
       \/ /\ Unknown(h) \/ t = Starter
          /\ \E i \in Ids :
                /\ NextFree(i) /\ next' = i /\ open' = tid + 1
                /\ \/ /\ txn' = Txn(h, i) /\ used' = used \cup {i}
                      /\ call' = [call EXCEPT ![t].id = i]
                      /\ lock' = t /\ Goto(t, "create") /\ UNCHANGED ilock
                   \/ /\ "write" \in Faults /\ Return(t, "err") /\ UNCHANGED <<txn, used>>
          /\ UNCHANGED <<listed, info>>
    /\ UNCHANGED <<meta, setmeta, pool, kernel, daemon, tid, work, users, ghosts>>

\* CreateDevice, CreateSnapDevice.  A number that is taken in the pool is kept and
\* the next one tried; the transaction is written again, and that error ignored.
CreateThin(t) ==
    LET c == call[t]  i == c.id
        origin == thin[info[c.b].id] # None
    IN
    /\ pc[t] = "create"
    /\ \/ /\ thin[i] # None
          /\ \/ /\ NoneFree /\ next' = Succ(next, 1) /\ Return(t, "err")
                /\ UNCHANGED <<txn, used, orphans>>
             \/ \E j \in Ids :
                /\ NextFree(j) /\ next' = j /\ used' = used \cup {j}
                /\ \/ txn' = [open |-> open, h |-> c.h, id |-> j] /\ UNCHANGED orphans
                   \/ "write" \in Faults /\ orphans' = orphans \cup {j} /\ UNCHANGED txn
                /\ call' = [call EXCEPT ![t].id = j] /\ UNCHANGED <<pc, locks>>
          /\ UNCHANGED thin
       \/ /\ (t # Starter /\ ~origin) \/ "dm" \in Faults
          /\ used' = used \ {i} /\ Return(t, "err")
          /\ Orphan(i) /\ UNCHANGED <<txn, thin, next>>
       \/ /\ thin[i] = None /\ (t = Starter \/ origin)
          /\ thin' = [thin EXCEPT ![i] = IF t = Starter \/ thin[info[c.b].id] = c.b
                                         THEN c.h ELSE Wiped]
          /\ \/ /\ Goto(t, "register") /\ UNCHANGED <<used, call, locks, orphans>>
             \/ /\ "dm" \in Faults /\ t # Starter /\ active[c.b] # None  \* ResumeDevice fails
                /\ used' = used \ {i} /\ orphans' = orphans \cup {i} /\ Return(t, "err")
          /\ UNCHANGED <<txn, next>>
    /\ UNCHANGED <<meta, setmeta, poolTid, kernel, daemon, listed, info, trans, work, users,
                   astray>>

\* The clean-up after an error: DeleteDevice, whose error is ignored, and
\* markDeviceIDFree.
Discard(i) ==
    /\ \/ thin' = [thin EXCEPT ![i] = None] /\ UNCHANGED orphans
       \/ "dm" \in Faults /\ orphans' = orphans \cup {i} /\ UNCHANGED thin
    /\ used' = used \ {i}

\* The others that go by number i: on file, in the table, or in a call that has
\* looked its device up and does not look again.
Namesakes(h, i) ==
    {g \in All \ {h} :
        \/ meta[g] # None /\ meta[g].id = i
        \/ info[g].id = i /\ (g \in listed \/ \E t \in Threads : pc[t] # "idle" /\ call[t].h = g)}

\* registerDevice
Register(t) ==
    LET h == call[t].h  i == call[t].id IN
    /\ pc[t] = "register"
    /\ \/ /\ listed' = listed \cup {h} /\ info' = [info EXCEPT ![h] = Fresh(i)]
          /\ meta' = [meta EXCEPT ![h] = Fresh(i)]
          /\ astray' = IF Namesakes(h, i) = {} /\ call[t].b \notin astray THEN astray
                       ELSE astray \cup Namesakes(h, i) \cup {h}
          /\ Goto(t, "close") /\ UNCHANGED <<thin, used, call, locks, orphans>>
       \/ /\ "write" \in Faults
          /\ info' = [info EXCEPT ![h] = Fresh(i)]
          /\ Discard(i) /\ Return(t, "err") /\ UNCHANGED <<meta, listed, astray>>
    /\ UNCHANGED <<txn, setmeta, poolTid, kernel, daemon, next, trans, work, users>>

\* closeTransaction.  AddDevice may still fail to grow the file system, with the
\* device in place.
Close(t) ==
    /\ pc[t] = "close"
    /\ \/ /\ Closed
          /\ \E r \in {"ok", "err"} :
                /\ r = "ok" \/ ("grow" \in Faults /\ t # Starter)
                /\ Return(t, r)
       \/ "tid" \in Faults /\ Goto(t, "unregister") /\ UNCHANGED <<poolTid, tid, call, locks>>
    /\ UNCHANGED <<files, thin, kernel, daemon, tables, open, work, users, ghosts>>

\* removeMetadata, which may fail
Removed(h) ==
    \/ meta' = [meta EXCEPT ![h] = None] /\ UNCHANGED astray
    \/ "write" \in Faults /\ astray' = astray \cup {h} /\ UNCHANGED meta

Unregister(t) ==
    LET h == call[t].h IN
    /\ pc[t] = "unregister"
    /\ listed' = listed \ {h}
    /\ Removed(h) /\ Goto(t, "undo")
    /\ UNCHANGED <<txn, setmeta, pool, kernel, daemon, info, used, next, trans, work, locks,
                   call, users, orphans>>

Undo(t) ==
    /\ pc[t] = "undo"
    /\ Discard(call[t].id) /\ Return(t, "err")
    /\ UNCHANGED <<files, poolTid, kernel, daemon, listed, info, next, trans, work, users,
                   astray>>

-----------------------------------------------------------------------------
(* Activation                                                               *)

IsOpen(h) == h \in mounted \cup held

\* deactivateDevice: removed now, or by the kernel when it is closed.
Deactivated(h) == IF IsOpen(h) THEN active ELSE [active EXCEPT ![h] = None]
Doomed(h)      == IF IsOpen(h) /\ active[h] # None THEN doomed \cup {h} ELSE doomed \ {h}

\* activateDeviceIfNeeded, and within it cancelDeferredRemoval
Activate(h) ==
    /\ active' = IF active[h] = None THEN [active EXCEPT ![h] = info[h].id] ELSE active
    /\ doomed' = doomed \ {h}

\* A foreign mount namespace goes away.
Release(h) ==
    /\ h \in held /\ held' = held \ {h}
    /\ IF h \in doomed \ mounted
       THEN active' = [active EXCEPT ![h] = None] /\ doomed' = doomed \ {h}
       ELSE UNCHANGED <<active, doomed>>
    /\ UNCHANGED <<files, pool, mounted, daemon, tables, trans, work, locks, pc, call, users,
                   ghosts>>

-----------------------------------------------------------------------------
(* DeleteDevice                                                             *)

\* deleteDevice: issueDiscard activates the device and discards its blocks, whatever
\* hash it is active for; then the device is deactivated, unless it is open and
\* removal is not deferred (removeDevice).
Deactivate(t) ==
    LET h == call[t].h  i == info[h].id IN
    /\ pc[t] = "locked" /\ call[t].op = "delete" /\ Owns(t)
    /\ thin' = IF mode.loopback /\ ~IsOpen(h) /\ (active[h] # None \/ thin[i] # None)
               THEN [thin EXCEPT ![i] = IF @ \in {h, None} THEN @ ELSE Wiped] ELSE thin
    /\ \/ /\ mode.remove \/ ~IsOpen(h) \/ active[h] = None
          /\ active' = Deactivated(h) /\ doomed' = Doomed(h)
          /\ lock' = t /\ Goto(t, "open") /\ UNCHANGED <<call, ilock>>
       \/ /\ ~mode.remove /\ IsOpen(h) /\ active[h] # None
          /\ lock' = None /\ Goto(t, "busy") /\ UNCHANGED <<active, doomed, call, ilock>>
       \/ "dm" \in Faults /\ Return(t, "err") /\ UNCHANGED <<active, doomed>>
    /\ UNCHANGED <<files, poolTid, mounted, held, daemon, tables, trans, work, users, ghosts>>

\* removeDevice sleeps without devices.Lock, and gives up after 200 attempts.
Retry(t) ==
    LET h == call[t].h IN
    /\ pc[t] = "busy" /\ lock = None
    /\ \/ /\ IsOpen(h) \/ "dm" \in Faults
          /\ Return(t, "err") /\ UNCHANGED <<active, doomed>>
       \/ /\ ~IsOpen(h) /\ active' = [active EXCEPT ![h] = None] /\ UNCHANGED doomed
          /\ IF call[t].op = "delete"
             THEN lock' = t /\ Goto(t, "open") /\ UNCHANGED <<call, ilock>>
             ELSE Return(t, "ok")
    /\ UNCHANGED <<files, pool, mounted, held, daemon, tables, trans, work, users, ghosts>>

\* deleteTransaction: openTransaction,
OpenDelete(t) ==
    LET h == call[t].h IN
    /\ pc[t] = "open"
    /\ open' = tid + 1
    /\ \/ txn' = Txn(h, info[h].id) /\ Goto(t, "delete") /\ UNCHANGED <<call, locks>>
       \/ "write" \in Faults /\ Return(t, "err") /\ UNCHANGED txn
    /\ UNCHANGED <<meta, setmeta, pool, kernel, daemon, tables, tid, work, users, ghosts>>

\* DeleteDevice of the pool: a busy device is marked, if deletion is deferred,
DeleteThin(t) ==
    LET i == info[call[t].h].id
        Fail == Goto(t, "commit") /\ call' = [call EXCEPT ![t].res = "err"] /\ UNCHANGED thin
    IN
    /\ pc[t] = "delete"
    /\ \/ /\ InUse(i) /\ thin[i] # None
          /\ IF mode.delete /\ t # Starter THEN Goto(t, "mark") /\ UNCHANGED <<thin, call>> ELSE Fail
       \/ thin[i] = None /\ Fail
       \/ "dm" \in Faults /\ Fail
       \/ /\ thin[i] # None /\ ~InUse(i)
          /\ thin' = [thin EXCEPT ![i] = None] /\ Goto(t, "unlink") /\ UNCHANGED call
    /\ UNCHANGED <<files, poolTid, kernel, daemon, tables, trans, work, locks, users, ghosts>>

\* unregisterDevice and the books,
Unlink(t) ==
    LET h == call[t].h  d == info[h] IN
    /\ pc[t] = "unlink"
    /\ listed' = listed \ {h} /\ Goto(t, "commit")
    /\ \/ /\ meta' = [meta EXCEPT ![h] = None] /\ used' = used \ {d.id}
          /\ nrDeleted' = nrDeleted - (IF d.deleted THEN 1 ELSE 0) /\ UNCHANGED <<call, astray>>
       \/ /\ "write" \in Faults /\ call' = [call EXCEPT ![t].res = "err"]
          /\ astray' = astray \cup {h} /\ UNCHANGED <<meta, used, nrDeleted>>
    /\ UNCHANGED <<txn, setmeta, pool, kernel, daemon, info, next, trans, ticking, todo, locks,
                   users, orphans>>

\* Mutant of Counted: the device is not counted.
Uncounted(n) == n

\* The number of deleted devices, with one more
Counted(n) == n + 1

\* or markForDeferredDeletion,
Mark(t) ==
    LET h == call[t].h  d == [info[h] EXCEPT !.deleted = TRUE] IN
    /\ pc[t] = "mark" /\ Goto(t, "commit")
    /\ \/ info[h].deleted /\ UNCHANGED <<info, meta, nrDeleted, call>>
       \/ /\ ~info[h].deleted
          /\ info' = [info EXCEPT ![h] = d] /\ meta' = [meta EXCEPT ![h] = d]
          /\ nrDeleted' = Counted(nrDeleted) /\ UNCHANGED call
       \/ /\ ~info[h].deleted /\ "write" \in Faults
          /\ call' = [call EXCEPT ![t].res = "err"] /\ UNCHANGED <<info, meta, nrDeleted>>
    /\ UNCHANGED <<txn, setmeta, pool, kernel, daemon, listed, used, next, trans, ticking, todo,
                   locks, users, ghosts>>

\* and the deferred closeTransaction, whose error is lost.
Commit(t) ==
    /\ pc[t] = "commit"
    /\ \/ Closed
       \/ "tid" \in Faults /\ UNCHANGED <<poolTid, tid>>
    /\ Return(t, call[t].res)
    /\ UNCHANGED <<files, thin, kernel, daemon, tables, open, work, users, ghosts>>

-----------------------------------------------------------------------------
(* MountDevice, UnmountDevice                                               *)

\* activateDeviceIfNeeded and mount; Get may fail afterwards, and unmounts.
Mount(t) ==
    LET h == call[t].h  i == info[h].id IN
    /\ pc[t] = "locked" /\ call[t].op = "mount" /\ Owns(t)
    /\ \/ /\ ~info[h].deleted /\ (active[h] # None \/ thin[i] # None)
          /\ Activate(h)
          /\ \/ mounted' = mounted \cup {h} /\ Return(t, "ok")
             \/ "dm" \in Faults /\ UNCHANGED mounted /\ Return(t, "err")
       \/ /\ info[h].deleted \/ "dm" \in Faults \/ (active[h] = None /\ thin[i] = None)
          /\ Return(t, "err") /\ UNCHANGED <<active, doomed, mounted>>
    /\ UNCHANGED <<files, pool, held, daemon, tables, trans, work, users, ghosts>>

\* The unmount is lazy: the file system may stay in use elsewhere.
Unmount(t) ==
    LET h == call[t].h IN
    /\ pc[t] = "locked" /\ call[t].op = "unmount" /\ Owns(t)
    /\ \/ h \notin mounted /\ Return(t, "err") /\ UNCHANGED <<active, doomed, mounted, held>>
       \/ /\ h \in mounted /\ mounted' = mounted \ {h}
          /\ held' \in {held, held \cup {h}}
          /\ \/ /\ h \notin held' /\ Return(t, "ok")
                /\ active' = [active EXCEPT ![h] = None] /\ doomed' = doomed \ {h}
             \/ /\ h \in held' /\ mode.remove /\ Return(t, "ok")
                /\ doomed' = doomed \cup {h} /\ UNCHANGED active
             \/ /\ h \in held' /\ ~mode.remove /\ lock' = None /\ Goto(t, "busy")
                /\ UNCHANGED <<active, doomed, call, ilock>>
             \/ "dm" \in Faults /\ Return(t, "err") /\ UNCHANGED <<active, doomed>>
    /\ UNCHANGED <<files, pool, daemon, tables, trans, work, users, ghosts>>

-----------------------------------------------------------------------------
(* The driver's callers: Create, Remove, Get, Put                           *)

Idle(t) == t \in Callers /\ pc[t] = "idle" /\ phase = "up"

\* A caller other than t is at work with h.
Engaged(h) ==
    \E t \in Callers : \/ pc[t] # "idle" /\ h \in {call[t].h, call[t].b}
                       \/ got[t] = h

Create(t, h, b) ==
    /\ Idle(t) /\ poolTid < MaxTid
    /\ owned[h] = "new" /\ b \in {Base} \cup {g \in Hashes : owned[g] = "kept"}
    /\ owned' = [owned EXCEPT ![h] = "creating"]
    /\ Begin(t, "add", h, b) /\ Goto(t, "lookup")
    /\ UNCHANGED <<files, pool, kernel, daemon, tables, trans, work, locks, ctr, got, ghosts>>

\* Remove does nothing if the driver does not have the device (HasDevice).
Remove(t, h) ==
    /\ "remove" \in Uses /\ Idle(t) /\ poolTid < MaxTid /\ lock = None
    /\ owned[h] \in {"kept", "removing"} /\ ~Engaged(h)
    /\ owned' = [owned EXCEPT ![h] = "removing"]
    /\ Begin(t, "delete", h, Base)
    /\ IF Unknown(h) THEN Goto(t, "done") /\ UNCHANGED <<listed, info>>
       ELSE Goto(t, "lookup") /\ lookupDevice(h)
    /\ UNCHANGED <<files, pool, kernel, daemon, used, next, trans, work, locks, ctr, got, ghosts>>

\* RefCounter.Increment and Decrement: the first time, a mount left by an earlier
\* daemon counts.
Count(h, n) ==
    [check |-> TRUE,
     count |-> ctr[h].count + n + (IF ~ctr[h].check /\ h \in mounted THEN 1 ELSE 0)]

Get(t, h) ==
    /\ "mount" \in Uses /\ Idle(t) /\ got[t] = None /\ owned[h] = "kept"
    /\ ctr' = [ctr EXCEPT ![h] = Count(h, 1)]
    /\ IF Count(h, 1).count > 1
       THEN got' = [got EXCEPT ![t] = h] /\ UNCHANGED <<pc, call>>
       ELSE Begin(t, "mount", h, Base) /\ Goto(t, "lookup") /\ UNCHANGED got
    /\ UNCHANGED <<files, pool, kernel, daemon, tables, trans, work, locks, owned, ghosts>>

Put(t, h) ==
    /\ Idle(t) /\ got[t] = h /\ h # None
    /\ ctr' = [ctr EXCEPT ![h] = Count(h, -1)] /\ got' = [got EXCEPT ![t] = None]
    /\ IF Count(h, -1).count > 0 THEN UNCHANGED <<pc, call>>
       ELSE Begin(t, "unmount", h, Base) /\ Goto(t, "lookup")
    /\ UNCHANGED <<files, pool, kernel, daemon, tables, trans, work, locks, owned, ghosts>>

\* The driver has returned to its caller.
Finish(t) ==
    LET c == call[t] IN
    /\ t \in Callers /\ pc[t] = "done"
    /\ \/ /\ c.op = "add" /\ UNCHANGED <<ctr, got>> /\ Rest(t)
          /\ owned' = [owned EXCEPT ![c.h] = IF c.res = "ok" THEN "kept" ELSE "gone"]
       \/ /\ c.op = "delete" /\ UNCHANGED <<ctr, got>> /\ Rest(t)
          /\ \/ c.res = "ok" /\ owned' = [owned EXCEPT ![c.h] = "gone"]
             \/ (c.res = "err" \/ "mkdir" \in Faults) /\ UNCHANGED owned   \* or RemoveAll fails
       \/ /\ c.op = "mount" /\ c.res = "ok" /\ Rest(t)
          /\ got' = [got EXCEPT ![t] = c.h] /\ UNCHANGED <<ctr, owned>>
       \/ /\ c.op = "mount" /\ c.res = "ok" /\ "mkdir" \in Faults
          /\ ctr' = [ctr EXCEPT ![c.h] = Count(c.h, -1)]
          /\ Begin(t, "unmount", c.h, Base) /\ Goto(t, "lookup") /\ UNCHANGED <<got, owned>>
       \/ /\ c.op = "mount" /\ c.res = "err" /\ Rest(t)
          /\ ctr' = [ctr EXCEPT ![c.h] = Count(c.h, -1)] /\ UNCHANGED <<got, owned>>
       \/ c.op = "unmount" /\ Rest(t) /\ UNCHANGED <<ctr, got, owned>>
    /\ UNCHANGED <<files, pool, kernel, daemon, tables, trans, work, locks, ghosts>>

-----------------------------------------------------------------------------
(* The deletion worker                                                      *)

DeletedSet == {h \in listed : info[h].deleted}

\* cleanupDeletedDevices: the list is made under the lock ...
Tick ==
    /\ ticking /\ mode.delete /\ pc[Worker] = "idle" /\ lock = None
    /\ nrDeleted # 0 /\ DeletedSet # {} /\ poolTid < MaxTid
    /\ todo' = DeletedSet /\ Goto(Worker, "done")
    /\ UNCHANGED <<files, pool, kernel, daemon, tables, trans, nrDeleted, ticking, locks, call,
                   users, ghosts>>

\* ... and gone through without it.
NextDeleted ==
    /\ pc[Worker] = "done"
    /\ \/ todo = {} /\ Rest(Worker) /\ UNCHANGED todo
       \/ \E h \in todo : /\ todo' = todo \ {h} /\ Begin(Worker, "delete", h, Base)
                          /\ Goto(Worker, "lookup")
    /\ UNCHANGED <<files, pool, kernel, daemon, tables, trans, nrDeleted, ticking, locks, users,
                   ghosts>>

-----------------------------------------------------------------------------
(* Start, base image, end                                                   *)

\* Mutant of DeviceIDMap: the numbers of deleted devices are taken to be free.
LiveIDMap(L) == {meta[h].id : h \in {g \in L : ~meta[g].deleted}}

\* constructDeviceIDMap
DeviceIDMap(L) == {meta[h].id : h \in L}

\* loadDeviceFilesOnStart
DeviceFiles == {h \in All : meta[h] # None}

\* countDeletedDevices
NrDeleted(L) == Cardinality({h \in L : meta[h].deleted})

\* loadTransactionMetaData
OpenTransaction == IF txn = None THEN poolTid ELSE txn.open

\* initMetaData: everything is loaded before a pending transaction is looked at.
\* With a pool just made, on loopback files, there is nothing to load, and no
\* deletion worker is started.
Start ==
    LET load   == ~(fresh /\ mode.loopback)
        Loaded == IF load THEN DeviceFiles ELSE {}
        undo   == load /\ OpenTransaction > poolTid
    IN
    /\ phase \in {"down", "failed"} /\ starts < MaxStarts
    /\ phase' = "init" /\ starts' = starts + 1 /\ fresh' = FALSE
    /\ listed' = Loaded
    /\ info' = [h \in All |-> IF h \in Loaded THEN meta[h] ELSE Fresh(0)]
    /\ used' = DeviceIDMap(Loaded)
    /\ nrDeleted' = NrDeleted(Loaded)
    /\ tid' = poolTid /\ open' = OpenTransaction
    /\ next' = setmeta.next
    /\ ticking' = (load /\ ~undo)
    /\ Goto(Starter, IF undo THEN "rollthin" ELSE "base")
    /\ UNCHANGED <<files, pool, kernel, mode, todo, locks, call, users, ghosts>>

\* rollbackTransaction: the thin device, whose deletion may fail,
RollThin ==
    LET i == txn.id IN
    /\ pc[Starter] = "rollthin" /\ Goto(Starter, "rollmeta")
    /\ \/ /\ thin[i] # None /\ ~InUse(i) /\ thin' = [thin EXCEPT ![i] = None]
          /\ UNCHANGED orphans
       \/ /\ thin[i] = None \/ InUse(i) \/ "dm" \in Faults
          /\ UNCHANGED thin /\ Orphan(i)
    /\ UNCHANGED <<files, poolTid, kernel, daemon, tables, trans, work, locks, call, users,
                   astray>>

\* its file (not its entry in the table), and its number,
RollMeta ==
    /\ pc[Starter] = "rollmeta" /\ Goto(Starter, "rolltxn")
    /\ Removed(txn.h)
    /\ used' = IF meta'[txn.h] = None THEN used \ {txn.id} ELSE used
    /\ UNCHANGED <<txn, setmeta, pool, kernel, daemon, listed, info, next, trans, work, locks,
                   call, users, orphans>>

\* and the transaction.
RollTxn ==
    /\ pc[Starter] = "rolltxn" /\ Goto(Starter, "base")
    /\ txn' = None \/ ("write" \in Faults /\ UNCHANGED txn)
    /\ open' = tid /\ ticking' = TRUE
    /\ UNCHANGED <<meta, setmeta, pool, kernel, daemon, tables, tid, nrDeleted, todo, locks, call,
                   users, ghosts>>

Up == phase' = "up" /\ Rest(Starter)

\* All that is in memory is lost, and all goroutines with it.
Forget ==
    /\ pc' = [t \in Threads |-> "idle"] /\ call' = [t \in Threads |-> NoCall]
    /\ lock' = None /\ ilock' = [h \in All |-> None] /\ todo' = {}
    /\ listed' = {} /\ info' = [h \in All |-> Fresh(0)] /\ used' = {} /\ next' = 0
    /\ tid' = 0 /\ open' = 0 /\ nrDeleted' = 0 /\ ticking' = FALSE
    /\ ctr' = [h \in All |-> [check |-> FALSE, count |-> 0]]
    /\ got' = [t \in Callers |-> None]
    /\ owned' = [h \in Hashes |-> IF owned[h] = "creating" THEN "gone" ELSE owned[h]]

\* saveDeviceSetMetaData
SaveSet == setmeta' = [next |-> next, uuid |-> TRUE]

\* The base image is there, as setupVerifyBaseImageUUIDFS wants it.  The name of its
\* file system was saved before there was one (SaveFilesystem), and is not saved again.
BaseIsSetUp == Base \in listed /\ info[Base].init /\ ~info[Base].deleted

\* checkThinPool, of a pool that was given.  Used data blocks say no more than the
\* transaction ID does: a file system is made after the first closeTransaction.
PoolIsNew == mode.loopback \/ poolTid = 0

\* setupBaseImage; the base image may be grown at last (checkGrowBaseDeviceFS, which
\* saves the size in its file).
SetupBase ==
    /\ pc[Starter] = "base"
    /\ \/ /\ BaseIsSetUp
          /\ active' = Deactivated(Base) /\ doomed' = Doomed(Base)
          /\ \/ /\ IF setmeta.uuid THEN UNCHANGED setmeta ELSE SaveSet
                /\ \/ Up /\ UNCHANGED <<tables, trans, work, locks, users>>
                   \/ "grow" \in Faults /\ phase' = "failed" /\ Forget
             \/ /\ Faults \cap {"dm", "write"} # {}
                /\ phase' = "failed" /\ Forget /\ UNCHANGED setmeta
       \/ /\ Base \in listed /\ ~BaseIsSetUp
          /\ Begin(Starter, "delete", Base, Base) /\ Goto(Starter, "lookup")
          /\ UNCHANGED <<setmeta, active, doomed, phase, tables, trans, work, locks, users>>
       \/ /\ Base \notin listed /\ PoolIsNew
          /\ Begin(Starter, "add", Base, Base) /\ Goto(Starter, "locked")
          /\ UNCHANGED <<setmeta, active, doomed, phase, tables, trans, work, locks, users>>
       \/ /\ Base \notin listed /\ ~PoolIsNew
          /\ phase' = "failed" /\ Forget /\ UNCHANGED <<setmeta, active, doomed>>
    /\ UNCHANGED <<meta, txn, pool, mounted, held, mode, fresh, starts, ghosts>>

\* The base image has been deleted, or made, or the start fails.
BaseDone ==
    /\ pc[Starter] = "done"
    /\ \/ /\ call[Starter].res = "err" /\ phase' = "failed" /\ Forget
       \/ /\ call[Starter].res = "ok" /\ call[Starter].op = "delete"
          /\ Begin(Starter, "add", Base, Base) /\ Goto(Starter, "locked")
          /\ UNCHANGED <<phase, tables, trans, work, locks, users>>
       \/ /\ call[Starter].res = "ok" /\ call[Starter].op = "add" /\ Goto(Starter, "format")
          /\ UNCHANGED <<call, phase, tables, trans, work, locks, users>>
    /\ UNCHANGED <<files, pool, kernel, mode, fresh, starts, ghosts>>

\* createBaseImage: activateDeviceIfNeeded, saveBaseDeviceFilesystem,
SaveFilesystem ==
    /\ pc[Starter] = "format"
    /\ Activate(Base)
    /\ \/ /\ setmeta' = [setmeta EXCEPT !.next = next] /\ Goto(Starter, "mkfs")
          /\ UNCHANGED <<call, phase, tables, trans, work, locks, users>>
       \/ /\ Faults \cap {"dm", "write"} # {} /\ phase' = "failed" /\ Forget
          /\ UNCHANGED setmeta
    /\ UNCHANGED <<meta, txn, pool, mounted, held, mode, fresh, starts, ghosts>>

\* the file system, and only then Initialized,
Format ==
    LET d == [info[Base] EXCEPT !.init = TRUE] IN
    /\ pc[Starter] = "mkfs"
    /\ \/ /\ info' = [info EXCEPT ![Base] = d] /\ meta' = [meta EXCEPT ![Base] = d]
          /\ Goto(Starter, "uuid")
          /\ UNCHANGED <<call, phase, listed, used, next, trans, work, locks, users>>
       \/ /\ Faults \cap {"dm", "write"} # {} /\ phase' = "failed" /\ Forget /\ UNCHANGED meta
    /\ UNCHANGED <<txn, setmeta, pool, kernel, mode, fresh, starts, ghosts>>

\* saveBaseDeviceUUID
SaveUUID ==
    /\ pc[Starter] = "uuid"
    /\ active' = Deactivated(Base) /\ doomed' = Doomed(Base)
    /\ \/ /\ SaveSet /\ Up
          /\ UNCHANGED <<tables, trans, work, locks, users>>
       \/ /\ Faults \cap {"dm", "write"} # {} /\ phase' = "failed" /\ Forget /\ UNCHANGED setmeta
    /\ UNCHANGED <<meta, txn, pool, mounted, held, mode, fresh, starts, ghosts>>

\* The daemon dies, or the machine with it.
Crash ==
    /\ phase \in {"init", "up"} /\ phase' = "down" /\ Forget
    /\ \/ "crash" \in Faults /\ UNCHANGED kernel
       \/ /\ "reboot" \in Faults /\ active' = [h \in All |-> None]
          /\ doomed' = {} /\ mounted' = {} /\ held' = {}
    /\ UNCHANGED <<files, pool, mode, fresh, starts, ghosts>>

\* Shutdown saves NextDeviceID first, then unmounts, and deactivates as many devices
\* as it gets to before the daemon exits.
Shutdown ==
    /\ "shutdown" \in Faults /\ phase = "up" /\ lock = None /\ phase' = "down" /\ Forget
    /\ setmeta' = [setmeta EXCEPT !.next = next]
    /\ \E done \in SUBSET listed : \E busy \in SUBSET (mounted \cap done) :
          LET free == done \ (held \cup busy) IN
          /\ mounted' = mounted \ done /\ held' = held \cup busy
          /\ active' = [h \in All |-> IF h \in free THEN None ELSE active[h]]
          /\ doomed' = IF mode.remove THEN (doomed \cup done) \ free ELSE doomed \ free
    /\ UNCHANGED <<meta, txn, pool, mode, fresh, starts, ghosts>>

-----------------------------------------------------------------------------
Work(t) ==
    \/ Lookup(t) \/ LockInfo(t)
    \/ Allocate(t) \/ CreateThin(t) \/ Register(t) \/ Close(t) \/ Unregister(t) \/ Undo(t)
    \/ Deactivate(t) \/ Retry(t) \/ OpenDelete(t) \/ DeleteThin(t) \/ Unlink(t) \/ Mark(t)
    \/ Commit(t) \/ Mount(t) \/ Unmount(t) \/ Finish(t)

Initialise ==
    \/ RollThin \/ RollMeta \/ RollTxn
    \/ SetupBase \/ BaseDone \/ SaveFilesystem \/ Format \/ SaveUUID

Next ==
    \/ \E t \in Threads : Work(t)
    \/ \E t \in Callers, h \in Hashes :
          (\E b \in All : Create(t, h, b)) \/ Remove(t, h) \/ Get(t, h) \/ Put(t, h)
    \/ Tick \/ NextDeleted
    \/ Start \/ Initialise
    \/ \E h \in All : Release(h)
    \/ Crash \/ Shutdown

Spec == Init /\ [][Next]_vars

\* Steps that wait for a lock, with others passing by
Contend(t) ==
    \/ Lookup(t) \/ LockInfo(t) \/ Allocate(t) \/ Deactivate(t) \/ Retry(t) \/ Mount(t)
    \/ Unmount(t)

Fairness ==
    /\ \A t \in Threads : WF_vars(Work(t)) /\ SF_vars(Contend(t))
    /\ SF_vars(Tick) /\ WF_vars(NextDeleted)
    /\ WF_vars(Start) /\ WF_vars(Initialise)
    /\ \A h \in All : WF_vars(Release(h))

FairSpec == Spec /\ Fairness

-----------------------------------------------------------------------------
(* Properties                                                               *)

Intact(h) == meta[h] # None /\ ~meta[h].deleted /\ thin[meta[h].id] = h

\* A device that Create returned and nobody removed has its file and, in the pool, its
\* own thin device, through errors, crashes and rollbacks.  The exceptions are
\* the devices in astray, which share a number with another or are made from one that
\* does: rollbackTransaction leaves the device it has undone in devices.Devices and
\* frees its number, DeleteDevice does not look again whether the devInfo it waited
\* for is still registered, and a file that removeMetadata fails to remove outlives
\* the thin device, and so comes back with a number that is another's by then.
CommittedIsKept == \A h \in Hashes \ astray : owned[h] = "kept" => Intact(h)

\* The transaction on disk is not closed, and names device h with number i.
Pending(h, i) == txn # None /\ txn.open > poolTid /\ txn.h = h /\ txn.id = i

\* Wherever a crash comes, a device with a file has its thin device and a thin device
\* has its file, or the transaction on disk names them and the next start undoes
\* them (createRegisterSnapDevice, deleteTransaction, rollbackTransaction).  The
\* exceptions are those of CommittedIsKept and FreeIsUnused, astray and orphans.
CrashConsistent ==
    /\ \A h \in All \ astray : \/ meta[h] = None \/ thin[meta[h].id] = h
                               \/ meta[h].id \in orphans \/ Pending(h, meta[h].id)
    /\ \A i \in Ids \ orphans : \/ thin[i] \in {None, Wiped} \/ Pending(thin[i], i)
                                \/ meta[thin[i]] # None /\ meta[thin[i]].id = i

\* A number that is free in deviceIDMap is free in the pool ("Device ID already
\* exists. This should not happen").  The exceptions are the numbers in orphans:
\* deleting the thin device, or resuming its origin, has failed and the number was
\* freed all the same; or refreshTransaction has failed to write the number it was
\* given instead of a taken one, so that no rollback finds it.
FreeIsUnused ==
    phase = "up" => \A i \in Ids \ orphans : thin[i] # None => i \in used

\* Every call of the driver returns: info.lock and devices.Lock are taken in one
\* order and given back on every path, also where devices.Lock is let go in between.
CallReturns == \A t \in Callers : pc[t] # "idle" ~> pc[t] = "idle"

Deferred(h) == /\ phase = "up" /\ h \in listed \ mounted /\ info[h].deleted
               /\ thin[info[h].id] = h

\* A device marked for deferred deletion is deleted by the worker once nothing uses
\* it any more (or the daemon ends).
DeferredIsDeleted ==
    \A h \in Hashes : Deferred(h) ~> (~Deferred(h) \/ poolTid >= MaxTid)

\* CommittedIsKept without exceptions: "HasDevice returns true if the device metadata
\* exists", and a layer on top of it relies on that.
DeviceIsKept == \A h \in Hashes : owned[h] = "kept" => Intact(h)

\* "Device ID already exists. This should not happen."
NumberIsNew == phase = "up" => \A i \in Ids : thin[i] # None => i \in used

\* "Otherwise remove image and set it up fresh": no start of the daemon fails.
StartSucceeds == phase # "failed"

\* Get "returns the mountpoint": what Get has returned is mounted.
GotIsMounted == \A t \in Callers : got[t] # None => got[t] \in mounted
=============================================================================
