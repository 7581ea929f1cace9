# TLA+ models of the Docker engine

The engine is one daemon process with many goroutines. This project models the parts of it
in which several of them share state, checks the models with TLC on small instances, and
proves the most important invariants with TLAPS for all instances. Paths below are relative
to `src/`.

- [The system](#the-system)
- [Conventions](#conventions)
- [Modules](#modules): what each models, what its runs check and show, its bounds
- [Fairness](#fairness)
- [Proofs](#proofs)
- [Findings](#findings)
- [Further configurations](#further-configurations)
- [What is not modelled](#what-is-not-modelled)
- [Plan](#plan)

## The system

| Part | State | Operations | Talks to | What is hard about it |
|---|---|---|---|---|
| Transfer manager, `distribution/xfer/transfer.go` | running transfers by key, slots, a queue of start channels | `Transfer`, `Release`, `SetConcurrency`, one goroutine per transfer | callers of pull and push | sharing a transfer that is being cancelled; slots that leak; a queue nobody serves |
| Layer download, `distribution/xfer/download.go` | the downloads of each pull, their results, references on layers | `Download`, the two transfer functions | transfer manager, layer store | pulls that share downloads and are cancelled; parents that go away |
| Transfer progress, `transfer.go` | last item, watchers | `Broadcast`, `Watch`, `Release` | transfer function, clients | slow and detaching watchers |
| Layer store, `layer/` | layers with reference counts, mounts, metadata on disk | `Register`, `Get`, `Release`, `CreateRWLayer`, `GetRWLayer`, `ReleaseRWLayer`, start-up | graph driver, image store, containers | two calls on one layer; I/O errors half-way; crashes |
| Image store, `image/` | images, tree of parents, files | `Create`, `Delete`, `SetParent`, start-up | layer store | memory and disk apart; calls between two steps of another |
| Named locks, `pkg/locker` | a map of lock objects with waiter counts | `Lock`, `Unlock` | volume store, drivers | an object dropped while it is being looked up |
| Volume store and mount points, `volume/store`, `daemon/volumes.go` | names, references, drivers' volumes, mount points | create, get, remove, dereference; registration, lazy initialisation and removal of mount points | drivers, containers | references taken and given back on every path; restarts |
| Container lifecycle, `daemon/`, `container/state.go`, `restartmanager/`, `libcontainerd/` | `State`, wait channel, restart manager, the client's list, event queues | start, stop, restart, kill, pause, unpause, wait, rm, `StateChanged` | containerd, clients | events late or out of step with calls; automatic restarts; lost wake-ups |
| Device mapper driver, `daemon/graphdriver/devmapper` | devices by hash, numbers, transaction file, the kernel's pool and mounts | create, remove, get, put, the deletion worker, start, shutdown | layer store, kernel | writes to four places, none atomic; locks let go in the middle of a call |
| Health checks, `daemon/health.go`, `container/health.go` | the monitor's stop channel, health status | monitor, probes, stop on exit and pause | lifecycle | the lock held while waiting for who needs it |

The parts meet as follows. A pull asks the transfer manager for each layer; what it has
downloaded is registered with the layer store, which keeps it in a graph driver such as
device mapper, and the image store takes a reference on the top layer. A container takes a
read-write layer from the layer store and references on volumes from the volume store, which
is protected by named locks. The lifecycle drives containerd and hears from it through
`StateChanged`, which also opens and closes the health monitor. `PROJECT.json` lists every
part, modelled or not, and the hazards, each at its line.

## Conventions

- One action stands for one section of code that nothing can interrupt visibly: a critical
  section that waits for nothing is one step, and a lock becomes a variable only where it is
  held over several steps. A rendezvous on an unbuffered channel is one step. A channel that
  is only ever closed is a flag or a count of closed channels.
- `Faults` names the errors and crashes an instance allows. An action of the code that may
  fail has a disjunct guarded by its fault, so each run says under which errors it holds.
- `None` is nil. Object identities (transfers, lock objects, driver IDs) are members of a
  finite set and are used again when nothing refers to them any more.
- Every `Max...` constant is a bound of the model, not of the code.
- Operators whose comment begins with "Mutant of" are broken variants of the definition
  after them. They are not part of any specification; with one in place of the original, the
  property named in `PROJECT.json` is violated, which shows that the property can fail.
- `PROJECT.json` lists twelve runs, each with its properties; they are described here module
  by module. The other `.cfg` files are [further configurations](#further-configurations) of
  the same modules: properties on other or larger instances, and statements of the
  documentation that the code does not keep.
- Where a property fails only because of a flaw that is known and described here, a history
  variable (`mishandled`, `dropped`, `undeleted`, `leaked`, `suspect`, `astray`, `orphans`)
  marks the objects it has hit, at the step of the code that hits them, and the property
  excepts exactly those. The modules' sections say which flaw it is; where a document or a
  comment says otherwise, the property without the exception is in the second table of
  [Further configurations](#further-configurations).
- Every module has a type invariant `TypeOK`. It is proved for TransferManager, Locker,
  LayerDownload, LayerStore, ImageStore and VolumeStore; TLC has found it to hold in the
  instances of the other runs, too.

## Modules

### TransferManager, MCTransferManager

`tm.mu` is the variable `mu`, because `Transfer` keeps it while it takes and drops `t.mu`
twice. `Join`, `Begin`, `Reject`, `Yield` and `Retry` are the ways through `Transfer`;
`Finish`, `GoInactive`, `Inactivate`, `Remove` and `Close` are the goroutine of a transfer.
The transfer function is reduced to what `DoFunc` demands of it.

`transfer`: two callers, two keys and one slot, with fairness. `SlotAccounting`:
`activeTransfers` is the number of transfers with a slot. `QueueHasDonor`: whenever transfers
wait, one that will hand over a slot is running. `OneTransferPerKey`, `WatchedIsAlive`:
sharing is sound. `StartsWithinLimit`: no start beyond the limit. Queued transfers start
(`QueuedStarts`), `Transfer` returns (`TransferReturns`) and unwatched transfers go away
(`UnwatchedIsReleased`). `ImplementsShared`: see the next section. Two callers are needed for
one to come upon a transfer the other has left; two keys for one to queue. The limit is one
throughout this run; a limit that changes while transfers run, and three callers, are in
`TransferManager_safety.cfg`, without liveness. The theorems cover every limit and number.

### SharedTransfers

What callers may rely on, in seven variables and six actions: `Transfer` joins the transfer of
its key unless that is cancelled, or begins one, in a single step; the last watcher to leave
cancels or releases; a transfer finishes, is removed from the map and is closed. No lock, no
slot, no retry. TransferManager implements it (`ImplementsShared`, checked in `transfer` and
proved as `Implements`); the refinement mapping leaves everything as it is but the watchers of
a cancelled transfer, of which there are none: a caller that comes upon one takes a watcher
and gives it back before anybody sees it. LayerDownload uses it in the place of the manager.

### LayerDownload, MCLayerDownload

Pulls call `Download` once each. A layer is the sequence of blobs up to it, which stands for
its chain ID and for its transfer key. `Find`, `Join` and `Begin` are one round of the loop
over the descriptors; `Cancel`, `Fail` and `Succeed` the ways out of the `select`;
`ReleaseTopLayer` and `ReleaseParent` the deferred calls, in their order; `Release` the
function `Download` returned. `Start` to `Drop` are the goroutine of a download, of
`makeDownloadFunc` or, with a `source`, of `makeDownloadFuncFromDownload`. The layer store is
the definition `Stored`: a layer is there as long as somebody holds it or one above it, which
`layer_faults` shows of the store's own code.

`download`: two pulls of the same two-layer image, of different blobs or the same blob twice,
failing fetches with a retry, failing registrations, cancellation at any moment, and a lower
layer that an image may hold and lose. `ReturnedIsStored`: what `Download` returned stays in
the store until it is released. `NothingIsKept`: when all is over, no watcher and no layer is
left behind. `LostIsForsaken`: a download finds the layer below it when it registers its own,
unless the call that made it has ended; the last part cannot be left out
([Findings](#findings)). Four transfers let a layer be downloaded a second time while the
first download still waits to be released. The same holds of images of three layers
`<<a, b, a>>` with six transfers and no faults (`Stacks <- Three`; 24.5 million states, 18
minutes), where a call releases several parents one after the other.

### TransferProgress

One transfer with two watchers and two items. `TransferProgress.cfg`: a watcher that has ended
has shown everything sent before it began to detach (`EndedIsCaughtUp`), shows nothing twice
(`WritesAreFresh`), and `Release` returns although the transfer function may hang
(`ReleaseEnds`). Two items suffice for one to overtake the other at a slow watcher.

### LayerStore, MCLayerStore

Layers named by chain ID with a constant `Parent`; the graph driver is the set of its
directories. What the memory (`parent`) and the file on disk (`metaParent`) say of a layer's
parent are variables: `os.RemoveAll` of a metadata directory that an error or a crash stops
may have taken any of its files. A layer that lost its parent file is loaded as one without a
parent, one that lost its ID file (`lost`) is not loaded at all, and a mount can come back
without its parent. The history variable `suspect` holds the layers and mounts whose removal
stopped half-way, and mounts saved over what was left of one.

- `layer_faults`: two goroutines, a chain of three layers of which the last is beyond
  `MaxDepth`, a mount, three driver IDs, all I/O errors and crashes. `CountIsExact`:
  `referenceCount` is the number of references, children, mounts and calls that hold the
  layer. `NeverPanics`: the panics of the code are unreachable. `HeldIsIntact`: what is held
  has its data, and its ID and parent on disk as in memory, unless it is in `suspect`.
  `MountKeepsParent`: a mount keeps its parent and its ID, across restarts, with the same
  exception.

All four are proved for any finite sets and any tree of layers.

### NamedMutex, Locker

`NamedMutex` is the abstract promise: one lock per name. `Locker` is `pkg/locker` with its
objects that come and go. `locker`: three callers and two names; mutual exclusion, `Unlock`
finds the lock (`UnlockFinds`), nothing stays in the map (`NoStaleLocks`), everyone gets the
lock if mutexes are fair (`LockReturns`), and `Locker` implements `NamedMutex`
(`ImplementsNamedMutex`).

### VolumeStore, MCVolumeStore

An operation of the store holds the lock of its name throughout, driver calls included, and is
one step. `names`, `refs` and `vols` are the store and the drivers; `mounts` are
`Container.MountPoints`, `points` the map that `registerMountPoints` builds (and later what is
on disk of a container being created). `VolumesFrom`, `Bind`, `RegisterFails` and
`RegisterDone` are its sections; `lazyInitializeVolume` runs at start and after a restart;
`removeMountPoint` drops a reference and leaves the removal of an anonymous volume to a second
step, as the code does. `Tmpfs` are the destinations a tmpfs covers, which are skipped by binds
and at a start, but not after a restart of the daemon. A forced removal that cannot kill the
container goes through its mount points one by one all the same, and the container stays. Model
limits: one operation on a container at a time, and drivers lose a volume behind the daemon's
back only in a removal that returns an error.

`volume`: two containers, two names, a client, with every use and every fault. `CacheIsFresh`:
the driver on record has the volume. `NoStaleRefs`: no reference outlives its mount point.
`InUseIsKept`: the volume of an initialised mount point exists, of a stopped container, too.
The first and the last except the volumes in `dropped`: a driver that removed a volume and
returned an error, which leaves the name on record. Such a record is handed out without asking
the driver, and can be neither removed nor made anew before the daemon is started again.
The last two except the containers in `mishandled`, into which `Mishandle` puts them in five
ways: a mount point replaced by another for the same destination, a start with a host
configuration that names a volume again (done or failed), a creation that fails in its links,
one that fails in relabelling, and a forced removal that cannot kill the container.
One destination and one driver keep the instance small; `VolumeStore_drivers.cfg` has two
drivers, so that names can clash, `VolumeStore_refs.cfg` two destinations, one of them a tmpfs,
so that an error can come half-way through the mount points. The three properties are proved
for any number.

### ImageStore, MCImageStore

Three images on two layers, two of them possible parents; two callers that create, set the
parent, and delete. The layer store is a reference count here. `Set`, `DeleteMetadata`,
`DeleteContent` and `DeleteRelease` are separate steps because a crash between them shows on
disk. The callers are those of a pull, a commit and a load, which release their own reference
at the end, and `legacyLoadImage` (`image/tarexport/load.go`), which releases it before it sets
the parent (`LoadReleases`), and not at all when `Create` fails (`LoadFails`).

`image`, with every error and crashes: the references on a layer are one for each image, one
for each call at work with it, and one for each failed load of the old format, counted in
`leaked` (`RefsAreExact`; `MaxLeaks` bounds them); and the store can be loaded again whenever a
call was cut off (`RestartSucceeds`). The one exception is a file that `fs.Delete` failed to
remove: `Delete` ignores the error and releases the layer, so the next start of the daemon
fails. The history variable `undeleted` holds these images, and `broken` is the daemon that
does not come up; deadlock is not checked because of it.

### ContainerLifecycle, MCContainerLifecycle

One container, its process, the events of containerd, the notification queue, the restart
manager, and clients whose calls are records that say where they go on. `waitChan` counts
closed channels, so a waiter on an old channel is told from one on the new. The container has
no health check: with one, a pause and a stop can hang, which is HealthMonitor's subject.
`Prompt` states a timing assumption: notifications are handled within the two seconds a kill in
a removal waits. `MaxRuns` bounds the processes; three show a restart of a restart.

- `lifecycle`: two clients with every operation, restart policy "always", failing creates
  and removals. `RemovedIsGone`: after a removal there is no process and none on its way.
  `StateIsTrue`: with no event outstanding, `State` agrees with the process.
  `NoLostWakeup`: nobody sleeps on a channel that will not be closed. `DeadStaysDead`: a
  container marked dead gets no process. `OneProcess`: never a second process.
- `lifecycle_liveness`: two clients that start, stop, pause, unpause and remove, policy
  "on-failure" with one retry. A process that ended is noticed (`ExitIsNoticed`) and a pause
  returns (`PauseReturns`).

The runs leave out two faults, and little of the above survives them; see
[Further configurations](#further-configurations). With `"todisk"` saving the container fails,
and a start that fails so leaves its process running. With `"spec"` the bundle cannot be read
and `start` returns nil without starting anything (`libcontainerd/container_linux.go:93`), so
that the daemon waits for a process that does not exist.

Deadlock is not checked: all clients may wait for a process that runs on.

### DeviceSet, MCDeviceSet

The driver's table of devices, their metadata files, the transaction file, the pool of thin
devices with its transaction ID, the kernel's active and mounted devices, the mount counter,
and the two kinds of lock. A step goes up to the next write to a file or to the pool, or to
the end of a lock, so that a crash comes between any two writes. `Allocate` to `Undo` are
`createRegisterSnapDevice` and `createRegisterDevice` with their way back; `Deactivate` and
`Retry` the loop in which `removeDevice` lets go of `devices.Lock`; `OpenDelete` to `Commit`
are `deleteDevice` and `deleteTransaction`; `Create`, `Remove`, `Get`, `Put` and `Finish` the
driver's interface with its counter; `Tick` and `NextDeleted` the deletion worker; `Start` to
`SaveUUID` the start of the driver, with rollback and base image. `Modes` are the options:
deferred removal and deletion, and a pool on loopback files or a given one.

- `devmapper`: one caller, two devices on a base image, failing writes, a failing pool, failing
  transaction IDs, and a crash or reboot anywhere. `CommittedIsKept`: what `Create` returned
  keeps its file and its own thin device. `CrashConsistent`: files and pool agree, but for what
  the transaction on disk lets the next start undo. `FreeIsUnused`: a number that is free in
  the table is free in the pool. The exceptions are in `astray` and `orphans`. A device is in
  `astray` if it shares its number with another, or is made from one that does: after a
  rollback, which leaves the entry in the table; after a deletion that waited for a device
  which was gone by then; or because `removeMetadata` failed and the file outlived its thin
  device. A number is in `orphans` if it was freed although its thin device could not be
  deleted or its origin not be resumed, or if `refreshTransaction` failed to write it, so that
  no rollback finds it.
- `devmapper_worker`: two callers and the worker on one device of a given pool, with crash and
  shutdown. `CallReturns`: no deadlock over the two locks. `DeferredIsDeleted`: what was
  deferred is deleted.

Four transactions and two starts are enough for create, remove, crash and create again under
the same number; four numbers for one to be free, one wrapped around, and two in use.
`DeviceSet_few.cfg` has only two numbers. Calls that meet in the middle of another, while
`removeDevice` sleeps, need two callers: they are in `devmapper_worker` and, for the three
invariants, in `DeviceSet_callers.cfg`. The faults a file system meets while it grows, a full
number table and a failing directory are in `DeviceSet_errors.cfg`. Deadlock is not checked, as
the model ends at these bounds.

### HealthMonitor, MCHealthMonitor

Monitor goroutines, their probes, the stop channel, the container's lock, and everyone who
opens or closes a monitor. `health`: two stoppers, two runs, an automatic restart, pauses,
out-of-memory events, and starts and restarts that fail in `Create` or in `ToDisk`.
`OneMonitor`: a running monitor is the one `Health.stop` points to. `ResultsOfThisRun`: no
result from before the last start that went through (`since`) is counted; a start whose
`ToDisk` fails leaves health as it was, although its process may run on. `NoMonitorAtRest`:
none runs while the container rests. Two runs and two probes suffice for a late result to meet
the next run; five monitors for every start, pause and restart to open one. `health_stop` shows
a real deadlock ([Findings](#findings)), so deadlock is not checked in `health`.

## Fairness

Liveness is checked under fairness of single goroutines only; nobody has to make a call.

- Strong fairness for a step that takes a mutex: others may take it in between, and a
  goroutine that waits long enough gets it. This is an assumption. Since Go 1.9 `sync.Mutex`
  hands itself over to a waiter that has waited for long; with Go 1.6, for which the repository
  is built (`Dockerfile:123`), it depends on the scheduler, and no bound is promised. Weak
  fairness for steps that nothing disables.
- A started transfer goes inactive or ends, which `DoFunc` demands, and a cancelled one ends;
  one that is inactive may wait for others as long as it likes (downloads wait for their
  parents). A progress sender may hang for ever.
- In LayerDownload every transfer starts, which `QueuedStarts` has shown under the previous
  point; fetches end. Nobody has to cancel a pull or release what it returned.
- A holder of a named lock unlocks it.
- A process that has been sent SIGKILL ends; any other may run for ever. Probes time out.
- A foreign mount namespace lets go of a device in the end, the ticker of the deletion worker
  ticks, and a daemon that is down is started again.

## Proofs

All theorems hold for every value of the constants that satisfies the named assumptions of
the component's module: limits are natural numbers, `None` is none of the objects, the sets
whose members are counted (callers, layers, images) are finite, and the like. TLC evaluates
the assumptions in the runs. Each module of proofs extends the module of its component, and
tries Zenon first; leaves with arithmetic or large records ask for SMT.

- **TransferManagerProofs**: `WatchedStaysAlive`, `DeduplicatesKeys`, `ReleasesUnwatched`,
  `CountsSlots`, `QueuesUnstarted`, `QueueIsServed`, `StartsAreLimited`, `TypeCorrect`, and the
  refinement `Implements` of SharedTransfers. None of these invariants is inductive alone. A
  watched transfer stays alive only because a caller has a watcher exactly between `Watch` and
  `Release` (`WatcherBookkeeping`), holds a transfer that exists (`CallerBookkeeping`), and the
  map and the transfers agree (`MapBookkeeping`). Slots are counted through the finite set
  `Holding`: handing a slot over removes one element and adds the head of the queue, which is
  not in it because the queue holds unstarted transfers only. The refinement has one step per
  action and needs `Sections` besides: `tm.mu` is held from `Watch` to the look at the context,
  so the transfer a caller is about to reject is still in the map, and nobody watches a
  cancelled transfer that has left it.
- **LayerDownloadProofs**: `TypeCorrect`, `ReturnedStaysStored`, `NothingIsLeft`,
  `LostOnlyForsaken`, for any number of pulls and transfers and images of any height. The
  argument is about who watches what. The watchers of a transfer are exactly the calls that
  have it among their downloads or return it (`Watching`), and a transfer is released, and
  drops its layer, only without watchers (`Manager`). A call holds successive layers of its
  image: the one it found last, then its downloads, of one blob more each (`Shape`, `Keyed`).
  A transfer under way is among the downloads of the call that made it, next to its parent,
  unless that call has given up (`Parentage`); so the layer below it is held until it
  registers its own.
- **LayerStoreProofs**: `TypeCorrect`, `CountsHolders`, `NoPanic`, `HeldKeepsData`,
  `MountIsStable`, with every error and with crashes. The invariant has four parts, each
  proved from the ones before it. `Control` says what a call works on and which lock it holds.
  `Books` says that a held layer is in the map, that its count is the number of its holders,
  and that nobody holds a layer that is being removed; the counts are cardinalities of
  `Holders`, of which a step adds or removes one member, which is why callers, layers, mounts
  and references must be finite and distinct. `Disk` says that no two users share a driver ID,
  and where data may be missing; `Files` that memory and disk agree on the ID and the parent of
  what is not in `suspect`.
- **ImageStoreProofs**: `TypeCorrect`, `CountsReferences`, `CanBeRestored`, with every error
  and with crashes. `RefsAreExact` is inductive with the places of the calls: a reference goes
  with the image or the call that held it, or from a failed load to `leaked`. The second rests
  on it: a configuration on disk belongs to an image in the store or to a call at work with it
  (`Accounted`), each of which holds a reference, and the layer store keeps what is referenced
  (`Kept`). `ParentsAreHeld`, that is `ParentKnowsChild`, has the hypothesis `Reliable`: only
  the writing of configurations may fail, and the daemon runs on. `Tree` says that a parent
  named on disk is in the store and knows its child, but for the image `Delete` is at work
  with. A failed write of the parent refutes it
  ([Further configurations](#further-configurations)).
- **LockerProofs**: `Excludes`, `UnlockSucceeds`, `CleansUp`, and the refinement
  `Implements`. The strengthening says that a caller between look-up and `Unlock` uses the
  object the map has for its name, and that `waiters` is the number of such callers; hence
  an object is dropped only when nobody can be using it.
- **VolumeStoreProofs**: `TypeCorrect`, `RecordsAreTrue`, `ReferencesEnd`, `VolumesStay`, with
  every use and every fault. `CacheIsFresh` is inductive with `TypeOK`: a name comes on record
  only with a driver that has the volume, and every step that takes a volume away takes its
  name off the record, also when the driver on record is another one, or has put it into
  `dropped`. `NoStaleRefs` and
  `InUseIsKept` are two sides of `Safe(c)`, inductive for each container on its own: a step of
  another container or of a client changes no reference of `c` (`Frame`) and takes away only
  volumes nobody references. `Safe` tells registration, where the references belong to
  `points`, and removal, where they go one by one, from the rest of a container's life.

  Two more theorems speak of all containers, the mishandled ones included, and need hypotheses.
  `Careful`: no kill in a forced removal fails, and no host configuration is given at a start.
  `RunningKeepVolumes` (`RunningHasVolumes`) holds if besides drivers answer and no tmpfs
  covers a mount point (`Answered`), also with volumes-from and over restarts;
  `CreatedKeepVolumes` (`ReferencedIsKept`, of stopped containers, too) if there are neither
  volumes-from nor restarts (`Plain`), even when drivers fail. Both follow from `Attended(c)`:
  a container then has at least the references it needs. A failed kill, a host configuration, a
  silent driver and volumes-from each have a counterexample in the second table of [Further
  configurations](#further-configurations). A tmpfs has one that needs a restart:
  `prepareMountPoints` stops at the first volume it cannot find, and one that is covered by a
  tmpfs may be gone as no start has made it; the container's other volumes stay unreferenced.
- **ContainerLifecycleProofs**: `SleepersWake` (`NoLostWakeup`) without hypotheses, from
  `Sound`: whoever sleeps has the present channel of a running container, or one that is
  closed. The others, `NothingComesBack` (`RemovedIsGone`), `StateFollowsProcess`
  (`StateIsTrue`), `NeverTwoProcesses` (`OneProcess`) and `DeadIsFinal` (`DeadStaysDead`), for
  any number of clients and runs and any restart policy, under `Orderly`: notifications are in
  time (`Prompt`), the container can be saved (no fault `"todisk"`) and its bundle be read (no
  fault `"spec"`). These are where the code does otherwise; the same section has the
  counterexamples.
  `Flow` lists the six situations in which process, event queues, back-off and `State` can be
  together: at rest, up, ended, exit reported, restart reported, waiting to restart. `Removal`
  says, for each place of a `ContainerRm`, what it has made sure of: that no restart can come
  any more, and at last that the container is at rest.
- **HealthMonitorProofs**: `MonitorIsUnique`, `RestIsUnprobed` (`NoMonitorAtRest`),
  `HealthIsCurrent` (`ResultsOfThisRun`). Between the send on the stop channel and the write of
  nil the caller is alone and `Health.stop` still has the channel it sent on. `AtRest` says at
  which point of `StateChanged` the monitor of a container at rest is gone; `RunInv` that once
  `initHealthMonitor` has closed the channel every probe under way was begun since the last
  start that went through.

Only model-checked:

- all liveness properties: the prover has no support for fairness and `ENABLED`;
- the safety properties of DeviceSet, `CommittedIsKept`, `CrashConsistent` and `FreeIsUnused`:
  their invariant has to say, for every place in a transaction, its way back, a start and a
  rollback, which of table, files, pool and transaction file have been written, and it has not
  been written down yet;
- TransferProgress, `NoOrphanData` of LayerStore, and `TypeOK` where it is not listed above.

## Findings

`health_stop` refutes `StopReturns`, which `daemon/stop.go:34-38` promises ("If the container
is not running Stop returns immediately"). `StateChanged(StateExit)` takes the container's
lock and, holding it, sends on the monitor's unbuffered stop channel
(`container/health.go:48`). A monitor that has just received a probe's result waits for that
lock in `handleProbeResult` and does not listen. Both wait for ever, and every stop with them.
A pause goes the same way: `StateChanged(StatePause)` closes the monitor under the same lock.
The run uses the fairness above, so the counterexample is not a goroutine that merely idles.

The other disagreements of code and documentation are in the second table of the next section.
Those with the largest consequences:

- **A rolled-back device stays in the table** (`DeviceIsKept`, `DeviceSet_rollback.cfg`). At a
  start, `initMetaData` fills `devices.Devices` from the files, and `rollbackTransaction` then
  removes the file, the thin device and the number of the device in the open transaction, but
  not its entry. A removal of `h1` crashes after `openTransaction`; the next start rolls it
  back; `h2` is created under the freed number; the removal of `h1`, repeated, finds the entry
  and deletes the thin device of `h2`.
- **A download can fail with the pull that began it** (`ForsakenGoesOn`,
  `LayerDownload_forsaken.cfg`). Pull A begins downloads P1 and C1 of a layer and the next one.
  P1 is done and forgotten by the manager; pull B, whose look-up was before that, begins P2 for
  the same layer and joins C1. A is cancelled: P1's layer is released and deleted, as P2 has
  not registered it yet. C1, which B watches, finds no parent and fails, and B with it.
- **A forced removal that fails** (`VolumeStore_kill.cfg`) **and a start with a host
  configuration** (`VolumeStore_hostconfig.cfg`) leave a running container without references
  on its volumes, so that these can be removed.
- **An image in the store whose configuration is gone** (`ImageStore_read.cfg`): `Create`
  writes the file before it takes the lock, and a `Delete` of the same image comes in between.

## Further configurations

Each is run as `tlc -config <cfg> <module>`, the module being `HealthMonitor`,
`ContainerLifecycle`, `TransferProgress`, or the `MC` module for the others (and for
`ContainerLifecycle_faults.cfg`). These hold, on other or larger instances than the runs:

| Configuration | Properties | Instance |
|---|---|---|
| `TransferManager_safety` | the safety properties of `transfer`, `QueueIsUnstarted`, `ReleasedIsUnwatched` | three callers, and a limit that changes between none and one |
| `TransferProgress` | `EndedIsCaughtUp`, `WritesAreFresh`, `ReleaseEnds` | two watchers, two items |
| `LayerDownload_liveness` | `DownloadReturns`: once transfers are not cancelled any more, every call returns | the images of `download`, no faults (6 minutes) |
| `LayerStore_clean` | `NoOrphanData`: no directory of the driver without an owner | two siblings of depth two, five driver IDs, the errors `Register` cleans up after; a failing `StartTransaction` leaves one (`layer/layer_store.go:281`) |
| `ContainerLifecycle_faults` | `NoLostWakeup` | failing creates, saves and removals, unreadable bundles, no timing assumption |
| `ImageStore_parents` | `ParentKnowsChild`: the parent in an image's file lists it as a child | failing writes of configurations only |
| `VolumeStore_drivers` | those of `volume` | two drivers, one name |
| `VolumeStore_refs` | `NoStaleRefs`, `InUseIsKept` | two destinations, one of them a tmpfs; driver and database errors, restarts |
| `VolumeStore_running` | `RunningHasVolumes`: no volume of a running container is removed | volumes-from and restarts |
| `VolumeStore_kept` | `ReferencedIsKept`: stopped containers keep their volumes | all errors short of a restart or a failed kill |
| `DeviceSet_callers` | those of `devmapper` | two callers, crashes |
| `DeviceSet_errors` | those of `devmapper` | every fault (11.4 million states, 18 minutes) |
| `DeviceSet_few` | those of `devmapper` | every fault, two numbers |

These are violated. Each property states what the quoted place says. A name in the first
column is a file; otherwise the first column says which constants show it: for
ContainerLifecycle one client, `Codes = {0}`, `MaxRetry = 0`, `MaxRuns = 2`, `Prompt = TRUE` and
policy "always" (unless another is named), for ImageStore, VolumeStore and DeviceSet those of
the file named first for the module, with the changes given.

| Configuration; property | Where | What happens | Against |
|---|---|---|---|
| HealthMonitor with one stopper, three monitors, `Retries = 1`, `MaxRuns = 2`, `MaxProbes = 1`, `MaxNotes = 0`, no faults; `InitIsLocked` | `daemon/monitor.go:85` | after an automatic restart health is reset without the lock | `daemon/health.go:244` "Called with c locked." |
| ContainerLifecycle, two clients, start and wait, policy "no", codes 0 and 1; `WaitReturnsCode` | `container/state.go:141` | a wait returns the exit code of a later run | `container/state.go:128` "Returns exit code, that was passed to SetStoppedLocking" |
| ContainerLifecycle, start and rmf, `Prompt = FALSE`; `DeadStaysDead` | `daemon/delete.go:99` | a container marked dead is restarted if notifications are late | same line, "We don't want anybody to be restarting it." |
| ContainerLifecycle, start and stop; `StoppedStaysStopped` | `daemon/kill.go:80` | a stop that meets a restarting container does not stop it | `daemon/kill.go:77-79` "Telling the monitor that it should exit on its next event loop is enough" |
| ContainerLifecycle, `FairSpec`, start and kill; `KillReturns` | `daemon/kill.go:139` | a kill that meets a restarting container waits for ever | `daemon/kill.go:31-33` "then Kill with SIGKILL and wait for the container to exit" |
| ContainerLifecycle, start, fault "create"; `ExitedIsUnlisted` | `libcontainerd/container_linux.go:235` | after a failed automatic restart the container cannot be started | `libcontainerd/container_linux.go:211` "Remove process from list if we have exited" |
| ContainerLifecycle, start, fault "todisk"; `FailedStartIsClean` | `daemon/monitor.go:82` | a failed save fails the start, and the process runs on | `daemon/start.go:104-105` "ensure that any other setup has been cleaned up properly" |
| `LayerDownload_forsaken`; `ForsakenGoesOn` | `distribution/xfer/download.go:310` | a download others watch fails because the pull that began it was cancelled | `distribution/xfer/transfer.go:89-91` "so that a transfer won't be cancelled automatically if the client which requested it is ^C'd (there could be other viewers)" |
| `ImageStore_read`; `CreatedIsReadable` | `image/store.go:130` | an image in the store without a configuration | `image/store_test.go:151-154`, which reads what it created |
| the same constants; `ChildrenExist` | `image/store.go:240` | a child that does not exist keeps its parent from being deleted | `daemon/image_delete.go:344` "any image which has the given image as a parent" |
| `Faults = {"parent"}`; `ParentKnowsChild` | `image/store.go:241` | after a failed write memory and disk name different parents | the same |
| `VolumeStore_kill`; `RunningHasVolumes` | `daemon/delete.go:43` | a forced removal that fails drops the references of a running container | `docs/reference/commandline/volume_rm.md:22` "You cannot remove a volume that is in use by a container." |
| `VolumeStore_hostconfig`; `RunningHasVolumes` | `daemon/volumes.go:163` | a start with a host configuration drops references that are still needed | the same |
| `Uses = {"from"}`, no faults; `ReferencedIsKept` | `daemon/volumes.go:112` | a named volume taken with volumes-from has no reference before the start | the same |
| `Faults = {"driver", "restart"}`; `RunningHasVolumes` | `daemon/daemon.go:300` | a driver that does not answer at start-up leaves a running container's volume unreferenced | the same |
| `Uses = {"from"}`, no faults; `RefsAreMounted` | `daemon/volumes.go:154` | a bind over a volumes-from destination leaks a reference | `volume/store/errors.go:9` "currently in use by a container" |
| `Faults = {"link"}`; `RefsAreMounted` | `daemon/create.go:118` | a creation that fails in its links leaks references | the same |
| `Faults = {"restart"}`; `UniqueName` | `volume/store/store.go:282` | after a restart two drivers may have a volume of one name | `docs/reference/commandline/volume_create.md:36` "Volume names must be unique among drivers." |
| `DeviceSet_rollback`; `DeviceIsKept` | `daemon/graphdriver/devmapper/deviceset.go:1374` | a rolled-back device stays in the table and is removed again under a number that is another's by then | `deviceset.go:2324` "HasDevice returns true if the device metadata exists." |
| one hash; `StartSucceeds` | `deviceset.go:1072` | after a crash while the base image is made the next start fails; with a given pool every start does | `deviceset.go:1174-1176` "Otherwise remove image and set it up fresh." |
| one hash, `Modes <- Loopback`, uses remove and mount, `FairSpec`; `DeferredIsDeleted` | `deviceset.go:1818` | with newly made loopback files `initMetaData` is skipped and the deletion worker not started | `docs/reference/commandline/dockerd.md:541` ff., deferred deletion |
| two hashes, `Modes <- Loopback`, uses remove and mount; `NumberIsNew` | `deviceset.go:1369` | the rollback of a device that is busy leaves its thin device and frees the number | `deviceset.go:863` "Device ID already exists. This should not happen." |
| two callers, one hash, `Modes <- Loopback`, no faults, use mount; `GotIsMounted` | `daemon/graphdriver/devmapper/driver.go:164` | the counter is raised before the device is mounted, so a second `Get` returns while the first still mounts | `daemon/graphdriver/driver.go:57` "Get returns the mountpoint" |

The properties of `lifecycle_liveness` do not hold with the faults it leaves out. With "todisk"
(start, pause and unpause), an automatic restart whose save fails leaves its process running and
queues an exit; a pause that comes then holds the container's lock while it waits for its own
notification, which is behind that exit, whose handler waits for the lock (`PauseReturns`). With
"spec" (start), an automatic restart that cannot read the bundle starts nothing and reports
nothing, and the container stays "restarting" (`ExitIsNoticed`).

`DeleteDevice` and `AddDevice` take the lock of a device's `devInfo` and do not look again
whether it is still registered (`deviceset.go:2045`).

## What is not modelled

Within the modelled parts: contents of layers, tar-split data, digests, labels, probe output,
log and event messages, sizes and file systems of devices, durations other than their order.
In ContainerLifecycle: creation, rename, update, attach, checkpoints, and the daemon's own
restart. In LayerDownload: the descriptors' own work (fetching and verifying), and a layer
store that fails to release. Whole parts, with the reason for each, are in `PROJECT.json`:
networking and swarm (their state is in vendored libraries), the graph drivers other than
device mapper, and archives (system calls and file formats), the builder (sequential), the API
server and client (no state), log drivers and the registry client (I/O).

## Plan

1. Reference store and image deletion: tags in memory and on disk, and `ImageDelete` over
   ImageStore, tags and containers; properties: no tag on a missing image, no running
   container without its image, memory and file agree after a failed save.
2. Exec: the two stores of exec configurations, start against exit, and the garbage collector
   that runs beside both (`daemon/exec.go:236`).
3. Events and pubsub: late subscribers, the ring of past events, publish time-outs.
4. Live restore: the replay of events after a reconnect, where one event may be handled twice
   (`libcontainerd/client_linux.go:548`), and the daemon's start-up and shutdown over
   ContainerLifecycle.
5. Proofs: `CommittedIsKept`, `CrashConsistent` and `FreeIsUnused` of DeviceSet, and the two
   safety properties of TransferProgress.
