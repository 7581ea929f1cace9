----------------------------- MODULE VolumeStore -----------------------------
(***************************************************************************)
(* The volume store, volume/store/store.go, and those who use it: the      *)
(* mount points of containers (daemon/volumes.go, mounts.go,               *)
(* volumes_unix.go, create_unix.go) and the volume API (daemon/delete.go,  *)
(* create.go).                                                             *)
(*                                                                         *)
(* An operation of the store holds the lock of the volume's name from      *)
(* beginning to end (Locker shows that this is one lock per name), so it   *)
(* is one step.  Drivers are the sets of their volumes.  References are    *)
(* the IDs of containers; Dereference drops all of a container's at once,  *)
(* so they are a set.  A mount of a path of the host has no volume and is  *)
(* left out, and so is a second operation on a container during another.   *)
(***************************************************************************)
EXTENDS Naturals, FiniteSets

CONSTANTS Clients,      \* callers of VolumeRm and VolumeCreate
          Containers,
          Dests,        \* destinations of mount points in a container
          Tmpfs,        \* the ones of HostConfig.Tmpfs
          Names,        \* names of volumes
          Drivers,
          Local,        \* DefaultDriverName
          Uses,         \* "from": --volumes-from; "hostconfig": it is given at start
          Faults,       \* what may fail, see ConstantsAssumption
          None

ASSUME ConstantsAssumption ==
    /\ Local \in Drivers /\ Tmpfs \subseteq Dests
    /\ Uses \subseteq {"from", "hostconfig"}
    /\ Faults \subseteq {"driver", "db", "relabel", "link", "kill", "restart"}
    /\ None \notin Drivers /\ None \notin Names

VARIABLES
    names,          \* s.names: name -> driver, or None
    refs,           \* s.refs: name -> containers
    vols,           \* the drivers' volumes
    dropped,        \* history: the volumes on record that a driver no longer has, since
                    \* it removed them and then returned an error
    held,           \* the volume that a client, or the removal of a container, is
                    \* about to Remove
    cstate,         \* containers
    mounts,         \* Container.MountPoints
    points,         \* mountPoints, the map registerMountPoints builds; while anonymous
                    \* volumes are added, the mount points that are on disk
    bound,          \* binds: the destinations it has seen; those that the loop of
                    \* removeMountPoints has, if the container stays
    mishandled      \* history: containers whose references and mount points were made
                    \* to disagree, see Mishandle

store == <<names, refs, vols, dropped>>
containers == <<cstate, mounts, points, bound>>
vars == <<store, held, containers, mishandled>>

\* A volume.MountPoint: vol says that its Volume is set, named that its Source and
\* Named are (a bind), which those of an anonymous volume are not.
MountPoint == [name : Names, driver : Drivers, vol : BOOLEAN, named : BOOLEAN]
NoMount == [name |-> None]
Unmounted == [d \in Dests |-> NoMount]

SetVolume(m, vol) ==
    [name |-> m.name, driver |-> m.driver, vol |-> vol, named |-> m.named]

Points(f) == {f[d] : d \in Dests} \ {NoMount}

TypeOK ==
    /\ names \in [Names -> Drivers \cup {None}]
    /\ refs \in [Names -> SUBSET Containers]
    /\ vols \in [Drivers -> SUBSET Names]
    /\ dropped \in [Drivers -> SUBSET Names]
    /\ held \in [Clients \cup Containers -> [name : Names, driver : Drivers] \cup {NoMount}]
    /\ cstate \in [Containers -> {"none", "creating", "adding", "undoing", "created",
                                  "resetting", "starting", "up", "removing", "purging",
                                  "restoring", "reviving", "spared", "sparedv"}]
    /\ mounts \in [Containers -> [Dests -> MountPoint \cup {NoMount}]]
    /\ points \in [Containers -> [Dests -> MountPoint \cup {NoMount}]]
    /\ bound \in [Containers -> SUBSET Dests]
    /\ mishandled \subseteq Containers

Init ==
    /\ names = [n \in Names |-> None] /\ refs = [n \in Names |-> {}]
    /\ vols = [d \in Drivers |-> {}] /\ dropped = [d \in Drivers |-> {}]
    /\ held = [p \in Clients \cup Containers |-> NoMount]
    /\ cstate = [c \in Containers |-> "none"]
    /\ mounts = [c \in Containers |-> Unmounted]
    /\ points = [c \in Containers |-> Unmounted]
    /\ bound = [c \in Containers |-> {}]
    /\ mishandled = {}

\* The code drops a reference c still needs, or forgets about one c has.
Mishandle(c, bad) == mishandled' = IF bad THEN mishandled \cup {c} ELSE mishandled

\* The API is served once the containers have been loaded.
Serving == \A c \in Containers : cstate[c] \notin {"restoring", "reviving"}

-----------------------------------------------------------------------------
(* The store                                                                *)

\* create: the driver of a known volume, of one that a driver has (if none was
\* asked for), or the one asked for; its volume is made if it is not there.  An error
\* of a driver that is probed passes for not having the volume.
create(n, d, found) ==
    \/ /\ names[n] = found /\ d \in {None, Local, found}
       /\ UNCHANGED vols
    \/ /\ names[n] = None
       /\ LET having == {e \in Drivers : n \in vols[e]}
          IN  \/ d = found
              \/ d = None /\ found \in having
              \/ d = None /\ found = Local /\ (having = {} \/ "driver" \in Faults)
       /\ vols' = [vols EXCEPT ![found] = @ \cup {n}]

\* create fails: a conflict of drivers, or an error of the driver or of the metadata
\* store, which may come once the volume has been made.
createFails(n, d) ==
    \/ /\ names[n] # None /\ d \notin {None, Local, names[n]}
       /\ UNCHANGED vols
    \/ "driver" \in Faults /\ names[n] = None /\ UNCHANGED vols
    \/ /\ "driver" \in Faults \/ "db" \in Faults
       /\ \E found \in Drivers :
             names[n] = None /\ n \notin vols[found] /\ create(n, d, found)

setNamed(n, d, ref) ==
    /\ names' = [names EXCEPT ![n] = d]
    /\ refs' = [refs EXCEPT ![n] = @ \cup ref]

\* Dereference, of each of some mount points with a Volume
Dereference(c, ms) ==
    refs' = [n \in Names |->
               IF \E m \in ms : m.name = n /\ m.vol THEN refs[n] \ {c} ELSE refs[n]]

\* Mutant of Remove: the name stays on record.
RemoveWithoutPurge(n, d) ==
    \/ /\ refs[n] = {}
       /\ vols' = [vols EXCEPT ![d] = @ \ {n}]
       /\ UNCHANGED <<names, refs, dropped>>
    \/ refs[n] # {} /\ UNCHANGED store

\* Remove, and purge.  A driver that returns an error may have removed the volume:
\* local.go deletes it from its map before the last removal of a directory, which may
\* fail.  Then nothing is purged.
Remove(n, d) ==
    \/ /\ refs[n] = {}
       /\ vols' = [vols EXCEPT ![d] = @ \ {n}]
       /\ names' = [names EXCEPT ![n] = None] /\ refs' = [refs EXCEPT ![n] = {}]
       /\ dropped' = [e \in Drivers |-> dropped[e] \ {n}]
    \/ /\ refs[n] = {} /\ "driver" \in Faults
       /\ vols' = [vols EXCEPT ![d] = @ \ {n}]
       /\ dropped' = IF names[n] = d THEN [dropped EXCEPT ![d] = @ \cup {n}] ELSE dropped
       /\ UNCHANGED <<names, refs>>
    \/ /\ refs[n] # {} \/ n \notin vols[d] \/ "driver" \in Faults
       /\ UNCHANGED store

-----------------------------------------------------------------------------
(* The volume API                                                           *)

VolumeCreate(n, d) ==
    /\ Serving
    /\ \/ \E found \in Drivers : create(n, d, found) /\ setNamed(n, found, {})
       \/ createFails(n, d) /\ UNCHANGED <<names, refs>>
    /\ UNCHANGED <<dropped, held, containers, mishandled>>

\* VolumeRm, first half: Get, by the driver on record or by asking all drivers
GetVolume(p, n) ==
    /\ Serving /\ held[p] = NoMount
    /\ \E d \in Drivers :
          /\ n \in vols[d] /\ names[n] \in {d, None}
          /\ setNamed(n, d, {})
          /\ held' = [held EXCEPT ![p] = [name |-> n, driver |-> d]]
    /\ UNCHANGED <<vols, dropped, containers, mishandled>>

\* VolumeRm, second half; for a container, that of removeMountPoints
VolumeRm(p) ==
    /\ held[p] # NoMount
    /\ Remove(held[p].name, held[p].driver)
    /\ held' = [held EXCEPT ![p] = NoMount]
    /\ UNCHANGED <<containers, mishandled>>

-----------------------------------------------------------------------------
(* Mount points of containers                                               *)

\* registerMountPoints begins: for a new container, or for one that is started
\* with a host configuration.
BeginRegister(c) ==
    /\ Serving
    /\ \/ cstate[c] = "none" /\ cstate' = [cstate EXCEPT ![c] = "creating"]
       \/ /\ "hostconfig" \in Uses /\ cstate[c] = "created"
          /\ cstate' = [cstate EXCEPT ![c] = "resetting"]
    /\ points' = [points EXCEPT ![c] = mounts[c]]
    /\ bound' = [bound EXCEPT ![c] = {}]
    /\ UNCHANGED <<store, held, mounts, mishandled>>

Registering(c) == cstate[c] \in {"creating", "resetting"}

Put(c, dest, n, d, vol, named) ==
    points' = [points EXCEPT ![c][dest] =
                 [name |-> n, driver |-> d, vol |-> vol, named |-> named]]

\* A mount point that registerMountPoints has made is replaced, with its reference.
Overrides(c, dest) ==
    LET m == points[c][dest] IN m # NoMount /\ m.vol /\ m # mounts[c][dest]

\* Volumes of another container.  A mount point that has a Source is copied
\* without its Volume.
VolumesFrom(c, b, dest) ==
    LET m == mounts[b][dest]
    IN  /\ "from" \in Uses /\ Registering(c) /\ bound[c] = {}
        /\ b # c /\ m # NoMount
        /\ cstate[b] \in {"created", "resetting", "starting", "up", "removing", "purging",
                          "spared", "sparedv"}
        /\ IF m.named THEN Put(c, dest, m.name, m.driver, FALSE, TRUE) /\ UNCHANGED store
           ELSE /\ m.name \in vols[m.driver]
                /\ setNamed(m.name, m.driver, {c})
                /\ Put(c, dest, m.name, m.driver, TRUE, FALSE)
                /\ UNCHANGED <<vols, dropped>>
        /\ Mishandle(c, Overrides(c, dest))
        /\ UNCHANGED <<held, cstate, mounts, bound>>

\* A bind of a named volume
Bind(c, dest, n, d) ==
    /\ Registering(c) /\ dest \notin bound[c] \cup Tmpfs
    /\ \E found \in Drivers :
          /\ create(n, d, found) /\ setNamed(n, found, {c})
          /\ Put(c, dest, n, found, TRUE, TRUE)
    /\ bound' = [bound EXCEPT ![c] = @ \cup {dest}]
    /\ Mishandle(c, Overrides(c, dest))
    /\ UNCHANGED <<dropped, held, cstate, mounts>>

\* Mutant of RegisterFails: the references are kept.
FailKeepsRefs(c) ==
    /\ Registering(c)
    /\ cstate' = [cstate EXCEPT ![c] = IF @ = "creating" THEN "none" ELSE "created"]
    /\ points' = [points EXCEPT ![c] = Unmounted] /\ bound' = [bound EXCEPT ![c] = {}]
    /\ UNCHANGED <<store, held, mounts, mishandled>>

\* An error: the deferred function drops the references of all of mountPoints.
RegisterFails(c) ==
    /\ Registering(c)
    /\ Dereference(c, Points(points[c]))
    /\ \/ UNCHANGED vols
       \/ \E n \in Names, d \in Drivers \cup {None} : createFails(n, d)
    /\ cstate' = [cstate EXCEPT ![c] = IF @ = "creating" THEN "none" ELSE "created"]
    /\ points' = [points EXCEPT ![c] = Unmounted] /\ bound' = [bound EXCEPT ![c] = {}]
    /\ Mishandle(c, \E m \in Points(points[c]), o \in Points(mounts[c]) :
                       m.vol /\ o.vol /\ m.name = o.name)
    /\ UNCHANGED <<names, dropped, held, mounts>>

\* "4. Cleanup old volumes that are about to be reassigned.": every mount point
\* that has a Source or is local, the ones that were there included.  What is left
\* of setHostConfig may fail, and then nobody drops the references.
RegisterDone(c) ==
    LET again == {d \in Dests : /\ points[c][d] # NoMount /\ mounts[c][d] # NoMount
                                /\ points[c][d].named \/ points[c][d].driver = Local}
        lost == \E d \in Dests :
                  /\ mounts[c][d] # NoMount /\ mounts[c][d].vol
                  /\ IF d \in again
                     THEN \E m \in Points(points[c]) : m.vol /\ m.name = mounts[c][d].name
                     ELSE points[c][d] # mounts[c][d]
    IN  /\ Registering(c)
        /\ Dereference(c, {mounts[c][d] : d \in again})
        /\ \/ /\ cstate[c] = "creating"
              /\ cstate' = [cstate EXCEPT ![c] = "adding"]
              /\ mounts' = [mounts EXCEPT ![c] = points[c]] /\ UNCHANGED <<points, mishandled>>
           \/ /\ cstate[c] = "creating" /\ "link" \in Faults
              /\ cstate' = [cstate EXCEPT ![c] = "none"]
              /\ points' = [points EXCEPT ![c] = Unmounted] /\ UNCHANGED mounts
              /\ Mishandle(c, \E m \in Points(points[c]) : m.vol)
           \/ /\ cstate[c] = "resetting"
              /\ \/ cstate' = [cstate EXCEPT ![c] = "starting"]
                 \/ "link" \in Faults /\ cstate' = [cstate EXCEPT ![c] = "created"]
              /\ mounts' = [mounts EXCEPT ![c] = points[c]]
              /\ points' = [points EXCEPT ![c] = Unmounted]
              /\ Mishandle(c, lost)
        /\ bound' = [bound EXCEPT ![c] = {}]
        /\ UNCHANGED <<names, vols, dropped, held>>

\* createContainerPlatformSpecificSettings: a volume with a new name for a
\* destination with nothing mounted on it.
AddAnonymous(c, dest, n, d) ==
    /\ cstate[c] = "adding" /\ mounts[c][dest] = NoMount
    /\ names[n] = None /\ \A e \in Drivers : n \notin vols[e]
    /\ \/ \E found \in Drivers :
             /\ create(n, d, found) /\ setNamed(n, found, {c})
             /\ \/ /\ mounts' = [mounts EXCEPT ![c][dest] =
                        [name |-> n, driver |-> found, vol |-> TRUE, named |-> FALSE]]
                   /\ UNCHANGED <<cstate, mishandled>>
                \/ /\ "relabel" \in Faults
                   /\ cstate' = [cstate EXCEPT ![c] = "undoing"] /\ UNCHANGED mounts
                   /\ Mishandle(c, TRUE)
       \/ /\ createFails(n, d)
          /\ cstate' = [cstate EXCEPT ![c] = "undoing"]
          /\ UNCHANGED <<names, refs, mounts, mishandled>>
    /\ UNCHANGED <<dropped, held, points, bound>>

\* The container is created and saved, or an error undoes its creation.
Created(c) ==
    /\ cstate[c] = "adding"
    /\ \/ /\ cstate' = [cstate EXCEPT ![c] = "created"]
          /\ points' = [points EXCEPT ![c] = Unmounted]
       \/ cstate' = [cstate EXCEPT ![c] = "undoing"] /\ UNCHANGED points
    /\ UNCHANGED <<store, held, mounts, bound, mishandled>>

\* ContainerStart, ContainerStop, and ContainerRm up to the point where the container
\* is off the disk and the index: "purging" when its volumes are to go, too.
Lifecycle(c) ==
    /\ Serving
    /\ \/ cstate[c] = "created" /\ cstate' = [cstate EXCEPT ![c] = "starting"]
       \/ cstate[c] = "up" /\ cstate' = [cstate EXCEPT ![c] = "created"]
       \/ /\ cstate[c] = "created"
          /\ \E s \in {"removing", "purging"} : cstate' = [cstate EXCEPT ![c] = s]
    /\ UNCHANGED <<store, held, mounts, points, bound, mishandled>>

\* A forced ContainerRm that cannot kill the container: removeMountPoints all the same,
\* "sparedv" when the volumes are to go, too.
RmFails(c) ==
    /\ Serving /\ "kill" \in Faults /\ cstate[c] = "up"
    /\ \E s \in {"spared", "sparedv"} : cstate' = [cstate EXCEPT ![c] = s]
    /\ Mishandle(c, \E m \in Points(mounts[c]) : m.vol)
    /\ UNCHANGED <<store, held, mounts, points, bound>>

Spared(c) == cstate[c] \in {"spared", "sparedv"}

\* removeMountPoints, of a container that keeps its mount points
SpareMountPoint(c, dest) ==
    LET m == mounts[c][dest]
    IN  /\ Spared(c) /\ dest \notin bound[c]
        /\ m # NoMount /\ m.vol /\ held[c] = NoMount
        /\ Dereference(c, {m})
        /\ held' = IF ~m.named /\ cstate[c] = "sparedv"
                   THEN [held EXCEPT ![c] = [name |-> m.name, driver |-> m.driver]]
                   ELSE held
        /\ bound' = [bound EXCEPT ![c] = @ \cup {dest}]
        /\ UNCHANGED <<names, vols, dropped, cstate, mounts, points, mishandled>>

RmFailed(c) ==
    /\ Spared(c) /\ held[c] = NoMount
    /\ \A d \in Dests : mounts[c][d] # NoMount /\ mounts[c][d].vol => d \in bound[c]
    /\ cstate' = [cstate EXCEPT ![c] = "up"] /\ bound' = [bound EXCEPT ![c] = {}]
    /\ UNCHANGED <<store, held, mounts, points, mishandled>>

\* Mutant of lazyInitializeVolume: the volume is looked up without a reference.
InitWithoutRef(c) ==
    /\ cstate[c] \in {"starting", "restoring", "reviving"}
    /\ \E dest \in Dests :
          LET m == mounts[c][dest]
          IN  /\ m # NoMount /\ ~m.vol /\ m.name \in vols[m.driver]
              /\ setNamed(m.name, m.driver, {})
              /\ mounts' = [mounts EXCEPT ![c][dest] = SetVolume(m, TRUE)]
    /\ UNCHANGED <<vols, dropped, held, cstate, points, bound, mishandled>>

\* setupMounts at start, which skips what a tmpfs covers, and prepareMountPoints after a
\* restart of the daemon, which does not
ToInitialize(c) == IF cstate[c] = "starting" THEN Dests \ Tmpfs ELSE Dests

\* GetWithRef for a mount point without Volume
lazyInitializeVolume(c) ==
    /\ cstate[c] \in {"starting", "restoring", "reviving"}
    /\ \E dest \in ToInitialize(c) :
          LET m == mounts[c][dest]
          IN  /\ m # NoMount /\ ~m.vol /\ m.name \in vols[m.driver]
              /\ setNamed(m.name, m.driver, {c})
              /\ mounts' = [mounts EXCEPT ![c][dest] = SetVolume(m, TRUE)]
    /\ UNCHANGED <<vols, dropped, held, cstate, points, bound, mishandled>>

\* All volumes are there, or one is not: then a start fails, while after a restart of
\* the daemon the error is logged.
Initialized(c) ==
    LET missing == {m \in {mounts[c][d] : d \in ToInitialize(c)} : m # NoMount /\ ~m.vol}
        fails == "driver" \in Faults \/ \E m \in missing : m.name \notin vols[m.driver]
    IN  /\ \/ /\ cstate[c] = "starting" /\ missing = {}
              /\ cstate' = [cstate EXCEPT ![c] = "up"]
           \/ /\ cstate[c] \in {"starting", "restoring"} /\ (missing = {} \/ fails)
              /\ cstate' = [cstate EXCEPT ![c] = "created"]
           \/ /\ cstate[c] = "reviving" /\ (missing = {} \/ fails)
              /\ cstate' = [cstate EXCEPT ![c] = "up"]
        /\ UNCHANGED <<store, held, mounts, points, bound, mishandled>>

\* removeMountPoints: drop the reference; an anonymous volume is then removed, if the
\* client asked for it or the creation failed.
removeMountPoint(c, dest) ==
    LET m == mounts[c][dest]
    IN  /\ cstate[c] \in {"removing", "purging", "undoing"}
        /\ m # NoMount /\ held[c] = NoMount
        /\ Dereference(c, {m})
        /\ held' = IF m.vol /\ ~m.named /\ cstate[c] # "removing"
                   THEN [held EXCEPT ![c] = [name |-> m.name, driver |-> m.driver]]
                   ELSE held
        /\ mounts' = [mounts EXCEPT ![c][dest] = NoMount]
        /\ UNCHANGED <<names, vols, dropped, cstate, points, bound, mishandled>>

Removed(c) ==
    /\ cstate[c] \in {"removing", "purging", "undoing"}
    /\ mounts[c] = Unmounted /\ held[c] = NoMount
    /\ cstate' = [cstate EXCEPT ![c] = "none"]
    /\ points' = [points EXCEPT ![c] = Unmounted]
    /\ UNCHANGED <<store, held, mounts, bound, mishandled>>

\* The daemon restarts: names and references are gone, mount points lose their
\* Volume; containers that were not yet saved, or already deleted, are gone.  A
\* container that ran may have been stopped, or run on under containerd.
Restart ==
    /\ "restart" \in Faults
    /\ names' = [n \in Names |-> None] /\ refs' = [n \in Names |-> {}]
    /\ held' = [p \in Clients \cup Containers |-> NoMount]
    /\ \E live \in SUBSET {c \in Containers : cstate[c] = "up" \/ Spared(c)} :
          cstate' = [c \in Containers |->
             IF cstate[c] \in {"none", "creating", "removing", "purging"} THEN "none"
             ELSE IF c \in live \/ cstate[c] = "reviving" THEN "reviving" ELSE "restoring"]
    /\ mounts' = [c \in Containers |-> [d \in Dests |->
          LET m == IF cstate[c] \in {"adding", "undoing"} THEN points[c][d] ELSE mounts[c][d]
          IN  IF cstate'[c] = "none" \/ m = NoMount THEN NoMount
              ELSE SetVolume(m, FALSE)]]
    /\ points' = [c \in Containers |-> Unmounted]
    /\ bound' = [c \in Containers |-> {}]
    /\ dropped' = [d \in Drivers |-> {}] /\ mishandled' = {} /\ UNCHANGED vols

Next ==
    \/ \E n \in Names, d \in Drivers \cup {None} : VolumeCreate(n, d)
    \/ \E p \in Clients, n \in Names : GetVolume(p, n)
    \/ \E p \in Clients \cup Containers : VolumeRm(p)
    \/ \E c \in Containers :
          \/ BeginRegister(c) \/ RegisterFails(c) \/ RegisterDone(c)
          \/ Created(c) \/ Lifecycle(c) \/ lazyInitializeVolume(c) \/ Initialized(c)
          \/ Removed(c) \/ RmFails(c) \/ RmFailed(c)
          \/ \E dest \in Dests :
                \/ removeMountPoint(c, dest) \/ SpareMountPoint(c, dest)
                \/ \E b \in Containers : VolumesFrom(c, b, dest)
                \/ \E n \in Names, d \in Drivers \cup {None} :
                      Bind(c, dest, n, d) \/ AddAnonymous(c, dest, n, d)
    \/ Restart

Spec == Init /\ [][Next]_vars

-----------------------------------------------------------------------------
(* Properties                                                               *)

\* The volumes of a running container exist: from its start to its stop nobody
\* can remove them, whatever has happened before.  (What a tmpfs covers is not in use.)
RunningHasVolumes ==
    \A c \in Containers : cstate[c] = "up" \/ Spared(c) =>
        \A d \in Dests \ Tmpfs : mounts[c][d] # NoMount =>
            mounts[c][d].name \in vols[mounts[c][d].driver]

\* The driver has the volume, or had it until a removal that failed (Remove).
Had(d) == vols[d] \cup dropped[d]

\* A volume in use is not removed: the driver of a mount point that has been
\* initialised (MountPoint.Volume is set) has its volume, of a stopped container, too,
\* unless the container was mishandled, or mounted what was left on record by a removal
\* that failed when the volume was gone.
InUseIsKept ==
    \A c \in Containers \ mishandled : cstate[c] \in {"created", "up"} =>
        \A m \in Points(mounts[c]) : m.vol => m.name \in Had(m.driver)

\* What the store remembers is true: the driver it has on record for a name has the
\* volume, unless it dropped it in a removal that failed, and a name with references is
\* on record.  create and CreateWithRef hand out a volume on record without asking its
\* driver.
CacheIsFresh ==
    \A n \in Names : /\ names[n] # None => n \in Had(names[n])
                     /\ refs[n] # {} => names[n] # None

\* The volume of some mount point of c, or of one that is being made
Mounted(c, n) == \E m \in Points(mounts[c]) \cup Points(points[c]) : m.name = n /\ m.vol

\* A volume is referenced only by containers that mount it, or are about to; any
\* other reference would keep it from being removed for ever.  Those are the references of
\* mishandled containers.
NoStaleRefs == \A n \in Names : \A c \in refs[n] \ mishandled : Mounted(c, n)

\* The same of all containers: "remove" a volume that no container uses
RefsAreMounted == \A n \in Names : \A c \in refs[n] : Mounted(c, n)

\* "You cannot remove a volume that is in use by a container." (volume rm): no
\* container, running or not, loses a volume it mounts.
ReferencedIsKept ==
    [][\A d \in Drivers : \A n \in vols[d] \ vols'[d] : \A c \in Containers :
         cstate[c] \in {"created", "up"} =>
            \A m \in Points(mounts[c]) : ~(m.name = n /\ m.driver = d)]_vars

\* "Volume names must be unique among drivers." (volume create): no two drivers have a
\* volume of the same name.
UniqueName == \A n \in Names : Cardinality({d \in Drivers : n \in vols[d]}) <= 1
=============================================================================
