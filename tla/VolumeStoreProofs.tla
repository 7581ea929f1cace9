-------------------------- MODULE VolumeStoreProofs --------------------------
(***************************************************************************)
(* Proofs, for every set of containers, clients, names and drivers: what   *)
(* the volume store has on record is true, references end with their mount *)
(* points, and volumes in use stay.                                        *)
(*                                                                         *)
(* CacheIsFresh is inductive together with TypeOK: a name comes on record  *)
(* only with a driver that has the volume, and every step that takes a     *)
(* volume from a driver also takes its name off the record, or is a        *)
(* removal that fails, and leaves it in dropped.                           *)
(*                                                                         *)
(* The others rest on RefInv: a container that was not mishandled has      *)
(* exactly the references of its mount points (Safe), and where no kill    *)
(* fails and no host configuration is given at a start (Careful) a         *)
(* mishandled one still has at least those (Attended).                     *)
(***************************************************************************)
EXTENDS VolumeStore, TLAPS

\* Zenon unless a leaf says SMT: most steps are first-order.
USE Zenon

Mount == MountPoint \cup {NoMount}

\* Setting one mount point of one container keeps the type of the mount points.
LEMMA SetMount ==
    ASSUME NEW M, NEW f \in [Containers -> [Dests -> M]],
           NEW c \in Containers, NEW d \in Dests, NEW m \in M
    PROVE  [f EXCEPT ![c][d] = m] \in [Containers -> [Dests -> M]]
  OBVIOUS

\* A mount point that is set is a MountPoint, and has a name and a driver.
LEMMA MountFields ==
    ASSUME NEW m \in Mount, m # NoMount
    PROVE  /\ m \in MountPoint /\ m.name \in Names /\ m.driver \in Drivers
           /\ \A v \in BOOLEAN : SetVolume(m, v) \in MountPoint
  BY DEF Mount, MountPoint, SetVolume

\* Nothing is mounted where Unmounted is assigned.
LEMMA UnmountedType == Unmounted \in [Dests -> Mount]
  BY DEF Unmounted, Mount

\* The types of the store's own variables; no volume is dropped unless a driver fails.
StoreType ==
    /\ names \in [Names -> Drivers \cup {None}]
    /\ refs \in [Names -> SUBSET Containers]
    /\ vols \in [Drivers -> SUBSET Names]
    /\ dropped \in [Drivers -> SUBSET Names]
    /\ "driver" \notin Faults => \A d \in Drivers : dropped[d] = {}

\* setNamed keeps the types of names and references.
LEMMA SetNamedType ==
    ASSUME StoreType, NEW n \in Names, NEW d \in Drivers,
           NEW ref \in SUBSET Containers, setNamed(n, d, ref)
    PROVE  /\ names' \in [Names -> Drivers \cup {None}]
           /\ refs' \in [Names -> SUBSET Containers]
  BY DEF StoreType, setNamed

\* A step that takes no volume away, and drops none, keeps what the drivers had.
LEMMA HadGrows ==
    ASSUME UNCHANGED dropped, NEW e \in Drivers, vols[e] \subseteq vols'[e]
    PROVE  Had(e) \subseteq Had(e)'
  BY DEF Had

\* A successful create leaves the volume with the driver it has found, and takes none
\* away from any driver.
LEMMA CreateMakes ==
    ASSUME StoreType, CacheIsFresh, NEW n \in Names, NEW d \in Drivers \cup {None},
           NEW found \in Drivers, create(n, d, found), UNCHANGED dropped
    PROVE  /\ vols' \in [Drivers -> SUBSET Names]
           /\ n \in Had(found)'
           /\ \A e \in Drivers : vols[e] \subseteq vols'[e]
           /\ \A e \in Drivers : Had(e) \subseteq Had(e)'
<1>1. CASE names[n] = found /\ UNCHANGED vols
  <2>1. n \in Had(found) /\ found # None
    BY <1>1, ConstantsAssumption DEF CacheIsFresh
  <2> QED BY <1>1, <2>1, HadGrows DEF StoreType
<1>2. CASE vols' = [vols EXCEPT ![found] = @ \cup {n}]
  <2>1. /\ vols' \in [Drivers -> SUBSET Names] /\ n \in vols'[found]
        /\ \A e \in Drivers : vols[e] \subseteq vols'[e]
    BY <1>2 DEF StoreType
  <2> QED BY <2>1, HadGrows DEF Had
<1> QED BY <1>1, <1>2 DEF create

\* A failed create takes no volume away, either.
LEMMA CreateFailsKeeps ==
    ASSUME StoreType, CacheIsFresh, NEW n \in Names, NEW d \in Drivers \cup {None},
           createFails(n, d), UNCHANGED dropped
    PROVE  /\ vols' \in [Drivers -> SUBSET Names]
           /\ \A e \in Drivers : vols[e] \subseteq vols'[e]
           /\ \A e \in Drivers : Had(e) \subseteq Had(e)'
<1>1. CASE UNCHANGED vols
  BY <1>1, HadGrows DEF StoreType
<1>2. CASE \E found \in Drivers : create(n, d, found)
  BY <1>2, CreateMakes
<1> QED BY <1>1, <1>2 DEF createFails

\* A name comes on record with a driver that has the volume.
LEMMA RecordingIsFresh ==
    ASSUME StoreType, CacheIsFresh, NEW n \in Names, NEW d \in Drivers, NEW ref,
           setNamed(n, d, ref), n \in Had(d)',
           \A e \in Drivers : Had(e) \subseteq Had(e)'
    PROVE  CacheIsFresh'
<1> SUFFICES ASSUME NEW x \in Names
             PROVE  /\ names'[x] # None => x \in vols'[names'[x]] \cup dropped'[names'[x]]
                    /\ refs'[x] # {} => names'[x] # None
  BY DEF CacheIsFresh, Had
<1>1. CASE x = n
  BY <1>1, ConstantsAssumption DEF StoreType, setNamed, Had
<1>2. CASE x # n
  <2>1. names'[x] = names[x] /\ refs'[x] = refs[x] /\ names[x] \in Drivers \cup {None}
    BY <1>2 DEF StoreType, setNamed
  <2> QED BY <2>1 DEF CacheIsFresh, Had
<1> QED BY <1>1, <1>2

\* Nothing on record changes while drivers gain volumes and references are dropped.
LEMMA GrowingIsFresh ==
    ASSUME StoreType, CacheIsFresh, UNCHANGED names,
           \A n \in Names : refs'[n] \subseteq refs[n],
           \A e \in Drivers : Had(e) \subseteq Had(e)'
    PROVE  CacheIsFresh'
<1>1. \A n \in Names : names[n] \in Drivers \cup {None} /\ names'[n] = names[n]
  BY DEF StoreType
<1> QED BY <1>1 DEF CacheIsFresh, Had

\* Remove takes the name off the record with the volume, or leaves the volume to dropped.
\* It never takes one that has references.
LEMMA RemoveIsFresh ==
    ASSUME StoreType, CacheIsFresh, NEW n \in Names, NEW d \in Drivers, Remove(n, d)
    PROVE  /\ StoreType' /\ CacheIsFresh'
           /\ \A x \in Names : refs'[x] = refs[x]
           /\ \A x \in Names, e \in Drivers : refs[x] # {} =>
                /\ x \in vols[e] => x \in vols'[e]
                /\ x \in Had(e) => x \in Had(e)'
<1>1. CASE UNCHANGED store
  BY <1>1 DEF StoreType, CacheIsFresh, Had, store
<1>2. CASE /\ refs[n] = {} /\ vols' = [vols EXCEPT ![d] = @ \ {n}]
           /\ names' = [names EXCEPT ![n] = None] /\ refs' = [refs EXCEPT ![n] = {}]
           /\ dropped' = [e \in Drivers |-> dropped[e] \ {n}]
  <2>1. StoreType'
    BY <1>2 DEF StoreType
  <2>2. \A x \in Names : refs'[x] = refs[x]
    BY <1>2 DEF StoreType
  <2>3. \A x \in Names, e \in Drivers : x # n =>
           /\ x \in vols[e] => x \in vols'[e]
           /\ x \in dropped[e] => x \in dropped'[e]
    BY <1>2 DEF StoreType
  <2>4. names'[n] = None /\ \A x \in Names : x # n => names'[x] = names[x]
    BY <1>2 DEF StoreType
  <2>5. \A x \in Names, e \in Drivers : x # n /\ x \in Had(e) => x \in Had(e)'
    BY <2>3 DEF Had
  <2>6. \A x \in Names : names[x] \in Drivers \cup {None}
    BY DEF StoreType
  <2>7. CacheIsFresh'
    <3> SUFFICES ASSUME NEW x \in Names, x # n
                 PROVE  /\ names[x] # None => x \in vols'[names[x]] \cup dropped'[names[x]]
                        /\ refs'[x] # {} => names'[x] # None
      BY <1>2, <2>2, <2>4 DEF CacheIsFresh, Had
    <3>1. names[x] # None => x \in Had(names[x]) /\ names[x] \in Drivers
      BY <2>6 DEF CacheIsFresh
    <3>2. refs[x] # {} => names[x] # None
      BY DEF CacheIsFresh
    <3> QED BY <2>2, <2>4, <2>5, <3>1, <3>2 DEF Had
  <2> QED BY <1>2, <2>1, <2>2, <2>3, <2>5, <2>7
<1>3. CASE /\ refs[n] = {} /\ "driver" \in Faults /\ vols' = [vols EXCEPT ![d] = @ \ {n}]
           /\ dropped' = IF names[n] = d THEN [dropped EXCEPT ![d] = @ \cup {n}] ELSE dropped
           /\ UNCHANGED <<names, refs>>
  <2>1. dropped' \in [Drivers -> SUBSET Names] /\ \A e \in Drivers : dropped[e] \subseteq dropped'[e]
    BY <1>3 DEF StoreType
  <2>2. StoreType'
    BY <1>3, <2>1 DEF StoreType
  <2>3. \A x \in Names, e \in Drivers : x # n \/ e # d => (x \in vols[e] => x \in vols'[e])
    BY <1>3 DEF StoreType
  <2>4. names[n] = d => n \in dropped'[d]
    BY <1>3 DEF StoreType
  <2>5. \A x \in Names, e \in Drivers : (x # n \/ e # d) /\ x \in Had(e) => x \in Had(e)'
    BY <2>1, <2>3 DEF Had
  <2>6. \A x \in Names : names[x] \in Drivers \cup {None}
    BY DEF StoreType
  <2>7. names[n] = d => n \in Had(d)'
    BY <2>4 DEF Had
  <2>8. CacheIsFresh'
    BY <1>3, <2>5, <2>6, <2>7 DEF CacheIsFresh, Had
  <2> QED BY <1>3, <2>2, <2>3, <2>5, <2>8
<1> QED BY <1>1, <1>2, <1>3 DEF Remove

\* Dereference only takes references away.
LEMMA DereferenceDrops ==
    ASSUME StoreType, NEW c \in Containers, NEW ms, Dereference(c, ms)
    PROVE  /\ refs' \in [Names -> SUBSET Containers]
           /\ \A n \in Names : refs'[n] \subseteq refs[n]
  BY DEF StoreType, Dereference

States == {"none", "creating", "adding", "undoing", "created", "resetting", "starting",
           "up", "removing", "purging", "restoring", "reviving", "spared", "sparedv"}
Held == [name : Names, driver : Drivers] \cup {NoMount}

\* The types of the variables of the store's users
UserType ==
    /\ held \in [Clients \cup Containers -> Held]
    /\ cstate \in [Containers -> States]
    /\ mounts \in [Containers -> [Dests -> Mount]]
    /\ points \in [Containers -> [Dests -> Mount]]
    /\ bound \in [Containers -> SUBSET Dests]

Inv == StoreType /\ UserType /\ CacheIsFresh

\* The inductive invariant is the type invariant and CacheIsFresh; the history variable
\* has its type in the second part.
LEMMA InvIs == Inv /\ mishandled \subseteq Containers => TypeOK /\ CacheIsFresh
  BY DEF Inv, TypeOK, StoreType, UserType, Mount, States, Held

\* It holds when the daemon starts for the first time.
LEMMA InitInv == Init => Inv
  BY SMT, ConstantsAssumption, UnmountedType
     DEF Init, Inv, StoreType, UserType, CacheIsFresh, States, Held

\* A volume that is held has a name and a driver.
LEMMA HeldFields ==
    ASSUME NEW v \in Held, v # NoMount
    PROVE  v.name \in Names /\ v.driver \in Drivers
  BY DEF Held

\* A volume that is created, or found, is put on record.
LEMMA RecordedStep ==
    ASSUME StoreType, CacheIsFresh, NEW n \in Names, NEW d \in Drivers \cup {None},
           NEW found \in Drivers, NEW ref \in SUBSET Containers,
           create(n, d, found), setNamed(n, found, ref), UNCHANGED dropped
    PROVE  StoreType' /\ CacheIsFresh'
<1>1. /\ vols' \in [Drivers -> SUBSET Names] /\ n \in Had(found)'
      /\ \A e \in Drivers : Had(e) \subseteq Had(e)'
  BY CreateMakes
<1>2. /\ names' \in [Names -> Drivers \cup {None}]
      /\ refs' \in [Names -> SUBSET Containers]
  BY SetNamedType
<1> QED BY <1>1, <1>2, RecordingIsFresh DEF StoreType

\* The same of one that a driver has
LEMMA FoundStep ==
    ASSUME StoreType, CacheIsFresh, NEW n \in Names, NEW d \in Drivers,
           NEW ref \in SUBSET Containers,
           n \in vols[d], setNamed(n, d, ref), UNCHANGED <<vols, dropped>>
    PROVE  StoreType' /\ CacheIsFresh'
<1>1. n \in Had(d)' /\ \A e \in Drivers : Had(e) \subseteq Had(e)'
  BY DEF Had
<1>2. /\ names' \in [Names -> Drivers \cup {None}]
      /\ refs' \in [Names -> SUBSET Containers]
  BY SetNamedType
<1> QED BY <1>1, <1>2, RecordingIsFresh DEF StoreType

\* A step that leaves the store alone keeps it true.
LEMMA StoreUnchanged ==
    ASSUME StoreType, CacheIsFresh, UNCHANGED store
    PROVE  StoreType' /\ CacheIsFresh'
  BY DEF StoreType, CacheIsFresh, Had, store

\* The steps of the volume API
LEMMA ApiStep ==
    ASSUME Inv,
           \/ \E n \in Names, d \in Drivers \cup {None} : VolumeCreate(n, d)
           \/ \E p \in Clients, n \in Names : GetVolume(p, n)
           \/ \E p \in Clients \cup Containers : VolumeRm(p)
    PROVE  Inv'
<1> USE DEF Inv
<1>1. ASSUME NEW n \in Names, NEW d \in Drivers \cup {None}, VolumeCreate(n, d)
      PROVE  Inv'
  <2>0. UNCHANGED dropped
    BY <1>1 DEF VolumeCreate
  <2>1. UserType'
    BY <1>1 DEF VolumeCreate, UserType, containers
  <2>2. ASSUME NEW found \in Drivers, create(n, d, found), setNamed(n, found, {})
        PROVE  StoreType' /\ CacheIsFresh'
    BY <2>0, <2>2, RecordedStep
  <2>3. CASE createFails(n, d) /\ UNCHANGED <<names, refs>>
    <3>1. /\ vols' \in [Drivers -> SUBSET Names]
          /\ \A e \in Drivers : Had(e) \subseteq Had(e)'
      BY <2>0, <2>3, CreateFailsKeeps
    <3>2. CacheIsFresh'
      BY <2>3, <3>1, GrowingIsFresh
    <3> QED BY <2>0, <2>1, <2>3, <3>1, <3>2 DEF StoreType
  <2> QED BY <1>1, <2>1, <2>2, <2>3 DEF VolumeCreate
<1>2. ASSUME NEW p \in Clients, NEW n \in Names, GetVolume(p, n)
      PROVE  Inv'
  <2>1. PICK d \in Drivers :
           /\ n \in vols[d] /\ setNamed(n, d, {})
           /\ held' = [held EXCEPT ![p] = [name |-> n, driver |-> d]]
    BY <1>2 DEF GetVolume
  <2>2. UNCHANGED <<vols, dropped, cstate, mounts, points, bound>>
    BY <1>2 DEF GetVolume, containers
  <2>3. UserType'
    BY <2>1, <2>2 DEF UserType, Held
  <2>4. StoreType' /\ CacheIsFresh'
    BY <2>1, <2>2, FoundStep
  <2> QED BY <2>3, <2>4
<1>3. ASSUME NEW p \in Clients \cup Containers, VolumeRm(p)
      PROVE  Inv'
  <2>1. held[p] \in Held /\ held[p] # NoMount
    BY <1>3 DEF VolumeRm, UserType
  <2>2. StoreType' /\ CacheIsFresh'
    BY <1>3, <2>1, HeldFields, RemoveIsFresh DEF VolumeRm
  <2>3. UserType'
    BY <1>3 DEF VolumeRm, UserType, Held, containers
  <2> QED BY <2>2, <2>3
<1> QED BY <1>1, <1>2, <1>3

\* Mount points with and without a Volume have their type.
LEMMA NewMount ==
    ASSUME NEW n \in Names, NEW d \in Drivers, NEW v \in BOOLEAN, NEW w \in BOOLEAN
    PROVE  [name |-> n, driver |-> d, vol |-> v, named |-> w] \in Mount
  BY DEF Mount, MountPoint

\* registerMountPoints: its beginning, volumes-from and binds
LEMMA RegisterStep ==
    ASSUME Inv, NEW c \in Containers,
           \/ BeginRegister(c)
           \/ \E b \in Containers, dest \in Dests : VolumesFrom(c, b, dest)
           \/ \E dest \in Dests, n \in Names, d \in Drivers \cup {None} : Bind(c, dest, n, d)
    PROVE  Inv'
<1> USE DEF Inv
<1>1. CASE BeginRegister(c)
  <2>1. UserType'
    BY <1>1 DEF BeginRegister, UserType, States
  <2> QED BY <1>1, <2>1, StoreUnchanged DEF BeginRegister
<1>2. ASSUME NEW b \in Containers, NEW dest \in Dests, VolumesFrom(c, b, dest)
      PROVE  Inv'
  <2> DEFINE m == mounts[b][dest]
  <2>1. m \in Mount /\ m # NoMount
    <3>1. mounts[b] \in [Dests -> Mount]
      BY DEF UserType
    <3> QED BY <1>2, <3>1 DEF VolumesFrom
  <2>2. m.name \in Names /\ m.driver \in Drivers
    BY <2>1, MountFields
  <2>3. \/ Put(c, dest, m.name, m.driver, FALSE, TRUE) /\ UNCHANGED store
        \/ /\ m.name \in vols[m.driver] /\ setNamed(m.name, m.driver, {c})
           /\ Put(c, dest, m.name, m.driver, TRUE, FALSE) /\ UNCHANGED <<vols, dropped>>
    BY <1>2 DEF VolumesFrom
  <2>4. UNCHANGED <<held, cstate, mounts, bound>>
    BY <1>2 DEF VolumesFrom
  <2> HIDE DEF m
  <2>5. points' \in [Containers -> [Dests -> Mount]]
    <3>1. PICK v \in BOOLEAN, w \in BOOLEAN : Put(c, dest, m.name, m.driver, v, w)
      BY <2>3, Zenon
    <3> QED BY <2>2, <3>1, NewMount, SetMount DEF Put, UserType
  <2>6. UserType'
    BY <2>4, <2>5 DEF UserType
  <2>7. StoreType' /\ CacheIsFresh'
    <3>1. CASE UNCHANGED store
      BY <3>1, StoreUnchanged
    <3>2. CASE /\ m.name \in vols[m.driver] /\ setNamed(m.name, m.driver, {c})
               /\ UNCHANGED <<vols, dropped>>
      BY <2>2, <3>2, FoundStep
    <3> QED BY <2>3, <3>1, <3>2
  <2> QED BY <2>6, <2>7
<1>3. ASSUME NEW dest \in Dests, NEW n \in Names, NEW d \in Drivers \cup {None},
             Bind(c, dest, n, d)
      PROVE  Inv'
  <2>1. PICK found \in Drivers :
           /\ create(n, d, found) /\ setNamed(n, found, {c})
           /\ Put(c, dest, n, found, TRUE, TRUE) /\ UNCHANGED dropped
    BY <1>3 DEF Bind
  <2>2. points' \in [Containers -> [Dests -> Mount]]
    BY <2>1, NewMount, SetMount DEF Put, UserType
  <2>3. UserType'
    BY <1>3, <2>2 DEF Bind, UserType
  <2>4. StoreType' /\ CacheIsFresh'
    BY <2>1, RecordedStep
  <2> QED BY <2>3, <2>4
<1> QED BY <1>1, <1>2, <1>3

\* registerMountPoints and setHostConfig: their ends
LEMMA RegisteredStep ==
    ASSUME Inv, NEW c \in Containers, RegisterFails(c) \/ RegisterDone(c)
    PROVE  Inv'
<1> USE DEF Inv
<1>1. CASE RegisterFails(c)
  <2>1. UserType'
    BY <1>1, UnmountedType DEF RegisterFails, UserType, States
  <2>2. /\ refs' \in [Names -> SUBSET Containers]
        /\ \A n \in Names : refs'[n] \subseteq refs[n]
    BY <1>1, DereferenceDrops DEF RegisterFails
  <2>4. UNCHANGED <<names, dropped>>
    BY <1>1 DEF RegisterFails
  <2>3. /\ vols' \in [Drivers -> SUBSET Names]
        /\ \A e \in Drivers : Had(e) \subseteq Had(e)'
    <3>1. CASE UNCHANGED vols
      BY <2>4, <3>1, HadGrows DEF StoreType
    <3> QED BY <1>1, <2>4, <3>1, CreateFailsKeeps DEF RegisterFails
  <2>5. CacheIsFresh'
    BY <2>2, <2>3, <2>4, GrowingIsFresh
  <2> QED BY <2>1, <2>2, <2>3, <2>4, <2>5 DEF StoreType
<1>2. CASE RegisterDone(c)
  <2>1. UserType'
    <3>1. /\ \E st \in States : cstate' = [cstate EXCEPT ![c] = st]
          /\ mounts' = [mounts EXCEPT ![c] = points[c]] \/ UNCHANGED mounts
          /\ points' = [points EXCEPT ![c] = Unmounted] \/ UNCHANGED points
          /\ bound' = [bound EXCEPT ![c] = {}] /\ UNCHANGED held
      BY <1>2 DEF RegisterDone, States
    <3>2. cstate' \in [Containers -> States] /\ bound' \in [Containers -> SUBSET Dests]
      BY <3>1 DEF UserType
    <3>3. mounts' \in [Containers -> [Dests -> Mount]]
      BY <3>1 DEF UserType
    <3>4. points' \in [Containers -> [Dests -> Mount]]
      BY <3>1, UnmountedType DEF UserType
    <3> QED BY <3>1, <3>2, <3>3, <3>4 DEF UserType
  <2> DEFINE again == {d \in Dests :
                         /\ points[c][d] # NoMount /\ mounts[c][d] # NoMount
                         /\ points[c][d].named \/ points[c][d].driver = Local}
             old == {mounts[c][d] : d \in again}
  <2>2. Dereference(c, old)
    BY <1>2, Zenon DEF RegisterDone
  <2> HIDE DEF old
  <2>3. /\ refs' \in [Names -> SUBSET Containers]
        /\ \A n \in Names : refs'[n] \subseteq refs[n]
    BY <2>2, DereferenceDrops
  <2>4. UNCHANGED <<names, vols, dropped>>
    BY <1>2 DEF RegisterDone
  <2>5. CacheIsFresh'
    BY <2>3, <2>4, GrowingIsFresh DEF Had
  <2> QED BY <2>1, <2>3, <2>4, <2>5 DEF StoreType
<1> QED BY <1>1, <1>2

\* Creation, start, stop and the ends of initialisation and removal: only the state
\* of the container and what it had on disk change.
LEMMA StateStep ==
    ASSUME Inv, NEW c \in Containers,
           \/ Created(c) \/ Lifecycle(c) \/ Initialized(c) \/ Removed(c)
           \/ RmFails(c) \/ RmFailed(c)
    PROVE  Inv'
<1> USE DEF Inv
<1>1. /\ UNCHANGED <<store, held, mounts>>
      /\ bound' = bound \/ bound' = [bound EXCEPT ![c] = {}]
  BY DEF Created, Lifecycle, Initialized, Removed, RmFails, RmFailed
<1>2. /\ \E st \in States : cstate' = [cstate EXCEPT ![c] = st]
      /\ points' = [points EXCEPT ![c] = Unmounted] \/ UNCHANGED points
  BY DEF Created, Lifecycle, Initialized, Removed, RmFails, RmFailed, States
<1>3. UserType'
  <2>1. cstate' \in [Containers -> States]
    BY <1>2 DEF UserType
  <2>2. points' \in [Containers -> [Dests -> Mount]]
    BY <1>2, UnmountedType DEF UserType
  <2>3. bound' \in [Containers -> SUBSET Dests]
    BY <1>1 DEF UserType
  <2> QED BY <1>1, <2>1, <2>2, <2>3 DEF UserType
<1> QED BY <1>1, <1>3, StoreUnchanged

\* Anonymous volumes
LEMMA AnonymousStep ==
    ASSUME Inv, NEW c \in Containers, NEW dest \in Dests, NEW n \in Names,
           NEW d \in Drivers \cup {None}, AddAnonymous(c, dest, n, d)
    PROVE  Inv'
<1> USE DEF Inv
<1>1. UNCHANGED <<dropped, held, points, bound>>
  BY DEF AddAnonymous
<1>2. ASSUME NEW found \in Drivers, create(n, d, found), setNamed(n, found, {c})
      PROVE  StoreType' /\ CacheIsFresh'
  BY <1>1, <1>2, RecordedStep
<1>3. ASSUME createFails(n, d), UNCHANGED <<names, refs>>
      PROVE  StoreType' /\ CacheIsFresh'
  <2>1. /\ vols' \in [Drivers -> SUBSET Names]
        /\ \A e \in Drivers : Had(e) \subseteq Had(e)'
    BY <1>1, <1>3, CreateFailsKeeps
  <2>2. CacheIsFresh'
    BY <1>3, <2>1, GrowingIsFresh
  <2> QED BY <1>1, <1>3, <2>1, <2>2 DEF StoreType
<1>4. StoreType' /\ CacheIsFresh'
  BY <1>2, <1>3 DEF AddAnonymous
<1>5. cstate' \in [Containers -> States]
  BY DEF AddAnonymous, UserType, States
<1>6. mounts' \in [Containers -> [Dests -> Mount]]
  <2>1. \/ UNCHANGED mounts
        \/ \E found \in Drivers : mounts' = [mounts EXCEPT ![c][dest] =
              [name |-> n, driver |-> found, vol |-> TRUE, named |-> FALSE]]
    BY DEF AddAnonymous
  <2>2. ASSUME NEW found \in Drivers,
               mounts' = [mounts EXCEPT ![c][dest] =
                  [name |-> n, driver |-> found, vol |-> TRUE, named |-> FALSE]]
        PROVE  mounts' \in [Containers -> [Dests -> Mount]]
    BY <2>2, NewMount, SetMount DEF UserType
  <2>3. CASE UNCHANGED mounts
    BY <2>3 DEF UserType
  <2> QED BY <2>1, <2>2, <2>3
<1> QED BY <1>1, <1>4, <1>5, <1>6 DEF UserType

\* lazyInitializeVolume
LEMMA LazyStep ==
    ASSUME Inv, NEW c \in Containers, lazyInitializeVolume(c)
    PROVE  Inv'
<1> USE DEF Inv
<1>1. PICK dest \in Dests :
         /\ mounts[c][dest] # NoMount
         /\ mounts[c][dest].name \in vols[mounts[c][dest].driver]
         /\ setNamed(mounts[c][dest].name, mounts[c][dest].driver, {c})
         /\ mounts' = [mounts EXCEPT ![c][dest] = SetVolume(mounts[c][dest], TRUE)]
  BY DEF lazyInitializeVolume, ToInitialize
<1> DEFINE m == mounts[c][dest]
<1>2. m \in Mount /\ m # NoMount
  BY <1>1 DEF UserType
<1>3. m.name \in Names /\ m.driver \in Drivers /\ SetVolume(m, TRUE) \in Mount
  BY <1>2, MountFields DEF Mount
<1>4. UNCHANGED <<vols, dropped, held, cstate, points, bound>>
  BY DEF lazyInitializeVolume
<1>5. mounts' \in [Containers -> [Dests -> Mount]]
  BY <1>1, <1>3, SetMount DEF UserType
<1>6. UserType'
  BY <1>4, <1>5 DEF UserType
<1>7. StoreType' /\ CacheIsFresh'
  BY <1>1, <1>3, <1>4, FoundStep
<1> QED BY <1>6, <1>7

\* removeMountPoints
LEMMA RemoveStep ==
    ASSUME Inv, NEW c \in Containers, NEW dest \in Dests,
           removeMountPoint(c, dest) \/ SpareMountPoint(c, dest)
    PROVE  Inv'
<1> USE DEF Inv
<1> DEFINE m == mounts[c][dest]
<1>0. m # NoMount
  BY DEF removeMountPoint, SpareMountPoint
<1>1. m \in Mount /\ m # NoMount
  BY <1>0 DEF UserType
<1>2. m.name \in Names /\ m.driver \in Drivers
  BY <1>1, MountFields
<1>3. /\ Dereference(c, {m}) /\ UNCHANGED <<names, vols, dropped, cstate, points>>
      /\ mounts' = [mounts EXCEPT ![c][dest] = NoMount] \/ mounts' = mounts
      /\ bound' = [bound EXCEPT ![c] = @ \cup {dest}] \/ bound' = bound
      /\ \/ held' = [held EXCEPT ![c] = [name |-> m.name, driver |-> m.driver]]
         \/ held' = held
  BY DEF removeMountPoint, SpareMountPoint
<1> HIDE DEF m
<1>4. NoMount \in Mount
  BY DEF Mount
<1>5. mounts' \in [Containers -> [Dests -> Mount]]
  <2>1. CASE mounts' = [mounts EXCEPT ![c][dest] = NoMount]
    BY <1>4, <2>1, SetMount DEF UserType
  <2>2. CASE mounts' = mounts
    BY <2>2 DEF UserType
  <2> QED BY <1>3, <2>1, <2>2
<1>6. held' \in [Clients \cup Containers -> Held]
  BY SMT, <1>2, <1>3 DEF UserType, Held
<1>7. /\ refs' \in [Names -> SUBSET Containers]
      /\ \A n \in Names : refs'[n] \subseteq refs[n]
  BY <1>3, DereferenceDrops
<1>8. CacheIsFresh'
  <2>1. \A e \in Drivers : Had(e) \subseteq Had(e)'
    BY <1>3 DEF Had
  <2> QED BY <1>3, <1>7, <2>1, GrowingIsFresh
<1>9. bound' \in [Containers -> SUBSET Dests]
  <2>1. bound \in [Containers -> SUBSET Dests]
    BY DEF UserType
  <2> QED BY SMT, <1>3, <2>1
<1> QED BY <1>3, <1>5, <1>6, <1>7, <1>8, <1>9 DEF UserType, StoreType

\* A restart forgets what is on record.
LEMMA RestartStep ==
    ASSUME Inv, Restart
    PROVE  Inv'
<1> USE DEF Inv
<1>1. StoreType' /\ CacheIsFresh'
  BY DEF Restart, StoreType, CacheIsFresh
<1>2. held' \in [Clients \cup Containers -> Held]
  BY DEF Restart, Held
<1>3. cstate' \in [Containers -> States]
  BY DEF Restart, States
<1>4. mounts' \in [Containers -> [Dests -> Mount]]
  <2> DEFINE m(c, d) == IF cstate[c] \in {"adding", "undoing"} THEN points[c][d]
                        ELSE mounts[c][d]
  <2>1. mounts' = [c \in Containers |-> [d \in Dests |->
                     IF cstate'[c] = "none" \/ m(c, d) = NoMount THEN NoMount
                     ELSE SetVolume(m(c, d), FALSE)]]
    BY DEF Restart
  <2>2. \A c \in Containers, d \in Dests : m(c, d) \in Mount
    BY DEF UserType
  <2> HIDE DEF m
  <2>3. NoMount \in Mount
    BY DEF Mount
  <2>4. \A c \in Containers, d \in Dests :
           m(c, d) # NoMount => SetVolume(m(c, d), FALSE) \in Mount
    BY <2>2, MountFields DEF Mount
  <2> QED BY <2>1, <2>3, <2>4
<1>5. points' \in [Containers -> [Dests -> Mount]] /\ bound' \in [Containers -> SUBSET Dests]
  BY UnmountedType DEF Restart
<1> QED BY <1>1, <1>2, <1>3, <1>4, <1>5 DEF UserType

\* Every step keeps the invariant.
LEMMA NextInv == Inv /\ [Next]_vars => Inv'
<1> SUFFICES ASSUME Inv, [Next]_vars PROVE Inv'
  OBVIOUS
<1>1. CASE UNCHANGED vars
  <2>1. UserType'
    BY <1>1 DEF Inv, vars, containers, UserType
  <2> QED BY <1>1, <2>1, StoreUnchanged DEF Inv, vars
<1>2. CASE Next
  BY <1>2, ApiStep, RegisterStep, RegisteredStep, StateStep, AnonymousStep, LazyStep,
     RemoveStep, RestartStep DEF Next
<1> QED BY <1>1, <1>2

\* The driver on record for a name has the volume, so that create may hand it out
\* without asking, except after a removal that took the volume and failed; and a
\* referenced name is on record, for all constants.
THEOREM RecordsAreTrue == Spec => []CacheIsFresh
<1>1. Inv => CacheIsFresh
  BY DEF Inv
<1> QED BY <1>1, InitInv, NextInv, PTL DEF Spec

-----------------------------------------------------------------------------
(* References to volumes.  A container that was not mishandled has the
   references its mount points need, and no other.

   NoStaleRefs and InUseIsKept are two sides of Safe(c), which is inductive for
   each container on its own: a step of another container, or of a client, does
   not change the references of c, and takes away only volumes nobody references.
   Registration has its mount points in points first, and a container that leaves
   gives its references back one mount point after the other, so Safe tells these
   states apart.                                                             *)

Leaving(c) == cstate[c] \in {"removing", "purging", "undoing"}

\* Mount point d of c in f, which is mounts or points, has its Volume.
HasVol(f, c, d) == f[c][d] # NoMount /\ f[c][d].vol

\* The volume n is that of a mount point of c.
Mounts(f, c, n) == \E d \in Dests : HasVol(f, c, d) /\ f[c][d].name = n

\* c references, and its driver has, the volume of each mount point in f.
Guarded(f, c) ==
    \A d \in Dests : HasVol(f, c, d) =>
        c \in refs[f[c][d].name] /\ f[c][d].name \in Had(f[c][d].driver)

Safe(c) ==
    /\ \A n \in Names : c \in refs[n] =>
          Mounts(mounts, c, n) \/ (Registering(c) /\ Mounts(points, c, n))
    /\ ~Leaving(c) => Guarded(mounts, c)
    /\ Registering(c) => Guarded(points, c)
    /\ Spared(c) => \A d \in Dests : ~HasVol(mounts, c, d)

\* A container that is not there, or not yet, has no mount points.
Blank(c) == cstate[c] \in {"none", "creating"} => mounts[c] = Unmounted

\* Every mount point of c in f has its Volume.
Full(f, c) == \A d \in Dests : f[c][d] # NoMount => f[c][d].vol

\* The volumes of all mount points of c exist.
Present(c) ==
    \A d \in Dests : mounts[c][d] # NoMount => mounts[c][d].name \in vols[mounts[c][d].driver]

\* No container is killed in vain, or started with a host configuration; drivers answer,
\* and no mount point is left out for a tmpfs; and the daemon runs on.
Careful  == "kill" \notin Faults /\ "hostconfig" \notin Uses
Answered == "driver" \notin Faults /\ Tmpfs = {}
Plain    == Uses = {} /\ "restart" \notin Faults

\* What holds of mishandled containers, too, if Careful: they have too many references,
\* and no mount point loses one.
Attended(c) ==
    /\ cstate[c] # "resetting" /\ ~Spared(c)
    /\ ~Leaving(c) => Guarded(mounts, c)
    /\ Registering(c) => Guarded(points, c)
    /\ Answered /\ cstate[c] = "up" => Full(mounts, c)
    /\ Answered /\ cstate[c] = "reviving" => Present(c)
    /\ Plain => Full(mounts, c) /\ Full(points, c)

RefInv ==
    /\ mishandled \subseteq Containers
    /\ \A c \in Containers : /\ Blank(c) /\ (c \notin mishandled => Safe(c))
                             /\ Careful => Attended(c)

\* While containers are being loaded nothing else goes on.
Quiet ==
    ~Serving => /\ \A p \in Clients \cup Containers : held[p] = NoMount
                /\ \A c \in Containers : cstate[c] \in {"none", "restoring", "reviving",
                                                      "created", "up"}

\* What a step leaves alone of a container, if it is not a step of that container
Frame(c) ==
    /\ cstate'[c] = cstate[c] /\ mounts'[c] = mounts[c] /\ points'[c] = points[c]
    /\ \A n \in Names : c \in refs'[n] <=> c \in refs[n]
    /\ \A n \in Names, d \in Drivers :
          /\ c \in refs[n] /\ n \in Had(d) => n \in Had(d)'
          /\ cstate[c] = "reviving" /\ n \in vols[d] => n \in vols'[d]
    /\ c \in mishandled => c \in mishandled'

\* A mount point with a Volume has a name and a driver.
LEMMA VolFields ==
    ASSUME Inv, NEW c \in Containers, NEW d \in Dests
    PROVE  /\ HasVol(mounts, c, d) => mounts[c][d].name \in Names /\ mounts[c][d].driver \in Drivers
           /\ HasVol(points, c, d) => points[c][d].name \in Names /\ points[c][d].driver \in Drivers
  BY MountFields DEF Inv, UserType, HasVol

\* Such a container stays as it should be.
LEMMA FrameKeeps ==
    ASSUME Inv, NEW c \in Containers, Frame(c), Blank(c), c \notin mishandled => Safe(c),
           Careful => Attended(c)
    PROVE  Blank(c)' /\ (c \notin mishandled' => Safe(c)') /\ (Careful => Attended(c)')
<1>1. Blank(c)'
  BY DEF Frame, Blank
<1>2. /\ Registering(c)' = Registering(c) /\ Leaving(c)' = Leaving(c)
      /\ Spared(c)' = Spared(c)
  BY DEF Frame, Registering, Leaving, Spared
<1>3. Guarded(mounts, c) => Guarded(mounts, c)'
  BY VolFields DEF Frame, Guarded, HasVol, Had
<1>4. Guarded(points, c) => Guarded(points, c)'
  BY VolFields DEF Frame, Guarded, HasVol, Had
<1>5. ASSUME c \notin mishandled' PROVE Safe(c)'
  <2>1. Safe(c)
    BY <1>5 DEF Frame
  <2>2. \A n \in Names : /\ Mounts(mounts, c, n)' <=> Mounts(mounts, c, n)
                         /\ Mounts(points, c, n)' <=> Mounts(points, c, n)
    BY DEF Frame, Mounts, HasVol
  <2>3. \A d \in Dests : HasVol(mounts, c, d)' <=> HasVol(mounts, c, d)
    BY DEF Frame, HasVol
  <2> QED BY <1>2, <1>3, <1>4, <2>1, <2>2, <2>3 DEF Safe, Frame
<1>6. ASSUME Careful PROVE Attended(c)'
  <2>1. Attended(c) /\ cstate'[c] = cstate[c]
    BY <1>6 DEF Frame
  <2>2. Full(mounts, c)' = Full(mounts, c) /\ Full(points, c)' = Full(points, c)
    BY DEF Frame, Full
  <2>3. cstate[c] = "reviving" /\ Present(c) => Present(c)'
    BY MountFields DEF Frame, Present, Inv, UserType
  <2> QED BY <1>2, <1>3, <1>4, <2>1, <2>2, <2>3 DEF Attended
<1> QED BY <1>1, <1>5, <1>6

\* So a step is correct if it is correct for the container that takes it.
LEMMA OneContainer ==
    ASSUME Inv, RefInv, NEW c \in Containers,
           \A k \in Containers \ {c} : Frame(k),
           mishandled' \in {mishandled, mishandled \cup {c}},
           Blank(c)', c \notin mishandled' => Safe(c)', Careful => Attended(c)'
    PROVE  RefInv'
<1>1. \A k \in Containers \ {c} :
         Blank(k)' /\ (k \notin mishandled' => Safe(k)') /\ (Careful => Attended(k)')
  BY FrameKeeps DEF RefInv
<1> QED BY <1>1 DEF RefInv

\* The steps of the volume API
LEMMA ApiRefs ==
    ASSUME Inv, Quiet, RefInv,
           \/ \E n \in Names, d \in Drivers \cup {None} : VolumeCreate(n, d)
           \/ \E p \in Clients, n \in Names : GetVolume(p, n)
           \/ \E p \in Clients \cup Containers : VolumeRm(p)
    PROVE  RefInv'
<1>1. UNCHANGED <<cstate, mounts, points, mishandled>>
  BY DEF VolumeCreate, GetVolume, VolumeRm, containers
<1> DEFINE Kept == /\ \A c \in Containers, n \in Names : c \in refs'[n] <=> c \in refs[n]
                  /\ \A c \in Containers, n \in Names, d \in Drivers :
                        /\ c \in refs[n] /\ n \in Had(d) => n \in Had(d)'
                        /\ cstate[c] = "reviving" /\ n \in vols[d] => n \in vols'[d]
<1>2. Kept
  <2>1. ASSUME NEW n \in Names, NEW d \in Drivers \cup {None}, VolumeCreate(n, d)
        PROVE  Kept
    <3>0. refs \in [Names -> SUBSET Containers]
      BY DEF Inv, StoreType
    <3>1. \A x \in Names : refs'[x] = refs[x]
      <4>1. refs' = [refs EXCEPT ![n] = @ \cup {}] \/ refs' = refs
        BY <2>1 DEF VolumeCreate, setNamed
      <4> QED BY <3>0, <4>1
    <3>2. \A e \in Drivers : vols[e] \subseteq vols'[e] /\ Had(e) \subseteq Had(e)'
      BY <2>1, CreateMakes, CreateFailsKeeps DEF VolumeCreate, Inv
    <3> QED BY <3>1, <3>2
  <2>2. ASSUME NEW p \in Clients, NEW n \in Names, GetVolume(p, n)
        PROVE  Kept
    <3>1. \A x \in Names : refs'[x] = refs[x]
      BY SMT, <2>2 DEF GetVolume, setNamed, Inv, StoreType
    <3>2. UNCHANGED <<vols, dropped>>
      BY <2>2 DEF GetVolume
    <3> QED BY <3>1, <3>2 DEF Had
  <2>3. ASSUME NEW p \in Clients \cup Containers, VolumeRm(p)
        PROVE  Kept
    <3>1. held[p] \in Held /\ held[p] # NoMount /\ Remove(held[p].name, held[p].driver)
      BY <2>3 DEF VolumeRm, Inv, UserType
    <3>2. held[p].name \in Names /\ held[p].driver \in Drivers
      BY <3>1, HeldFields
    <3>3. \A c \in Containers : cstate[c] # "reviving"
      BY <3>1 DEF Quiet, Serving
    <3>4. ASSUME NEW n \in Names, NEW d \in Drivers, Remove(n, d)
          PROVE  Kept
      BY <3>3, <3>4, RemoveIsFresh DEF Inv
    <3> QED BY <3>1, <3>2, <3>4
  <2> QED BY <2>1, <2>2, <2>3
<1>3. \A c \in Containers : Frame(c)
  BY <1>1, <1>2 DEF Frame
<1> QED BY <1>1, <1>3, FrameKeeps DEF RefInv

\* Unmounted holds no volume.
LEMMA NothingMounted ==
    ASSUME NEW f, NEW c \in Containers, f[c] = Unmounted
    PROVE  \A d \in Dests : ~HasVol(f, c, d)
  BY DEF Unmounted, HasVol

\* All is well with a container that mounts nothing.
LEMMA UnmountedAttended ==
    ASSUME NEW c \in Containers, cstate'[c] # "resetting", ~Spared(c)',
           mounts'[c] = Unmounted, points'[c] = Unmounted
    PROVE  Attended(c)'
<1>1. \A d \in Dests : mounts'[c][d] = NoMount /\ points'[c][d] = NoMount
  BY DEF Unmounted
<1>2. Guarded(mounts, c)' /\ Guarded(points, c)'
  BY <1>1 DEF Guarded, HasVol
<1>3. Full(mounts, c)' /\ Full(points, c)' /\ Present(c)'
  BY <1>1 DEF Full, Present
<1> QED BY <1>2, <1>3 DEF Attended

\* The steps that change only where a container stands, and its saved mount points
LEMMA StateRefs ==
    ASSUME Inv, RefInv, NEW c \in Containers,
           BeginRegister(c) \/ Created(c) \/ Lifecycle(c) \/ Initialized(c) \/ Removed(c)
    PROVE  RefInv'
<1>1. /\ UNCHANGED <<store, mounts, mishandled>>
      /\ \E st \in States : cstate' = [cstate EXCEPT ![c] = st]
      /\ \A k \in Containers \ {c} : points'[k] = points[k]
  <2>1. \/ points' = [points EXCEPT ![c] = mounts[c]] \/ UNCHANGED points
        \/ points' = [points EXCEPT ![c] = Unmounted]
    BY DEF BeginRegister, Created, Lifecycle, Initialized, Removed
  <2>2. \A k \in Containers \ {c} : points'[k] = points[k]
    BY <2>1 DEF Inv, UserType
  <2> QED BY <2>2 DEF BeginRegister, Created, Lifecycle, Initialized, Removed, States
<1>2. \A k \in Containers \ {c} : Frame(k)
  BY <1>1 DEF Frame, store, Had, Inv, UserType
<1>3. cstate'[c] \in States /\ cstate[c] \in States
  BY <1>1 DEF Inv, UserType
<1>4. Blank(c) /\ (c \notin mishandled => Safe(c)) /\ (Careful => Attended(c))
  BY DEF RefInv
<1>5. CASE BeginRegister(c)
  <2>1. /\ \/ cstate[c] = "none" /\ cstate' = [cstate EXCEPT ![c] = "creating"]
           \/ cstate[c] = "created" /\ cstate' = [cstate EXCEPT ![c] = "resetting"]
        /\ points' = [points EXCEPT ![c] = mounts[c]]
    BY <1>5 DEF BeginRegister
  <2>4. /\ \/ cstate[c] = "none" /\ cstate'[c] = "creating"
           \/ cstate[c] = "created" /\ cstate'[c] = "resetting"
        /\ points'[c] = mounts[c]
    BY <2>1 DEF Inv, UserType
  <2>2. Blank(c)'
    BY <1>1, <1>4, <2>4 DEF Blank
  <2>3. c \notin mishandled => Safe(c)'
    <3> SUFFICES ASSUME Safe(c) PROVE Safe(c)'
      BY <1>4
    <3>1. /\ refs' = refs /\ vols' = vols /\ dropped' = dropped
          /\ mounts' = mounts /\ points'[c] = mounts[c]
      BY <1>1, <2>4 DEF store
    <3>2. ~Leaving(c) /\ ~Registering(c) /\ ~Spared(c)'
      BY <2>4 DEF Leaving, Registering, Spared
    <3>3. Guarded(mounts, c) /\ \A n \in Names : c \in refs[n] => Mounts(mounts, c, n)
      BY <3>2 DEF Safe
    <3>4. \A n \in Names : c \in refs'[n] => Mounts(mounts', c, n)
      BY <3>1, <3>3
    <3>5. Guarded(mounts, c)'
      BY <3>1, <3>3 DEF Guarded, HasVol, Had
    <3>6. Guarded(points, c)'
      BY <3>1, <3>3 DEF Guarded, HasVol, Had
    <3> QED BY <3>2, <3>4, <3>5, <3>6 DEF Safe, Mounts, HasVol
  <2>5. ASSUME Careful PROVE Attended(c)'
    <3>1. cstate[c] = "none" /\ cstate'[c] = "creating"
      BY <1>5, <2>4, <2>5 DEF BeginRegister, Careful
    <3>2. points'[c] = Unmounted /\ mounts'[c] = Unmounted
      BY <1>1, <1>4, <2>4, <3>1 DEF Blank
    <3> QED BY <3>1, <3>2, UnmountedAttended DEF Spared
  <2> QED BY <1>1, <1>2, <2>2, <2>3, <2>5, OneContainer
<1>6. CASE Created(c) \/ Lifecycle(c) \/ Initialized(c)
  <2>1. /\ cstate[c] \in States \ {"none", "creating", "resetting", "removing", "purging", "undoing"}
        /\ cstate'[c] \in States \ {"none", "creating", "resetting", "spared", "sparedv"}
    BY <1>6 DEF Created, Lifecycle, Initialized, Inv, UserType, States
  <2>2. Blank(c)'
    BY <2>1 DEF Blank
  <2>3. c \notin mishandled => Safe(c)'
    <3> SUFFICES ASSUME Safe(c) PROVE Safe(c)'
      BY <1>4
    <3>1. refs' = refs /\ vols' = vols /\ dropped' = dropped /\ mounts' = mounts
      BY <1>1 DEF store
    <3>2. /\ ~Leaving(c) /\ ~Registering(c) /\ ~Registering(c)' /\ ~Spared(c)'
      BY <2>1 DEF Leaving, Registering, Spared
    <3>3. Guarded(mounts, c)'
      BY <3>1, <3>2 DEF Safe, Guarded, HasVol, Had
    <3>4. \A n \in Names : c \in refs'[n] => Mounts(mounts, c, n)'
      BY <3>1, <3>2 DEF Safe, Mounts, HasVol
    <3> QED BY <3>2, <3>3, <3>4 DEF Safe
  <2>4. ASSUME Careful PROVE Attended(c)'
    <3>1. Attended(c) /\ ~Leaving(c) /\ ~Registering(c)' /\ ~Spared(c)'
      BY <1>4, <2>1, <2>4 DEF Leaving, Registering, Spared
    <3>2. mounts' = mounts /\ refs' = refs /\ vols' = vols /\ dropped' = dropped
      BY <1>1 DEF store
    <3>3. Guarded(mounts, c)'
      BY <3>1, <3>2 DEF Attended, Guarded, HasVol, Had
    <3>4. Full(mounts, c)' = Full(mounts, c) /\ Present(c)' = Present(c)
      BY <3>2 DEF Full, Present
    <3>5. Plain => Full(points, c)'
      <4>1. points'[c] = points[c] \/ points'[c] = Unmounted
        BY <1>6 DEF Created, Lifecycle, Initialized, Inv, UserType
      <4> QED BY <3>1, <4>1 DEF Attended, Full, Unmounted
    <3>6. cstate'[c] # "reviving" /\ cstate'[c] # "resetting"
      BY <1>6, <2>1 DEF Created, Lifecycle, Initialized, Inv, UserType
    <3>7. ASSUME Answered, cstate'[c] = "up" PROVE Full(mounts, c)
      <4>1. Initialized(c) /\ cstate[c] \in {"starting", "reviving"}
        BY <1>6, <3>7 DEF Created, Lifecycle, Initialized, Inv, UserType
      <4> DEFINE missing == {m \in {mounts[c][d] : d \in ToInitialize(c)} : m # NoMount /\ ~m.vol}
      <4>0. ToInitialize(c) = Dests
        BY <3>7 DEF ToInitialize, Answered
      <4>2. missing = {} \/ (cstate[c] = "reviving" /\ \E m \in missing : m.name \notin vols[m.driver])
        BY <3>7, <4>1 DEF Initialized, Answered, Inv, UserType
      <4>3. missing = {}
        <5>1. cstate[c] = "reviving" => Present(c)
          BY <3>1, <3>7 DEF Attended
        <5> QED BY <4>0, <4>2, <5>1 DEF Present
      <4> QED BY <4>0, <4>3 DEF Full
    <3> QED BY <3>1, <3>3, <3>4, <3>5, <3>6, <3>7 DEF Attended
  <2> QED BY <1>1, <1>2, <2>2, <2>3, <2>4, OneContainer
<1>7. CASE Removed(c)
  <2>1. Leaving(c) /\ mounts[c] = Unmounted /\ cstate'[c] = "none"
    BY <1>7 DEF Removed, Leaving, Inv, UserType
  <2>2. Blank(c)'
    BY <1>1, <2>1 DEF Blank
  <2>3. \A d \in Dests : ~HasVol(mounts, c, d)
    BY <2>1, NothingMounted
  <2>4. ~Registering(c) /\ ~Registering(c)' /\ ~Spared(c)'
    BY <2>1 DEF Leaving, Registering, Spared
  <2>5. c \notin mishandled => Safe(c)'
    BY <1>1, <1>4, <2>3, <2>4 DEF Safe, Mounts, Guarded, HasVol, store
  <2>6. Attended(c)'
    <3>1. points'[c] = Unmounted /\ mounts'[c] = Unmounted
      BY <1>1, <1>7, <2>1 DEF Removed, Inv, UserType
    <3> QED BY <2>1, <2>4, <3>1, UnmountedAttended
  <2> QED BY <1>1, <1>2, <2>2, <2>5, <2>6, OneContainer
<1> QED BY <1>5, <1>6, <1>7

\* A new mount point comes with its reference, and replaces none that has one.
LEMMA PutRefs ==
    ASSUME Inv, RefInv, NEW c \in Containers, NEW dest \in Dests, NEW p \in Mount,
           Registering(c), p # NoMount,
           points' = [points EXCEPT ![c][dest] = p], UNCHANGED <<cstate, mounts>>,
           Mishandle(c, Overrides(c, dest)),
           \A n \in Names : /\ refs[n] \subseteq refs'[n] /\ refs'[n] \subseteq refs[n] \cup {c}
                            /\ c \in refs'[n] \ refs[n] => p.vol /\ p.name = n,
           \A d \in Drivers : vols[d] \subseteq vols'[d] /\ Had(d) \subseteq Had(d)',
           p.vol => c \in refs'[p.name] /\ p.name \in vols'[p.driver] \cup dropped'[p.driver],
           Uses = {} => p.vol
    PROVE  RefInv'
<1>1. \A k \in Containers \ {c} : Frame(k)
  BY DEF Frame, Inv, UserType, Mishandle
<1>2. Blank(c)'
  BY DEF RefInv, Blank
<1>3. /\ points'[c][dest] = p
      /\ \A d \in Dests \ {dest} : points'[c][d] = points[c][d]
  BY DEF Inv, UserType
<1>4. Registering(c)' /\ ~Leaving(c) /\ ~Leaving(c)' /\ ~Spared(c)'
  BY DEF Registering, Leaving, Spared
<1>5. Guarded(mounts, c) => Guarded(mounts, c)'
  <2>1. \A d \in Dests : HasVol(mounts, c, d)' <=> HasVol(mounts, c, d)
    BY DEF HasVol
  <2> QED BY <2>1, VolFields DEF Guarded, Had
<1>6. ASSUME Guarded(points, c) PROVE Guarded(points, c)'
  <2>1. ASSUME NEW d \in Dests \ {dest}, HasVol(points, c, d)
        PROVE  /\ c \in refs'[points[c][d].name]
               /\ points[c][d].name \in vols'[points[c][d].driver] \cup dropped'[points[c][d].driver]
    BY <1>6, <2>1, VolFields DEF Guarded, Had
  <2>2. \A d \in Dests \ {dest} : HasVol(points, c, d)' <=> HasVol(points, c, d)
    BY <1>3 DEF HasVol
  <2>3. HasVol(points, c, dest)' => p.vol
    BY <1>3 DEF HasVol
  <2>4. ASSUME NEW d \in Dests, HasVol(points, c, d)'
        PROVE  /\ c \in refs'[points'[c][d].name]
               /\ points'[c][d].name \in vols'[points'[c][d].driver] \cup dropped'[points'[c][d].driver]
    <3>1. CASE d = dest
      BY <1>3, <2>3, <2>4, <3>1
    <3>2. CASE d # dest
      <4>1. HasVol(points, c, d) /\ points'[c][d] = points[c][d]
        BY <1>3, <2>2, <2>4, <3>2
      <4> QED BY <2>1, <3>2, <4>1
    <3> QED BY <3>1, <3>2
  <2> QED BY <2>4 DEF Guarded, Had
<1>7. ASSUME Careful PROVE Attended(c)'
  <2>1. Attended(c)
    BY <1>7 DEF RefInv
  <2>2. cstate'[c] = cstate[c] /\ cstate[c] \in {"creating", "resetting"}
    BY DEF Registering
  <2>3. Full(mounts, c)' = Full(mounts, c)
    BY DEF Full
  <2>4. Plain => Full(points, c)'
    BY <1>3, <2>1 DEF Attended, Plain, Full
  <2> QED BY <1>4, <1>5, <1>6, <2>1, <2>2, <2>3, <2>4 DEF Attended
<1>8. ASSUME c \notin mishandled' PROVE Safe(c)'
  <2>1. Safe(c) /\ ~Overrides(c, dest)
    BY <1>8 DEF Mishandle, RefInv
  <2>2. Guarded(mounts, c)' /\ Guarded(points, c)'
    BY <1>4, <1>5, <1>6, <2>1 DEF Safe
  <2>5. ASSUME NEW n \in Names, c \in refs'[n]
        PROVE  Mounts(mounts, c, n)' \/ Mounts(points, c, n)'
    <3>1. CASE c \notin refs[n]
      BY SMT, <1>3, <2>5, <3>1 DEF Mounts, HasVol
    <3>2. CASE Mounts(mounts, c, n)
      BY <3>2 DEF Mounts, HasVol
    <3>3. CASE Mounts(points, c, n)
      <4>1. PICK d \in Dests : HasVol(points, c, d) /\ points[c][d].name = n
        BY <3>3 DEF Mounts
      <4>2. CASE d = dest
        <5>1. points[c][d] = mounts[c][d]
          BY <2>1, <4>1, <4>2 DEF Overrides, HasVol
        <5> QED BY <4>1, <5>1 DEF Mounts, HasVol
      <4>3. CASE d # dest
        BY <1>3, <4>1, <4>3 DEF Mounts, HasVol
      <4> QED BY <4>2, <4>3
    <3> QED BY <2>1, <3>1, <3>2, <3>3 DEF Safe
  <2> QED BY <1>4, <2>2, <2>5 DEF Safe
<1> QED BY <1>1, <1>2, <1>7, <1>8, OneContainer DEF Mishandle

\* registerMountPoints: volumes-from and binds
LEMMA RegisterRefs ==
    ASSUME Inv, RefInv, NEW c \in Containers,
           \/ \E b \in Containers, dest \in Dests : VolumesFrom(c, b, dest)
           \/ \E dest \in Dests, n \in Names, d \in Drivers \cup {None} : Bind(c, dest, n, d)
    PROVE  RefInv'
<1>1. ASSUME NEW b \in Containers, NEW dest \in Dests, VolumesFrom(c, b, dest)
      PROVE  RefInv'
  <2> DEFINE m == mounts[b][dest]
  <2>1. m \in Mount /\ m # NoMount
    <3>1. mounts \in [Containers -> [Dests -> Mount]]
      BY DEF Inv, UserType
    <3> QED BY <1>1, <3>1 DEF VolumesFrom
  <2>2. m.name \in Names /\ m.driver \in Drivers
    BY <2>1, MountFields
  <2>3. /\ Registering(c) /\ UNCHANGED <<cstate, mounts>>
        /\ Mishandle(c, Overrides(c, dest))
        /\ \/ Put(c, dest, m.name, m.driver, FALSE, TRUE) /\ UNCHANGED store
           \/ /\ m.name \in vols[m.driver] /\ setNamed(m.name, m.driver, {c})
              /\ Put(c, dest, m.name, m.driver, TRUE, FALSE) /\ UNCHANGED <<vols, dropped>>
    BY <1>1 DEF VolumesFrom
  <2>6. Uses # {}
    BY <1>1 DEF VolumesFrom
  <2> HIDE DEF m
  <2>4. CASE Put(c, dest, m.name, m.driver, FALSE, TRUE) /\ UNCHANGED store
    <3> DEFINE p == [name |-> m.name, driver |-> m.driver, vol |-> FALSE, named |-> TRUE]
    <3>1. p \in Mount /\ p # NoMount /\ ~p.vol
      BY <2>2, NewMount, ConstantsAssumption DEF NoMount
    <3>2. points' = [points EXCEPT ![c][dest] = p]
      BY <2>4 DEF Put
    <3> HIDE DEF p
    <3>3. UNCHANGED refs /\ \A e \in Drivers : vols[e] \subseteq vols'[e] /\ Had(e) \subseteq Had(e)'
      BY <2>4 DEF store, Had
    <3> QED BY <2>3, <2>6, <3>1, <3>2, <3>3, PutRefs
  <2>5. CASE /\ m.name \in vols[m.driver] /\ setNamed(m.name, m.driver, {c})
             /\ Put(c, dest, m.name, m.driver, TRUE, FALSE) /\ UNCHANGED <<vols, dropped>>
    <3> DEFINE p == [name |-> m.name, driver |-> m.driver, vol |-> TRUE, named |-> FALSE]
    <3>1. /\ p \in Mount /\ p # NoMount /\ p.vol /\ p.name = m.name
          /\ p.driver = m.driver
      BY <2>2, NewMount, ConstantsAssumption DEF NoMount
    <3>2. points' = [points EXCEPT ![c][dest] = p]
      BY <2>5 DEF Put
    <3>3. /\ refs' = [refs EXCEPT ![m.name] = @ \cup {c}] /\ UNCHANGED vols
          /\ \A e \in Drivers : vols[e] \subseteq vols'[e] /\ Had(e) \subseteq Had(e)'
      BY <2>5 DEF setNamed, Had
    <3> HIDE DEF p
    <3>4. \A n \in Names : /\ refs[n] \subseteq refs'[n] /\ refs'[n] \subseteq refs[n] \cup {c}
                           /\ c \in refs'[n] \ refs[n] => p.vol /\ p.name = n
      BY <3>1, <3>3 DEF Inv, StoreType
    <3>5. c \in refs'[p.name] /\ p.name \in vols'[p.driver]
      BY <2>2, <2>5, <3>1, <3>3 DEF Inv, StoreType
    <3> QED BY <2>3, <3>1, <3>2, <3>3, <3>4, <3>5, PutRefs
  <2> QED BY <2>3, <2>4, <2>5
<1>2. ASSUME NEW dest \in Dests, NEW n \in Names, NEW d \in Drivers \cup {None},
             Bind(c, dest, n, d)
      PROVE  RefInv'
  <2>1. PICK found \in Drivers :
           /\ create(n, d, found) /\ setNamed(n, found, {c})
           /\ Put(c, dest, n, found, TRUE, TRUE) /\ UNCHANGED dropped
    BY <1>2 DEF Bind
  <2>2. /\ Registering(c) /\ UNCHANGED <<cstate, mounts>>
        /\ Mishandle(c, Overrides(c, dest))
    BY <1>2 DEF Bind
  <2> DEFINE p == [name |-> n, driver |-> found, vol |-> TRUE, named |-> TRUE]
  <2>3. p \in Mount /\ p # NoMount /\ p.vol /\ p.name = n /\ p.driver = found
    BY NewMount, ConstantsAssumption DEF NoMount
  <2>4. points' = [points EXCEPT ![c][dest] = p]
    BY <2>1 DEF Put
  <2>5. refs' = [refs EXCEPT ![n] = @ \cup {c}]
    BY <2>1 DEF setNamed
  <2>6. /\ n \in Had(found)'
        /\ \A e \in Drivers : vols[e] \subseteq vols'[e] /\ Had(e) \subseteq Had(e)'
    BY <2>1, CreateMakes DEF Inv
  <2> HIDE DEF p
  <2>7. \A x \in Names : /\ refs[x] \subseteq refs'[x] /\ refs'[x] \subseteq refs[x] \cup {c}
                         /\ c \in refs'[x] \ refs[x] => p.vol /\ p.name = x
    BY <2>3, <2>5 DEF Inv, StoreType
  <2>8. c \in refs'[p.name] /\ p.name \in vols'[p.driver] \cup dropped'[p.driver]
    BY <2>3, <2>5, <2>6 DEF Inv, StoreType, Had
  <2> QED BY <2>2, <2>3, <2>4, <2>6, <2>7, <2>8, PutRefs
<1> QED BY <1>1, <1>2

\* A mount point of a container that is there gets its Volume, with a reference.
LEMMA SetRefs ==
    ASSUME Inv, UNCHANGED dropped, RefInv, NEW c \in Containers, NEW dest \in Dests, NEW p \in Mount,
           ~Registering(c), ~Leaving(c), ~Spared(c), cstate[c] # "none", p # NoMount, p.vol,
           mounts' = [mounts EXCEPT ![c][dest] = p], UNCHANGED <<cstate, points, mishandled>>,
           ~HasVol(mounts, c, dest),
           \A n \in Names : /\ refs[n] \subseteq refs'[n] /\ refs'[n] \subseteq refs[n] \cup {c}
                            /\ c \in refs'[n] \ refs[n] => p.name = n,
           \A d \in Drivers : vols[d] \subseteq vols'[d] /\ Had(d) \subseteq Had(d)',
           c \in refs'[p.name], p.name \in vols'[p.driver] \cup dropped'[p.driver]
    PROVE  RefInv'
<1>1. \A k \in Containers \ {c} : Frame(k)
  BY DEF Frame, Inv, UserType
<1>2. Blank(c)'
  BY DEF Blank, Registering
<1>3. /\ mounts'[c][dest] = p
      /\ \A d \in Dests \ {dest} : mounts'[c][d] = mounts[c][d]
  BY DEF Inv, UserType
<1>4. ~Registering(c)' /\ ~Leaving(c)' /\ ~Spared(c)'
  BY DEF Registering, Leaving, Spared
<1>5. ASSUME Guarded(mounts, c) PROVE Guarded(mounts, c)'
  <2>1. ASSUME NEW d \in Dests \ {dest}, HasVol(mounts, c, d)
        PROVE  /\ c \in refs'[mounts[c][d].name]
               /\ mounts[c][d].name \in vols'[mounts[c][d].driver] \cup dropped'[mounts[c][d].driver]
    BY <1>5, <2>1, VolFields DEF Guarded, Had
  <2>2. \A d \in Dests \ {dest} : HasVol(mounts, c, d)' <=> HasVol(mounts, c, d)
    BY <1>3 DEF HasVol
  <2> QED BY <1>3, <2>1, <2>2 DEF Guarded, Had
<1>6. ASSUME Careful PROVE Attended(c)'
  <2>1. Attended(c) /\ cstate'[c] = cstate[c] /\ points'[c] = points[c]
    BY <1>6 DEF RefInv
  <2>2. Full(mounts, c) => Full(mounts, c)'
    BY <1>3 DEF Full
  <2>3. Full(points, c) => Full(points, c)'
    BY <2>1 DEF Full
  <2>4. Answered /\ Present(c) => Present(c)'
    <3>0. Answered => p.name \in vols'[p.driver]
      <4>1. p.driver \in Drivers
        BY MountFields
      <4>2. Answered => dropped'[p.driver] = {}
        BY <4>1 DEF Inv, StoreType, Answered
      <4> QED BY <4>2
    <3>1. ASSUME NEW d \in Dests \ {dest}, mounts[c][d] # NoMount
          PROVE  mounts[c][d].name \in Names /\ mounts[c][d].driver \in Drivers
      BY SMT, <3>1, MountFields DEF Inv, UserType
    <3> QED BY <1>3, <3>0, <3>1 DEF Present
  <2> QED BY <1>4, <1>5, <2>1, <2>2, <2>3, <2>4 DEF Attended
<1>7. ASSUME c \notin mishandled' PROVE Safe(c)'
  <2>1. Safe(c)
    BY <1>7 DEF RefInv
  <2>2. Guarded(mounts, c)'
    BY <1>5, <2>1 DEF Safe
  <2>4. ASSUME NEW n \in Names, c \in refs'[n] PROVE Mounts(mounts, c, n)'
    <3>1. CASE c \notin refs[n]
      BY SMT, <1>3, <2>4, <3>1 DEF Mounts, HasVol
    <3>2. CASE c \in refs[n]
      <4>1. PICK d \in Dests : HasVol(mounts, c, d) /\ mounts[c][d].name = n
        BY <2>1, <3>2 DEF Safe, Mounts
      <4> QED BY <1>3, <4>1 DEF Mounts, HasVol
    <3> QED BY <3>1, <3>2
  <2> QED BY <1>4, <2>2, <2>4 DEF Safe
<1> QED BY <1>1, <1>2, <1>6, <1>7, OneContainer

\* lazyInitializeVolume
LEMMA LazyRefs ==
    ASSUME Inv, RefInv, NEW c \in Containers, lazyInitializeVolume(c)
    PROVE  RefInv'
<1>1. PICK dest \in Dests :
         /\ mounts[c][dest] # NoMount /\ ~mounts[c][dest].vol
         /\ mounts[c][dest].name \in vols[mounts[c][dest].driver]
         /\ setNamed(mounts[c][dest].name, mounts[c][dest].driver, {c})
         /\ mounts' = [mounts EXCEPT ![c][dest] = SetVolume(mounts[c][dest], TRUE)]
  BY DEF lazyInitializeVolume, ToInitialize
<1> DEFINE m == mounts[c][dest]
           p == SetVolume(m, TRUE)
<1>2. m \in Mount /\ m # NoMount
  BY <1>1 DEF Inv, UserType
<1>3. m.name \in Names /\ m.driver \in Drivers /\ p \in Mount
  BY <1>2, MountFields DEF Mount
<1>4. p # NoMount /\ p.vol /\ p.name = m.name /\ p.driver = m.driver
  BY DEF SetVolume, NoMount
<1>5. /\ UNCHANGED <<vols, dropped, cstate, points, mishandled>>
      /\ ~Registering(c) /\ ~Leaving(c) /\ ~Spared(c) /\ cstate[c] # "none"
      /\ \A e \in Drivers : vols[e] \subseteq vols'[e] /\ Had(e) \subseteq Had(e)'
  BY DEF lazyInitializeVolume, Registering, Leaving, Spared, Had
<1>6. refs' = [refs EXCEPT ![m.name] = @ \cup {c}]
  BY <1>1 DEF setNamed
<1>7. mounts' = [mounts EXCEPT ![c][dest] = p] /\ ~HasVol(mounts, c, dest)
  BY <1>1 DEF HasVol
<1>8. m.name \in vols[m.driver]
  BY <1>1
<1> HIDE DEF m, p
<1>9. \A n \in Names : /\ refs[n] \subseteq refs'[n] /\ refs'[n] \subseteq refs[n] \cup {c}
                       /\ c \in refs'[n] \ refs[n] => p.vol /\ p.name = n
  BY <1>3, <1>4, <1>6 DEF Inv, StoreType
<1>10. c \in refs'[p.name] /\ p.name \in vols'[p.driver]
  BY <1>3, <1>4, <1>5, <1>6, <1>8 DEF Inv, StoreType
<1> QED BY <1>3, <1>4, <1>5, <1>7, <1>9, <1>10, SetRefs

\* Little is asked of a container whose creation failed.
LEMMA GoneAttended ==
    ASSUME Inv, RefInv, Careful, NEW c \in Containers,
           cstate' = [cstate EXCEPT ![c] = "undoing"], UNCHANGED mounts, UNCHANGED points
    PROVE  Attended(c)'
<1>1. cstate'[c] = "undoing" /\ Attended(c)
  BY DEF RefInv, Inv, UserType
<1>2. Leaving(c)' /\ ~Registering(c)' /\ ~Spared(c)'
  BY <1>1 DEF Leaving, Registering, Spared
<1>3. Full(mounts, c)' = Full(mounts, c) /\ Full(points, c)' = Full(points, c)
  BY DEF Full
<1> QED BY <1>1, <1>2, <1>3 DEF Attended

\* Anonymous volumes
LEMMA AnonymousRefs ==
    ASSUME Inv, RefInv, NEW c \in Containers, NEW dest \in Dests, NEW n \in Names,
           NEW d \in Drivers \cup {None}, AddAnonymous(c, dest, n, d)
    PROVE  RefInv'
<1>1. /\ cstate[c] = "adding" /\ mounts[c][dest] = NoMount /\ UNCHANGED <<points, dropped>>
      /\ ~Registering(c) /\ ~Leaving(c) /\ ~Spared(c) /\ ~HasVol(mounts, c, dest)
  BY DEF AddAnonymous, Registering, Leaving, Spared, HasVol
<1>2. ASSUME NEW found \in Drivers, create(n, d, found), setNamed(n, found, {c}),
             mounts' = [mounts EXCEPT ![c][dest] =
                [name |-> n, driver |-> found, vol |-> TRUE, named |-> FALSE]],
             UNCHANGED <<cstate, mishandled>>
      PROVE  RefInv'
  <2> DEFINE p == [name |-> n, driver |-> found, vol |-> TRUE, named |-> FALSE]
  <2>1. p \in Mount /\ p # NoMount /\ p.vol /\ p.name = n /\ p.driver = found
    BY NewMount, ConstantsAssumption DEF NoMount
  <2>2. mounts' = [mounts EXCEPT ![c][dest] = p]
    BY <1>2
  <2>3. refs' = [refs EXCEPT ![n] = @ \cup {c}]
    BY <1>2 DEF setNamed
  <2>4. /\ n \in Had(found)'
        /\ \A e \in Drivers : vols[e] \subseteq vols'[e] /\ Had(e) \subseteq Had(e)'
    BY <1>1, <1>2, CreateMakes DEF Inv
  <2> HIDE DEF p
  <2>5. \A x \in Names : /\ refs[x] \subseteq refs'[x] /\ refs'[x] \subseteq refs[x] \cup {c}
                         /\ c \in refs'[x] \ refs[x] => p.vol /\ p.name = x
    BY <2>1, <2>3 DEF Inv, StoreType
  <2>6. c \in refs'[p.name] /\ p.name \in vols'[p.driver] \cup dropped'[p.driver]
    BY <2>1, <2>3, <2>4 DEF Inv, StoreType, Had
  <2> QED BY <1>1, <1>2, <2>1, <2>2, <2>4, <2>5, <2>6, SetRefs
<1>3. ASSUME NEW found \in Drivers, create(n, d, found), setNamed(n, found, {c}),
             cstate' = [cstate EXCEPT ![c] = "undoing"], UNCHANGED mounts,
             Mishandle(c, TRUE)
      PROVE  RefInv'
  <2>1. \A e \in Drivers : vols[e] \subseteq vols'[e] /\ Had(e) \subseteq Had(e)'
    BY <1>1, <1>3, CreateMakes DEF Inv
  <2>2. \A k \in Containers \ {c} : Frame(k)
    BY <1>1, <1>3, <2>1 DEF Frame, Inv, StoreType, UserType, Mishandle, setNamed
  <2>3. Blank(c)' /\ mishandled' = mishandled \cup {c}
    BY <1>3 DEF Blank, Mishandle, Inv, UserType
  <2>4. Careful => Attended(c)'
    BY <1>1, <1>3, GoneAttended
  <2> QED BY <2>2, <2>3, <2>4, OneContainer
<1>4. ASSUME createFails(n, d), cstate' = [cstate EXCEPT ![c] = "undoing"],
             UNCHANGED <<names, refs, mounts, mishandled>>
      PROVE  RefInv'
  <2>1. \A e \in Drivers : vols[e] \subseteq vols'[e] /\ Had(e) \subseteq Had(e)'
    BY <1>1, <1>4, CreateFailsKeeps DEF Inv
  <2>2. \A k \in Containers \ {c} : Frame(k)
    BY <1>1, <1>4, <2>1 DEF Frame, Inv, StoreType, UserType
  <2>3. Blank(c)' /\ Leaving(c)' /\ ~Registering(c)' /\ ~Spared(c)'
    BY <1>4 DEF Blank, Leaving, Registering, Spared, Inv, UserType
  <2>4. c \notin mishandled => Safe(c)'
    <3>1. \A x \in Names : Mounts(mounts, c, x)' <=> Mounts(mounts, c, x)
      BY <1>4 DEF Mounts, HasVol
    <3>2. ASSUME c \notin mishandled, NEW x \in Names, c \in refs'[x]
          PROVE  Mounts(mounts, c, x)
      BY <1>1, <1>4, <3>2 DEF RefInv, Safe
    <3> QED BY <2>3, <3>1, <3>2, Zenon DEF Safe
  <2>5. Careful => Attended(c)'
    BY <1>1, <1>4, GoneAttended
  <2> QED BY <1>4, <2>2, <2>3, <2>4, <2>5, OneContainer
<1> QED BY <1>2, <1>3, <1>4 DEF AddAnonymous

\* Dereference drops the references of one container, to the volumes given.
LEMMA DereferenceIs ==
    ASSUME Inv, NEW c \in Containers, NEW ms, Dereference(c, ms), NEW n \in Names
    PROVE  /\ \A k \in Containers \ {c} : k \in refs'[n] <=> k \in refs[n]
           /\ c \in refs'[n] <=> c \in refs[n] /\ ~\E m \in ms : m.name = n /\ m.vol
  BY DEF Dereference, Inv, StoreType

\* The volumes of a set of mount points
LEMMA PointsMount ==
    ASSUME NEW f, NEW c \in Containers, NEW n
    PROVE  (\E m \in Points(f[c]) : m.name = n /\ m.vol) <=> Mounts(f, c, n)
  BY DEF Points, Mounts, HasVol

\* registerMountPoints fails.
LEMMA RegisterFailsRefs ==
    ASSUME Inv, RefInv, NEW c \in Containers, RegisterFails(c)
    PROVE  RefInv'
<1>1. /\ Registering(c) /\ Dereference(c, Points(points[c])) /\ UNCHANGED <<names, mounts>>
      /\ cstate' = [cstate EXCEPT ![c] = IF @ = "creating" THEN "none" ELSE "created"]
      /\ points' = [points EXCEPT ![c] = Unmounted]
  BY DEF RegisterFails
<1>2. Mishandle(c, \E m \in Points(points[c]), o \in Points(mounts[c]) :
                      m.vol /\ o.vol /\ m.name = o.name)
  BY Zenon DEF RegisterFails
<1>3. \A e \in Drivers : vols[e] \subseteq vols'[e] /\ Had(e) \subseteq Had(e)'
  <2>1. UNCHANGED dropped
    BY DEF RegisterFails
  <2>2. CASE UNCHANGED vols
    BY <2>1, <2>2 DEF Had
  <2> QED BY <2>1, <2>2, CreateFailsKeeps DEF RegisterFails, Inv
<1>4. \A n \in Names : /\ \A k \in Containers \ {c} : k \in refs'[n] <=> k \in refs[n]
                       /\ c \in refs'[n] <=> c \in refs[n] /\ ~Mounts(points, c, n)
  <2>1. Dereference(c, Points(points[c]))
    BY <1>1
  <2>2. \A n : (\E m \in Points(points[c]) : m.name = n /\ m.vol) <=> Mounts(points, c, n)
    BY PointsMount, Zenon
  <2>3. \A n \in Names :
           /\ \A k \in Containers \ {c} : k \in refs'[n] <=> k \in refs[n]
           /\ c \in refs'[n] <=>
                c \in refs[n] /\ ~\E m \in Points(points[c]) : m.name = n /\ m.vol
    BY SMT, <2>1, DereferenceIs
  <2> QED BY SMT, <2>2, <2>3
<1>5. \A k \in Containers \ {c} : Frame(k)
  BY <1>1, <1>2, <1>3, <1>4 DEF Frame, Inv, UserType, Mishandle
<1>6. /\ ~Registering(c)' /\ ~Leaving(c) /\ ~Leaving(c)' /\ ~Spared(c)'
      /\ cstate'[c] = "none" <=> cstate[c] = "creating"
  BY <1>1 DEF Registering, Leaving, Spared, Inv, UserType
<1>7. Blank(c)'
  BY <1>1, <1>6 DEF Blank, RefInv, Registering
<1>8. ASSUME c \notin mishandled' PROVE Safe(c)'
  <2>1. Safe(c) /\ ~\E m \in Points(points[c]), o \in Points(mounts[c]) :
                       m.vol /\ o.vol /\ m.name = o.name
    BY <1>2, <1>8 DEF Mishandle, RefInv
  <2>2. ASSUME NEW d \in Dests, HasVol(mounts, c, d)
        PROVE  ~Mounts(points, c, mounts[c][d].name)
    BY <2>1, <2>2 DEF Points, Mounts, HasVol
  <2>3. Guarded(mounts, c)'
    <3>1. Guarded(mounts, c)
      BY <1>6, <2>1 DEF Safe
    <3>2. \A d \in Dests : HasVol(mounts, c, d)' <=> HasVol(mounts, c, d)
      BY <1>1 DEF HasVol
    <3>3. ASSUME NEW d \in Dests, HasVol(mounts, c, d)
          PROVE  c \in refs'[mounts[c][d].name] /\ mounts[c][d].name \in Had(mounts[c][d].driver)'
      BY <1>1, <1>3, <1>4, <2>2, <3>1, <3>3, VolFields DEF Guarded, Had
    <3> QED BY <1>1, <3>2, <3>3 DEF Guarded, Had
  <2>4. \A n \in Names : c \in refs'[n] => Mounts(mounts, c, n)'
    BY <1>1, <1>4, <2>1 DEF Safe, Mounts, HasVol
  <2> QED BY <1>6, <2>3, <2>4 DEF Safe
<1>9. ASSUME Careful PROVE Attended(c)'
  <2>1. cstate[c] = "creating"
    BY <1>1, <1>9 DEF RefInv, Attended, Registering
  <2>2. cstate'[c] = "none" /\ mounts[c] = Unmounted /\ points'[c] = Unmounted
    BY <1>1, <1>6, <2>1 DEF RefInv, Blank, Inv, UserType
  <2> QED BY <1>1, <1>6, <2>2, UnmountedAttended
<1> QED BY <1>2, <1>5, <1>7, <1>8, <1>9, OneContainer DEF Mishandle

\* registerMountPoints is done.
LEMMA RegisterDoneRefs ==
    ASSUME Inv, RefInv, NEW c \in Containers, RegisterDone(c)
    PROVE  RefInv'
<1> DEFINE again == {d \in Dests :
                       /\ points[c][d] # NoMount /\ mounts[c][d] # NoMount
                       /\ points[c][d].named \/ points[c][d].driver = Local}
           old == {mounts[c][d] : d \in again}
           lost == \E d \in Dests :
                     /\ mounts[c][d] # NoMount /\ mounts[c][d].vol
                     /\ IF d \in again
                        THEN \E m \in Points(points[c]) : m.vol /\ m.name = mounts[c][d].name
                        ELSE points[c][d] # mounts[c][d]
<1>1. /\ Registering(c) /\ Dereference(c, old) /\ UNCHANGED <<names, vols, dropped>>
      /\ \/ /\ cstate[c] = "creating" /\ cstate' = [cstate EXCEPT ![c] = "adding"]
            /\ mounts' = [mounts EXCEPT ![c] = points[c]] /\ UNCHANGED <<points, mishandled>>
         \/ /\ cstate[c] = "creating" /\ cstate' = [cstate EXCEPT ![c] = "none"]
            /\ points' = [points EXCEPT ![c] = Unmounted] /\ UNCHANGED mounts
            /\ Mishandle(c, \E m \in Points(points[c]) : m.vol)
         \/ /\ cstate[c] = "resetting"
            /\ \/ cstate' = [cstate EXCEPT ![c] = "starting"]
               \/ cstate' = [cstate EXCEPT ![c] = "created"]
            /\ mounts' = [mounts EXCEPT ![c] = points[c]]
            /\ points' = [points EXCEPT ![c] = Unmounted]
            /\ Mishandle(c, lost)
  BY Zenon DEF RegisterDone
<1>2. \A n \in Names : /\ \A k \in Containers \ {c} : k \in refs'[n] <=> k \in refs[n]
                       /\ c \in refs'[n] <=> c \in refs[n] /\ ~\E m \in old : m.name = n /\ m.vol
  <2>1. Dereference(c, old)
    BY <1>1, Zenon
  <2> HIDE DEF old
  <2> QED BY <2>1, DereferenceIs
<1>3. \A m \in old : \E d \in again : m = mounts[c][d]
  OBVIOUS
<1>4. \A d \in again : d \in Dests /\ mounts[c][d] \in old /\ mounts[c][d] # NoMount
  OBVIOUS
<1>5. lost <=> \E d \in Dests : /\ HasVol(mounts, c, d)
                                /\ IF d \in again
                                   THEN Mounts(points, c, mounts[c][d].name)
                                   ELSE points[c][d] # mounts[c][d]
  <2>1. \A n : (\E m \in Points(points[c]) : m.vol /\ m.name = n) <=> Mounts(points, c, n)
    BY SMT, PointsMount
  <2> HIDE DEF again
  <2> QED BY <2>1, Zenon DEF HasVol
<1> HIDE DEF again, old, lost
<1>6. /\ mishandled' \in {mishandled, mishandled \cup {c}}
      /\ \A k \in Containers \ {c} : Frame(k)
  BY <1>1, <1>2 DEF Frame, Inv, UserType, Mishandle, Had
<1>7. CASE /\ cstate[c] = "creating" /\ cstate' = [cstate EXCEPT ![c] = "none"]
           /\ points' = [points EXCEPT ![c] = Unmounted] /\ UNCHANGED mounts
           /\ Mishandle(c, \E m \in Points(points[c]) : m.vol)
  <2>1. mounts[c] = Unmounted /\ cstate'[c] = "none"
    BY <1>7 DEF RefInv, Blank, Inv, UserType
  <2>2. \A d \in Dests : ~HasVol(mounts, c, d)
    BY <2>1, NothingMounted
  <2>3. Blank(c)' /\ ~Registering(c)' /\ ~Spared(c)'
    BY <1>7, <2>1 DEF Blank, Registering, Spared
  <2>4. ASSUME c \notin mishandled' PROVE Safe(c)'
    <3>1. Safe(c) /\ \A d \in Dests : ~HasVol(points, c, d)
      BY <1>7, <2>4 DEF Mishandle, RefInv, Points, HasVol
    <3>2. \A n \in Names : c \notin refs[n]
      BY <2>2, <3>1 DEF Safe, Mounts
    <3>3. Guarded(mounts, c)'
      BY <1>7, <2>2 DEF Guarded, HasVol
    <3> QED BY <1>2, <2>3, <3>2, <3>3 DEF Safe
  <2>5. Attended(c)'
    <3>1. points'[c] = Unmounted /\ mounts'[c] = Unmounted
      BY <1>7, <2>1 DEF Inv, UserType
    <3> QED BY <2>1, <2>3, <3>1, UnmountedAttended
  <2> QED BY <1>6, <2>3, <2>4, <2>5, OneContainer
<1>8. CASE cstate[c] = "creating" /\ cstate' = [cstate EXCEPT ![c] = "adding"]
  <2>1. /\ mounts[c] = Unmounted /\ cstate'[c] = "adding" /\ mounts'[c] = points[c]
        /\ UNCHANGED mishandled
    BY <1>1, <1>8 DEF RefInv, Blank, Inv, UserType
  <2>2. \A d \in Dests : ~HasVol(mounts, c, d)
    BY <2>1, NothingMounted
  <2>3. \A n \in Names : c \in refs'[n] <=> c \in refs[n]
    BY SMT, <1>2, <1>3, <1>4, <2>2 DEF HasVol
  <2>4. Blank(c)' /\ ~Registering(c)' /\ ~Spared(c)'
    BY <2>1 DEF Blank, Registering, Spared
  <2>5. ASSUME c \notin mishandled' PROVE Safe(c)'
    <3>1. Safe(c) /\ Guarded(points, c)
      BY <1>1, <2>1, <2>5 DEF RefInv, Safe
    <3>2. Guarded(mounts, c)'
      BY <1>1, <2>1, <2>3, <3>1, VolFields DEF Guarded, HasVol, Had
    <3>3. \A n \in Names : c \in refs'[n] => Mounts(mounts, c, n)'
      <4>1. \A n \in Names : ~Mounts(mounts, c, n)
        BY <2>2 DEF Mounts
      <4>2. \A n \in Names : c \in refs'[n] => Mounts(points, c, n)
        BY <2>3, <3>1, <4>1, Zenon DEF Safe
      <4>3. \A n : Mounts(mounts, c, n)' <=> Mounts(points, c, n)
        BY <2>1 DEF Mounts, HasVol
      <4> QED BY <4>2, <4>3
    <3> QED BY <2>4, <3>2, <3>3 DEF Safe
  <2>6. ASSUME Careful PROVE Attended(c)'
    <3>1. Attended(c) /\ Guarded(points, c)
      BY <1>1, <2>6 DEF RefInv, Attended
    <3>2. Guarded(mounts, c)'
      BY <1>1, <2>1, <2>3, <3>1, VolFields DEF Guarded, HasVol, Had
    <3>3. points'[c] = points[c]
      BY <1>1, <1>8 DEF Inv, UserType
    <3>4. Full(mounts, c)' = Full(points, c) /\ Full(points, c)' = Full(points, c)
      BY <2>1, <3>3 DEF Full
    <3> QED BY <2>1, <2>4, <3>1, <3>2, <3>4 DEF Attended
  <2> QED BY <1>6, <2>4, <2>5, <2>6, OneContainer
<1>9. CASE cstate[c] = "resetting"
  <2>1. /\ cstate'[c] \in {"starting", "created"} /\ mounts'[c] = points[c]
        /\ Mishandle(c, lost)
    BY <1>1, <1>9 DEF Inv, UserType
  <2>2. Blank(c)' /\ ~Registering(c)' /\ ~Spared(c)'
    BY <2>1 DEF Blank, Registering, Spared
  <2>3. ASSUME c \notin mishandled' PROVE Safe(c)'
    <3>1. Safe(c) /\ Guarded(points, c) /\ ~lost
      BY <1>1, <2>1, <2>3 DEF RefInv, Safe, Mishandle
    <3>2. ASSUME NEW d \in Dests, HasVol(points, c, d)
          PROVE  c \in refs'[points[c][d].name]
      <4>1. points[c][d].name \in Names /\ c \in refs[points[c][d].name]
        BY <3>1, <3>2, VolFields DEF Guarded
      <4>2. ~\E m \in old : m.name = points[c][d].name /\ m.vol
        <5>1. Mounts(points, c, points[c][d].name)
          BY <3>2 DEF Mounts
        <5> QED BY <1>3, <1>4, <1>5, <3>1, <5>1 DEF HasVol
      <4> QED BY <1>2, <4>1, <4>2
    <3>3. Guarded(mounts, c)'
      BY <1>1, <2>1, <3>1, <3>2 DEF Guarded, HasVol, Had
    <3>4. ASSUME NEW n \in Names, c \in refs'[n] PROVE Mounts(points, c, n)
      <4>1. c \in refs[n] /\ ~\E m \in old : m.name = n /\ m.vol
        BY <1>2, <3>4
      <4>2. CASE Mounts(mounts, c, n)
        <5>1. PICK d \in Dests : HasVol(mounts, c, d) /\ mounts[c][d].name = n
          BY <4>2 DEF Mounts
        <5>2. d \notin again
          BY <1>4, <4>1, <5>1 DEF HasVol
        <5>3. points[c][d] = mounts[c][d]
          BY <1>5, <3>1, <5>1, <5>2
        <5> QED BY <5>1, <5>3 DEF Mounts, HasVol
      <4> QED BY <3>1, <4>1, <4>2 DEF Safe
    <3>5. \A n \in Names : c \in refs'[n] => Mounts(mounts, c, n)'
      BY <2>1, <3>4 DEF Mounts, HasVol
    <3> QED BY <2>2, <3>3, <3>5 DEF Safe
  <2>4. ~Careful
    BY <1>9 DEF RefInv, Attended
  <2> QED BY <1>6, <2>2, <2>3, <2>4, OneContainer
<1> QED BY <1>1, <1>7, <1>8, <1>9

\* removeMountPoints
LEMMA RemoveRefs ==
    ASSUME Inv, RefInv, NEW c \in Containers, NEW dest \in Dests, removeMountPoint(c, dest)
    PROVE  RefInv'
<1>1. /\ Leaving(c) /\ Dereference(c, {mounts[c][dest]}) /\ mounts[c][dest] # NoMount
      /\ mounts' = [mounts EXCEPT ![c][dest] = NoMount]
      /\ UNCHANGED <<vols, dropped, cstate, points, mishandled>>
  BY DEF removeMountPoint, Leaving
<1>2. \A n \in Names : /\ \A k \in Containers \ {c} : k \in refs'[n] <=> k \in refs[n]
                       /\ c \in refs'[n] <=> /\ c \in refs[n]
                                             /\ ~(mounts[c][dest].name = n /\ mounts[c][dest].vol)
  BY SMT, <1>1, DereferenceIs
<1>3. \A k \in Containers \ {c} : Frame(k)
  BY <1>1, <1>2 DEF Frame, Inv, UserType, Had
<1>4. Blank(c)' /\ Leaving(c)' /\ ~Registering(c) /\ ~Registering(c)' /\ ~Spared(c)'
  BY <1>1 DEF Blank, Leaving, Registering, Spared
<1>5. \A d \in Dests \ {dest} : mounts'[c][d] = mounts[c][d]
  BY <1>1 DEF Inv, UserType
<1>6. ASSUME c \notin mishandled' PROVE Safe(c)'
  <2>1. Safe(c)
    BY <1>1, <1>6 DEF RefInv
  <2>2. ASSUME NEW n \in Names, c \in refs'[n] PROVE Mounts(mounts, c, n)'
    <3>1. PICK d \in Dests : HasVol(mounts, c, d) /\ mounts[c][d].name = n
      BY <1>2, <1>4, <2>1, <2>2 DEF Safe, Mounts
    <3>2. d # dest
      BY <1>2, <2>2, <3>1 DEF HasVol
    <3> QED BY <1>5, <3>1, <3>2 DEF Mounts, HasVol
  <2> QED BY <1>4, <2>2 DEF Safe
<1>7. ASSUME Careful PROVE Attended(c)'
  <2>1. Attended(c) /\ cstate'[c] = cstate[c] /\ points'[c] = points[c]
    BY <1>1, <1>7 DEF RefInv
  <2>2. cstate[c] # "up" /\ cstate[c] # "reviving"
    BY <1>1 DEF Leaving
  <2>3. mounts'[c][dest] = NoMount
    BY <1>1 DEF Inv, UserType
  <2>4. /\ Full(mounts, c) => Full(mounts, c)'
        /\ Full(points, c) => Full(points, c)'
    BY <1>5, <2>1, <2>3 DEF Full
  <2> QED BY <1>4, <2>1, <2>2, <2>4 DEF Attended
<1> QED BY <1>1, <1>3, <1>4, <1>6, <1>7, OneContainer

\* A forced removal that fails begins, and ends: the container runs on, and is mishandled
\* if it has a volume.
LEMMA RmFailsRefs ==
    ASSUME Inv, RefInv, NEW c \in Containers, RmFails(c) \/ RmFailed(c)
    PROVE  RefInv'
<1>1. /\ UNCHANGED <<store, mounts, points>>
      /\ \E st \in {"up", "spared", "sparedv"} : cstate' = [cstate EXCEPT ![c] = st]
      /\ cstate[c] \in {"up", "spared", "sparedv"}
      /\ mishandled' \in {mishandled, mishandled \cup {c}}
  BY DEF RmFails, RmFailed, Spared, Mishandle
<1>2. cstate'[c] \in {"up", "spared", "sparedv"} /\ \A k \in Containers \ {c} : cstate'[k] = cstate[k]
  BY <1>1 DEF Inv, UserType
<1>3. \A k \in Containers \ {c} : Frame(k)
  BY <1>1, <1>2 DEF Frame, store, Had
<1>4. /\ Blank(c)' /\ ~Leaving(c) /\ ~Registering(c) /\ ~Registering(c)'
  BY <1>1, <1>2 DEF Blank, Leaving, Registering
<1>5. ~Careful
  <2>1. Careful => ~RmFails(c)
    BY DEF RmFails, Careful
  <2>2. Careful => ~Spared(c)
    BY DEF RefInv, Attended
  <2> QED BY <2>1, <2>2 DEF RmFailed
<1>6. ASSUME c \notin mishandled' PROVE Safe(c)'
  <2>1. Safe(c)
    BY <1>1, <1>6 DEF RefInv
  <2>2. Guarded(mounts, c)'
    BY <1>1, <1>4, <2>1 DEF Safe, Guarded, HasVol, Had, store
  <2>3. \A n \in Names : c \in refs'[n] => Mounts(mounts, c, n)'
    BY <1>1, <1>4, <2>1 DEF Safe, Mounts, HasVol, store
  <2>4. Spared(c)' => \A d \in Dests : ~HasVol(mounts, c, d)
    <3>1. CASE RmFails(c)
      BY <1>6, <3>1 DEF RmFails, Mishandle, Points, HasVol
    <3>2. CASE RmFailed(c)
      BY <2>1, <3>2 DEF RmFailed, Safe
    <3> QED BY <3>1, <3>2
  <2>5. \A d \in Dests : HasVol(mounts, c, d)' <=> HasVol(mounts, c, d)
    BY <1>1 DEF HasVol
  <2> QED BY <1>4, <2>2, <2>3, <2>4, <2>5 DEF Safe
<1> QED BY <1>1, <1>3, <1>4, <1>5, <1>6, OneContainer

\* Its loop takes references of this container only.
LEMMA SpareRefs ==
    ASSUME Inv, RefInv, NEW c \in Containers, NEW dest \in Dests, SpareMountPoint(c, dest)
    PROVE  RefInv'
<1>1. /\ Spared(c) /\ Dereference(c, {mounts[c][dest]}) /\ HasVol(mounts, c, dest)
      /\ UNCHANGED <<vols, dropped, cstate, mounts, points, mishandled>>
  BY DEF SpareMountPoint, HasVol
<1>2. \A n \in Names, k \in Containers \ {c} : k \in refs'[n] <=> k \in refs[n]
  BY SMT, <1>1, DereferenceIs
<1>3. \A k \in Containers \ {c} : Frame(k)
  BY <1>1, <1>2 DEF Frame, Had
<1>4. Blank(c)'
  BY <1>1 DEF Blank, Spared
<1>5. ~Careful /\ c \in mishandled
  BY <1>1 DEF RefInv, Attended, Safe
<1> QED BY <1>1, <1>3, <1>4, <1>5, OneContainer

\* After a restart no mount point has its Volume, and there are no references.
LEMMA RestartRefs ==
    ASSUME Inv, RefInv, Restart
    PROVE  RefInv'
<1>1. /\ refs' = [n \in Names |-> {}] /\ mishandled' = {}
      /\ \A c \in Containers : cstate'[c] \in {"none", "reviving", "restoring"}
  BY DEF Restart
<1>2. \A c \in Containers, d \in Dests : \E m :
         mounts'[c][d] = IF cstate'[c] = "none" \/ m = NoMount THEN NoMount
                         ELSE SetVolume(m, FALSE)
  BY DEF Restart
<1>3. ASSUME NEW c \in Containers, NEW d \in Dests PROVE ~HasVol(mounts, c, d)'
  <2>1. PICK m : mounts'[c][d] = IF cstate'[c] = "none" \/ m = NoMount THEN NoMount
                                 ELSE SetVolume(m, FALSE)
    BY <1>2
  <2>2. SetVolume(m, FALSE).vol = FALSE
    BY DEF SetVolume
  <2> QED BY <2>1, <2>2 DEF HasVol
<1>4. ASSUME NEW c \in Containers PROVE Blank(c)'
  <2>1. mounts'[c] \in [Dests -> Mount]
    BY RestartStep DEF Inv, UserType
  <2>2. cstate'[c] = "none" => \A d \in Dests : mounts'[c][d] = NoMount
    BY <1>2
  <2> QED BY <1>1, <2>1, <2>2 DEF Blank, Unmounted
<1>5. ASSUME NEW c \in Containers PROVE Safe(c)'
  <2>1. ~Registering(c)' /\ ~Spared(c)'
    BY <1>1 DEF Registering, Spared
  <2>2. Guarded(mounts, c)'
    BY <1>3 DEF Guarded
  <2> QED BY <1>1, <2>1, <2>2 DEF Safe
<1>6. ASSUME NEW c \in Containers, Careful PROVE Attended(c)'
  <2>1. ~Registering(c)' /\ ~Spared(c)' /\ cstate'[c] # "resetting" /\ cstate'[c] # "up"
    BY <1>1 DEF Registering, Spared
  <2>2. Guarded(mounts, c)'
    BY <1>3 DEF Guarded
  <2>3. ~Plain
    BY DEF Restart, Plain
  <2>4. ASSUME Answered, cstate'[c] = "reviving" PROVE Present(c)'
    <3>2. Attended(c)
      BY <1>6 DEF RefInv
    <3>1. cstate[c] \in {"up", "reviving"}
      <4>1. ~Spared(c)
        BY <3>2 DEF Attended
      <4> QED BY <2>4, <4>1 DEF Restart
    <3>3. Present(c)
      <4>1. ASSUME NEW d \in Dests, mounts[c][d] # NoMount, cstate[c] = "up"
            PROVE  mounts[c][d].name \in vols[mounts[c][d].driver]
        <5>1. HasVol(mounts, c, d) /\ Guarded(mounts, c)
          BY <2>4, <3>2, <4>1 DEF Attended, Full, HasVol, Leaving
        <5>2. mounts[c][d].driver \in Drivers /\ mounts[c][d].name \in Had(mounts[c][d].driver)
          BY <5>1, VolFields DEF Guarded
        <5>3. dropped[mounts[c][d].driver] = {}
          BY <2>4, <5>2 DEF Inv, StoreType, Answered
        <5> QED BY <5>2, <5>3 DEF Had
      <4> QED BY <2>4, <3>1, <3>2, <4>1 DEF Attended, Present
    <3> SUFFICES ASSUME NEW d \in Dests, mounts'[c][d] # NoMount
                 PROVE  mounts'[c][d].name \in vols'[mounts'[c][d].driver]
      BY DEF Present
    <3>4. mounts'[c][d] = SetVolume(mounts[c][d], FALSE) /\ mounts[c][d] # NoMount /\ vols' = vols
      BY <2>4, <3>1 DEF Restart
    <3>5. /\ SetVolume(mounts[c][d], FALSE).name = mounts[c][d].name
          /\ SetVolume(mounts[c][d], FALSE).driver = mounts[c][d].driver
      BY DEF SetVolume
    <3> QED BY <3>3, <3>4, <3>5 DEF Present
  <2> QED BY <2>1, <2>2, <2>3, <2>4 DEF Attended
<1> QED BY <1>1, <1>4, <1>5, <1>6 DEF RefInv

\* While containers are loaded, they are only given their volumes.
LEMMA QuietStep ==
    ASSUME Inv, Quiet, Next
    PROVE  Quiet'
<1>1. CASE Restart
  <2>1. /\ \A p \in Clients \cup Containers : held'[p] = NoMount
        /\ \A c \in Containers : cstate'[c] \in {"none", "restoring", "reviving"}
    BY <1>1 DEF Restart
  <2> QED BY <2>1 DEF Quiet
<1>2. ASSUME NEW c \in Containers, lazyInitializeVolume(c) \/ Initialized(c)
      PROVE  Quiet'
  <2>1. held' = held
    BY <1>2 DEF lazyInitializeVolume, Initialized
  <2>2. /\ cstate[c] \in {"starting", "restoring", "reviving"}
        /\ cstate' = cstate \/ \E st \in {"created", "up"} : cstate' = [cstate EXCEPT ![c] = st]
    BY <1>2 DEF lazyInitializeVolume, Initialized
  <2>3. Serving => Serving'
    BY <2>2 DEF Serving, Inv, UserType
  <2> QED BY <2>1, <2>2, <2>3 DEF Quiet, Inv, UserType
<1>3. ASSUME Serving, \A c \in Containers : cstate'[c] = cstate[c]
                                           \/ cstate'[c] \notin {"restoring", "reviving"}
      PROVE  Quiet'
  BY <1>3 DEF Serving, Quiet
<1>4. ASSUME ~Serving, Quiet PROVE \A c \in Containers :
         cstate[c] \in {"none", "restoring", "reviving", "created", "up"} /\ held[c] = NoMount
  BY <1>4 DEF Quiet
<1>5. ASSUME NEW c \in Containers,
             \/ BeginRegister(c) \/ RegisterFails(c) \/ RegisterDone(c) \/ Created(c)
             \/ Lifecycle(c) \/ Removed(c) \/ RmFails(c) \/ RmFailed(c)
             \/ \E dest \in Dests :
                   \/ removeMountPoint(c, dest) \/ SpareMountPoint(c, dest)
                   \/ \E b \in Containers : VolumesFrom(c, b, dest)
                   \/ \E n \in Names, d \in Drivers \cup {None} :
                         Bind(c, dest, n, d) \/ AddAnonymous(c, dest, n, d)
      PROVE  Quiet'
  <2>1. Serving
    <3> DEFINE Busy == cstate[c] \in {"creating", "resetting", "adding", "removing", "purging",
                                      "undoing", "spared", "sparedv"}
    <3>1. BeginRegister(c) \/ Lifecycle(c) \/ RmFails(c) => Serving
      BY DEF BeginRegister, Lifecycle, RmFails
    <3>2. RegisterFails(c) \/ RegisterDone(c) \/ Created(c) \/ Removed(c) \/ RmFailed(c) => Busy
      BY DEF RegisterFails, RegisterDone, Created, Removed, RmFailed, Spared, Registering
    <3>3. ASSUME NEW dest \in Dests, removeMountPoint(c, dest) \/ SpareMountPoint(c, dest)
          PROVE  Busy
      BY <3>3 DEF removeMountPoint, SpareMountPoint, Spared
    <3>4. ASSUME NEW dest \in Dests, NEW b \in Containers, VolumesFrom(c, b, dest) PROVE Busy
      BY <3>4 DEF VolumesFrom, Registering
    <3>5. ASSUME NEW dest \in Dests, NEW n \in Names, NEW d \in Drivers \cup {None},
                 Bind(c, dest, n, d) \/ AddAnonymous(c, dest, n, d)
          PROVE  Busy
      BY <3>5 DEF Bind, AddAnonymous, Registering
    <3>6. ~Serving => ~Busy
      BY <1>4
    <3> HIDE DEF Busy
    <3> QED BY <1>5, <3>1, <3>2, <3>3, <3>4, <3>5, <3>6
  <2>2. \/ cstate' = cstate
        \/ \E st : st \notin {"restoring", "reviving"} /\ cstate' = [cstate EXCEPT ![c] = st]
    <3>1. CASE RegisterFails(c)
      <4>1. PICK st : st = IF cstate[c] = "creating" THEN "none" ELSE "created"
        OBVIOUS
      <4> QED BY <3>1, <4>1 DEF RegisterFails
    <3>2. CASE BeginRegister(c) \/ RegisterDone(c) \/ Created(c)
      BY <3>2 DEF BeginRegister, RegisterDone, Created, containers
    <3>3. CASE Lifecycle(c) \/ Removed(c) \/ RmFails(c) \/ RmFailed(c)
      BY <3>3 DEF Lifecycle, Removed, RmFails, RmFailed, containers
    <3>4. CASE \E dest \in Dests :
                  \/ removeMountPoint(c, dest) \/ SpareMountPoint(c, dest)
                  \/ \E b \in Containers : VolumesFrom(c, b, dest)
      BY <3>4 DEF removeMountPoint, SpareMountPoint, VolumesFrom, containers
    <3>5. CASE \E dest \in Dests, n \in Names, d \in Drivers \cup {None} :
                  Bind(c, dest, n, d) \/ AddAnonymous(c, dest, n, d)
      BY <3>5 DEF Bind, AddAnonymous, containers
    <3> QED BY <1>5, <3>1, <3>2, <3>3, <3>4, <3>5
  <2> QED BY <1>3, <2>1, <2>2 DEF Inv, UserType
<1>6. ASSUME \/ \E n \in Names, d \in Drivers \cup {None} : VolumeCreate(n, d)
             \/ \E p \in Clients, n \in Names : GetVolume(p, n)
             \/ \E p \in Clients \cup Containers : VolumeRm(p)
      PROVE  Quiet'
  <2>1. cstate' = cstate
    BY <1>6 DEF VolumeCreate, GetVolume, VolumeRm, containers
  <2>2. Serving
    BY <1>6 DEF VolumeCreate, GetVolume, VolumeRm, Quiet
  <2> QED BY <1>3, <2>1, <2>2
<1> QED BY <1>1, <1>2, <1>5, <1>6 DEF Next

\* No step takes a volume with references away.
LEMMA RemovedIsUnreferenced ==
    ASSUME Inv, Next, NEW c \in Containers, NEW n \in Names, NEW d \in Drivers,
           c \in refs[n], n \in vols[d]
    PROVE  n \in vols'[d]
<1>1. ASSUME NEW p \in Clients \cup Containers, VolumeRm(p) PROVE n \in vols'[d]
  <2>1. held[p] \in Held /\ held[p] # NoMount /\ Remove(held[p].name, held[p].driver)
    BY <1>1 DEF VolumeRm, Inv, UserType
  <2>2. held[p].name \in Names /\ held[p].driver \in Drivers
    BY <2>1, HeldFields
  <2>3. ASSUME NEW x \in Names, NEW e \in Drivers, Remove(x, e) PROVE n \in vols'[d]
    BY <2>3, RemoveIsFresh DEF Inv
  <2> QED BY <2>1, <2>2, <2>3
<1>2. ASSUME NEW x \in Names, NEW e \in Drivers \cup {None}, VolumeCreate(x, e)
      PROVE  n \in vols'[d]
  BY <1>2, CreateMakes, CreateFailsKeeps DEF VolumeCreate, Inv
<1>3. ASSUME NEW k \in Containers, NEW x \in Names, NEW e \in Drivers \cup {None},
             NEW dest \in Dests, Bind(k, dest, x, e) \/ AddAnonymous(k, dest, x, e)
      PROVE  n \in vols'[d]
  BY <1>3, CreateMakes, CreateFailsKeeps DEF Bind, AddAnonymous, Inv
<1>4. ASSUME NEW k \in Containers, RegisterFails(k) PROVE n \in vols'[d]
  BY <1>4, CreateFailsKeeps DEF RegisterFails, Inv
<1>5. ASSUME NEW k \in Containers,
             \/ BeginRegister(k) \/ RegisterDone(k) \/ Created(k) \/ Lifecycle(k)
             \/ lazyInitializeVolume(k) \/ Initialized(k) \/ Removed(k)
             \/ RmFails(k) \/ RmFailed(k)
             \/ \E dest \in Dests : \/ removeMountPoint(k, dest) \/ SpareMountPoint(k, dest)
                                   \/ \E b \in Containers : VolumesFrom(k, b, dest)
      PROVE  vols' = vols
  BY <1>5 DEF BeginRegister, RegisterDone, Created, Lifecycle, lazyInitializeVolume,
              Initialized, Removed, RmFails, RmFailed, removeMountPoint, SpareMountPoint,
              VolumesFrom, store
<1>6. ASSUME (\E p \in Clients, x \in Names : GetVolume(p, x)) \/ Restart PROVE vols' = vols
  BY <1>6 DEF GetVolume, Restart
<1> QED BY <1>1, <1>2, <1>3, <1>4, <1>5, <1>6 DEF Next

IInv == Inv /\ Quiet /\ RefInv

\* It holds when the daemon starts for the first time.
LEMMA InitIInv == Init => IInv
<1> SUFFICES ASSUME Init PROVE IInv
  OBVIOUS
<1>1. mishandled = {} /\ \A c \in Containers : mounts[c] = Unmounted /\ cstate[c] = "none"
  BY DEF Init
<1>2. ASSUME NEW c \in Containers PROVE Blank(c) /\ Safe(c) /\ Attended(c)
  <2>1. \A d \in Dests : ~HasVol(mounts, c, d)
    BY <1>1, NothingMounted
  <2>2. \A d \in Dests : mounts[c][d] = NoMount /\ points[c][d] = NoMount
    BY DEF Init, Unmounted
  <2>3. Full(mounts, c) /\ Full(points, c)
    BY <2>2 DEF Full
  <2> QED BY <1>1, <2>1, <2>3 DEF Init, Blank, Safe, Attended, Guarded, Registering, Spared
<1>3. Quiet
  BY DEF Init, Quiet, Serving
<1> QED BY <1>1, <1>2, <1>3, InitInv DEF IInv, RefInv

\* Every step keeps the invariant.
LEMMA NextIInv == IInv /\ [Next]_vars => IInv'
<1> SUFFICES ASSUME IInv, [Next]_vars PROVE IInv'
  OBVIOUS
<1>1. Inv /\ Quiet /\ RefInv /\ Inv'
  BY NextInv DEF IInv
<1>2. CASE UNCHANGED vars
  <2>1. \A c \in Containers : Frame(c)
    BY <1>2 DEF Frame, vars, store, containers, Had
  <2>2. Quiet'
    BY <1>1, <1>2 DEF Quiet, Serving, vars, containers
  <2> QED BY <1>1, <1>2, <2>1, <2>2, FrameKeeps DEF IInv, RefInv, vars
<1>3. CASE Next
  <2>1. ASSUME NEW c \in Containers,
               \/ BeginRegister(c) \/ Created(c) \/ Lifecycle(c) \/ Initialized(c)
               \/ Removed(c) \/ RegisterFails(c) \/ RegisterDone(c)
               \/ lazyInitializeVolume(c) \/ RmFails(c) \/ RmFailed(c)
        PROVE  RefInv'
    <3>1. CASE BeginRegister(c) \/ Created(c) \/ Lifecycle(c) \/ Initialized(c) \/ Removed(c)
      BY <1>1, <3>1, StateRefs
    <3> QED BY <1>1, <2>1, <3>1, RegisterFailsRefs, RegisterDoneRefs, LazyRefs, RmFailsRefs
  <2>2. ASSUME NEW c \in Containers, NEW dest \in Dests,
               \/ removeMountPoint(c, dest) \/ SpareMountPoint(c, dest)
               \/ \E b \in Containers : VolumesFrom(c, b, dest)
               \/ \E n \in Names, d \in Drivers \cup {None} :
                     Bind(c, dest, n, d) \/ AddAnonymous(c, dest, n, d)
        PROVE  RefInv'
    BY <1>1, <2>2, RegisterRefs, AnonymousRefs, RemoveRefs, SpareRefs
  <2>3. ASSUME \/ \E n \in Names, d \in Drivers \cup {None} : VolumeCreate(n, d)
               \/ \E p \in Clients, n \in Names : GetVolume(p, n)
               \/ \E p \in Clients \cup Containers : VolumeRm(p)
        PROVE  RefInv'
    BY <1>1, <2>3, ApiRefs
  <2>4. Restart => RefInv'
    BY <1>1, RestartRefs
  <2>5. RefInv'
    BY <1>3, <2>1, <2>2, <2>3, <2>4 DEF Next
  <2> QED BY <1>1, <1>3, <2>5, QuietStep DEF IInv
<1> QED BY <1>2, <1>3

\* Every variable of the volume store and of the containers' mount points keeps its
\* type, for all constants.
THEOREM TypeCorrect == Spec => []TypeOK
<1>1. IInv => TypeOK
  BY InvIs DEF IInv, RefInv
<1> QED BY <1>1, InitIInv, NextIInv, PTL DEF Spec

\* No reference outlives the mount point it was taken for, for all constants and
\* whatever fails: Dereference, in registerMountPoints, removeMountPoints and after
\* errors, finds every reference of a container that was not mishandled.
THEOREM ReferencesEnd == Spec => []NoStaleRefs
<1>1. IInv => NoStaleRefs
  <2> SUFFICES ASSUME IInv, NEW n \in Names, NEW c \in refs[n] \ mishandled
               PROVE  Mounted(c, n)
    BY DEF NoStaleRefs
  <2>1. c \in Containers /\ Safe(c)
    BY DEF IInv, RefInv, Inv, StoreType
  <2>2. Mounts(mounts, c, n) \/ Mounts(points, c, n)
    BY <2>1 DEF Safe
  <2>3. /\ Mounts(mounts, c, n) => \E m \in Points(mounts[c]) : m.name = n /\ m.vol
        /\ Mounts(points, c, n) => \E m \in Points(points[c]) : m.name = n /\ m.vol
    BY SMT, <2>1, PointsMount
  <2> QED BY <2>2, <2>3 DEF Mounted
<1> QED BY <1>1, InitIInv, NextIInv, PTL DEF Spec

\* The volume of an initialised mount point is there, for all constants and whatever
\* fails: Remove refuses a volume with references, and an initialised mount point of a
\* container that was not mishandled has its reference.  The exception is a volume that
\* a failed removal took before the reference was made.
THEOREM VolumesStay == Spec => []InUseIsKept
<1>1. IInv => InUseIsKept
  <2> SUFFICES ASSUME IInv, NEW c \in Containers \ mishandled, cstate[c] \in {"created", "up"},
                      NEW m \in Points(mounts[c]), m.vol
               PROVE  m.name \in Had(m.driver)
    BY DEF InUseIsKept
  <2>1. Guarded(mounts, c)
    BY DEF IInv, RefInv, Safe, Leaving
  <2>2. PICK d \in Dests : m = mounts[c][d] /\ m # NoMount
    BY DEF Points
  <2> QED BY <2>1, <2>2 DEF Guarded, HasVol
<1> QED BY <1>1, InitIInv, NextIInv, PTL DEF Spec

\* "You cannot remove a volume that is in use by a container" (volume rm), of running
\* containers: as long as drivers answer, no kill fails and no host configuration is given
\* at a start, the volumes of a running container exist, also one that has them from
\* another container and one that ran on through restarts of the daemon.
THEOREM RunningKeepVolumes == Careful /\ Answered => (Spec => []RunningHasVolumes)
<1> SUFFICES ASSUME Careful, Answered PROVE Spec => []RunningHasVolumes
  OBVIOUS
<1>1. IInv => RunningHasVolumes
  <2> SUFFICES ASSUME IInv, NEW c \in Containers, cstate[c] = "up" \/ Spared(c),
                      NEW d \in Dests, mounts[c][d] # NoMount
               PROVE  mounts[c][d].name \in vols[mounts[c][d].driver]
    BY DEF RunningHasVolumes
  <2>1. Full(mounts, c) /\ Guarded(mounts, c)
    BY DEF IInv, RefInv, Attended, Leaving
  <2>2. HasVol(mounts, c, d) /\ mounts[c][d].name \in Had(mounts[c][d].driver)
    BY <2>1 DEF Full, Guarded, HasVol
  <2>3. dropped[mounts[c][d].driver] = {}
    BY <2>2, VolFields DEF IInv, Inv, StoreType, Answered
  <2> QED BY <2>2, <2>3 DEF Had
<1> QED BY <1>1, InitIInv, NextIInv, PTL DEF Spec

\* The same of stopped containers: without volumes-from and restarts of the daemon no step
\* takes away the volume of a mount point of a container that has been created, whatever
\* else fails: Remove finds the reference of the container.
THEOREM CreatedKeepVolumes == Careful /\ Plain => (Spec => ReferencedIsKept)
<1> SUFFICES ASSUME Careful, Plain PROVE Spec => ReferencedIsKept
  OBVIOUS
<1> DEFINE Keeps ==
      \A d \in Drivers : \A n \in vols[d] \ vols'[d] : \A c \in Containers :
         cstate[c] \in {"created", "up"} =>
            \A m \in Points(mounts[c]) : ~(m.name = n /\ m.driver = d)
<1>1. ASSUME IInv, Next PROVE Keeps
  <2> SUFFICES ASSUME NEW d \in Drivers, NEW n \in vols[d] \ vols'[d], NEW c \in Containers,
                      cstate[c] \in {"created", "up"}, NEW m \in Points(mounts[c]),
                      m.name = n, m.driver = d
               PROVE  FALSE
    OBVIOUS
  <2>1. Inv /\ Attended(c) /\ n \in Names
    BY <1>1 DEF IInv, RefInv, Inv, StoreType
  <2>2. c \in refs[n]
    <3>1. PICK x \in Dests : m = mounts[c][x] /\ m # NoMount
      BY DEF Points
    <3> QED BY <2>1, <3>1 DEF Attended, Full, Guarded, HasVol, Leaving
  <2>3. n \in vols'[d]
    BY <1>1, <2>1, <2>2, RemovedIsUnreferenced
  <2> QED BY <2>3
<1>2. IInv /\ [Next]_vars => [Keeps]_vars
  BY <1>1
<1> QED BY <1>2, InitIInv, NextIInv, PTL DEF Spec, ReferencedIsKept
=============================================================================
