------------------------------ MODULE LayerStore ------------------------------
(***************************************************************************)
(* The layer store, layer/layer_store.go, over a graph driver and a file   *)
(* metadata store: read-only layers counted by references, children,       *)
(* mounts and calls in progress, and the read-write layers of containers.  *)
(*                                                                         *)
(* A chain ID names a layer together with its ancestors, so Parent is a    *)
(* constant.  What the layer in memory and the file on disk say is not: a  *)
(* removal of a metadata directory (os.RemoveAll) that an error or a crash *)
(* stops may have taken any of its files.                                  *)
(*                                                                         *)
(* Work under layerL or mountL is one step unless something outside the    *)
(* lock, an I/O error or a crash can come between; then the lock is a      *)
(* variable.  Faults names the errors that may happen.                     *)
(***************************************************************************)
EXTENDS Naturals, FiniteSets

CONSTANTS Procs,     \* goroutines that use the store
          Chains,    \* chain IDs
          Parent,    \* chain ID -> parent's chain ID, or None
          MaxDepth,  \* maxLayerDepth
          Mounts,    \* names of read-write layers
          Ids,       \* graph driver IDs (cacheID, mountID)
          Refs,      \* referencedCacheLayer and referencedRWLayer objects
          Faults,    \* errors that can happen
          None       \* nil

AllFaults == {"create", "begin", "apply", "commit", "driverRemove", "storeRemove",
              "saveMount", "crash"}

ASSUME ParentAssumption == Parent \in [Chains -> Chains \cup {None}]
ASSUME FaultsAssumption == Faults \subseteq AllFaults
ASSUME FiniteAssumption ==
    IsFiniteSet(Procs) /\ IsFiniteSet(Chains) /\ IsFiniteSet(Mounts) /\ IsFiniteSet(Refs)
ASSUME DistinctAssumption ==
    /\ Procs \cap Chains = {} /\ Procs \cap Mounts = {} /\ Procs \cap Refs = {}
    /\ Chains \cap Mounts = {} /\ Chains \cap Refs = {} /\ Mounts \cap Refs = {}
    /\ None \notin Procs \cup Chains \cup Mounts \cup Ids \cup Refs

VARIABLES
    \* layerStore, in memory
    layerL, mountL,             \* holders of the locks between two steps
    layerMap, refCount, cacheID, parent,
    mounts, mountID, mountParent,
    references,                 \* reference object -> the layer or mount it is for
    \* the graph driver, and the metadata store on disk
    driver,
    meta, metaParent,           \* the files cache-id and parent of a layer
    diskMountID, diskMountParent,
    lost,                       \* directories whose ID file such a removal took
    \* calls in progress
    pc, target, at, id,
    panicked,
    suspect                     \* history: layers and mounts whose removal stopped
                                \* half-way, and mounts saved over what was left

lockVars  == <<layerL, mountL>>
layerVars == <<layerMap, refCount, cacheID, parent>>
mountVars == <<mounts, mountID, mountParent>>
metaVars  == <<meta, metaParent>>
diskMount == <<diskMountID, diskMountParent>>
diskVars  == <<driver, metaVars, diskMount, lost>>
callVars  == <<pc, target, at, id>>
vars == <<lockVars, layerVars, mountVars, references, diskVars, callVars, panicked, suspect>>

Pcs == {"idle", "create", "begin", "apply", "commit", "cleanup", "release",
        "rmdriver", "rmmeta", "mcreate", "msave", "mparent", "mrmdriver", "mrmmeta"}

TypeOK ==
    /\ layerL \in Procs \cup {None} /\ mountL \in Procs \cup {None}
    /\ layerMap \subseteq Chains
    /\ refCount \in [Chains -> Nat] /\ cacheID \in [Chains -> Ids \cup {None}]
    /\ parent \in [Chains -> Chains \cup {None}]
    /\ mounts \subseteq Mounts
    /\ mountID \in [Mounts -> Ids \cup {None}]
    /\ mountParent \in [Mounts -> Chains \cup {None}]
    /\ references \in [Refs -> Chains \cup Mounts \cup {None}]
    /\ driver \subseteq Ids
    /\ meta \in [Chains -> Ids \cup {None}]
    /\ metaParent \in [Chains -> Chains \cup {None}]
    /\ diskMountID \in [Mounts -> Ids \cup {None}]
    /\ diskMountParent \in [Mounts -> Chains \cup {None}]
    /\ lost \subseteq Chains \cup Mounts
    /\ pc \in [Procs -> Pcs]
    /\ target \in [Procs -> Chains \cup Mounts \cup {None}]
    /\ at \in [Procs -> Chains \cup {None}]
    /\ id \in [Procs -> Ids \cup {None}]
    /\ panicked \in BOOLEAN
    /\ suspect \subseteq Chains \cup Mounts

\* An empty store on an empty driver.
Init ==
    /\ layerL = None /\ mountL = None
    /\ layerMap = {} /\ mounts = {}
    /\ refCount = [c \in Chains |-> 0] /\ cacheID = [c \in Chains |-> None]
    /\ parent = [c \in Chains |-> None]
    /\ mountID = [m \in Mounts |-> None] /\ mountParent = [m \in Mounts |-> None]
    /\ references = [r \in Refs |-> None]
    /\ driver = {} /\ lost = {}
    /\ meta = [c \in Chains |-> None] /\ metaParent = [c \in Chains |-> None]
    /\ diskMountID = [m \in Mounts |-> None] /\ diskMountParent = [m \in Mounts |-> None]
    /\ pc = [p \in Procs |-> "idle"] /\ target = [p \in Procs |-> None]
    /\ at = [p \in Procs |-> None] /\ id = [p \in Procs |-> None]
    /\ panicked = FALSE /\ suspect = {}

-----------------------------------------------------------------------------
Goto(p, label) == pc' = [pc EXCEPT ![p] = label]

\* The call of p returns, and gives up the locks it holds.
Return(p) ==
    /\ Goto(p, "idle")
    /\ target' = [target EXCEPT ![p] = None]
    /\ at' = [at EXCEPT ![p] = None]
    /\ id' = [id EXCEPT ![p] = None]
    /\ layerL' = IF layerL = p THEN None ELSE layerL
    /\ mountL' = IF mountL = p THEN None ELSE mountL

\* Graph driver IDs are random: one that nobody has used.
FreshId(i) ==
    /\ i \notin driver
    /\ \A c \in Chains : i # cacheID[c] /\ i # meta[c]
    /\ \A m \in Mounts : i # mountID[m] /\ i # diskMountID[m]
    /\ \A p \in Procs : i # id[p]

\* getWithoutLock: the caller now counts in refCount.
Retain(c) == refCount' = [refCount EXCEPT ![c] = @ + 1]

\* getReference: a new reference object for a layer or a mount.
NewReference(r, x) ==
    /\ references[r] = None
    /\ references' = [references EXCEPT ![r] = x]

\* Bound: every call in progress can still get the reference it will return.
SpareReference ==
    Cardinality({r \in Refs : references[r] = None})
        > Cardinality({p \in Procs : pc[p] # "idle"})

-----------------------------------------------------------------------------
(* Get and Release                                                          *)

Get(p, c, r) ==
    /\ pc[p] = "idle" /\ layerL = None /\ SpareReference
    /\ c \in layerMap
    /\ Retain(c) /\ NewReference(r, c)
    /\ UNCHANGED <<lockVars, layerMap, cacheID, parent, mountVars, diskVars, callVars, panicked, suspect>>

Release(p, r) ==
    /\ pc[p] = "idle" /\ layerL = None
    /\ references[r] \in layerMap
    /\ references' = [references EXCEPT ![r] = None]
    /\ layerL' = p
    /\ at' = [at EXCEPT ![p] = references[r]]
    /\ Goto(p, "release")
    /\ UNCHANGED <<mountL, layerVars, mountVars, diskVars, target, id, panicked, suspect>>

\* releaseLayer, one round of its loop, up to the removal of the layer.
ReleaseLayer(p) ==
    LET c == at[p]
        n == refCount[c] - 1
        panics == \/ refCount[c] = 0      \* "layer not retained"
                  \/ n = 0 /\ (\E r \in Refs : references[r] = c)
                                          \* "cannot delete referenced layer"
    IN  /\ pc[p] = "release" /\ layerL \in {None, p}
        /\ panicked' = panics
        /\ refCount' = IF panics THEN refCount ELSE [refCount EXCEPT ![c] = n]
        /\ \/ (n # 0 \/ panics) /\ Return(p)
           \/ /\ n = 0 /\ ~panics
              /\ layerL' = p /\ Goto(p, "rmdriver")
              /\ UNCHANGED <<mountL, target, at, id>>
        /\ UNCHANGED <<layerMap, cacheID, parent, mountVars, references, diskVars, suspect>>

\* deleteLayer: driver.Remove.  On error the layer stays in the map, unretained;
\* a driver may fail before or after it has deleted something.
DeleteData(p) ==
    LET c == at[p]
    IN  /\ pc[p] = "rmdriver"
        /\ \/ /\ driver' = driver \ {cacheID[c]}
              /\ Goto(p, "rmmeta")
              /\ UNCHANGED <<lockVars, target, at, id, suspect>>
           \/ /\ "driverRemove" \in Faults
              /\ \/ UNCHANGED <<driver, suspect>>
                 \/ driver' = driver \ {cacheID[c]} /\ suspect' = suspect \cup {c}
              /\ Return(p)
        /\ UNCHANGED <<layerVars, mountVars, references, metaVars, diskMount, lost, panicked>>

\* deleteLayer: store.Remove; then forget the layer and go on with its parent.
\* An error leaves some of the files.
DeleteMeta(p) ==
    LET c == at[p]
    IN  /\ pc[p] = "rmmeta"
        /\ \/ /\ meta' = [meta EXCEPT ![c] = None]
              /\ metaParent' = [metaParent EXCEPT ![c] = None]
              /\ lost' = lost \ {c} /\ suspect' = suspect \ {c}
              /\ layerMap' = layerMap \ {c}
              /\ cacheID' = [cacheID EXCEPT ![c] = None]
              /\ parent' = [parent EXCEPT ![c] = None]
              /\ IF parent[c] = None
                 THEN Return(p)
                 ELSE /\ at' = [at EXCEPT ![p] = parent[c]]
                      /\ Goto(p, "release")
                      /\ UNCHANGED <<lockVars, target, id>>
           \/ /\ "storeRemove" \in Faults
              /\ lost' \in {lost, lost \cup {c}}
              /\ metaParent' \in {metaParent, [metaParent EXCEPT ![c] = None]}
              /\ suspect' = suspect \cup {c}
              /\ Return(p) /\ UNCHANGED <<layerMap, cacheID, parent, meta>>
        /\ UNCHANGED <<refCount, mountVars, references, driver, diskMount, panicked>>

-----------------------------------------------------------------------------
(* Register                                                                 *)

\* Mutant of Register: the parent is looked up but not retained.
RegisterUnretained(p, c) ==
    /\ pc[p] = "idle" /\ SpareReference
    /\ target' = [target EXCEPT ![p] = c]
    /\ at' = [at EXCEPT ![p] = Parent[c]]
    /\ Parent[c] \in layerMap \cup {None}
    /\ Goto(p, "create")
    /\ UNCHANGED <<lockVars, layerVars, mountVars, references, diskVars, id, panicked, suspect>>

\* roLayer.depth: a layer with its ancestors in memory.
Lineage(c) == {d \in Chains : \A S \in SUBSET Chains :
                   c \in S /\ (\A e \in S : parent[e] \in S \cup {None}) => d \in S}

TooDeep(c) == Cardinality(Lineage(c)) >= MaxDepth

\* Retain the parent; a parent that is too deep is released again.
Register(p, c) ==
    /\ pc[p] = "idle" /\ SpareReference
    /\ target' = [target EXCEPT ![p] = c]
    /\ at' = [at EXCEPT ![p] = Parent[c]]
    /\ \/ /\ Parent[c] = None
          /\ Goto(p, "create") /\ UNCHANGED refCount
       \/ /\ Parent[c] \in layerMap /\ layerL = None
          /\ Retain(Parent[c])
          /\ Goto(p, IF TooDeep(Parent[c]) THEN "release" ELSE "create")
    /\ UNCHANGED <<lockVars, layerMap, cacheID, parent, mountVars, references, diskVars, id,
                   panicked, suspect>>

\* The deferred release of the parent chain.
Abandon(p) == IF at[p] = None THEN Return(p)
              ELSE /\ Goto(p, "release")
                   /\ id' = [id EXCEPT ![p] = None]
                   /\ UNCHANGED <<lockVars, target, at>>

\* driver.Create(layer.cacheID, pid)
DriverCreate(p, i) ==
    /\ pc[p] = "create" /\ FreshId(i)
    /\ driver' = driver \cup {i}
    /\ id' = [id EXCEPT ![p] = i]
    /\ Goto(p, "begin")
    /\ UNCHANGED <<lockVars, layerVars, mountVars, references, metaVars, diskMount,
                   lost, target, at, panicked, suspect>>

\* driver.Create or CreateReadWrite fails.
DriverCreateFails(p) ==
    /\ pc[p] \in {"create", "mcreate"} /\ "create" \in Faults
    /\ Abandon(p)
    /\ UNCHANGED <<layerVars, mountVars, references, diskVars, panicked, suspect>>

\* StartTransaction.  Its error comes before the clean-up of the driver's layer
\* is deferred.
StartTransaction(p) ==
    /\ pc[p] = "begin"
    /\ \/ Goto(p, "apply") /\ UNCHANGED <<lockVars, target, at, id>>
       \/ "begin" \in Faults /\ Abandon(p)
    /\ UNCHANGED <<layerVars, mountVars, references, diskVars, panicked, suspect>>

\* applyTar and storeLayer
ApplyTar(p) ==
    /\ pc[p] = "apply"
    /\ \/ Goto(p, "commit")
       \/ "apply" \in Faults /\ Goto(p, "cleanup")
    /\ UNCHANGED <<lockVars, layerVars, mountVars, references, diskVars, target, at, id,
                   panicked, suspect>>

\* tx.Commit and the entry in the map
NewLayer(p) ==
    LET c == target[p]
    IN  /\ layerMap' = layerMap \cup {c}
        /\ cacheID' = [cacheID EXCEPT ![c] = id[p]]
        /\ parent' = [parent EXCEPT ![c] = at[p]]
        /\ refCount' = [refCount EXCEPT ![c] = 1]
        /\ meta' = [meta EXCEPT ![c] = id[p]]
        /\ metaParent' = [metaParent EXCEPT ![c] = at[p]]
        /\ lost' = lost \ {c} /\ suspect' = suspect \ {c}

\* Mutant of Commit: an existing layer is referenced but not retained.
CommitUncounted(p, r) ==
    /\ pc[p] = "commit" /\ layerL = None
    /\ NewReference(r, target[p])
    /\ \/ target[p] \notin layerMap /\ NewLayer(p) /\ Return(p)
       \/ /\ target[p] \in layerMap /\ Goto(p, "cleanup")
          /\ UNCHANGED <<lockVars, target, at, id, layerVars, metaVars, lost, suspect>>
    /\ UNCHANGED <<mountVars, driver, diskMount, panicked>>

\* Under layerL: another Register of the same chain may have come first; its
\* layer is used and this one cleaned up.  Commit is a rename, which fails when
\* the directory is there, unless it is empty: what is left of a lost one may be.
Commit(p, r) ==
    LET c == target[p]
    IN  /\ pc[p] = "commit" /\ layerL = None
        /\ \/ /\ c \in layerMap
              /\ Retain(c) /\ NewReference(r, c)
              /\ Goto(p, "cleanup")
              /\ UNCHANGED <<lockVars, target, at, id, layerMap, cacheID, parent, metaVars,
                             lost, suspect>>
           \/ /\ c \notin layerMap
              /\ meta[c] # None \/ "commit" \in Faults
              /\ Goto(p, "cleanup")
              /\ UNCHANGED <<lockVars, target, at, id, layerVars, references, metaVars, lost,
                             suspect>>
           \/ /\ c \notin layerMap
              /\ meta[c] = None \/ c \in lost
              /\ NewLayer(p) /\ NewReference(r, c) /\ Return(p)
        /\ UNCHANGED <<mountVars, driver, diskMount, panicked>>

\* Mutant of Cleanup: the directory is found by chain ID.
CleanupByChain(p) ==
    /\ pc[p] = "cleanup"
    /\ driver' = driver \ {cacheID[target[p]]}
    /\ Abandon(p)
    /\ UNCHANGED <<layerVars, mountVars, references, metaVars, diskMount, lost,
                   panicked, suspect>>

\* The deferred clean-up: driver.Remove, whose error is only logged, tx.Cancel
\* and the release of the parent.
Cleanup(p) ==
    /\ pc[p] = "cleanup"
    /\ \/ driver' = driver \ {id[p]}
       \/ "driverRemove" \in Faults /\ UNCHANGED driver
    /\ Abandon(p)
    /\ UNCHANGED <<layerVars, mountVars, references, metaVars, diskMount, lost,
                   panicked, suspect>>

-----------------------------------------------------------------------------
(* Read-write layers.  mountL is held from the first to the last step.      *)

\* The new mount may be on a layer, or on none.
CreateRWLayer(p, m, c) ==
    /\ pc[p] = "idle" /\ mountL = None /\ m \notin mounts /\ SpareReference
    /\ \/ c = None /\ UNCHANGED refCount
       \/ layerL = None /\ c \in layerMap /\ Retain(c)
    /\ mountL' = p
    /\ target' = [target EXCEPT ![p] = m]
    /\ at' = [at EXCEPT ![p] = c]
    /\ Goto(p, "mcreate")
    /\ UNCHANGED <<layerL, layerMap, cacheID, parent, mountVars, references, diskVars, id,
                   panicked, suspect>>

\* initMount and driver.CreateReadWrite
CreateReadWrite(p, i) ==
    /\ pc[p] = "mcreate" /\ FreshId(i)
    /\ driver' = driver \cup {i}
    /\ id' = [id EXCEPT ![p] = i]
    /\ Goto(p, "msave")
    /\ UNCHANGED <<lockVars, layerVars, mountVars, references, metaVars, diskMount,
                   lost, target, at, panicked, suspect>>

\* saveMount: SetMountID.  An error can leave a file that cannot be read.
SaveMountID(p) ==
    LET m == target[p]
    IN  /\ pc[p] = "msave"
        /\ \/ /\ diskMountID' = [diskMountID EXCEPT ![m] = id[p]]
              /\ lost' = lost \ {m}
              /\ Goto(p, "mparent")
              /\ UNCHANGED <<lockVars, target, at, id>>
           \/ /\ "saveMount" \in Faults
              /\ lost' \in {lost, lost \cup {m}}
              /\ Abandon(p) /\ UNCHANGED diskMountID
        /\ UNCHANGED <<layerVars, mountVars, references, driver, metaVars, diskMountParent,
                       panicked, suspect>>

\* The entry in ls.mounts, and getReference
NewMount(p, r) ==
    LET m == target[p]
    IN  /\ mounts' = mounts \cup {m}
        /\ mountID' = [mountID EXCEPT ![m] = id[p]]
        /\ mountParent' = [mountParent EXCEPT ![m] = at[p]]
        /\ NewReference(r, m) /\ Return(p)

\* Mutant of SaveMountParent: the parent is only kept in memory.
SaveMountInMemory(p, r) ==
    /\ pc[p] = "mparent"
    /\ NewMount(p, r)
    /\ UNCHANGED <<layerVars, diskVars, panicked, suspect>>

\* saveMount: SetMountParent, if there is one; otherwise a file left of an earlier
\* mount of that name stays.
SaveMountParent(p, r) ==
    LET m == target[p]
    IN  /\ pc[p] = "mparent"
        /\ \/ /\ IF at[p] = None THEN UNCHANGED diskMountParent
                 ELSE diskMountParent' = [diskMountParent EXCEPT ![m] = at[p]]
              /\ suspect' = IF diskMountParent'[m] = at[p] THEN suspect \ {m}
                            ELSE suspect \cup {m}
              /\ NewMount(p, r) /\ UNCHANGED lost
           \/ /\ "saveMount" \in Faults
              /\ lost' \in {lost, lost \cup {m}}
              /\ Abandon(p)
              /\ UNCHANGED <<diskMountParent, mountVars, references, suspect>>
        /\ UNCHANGED <<layerVars, driver, metaVars, diskMountID, panicked>>

GetRWLayer(p, m, r) ==
    /\ pc[p] = "idle" /\ mountL = None /\ SpareReference
    /\ m \in mounts
    /\ NewReference(r, m)
    /\ UNCHANGED <<lockVars, layerVars, mountVars, diskVars, callVars, panicked, suspect>>

\* deleteReference; the last one removes the mount.
ReleaseRWLayer(p, r) ==
    LET m == references[r]
        last == \A q \in Refs : q # r => references[q] # m
    IN  /\ pc[p] = "idle" /\ mountL = None
        /\ m \in mounts
        /\ references' = [references EXCEPT ![r] = None]
        /\ \/ ~last /\ UNCHANGED <<mountL, pc, target>>
           \/ /\ last
              /\ mountL' = p
              /\ target' = [target EXCEPT ![p] = m]
              /\ Goto(p, "mrmdriver")
        /\ UNCHANGED <<layerL, layerVars, mountVars, diskVars, at, id, panicked, suspect>>

\* retakeReference after an error
Retake(p, r) == NewReference(r, target[p]) /\ Return(p)

\* driver.Remove of the mount and then of its init layer, which is not modelled;
\* after an error of either the mount's data may be gone.
RemoveMountData(p, r) ==
    /\ pc[p] = "mrmdriver"
    /\ \/ /\ driver' = driver \ {mountID[target[p]]}
          /\ Goto(p, "mrmmeta")
          /\ UNCHANGED <<lockVars, references, target, at, id>>
       \/ /\ "driverRemove" \in Faults
          /\ driver' \in {driver, driver \ {mountID[target[p]]}}
          /\ Retake(p, r)
    /\ UNCHANGED <<layerVars, mountVars, metaVars, diskMount, lost, panicked, suspect>>

\* store.RemoveMount, delete(ls.mounts) and on to the parent's releaseLayer.  An
\* error leaves some of the files.
RemoveMount(p, r) ==
    LET m == target[p]
    IN  /\ pc[p] = "mrmmeta"
        /\ \/ /\ diskMountID' = [diskMountID EXCEPT ![m] = None]
              /\ diskMountParent' = [diskMountParent EXCEPT ![m] = None]
              /\ lost' = lost \ {m} /\ suspect' = suspect \ {m}
              /\ mounts' = mounts \ {m}
              /\ mountID' = [mountID EXCEPT ![m] = None]
              /\ mountParent' = [mountParent EXCEPT ![m] = None]
              /\ IF mountParent[m] = None THEN Return(p)
                 ELSE /\ at' = [at EXCEPT ![p] = mountParent[m]]
                      /\ Goto(p, "release")
                      /\ UNCHANGED <<lockVars, target, id>>
              /\ UNCHANGED references
           \/ /\ "storeRemove" \in Faults
              /\ lost' \in {lost, lost \cup {m}}
              /\ diskMountParent' \in {diskMountParent, [diskMountParent EXCEPT ![m] = None]}
              /\ suspect' = suspect \cup {m}
              /\ Retake(p, r)
              /\ UNCHANGED <<diskMountID, mountVars>>
        /\ UNCHANGED <<layerVars, driver, metaVars, panicked>>

-----------------------------------------------------------------------------
(* The daemon crashes and NewStoreFromGraphDriver rebuilds the store from
   the metadata directory: a layer loads if it and all its ancestors do, and
   counts its children and mounts.                                          *)

Loadable == UNION {S \in SUBSET {c \in Chains \ lost : meta[c] # None} :
                      \A c \in S : metaParent[c] \in S \cup {None}}

LoadableMounts == {m \in Mounts \ lost : /\ diskMountID[m] # None
                                         /\ diskMountParent[m] \in layerMap \cup {None}}

\* A removal that was under way has taken any of the files.
Restart ==
    LET halfway == {at[p] : p \in {q \in Procs : pc[q] = "rmmeta"}}
                   \cup {target[p] : p \in {q \in Procs : pc[q] = "mrmmeta"}}
        unless(x, gone, v) == IF x \in gone THEN None ELSE v
    IN  /\ "crash" \in Faults
        /\ \E ids, parents \in SUBSET halfway :
              /\ lost' = lost \cup ids
              /\ metaParent' = [c \in Chains |-> unless(c, parents, metaParent[c])]
              /\ diskMountParent' = [m \in Mounts |-> unless(m, parents, diskMountParent[m])]
        /\ UNCHANGED <<driver, meta, diskMountID, panicked>>
        /\ suspect' = suspect \cup halfway
        /\ layerMap' = Loadable'
        /\ cacheID' = [c \in Chains |-> IF c \in layerMap' THEN meta[c] ELSE None]
        /\ parent' = [c \in Chains |-> IF c \in layerMap' THEN metaParent'[c] ELSE None]
        /\ mounts' = LoadableMounts'
        /\ mountID' = [m \in Mounts |-> IF m \in mounts' THEN diskMountID[m] ELSE None]
        /\ mountParent' = [m \in Mounts |-> IF m \in mounts' THEN diskMountParent'[m] ELSE None]
        /\ refCount' = [c \in Chains |->
               Cardinality({d \in layerMap' : parent'[d] = c} \cup
                           {m \in mounts' : mountParent'[m] = c})]
        /\ references' = [r \in Refs |-> None]
        /\ layerL' = None /\ mountL' = None
        /\ pc' = [p \in Procs |-> "idle"] /\ target' = [p \in Procs |-> None]
        /\ at' = [p \in Procs |-> None] /\ id' = [p \in Procs |-> None]

-----------------------------------------------------------------------------
Step(p) ==
    \/ \E r \in Refs :
          \/ \E c \in Chains : Get(p, c, r)
          \/ \E m \in Mounts : GetRWLayer(p, m, r)
          \/ Release(p, r) \/ ReleaseRWLayer(p, r)
          \/ Commit(p, r) \/ SaveMountParent(p, r)
          \/ RemoveMountData(p, r) \/ RemoveMount(p, r)
    \/ \E c \in Chains : Register(p, c)
    \/ \E m \in Mounts, c \in Chains \cup {None} : CreateRWLayer(p, m, c)
    \/ \E i \in Ids : DriverCreate(p, i) \/ CreateReadWrite(p, i)
    \/ DriverCreateFails(p) \/ StartTransaction(p) \/ ApplyTar(p) \/ Cleanup(p)
    \/ SaveMountID(p)
    \/ ReleaseLayer(p) \/ DeleteData(p) \/ DeleteMeta(p)

Next == ~panicked /\ (Restart \/ \E p \in Procs : Step(p))

Spec == Init /\ [][Next]_vars

-----------------------------------------------------------------------------
(* Properties                                                               *)

\* Who keeps a layer: references handed out, child layers, mounts, and calls in
\* progress that have retained it.
Holding == {"create", "begin", "apply", "commit", "cleanup", "release",
            "mcreate", "msave", "mparent"}
Holders(c) == {r \in Refs : references[r] = c} \cup {d \in layerMap : parent[d] = c}
              \cup {m \in mounts : mountParent[m] = c}
              \cup {p \in Procs : pc[p] \in Holding /\ at[p] = c}

\* referenceCount is exact through concurrent Register, Get and Release, after
\* any of the errors on the way, and after a restart.
CountIsExact == \A c \in layerMap : refCount[c] = Cardinality(Holders(c))

\* None of the panics of releaseLayer is reachable.
NeverPanics == ~panicked

\* A layer in use has its data in the driver and is on disk under the cache ID
\* and with the parent in memory, unless an earlier removal of it stopped half-way.
HeldIsIntact ==
    \A c \in layerMap \ suspect :
        Holders(c) # {} => /\ cacheID[c] \in driver /\ c \notin lost
                           /\ meta[c] = cacheID[c] /\ metaParent[c] = parent[c]

\* The step leaves every mount that outlives it as it was.
KeepsMounts == \A m \in (mounts \cap mounts') \ suspect' : /\ mountParent'[m] = mountParent[m]
                                                           /\ mountID'[m] = mountID[m]

\* A mount that a container got from CreateRWLayer or GetRWLayer keeps its parent
\* and its ID for as long as it is in ls.mounts, across restarts, unless a removal
\* of it stopped half-way and left it on disk without its parent, or it was made
\* without a parent over such a leftover.
MountKeepsParent == [][KeepsMounts]_vars

\* Without crashes and with a driver that can remove, nothing is left behind:
\* every driver directory belongs to a layer, a mount or a call in progress.
NoOrphanData ==
    \A i \in driver :
        \/ \E c \in layerMap : cacheID[c] = i
        \/ \E m \in mounts : mountID[m] = i
        \/ \E p \in Procs : id[p] = i
=============================================================================
