--------------------------- MODULE LayerStoreProofs ---------------------------
(***************************************************************************)
(* Proofs about the layer store, for any finite sets of callers, chain     *)
(* IDs, mounts and references, any tree of layers and any set of faults:   *)
(* the reference counts are exact, releaseLayer never panics, a layer in   *)
(* use keeps its data, and a mount keeps its parent.                       *)
(*                                                                         *)
(* The inductive invariant has four parts, each proved from the ones       *)
(* before it.  Control says what a call in progress works on and which     *)
(* lock it holds.  Books says that a held layer is in the map and counted, *)
(* and that nobody holds a layer that is being removed.  Disk says that    *)
(* the IDs in memory are on disk, that no two users share a driver ID, and *)
(* where data may be missing.  Files says whose other files are as in      *)
(* memory.                                                                 *)
(***************************************************************************)
EXTENDS LayerStore, FiniteSetTheorems, TLAPS

\* Zenon unless a leaf says SMT: most steps are first-order.
USE Zenon

Registering == {"create", "begin", "apply", "commit", "cleanup"}
Mounting == {"mcreate", "msave", "mparent"}
Unmounting == {"mrmdriver", "mrmmeta"}
Removing == {"rmdriver", "rmmeta"}

\* What the call of p works on, and the lock it holds for it
CallOK(p) ==
    /\ pc[p] \in Registering => target[p] \in Chains /\ at[p] = Parent[target[p]]
    /\ pc[p] \in Mounting => mountL = p /\ target[p] \in Mounts \ mounts
    /\ pc[p] \in Unmounting => mountL = p /\ target[p] \in mounts
    /\ pc[p] = "release" => at[p] \in Chains
    /\ pc[p] \in Removing => layerL = p /\ at[p] \in Chains

Control == TypeOK /\ \A p \in Procs : CallOK(p)

-----------------------------------------------------------------------------
(* Frames                                                                   *)

\* The step is p's: it changes no other call, and takes no lock from another.
OfCall(p) ==
    /\ \A q \in Procs \ {p} : pc'[q] = pc[q] /\ target'[q] = target[q]
                              /\ at'[q] = at[q] /\ id'[q] = id[q]
    /\ layerL \in {None, p} \/ layerL' = layerL
    /\ mountL \in {None, p} \/ mountL' = mountL
    /\ layerL' \in {layerL, None, p} /\ mountL' \in {mountL, None, p}

CallTypes ==
    /\ pc \in [Procs -> Pcs]
    /\ target \in [Procs -> Chains \cup Mounts \cup {None}]
    /\ at \in [Procs -> Chains \cup {None}]
    /\ id \in [Procs -> Ids \cup {None}]

\* A call that returns
LEMMA ReturnIs ==
    ASSUME CallTypes, NEW p \in Procs, Return(p)
    PROVE  /\ OfCall(p) /\ CallTypes'
           /\ pc'[p] = "idle" /\ at'[p] = None /\ id'[p] = None
<1> USE DEF CallTypes
<1>1. /\ pc' = [pc EXCEPT ![p] = "idle"] /\ target' = [target EXCEPT ![p] = None]
      /\ at' = [at EXCEPT ![p] = None] /\ id' = [id EXCEPT ![p] = None]
  BY DEF Return, Goto
<1>2. /\ layerL' = IF layerL = p THEN None ELSE layerL
      /\ mountL' = IF mountL = p THEN None ELSE mountL
  BY DEF Return
<1>3. CallTypes' /\ pc'[p] = "idle" /\ at'[p] = None /\ id'[p] = None
  BY <1>1 DEF Pcs
<1>4. \A q \in Procs \ {p} : pc'[q] = pc[q] /\ target'[q] = target[q]
                             /\ at'[q] = at[q] /\ id'[q] = id[q]
  BY <1>1
<1> QED BY <1>2, <1>3, <1>4 DEF OfCall

\* A call that only goes on to the next label
LEMMA GotoIs ==
    ASSUME CallTypes, NEW p \in Procs, NEW l \in Pcs, Goto(p, l), UNCHANGED <<target, at, id>>,
           UNCHANGED lockVars
    PROVE  /\ OfCall(p) /\ CallTypes' /\ pc'[p] = l /\ UNCHANGED <<layerL, mountL>>
<1>1. pc' = [pc EXCEPT ![p] = l]
  BY DEF Goto
<1>2. pc'[p] = l /\ pc' \in [Procs -> Pcs] /\ \A q \in Procs \ {p} : pc'[q] = pc[q]
  BY <1>1 DEF CallTypes
<1> QED BY <1>2 DEF OfCall, CallTypes, lockVars

\* A failed call that first releases the parent it holds
LEMMA AbandonIs ==
    ASSUME CallTypes, NEW p \in Procs, Abandon(p)
    PROVE  /\ OfCall(p) /\ CallTypes' /\ id'[p] = None /\ at'[p] = at[p]
           /\ pc'[p] = IF at[p] = None THEN "idle" ELSE "release"
<1>1. CASE at[p] = None
  BY <1>1, ReturnIs DEF Abandon
<1>2. CASE at[p] # None
  <2>1. /\ pc' = [pc EXCEPT ![p] = "release"] /\ id' = [id EXCEPT ![p] = None]
        /\ UNCHANGED <<layerL, mountL, target, at>>
    BY <1>2 DEF Abandon, Goto, lockVars
  <2>2. /\ pc'[p] = "release" /\ id'[p] = None /\ CallTypes'
        /\ \A q \in Procs \ {p} : pc'[q] = pc[q] /\ id'[q] = id[q]
    BY <2>1 DEF CallTypes, Pcs
  <2> QED BY <1>2, <2>1, <2>2 DEF OfCall
<1> QED BY <1>1, <1>2

LayerTypes ==
    /\ layerMap \subseteq Chains /\ refCount \in [Chains -> Nat]
    /\ cacheID \in [Chains -> Ids \cup {None}] /\ parent \in [Chains -> Chains \cup {None}]
MountTypes ==
    /\ mounts \subseteq Mounts /\ mountID \in [Mounts -> Ids \cup {None}]
    /\ mountParent \in [Mounts -> Chains \cup {None}]
DiskTypes ==
    /\ driver \subseteq Ids /\ lost \subseteq Chains \cup Mounts
    /\ meta \in [Chains -> Ids \cup {None}] /\ metaParent \in [Chains -> Chains \cup {None}]
    /\ diskMountID \in [Mounts -> Ids \cup {None}]
    /\ diskMountParent \in [Mounts -> Chains \cup {None}]
RestTypes ==
    /\ references \in [Refs -> Chains \cup Mounts \cup {None}]
    /\ panicked \in BOOLEAN /\ suspect \subseteq Chains \cup Mounts

\* What Control says, by kind of variable
LEMMA ControlIs ==
    ASSUME Control
    PROVE  /\ CallTypes /\ LayerTypes /\ MountTypes /\ DiskTypes /\ RestTypes
           /\ layerL \in Procs \cup {None} /\ mountL \in Procs \cup {None}
           /\ \A p \in Procs : CallOK(p)
BY DEF Control, TypeOK, CallTypes, LayerTypes, MountTypes, DiskTypes, RestTypes

LEMMA Stays ==
    ASSUME Control
    PROVE  /\ UNCHANGED layerVars => LayerTypes'
           /\ UNCHANGED mountVars => MountTypes' /\ mounts' = mounts
           /\ UNCHANGED diskVars => DiskTypes'
           /\ UNCHANGED <<references, panicked, suspect>> => RestTypes'
<1>1. LayerTypes /\ MountTypes /\ DiskTypes /\ RestTypes
  BY ControlIs
<1>2. UNCHANGED layerVars => LayerTypes'
  BY <1>1 DEF LayerTypes, layerVars
<1>3. UNCHANGED mountVars => MountTypes' /\ mounts' = mounts
  BY <1>1 DEF MountTypes, mountVars
<1>4. UNCHANGED diskVars => DiskTypes'
  BY <1>1 DEF DiskTypes, diskVars, metaVars, diskMount
<1>5. UNCHANGED <<references, panicked, suspect>> => RestTypes'
  BY <1>1 DEF RestTypes
<1> QED BY <1>2, <1>3, <1>4, <1>5

\* A step of p keeps Control if it keeps the types and leaves p in order.
LEMMA ControlStep ==
    ASSUME Control, NEW p \in Procs, OfCall(p),
           CallTypes', LayerTypes', MountTypes', DiskTypes', RestTypes',
           CallOK(p)', mountL = p \/ mounts' = mounts
    PROVE  Control'
<1>0. layerL \in Procs \cup {None} /\ mountL \in Procs \cup {None}
  BY ControlIs
<1>1. TypeOK'
  <2>1. layerL' \in Procs \cup {None} /\ mountL' \in Procs \cup {None}
    BY <1>0 DEF OfCall
  <2> QED BY <2>1 DEF TypeOK, CallTypes, LayerTypes, MountTypes, DiskTypes, RestTypes
<1>2. ASSUME NEW q \in Procs \ {p} PROVE CallOK(q)'
  <2>1. CallOK(q) /\ None # q
    BY DistinctAssumption DEF Control
  <2>2. /\ pc'[q] = pc[q] /\ target'[q] = target[q] /\ at'[q] = at[q]
        /\ layerL = q => layerL' = q
        /\ mountL = q => mountL' = q /\ mounts' = mounts
    BY SMT, <2>1 DEF OfCall
  <2> QED BY <2>1, <2>2 DEF CallOK
<1> QED BY <1>1, <1>2 DEF Control

\* A call at one of these labels promises nothing more.
LEMMA IdleOK ==
    ASSUME NEW p \in Procs, pc'[p] = "idle" \/ (pc'[p] = "release" /\ at'[p] \in Chains)
    PROVE  CallOK(p)'
BY DEF CallOK, Registering, Mounting, Unmounting, Removing

\* The step of a failed call
LEMMA AbandonOK ==
    ASSUME Control, NEW p \in Procs, Abandon(p)
    PROVE  OfCall(p) /\ CallTypes' /\ CallOK(p)'
<1>1. CallTypes /\ at[p] \in Chains \cup {None}
  BY ControlIs DEF CallTypes
<1> QED BY <1>1, AbandonIs, IdleOK

\* The step of a call that returns
LEMMA ReturnOK ==
    ASSUME Control, NEW p \in Procs, Return(p)
    PROVE  OfCall(p) /\ CallTypes' /\ CallOK(p)'
BY ControlIs, ReturnIs, IdleOK

\* A step in which p does not move
LEMMA UnmovedOK ==
    ASSUME Control, NEW p \in Procs, UNCHANGED <<layerL, mountL, pc, target, at, id, mounts>>
    PROVE  OfCall(p) /\ CallTypes' /\ CallOK(p)'
<1>1. CallTypes /\ CallOK(p)
  BY ControlIs
<1>2. CallTypes'
  BY <1>1 DEF CallTypes
<1>3. CallOK(p)'
  BY <1>1 DEF CallOK
<1> QED BY <1>2, <1>3 DEF OfCall

\* A step to another label of the same kind
LEMMA GotoOK ==
    ASSUME Control, NEW p \in Procs, NEW l \in Pcs, Goto(p, l), UNCHANGED <<target, at, id>>,
           UNCHANGED lockVars, UNCHANGED mounts,
           \/ pc[p] \in Registering /\ l \in Registering
           \/ pc[p] \in Mounting /\ l \in Mounting
           \/ pc[p] \in Unmounting /\ l \in Unmounting
           \/ pc[p] \in Removing /\ l \in Removing
    PROVE  OfCall(p) /\ CallTypes' /\ CallOK(p)'
<1>1. CallTypes /\ CallOK(p)
  BY ControlIs
<1>2. OfCall(p) /\ CallTypes' /\ pc'[p] = l /\ UNCHANGED <<layerL, mountL>>
  BY <1>1, GotoIs
<1>3. CallOK(p)'
  BY <1>1, <1>2 DEF CallOK, Registering, Mounting, Unmounting, Removing
<1> QED BY <1>2, <1>3

-----------------------------------------------------------------------------
(* Every step keeps Control                                                 *)

\* Get, GetRWLayer, and a Release or ReleaseRWLayer
LEMMA ReferencesControl ==
    ASSUME Control, NEW p \in Procs, NEW r \in Refs,
           \/ \E c \in Chains : Get(p, c, r)
           \/ \E m \in Mounts : GetRWLayer(p, m, r)
           \/ Release(p, r) \/ ReleaseRWLayer(p, r)
    PROVE  Control'
<1>0. /\ CallTypes /\ LayerTypes /\ MountTypes /\ RestTypes /\ CallOK(p)
      /\ layerL \in Procs \cup {None} /\ mountL \in Procs \cup {None}
  BY ControlIs
<1>1. ASSUME NEW c \in Chains, Get(p, c, r) PROVE Control'
  <2>1. /\ refCount' = [refCount EXCEPT ![c] = @ + 1]
        /\ references' = [references EXCEPT ![r] = c]
        /\ UNCHANGED <<layerMap, cacheID, parent, panicked, suspect>>
        /\ UNCHANGED <<layerL, mountL, pc, target, at, id>>
        /\ UNCHANGED mountVars /\ UNCHANGED diskVars
    BY <1>1 DEF Get, Retain, NewReference, callVars, lockVars
  <2>2. LayerTypes' /\ RestTypes'
    BY SMT, <1>0, <2>1 DEF LayerTypes, RestTypes
  <2> QED BY <2>1, <2>2, UnmovedOK, Stays, ControlStep
<1>2. ASSUME NEW m \in Mounts, GetRWLayer(p, m, r) PROVE Control'
  <2>1. /\ references' = [references EXCEPT ![r] = m]
        /\ UNCHANGED <<panicked, suspect>>
        /\ UNCHANGED <<layerL, mountL, pc, target, at, id>>
        /\ UNCHANGED layerVars /\ UNCHANGED mountVars /\ UNCHANGED diskVars
    BY <1>2 DEF GetRWLayer, NewReference, callVars, lockVars
  <2>2. RestTypes'
    BY <1>0, <2>1 DEF RestTypes
  <2> QED BY <2>1, <2>2, UnmovedOK, Stays, ControlStep
<1>3. CASE Release(p, r)
  <2>1. /\ references[r] \in layerMap /\ layerL = None
        /\ references' = [references EXCEPT ![r] = None] /\ layerL' = p
        /\ at' = [at EXCEPT ![p] = references[r]] /\ pc' = [pc EXCEPT ![p] = "release"]
        /\ UNCHANGED <<mountL, target, id, panicked, suspect>>
        /\ UNCHANGED layerVars /\ UNCHANGED mountVars /\ UNCHANGED diskVars
    BY <1>3 DEF Release, Goto
  <2>2. references[r] \in Chains
    BY <1>0, <2>1 DEF LayerTypes
  <2>3. RestTypes'
    BY <1>0, <2>1 DEF RestTypes
  <2>4. /\ CallTypes' /\ pc'[p] = "release" /\ at'[p] = references[r]
        /\ \A q \in Procs \ {p} : pc'[q] = pc[q] /\ at'[q] = at[q]
    BY <1>0, <2>1, <2>2 DEF CallTypes, Pcs
  <2>5. OfCall(p)
    BY <2>1, <2>4 DEF OfCall
  <2>6. CallOK(p)'
    BY <2>2, <2>4, IdleOK
  <2> QED BY <2>1, <2>3, <2>4, <2>5, <2>6, Stays, ControlStep
<1>4. CASE ReleaseRWLayer(p, r)
  <2>1. /\ references[r] \in mounts /\ mountL = None
        /\ references' = [references EXCEPT ![r] = None]
        /\ UNCHANGED <<layerL, at, id, panicked, suspect>>
        /\ UNCHANGED layerVars /\ UNCHANGED mountVars /\ UNCHANGED diskVars
    BY <1>4 DEF ReleaseRWLayer
  <2>2. \/ UNCHANGED <<mountL, pc, target>>
        \/ /\ mountL' = p /\ target' = [target EXCEPT ![p] = references[r]]
           /\ pc' = [pc EXCEPT ![p] = "mrmdriver"]
    BY <1>4 DEF ReleaseRWLayer, Goto
  <2>3. RestTypes'
    BY <1>0, <2>1 DEF RestTypes
  <2>4. CASE UNCHANGED <<mountL, pc, target>>
    BY <2>1, <2>3, <2>4, UnmovedOK, Stays, ControlStep DEF mountVars
  <2>5. CASE /\ mountL' = p /\ target' = [target EXCEPT ![p] = references[r]]
             /\ pc' = [pc EXCEPT ![p] = "mrmdriver"]
    <3>1. /\ CallTypes' /\ pc'[p] = "mrmdriver" /\ target'[p] = references[r]
          /\ \A q \in Procs \ {p} : pc'[q] = pc[q] /\ target'[q] = target[q]
      BY <1>0, <2>1, <2>5 DEF CallTypes, Pcs, MountTypes
    <3>2. OfCall(p)
      BY <2>1, <2>5, <3>1 DEF OfCall
    <3>3. CallOK(p)'
      BY SMT, <2>1, <2>5, <3>1 DEF CallOK, Registering, Mounting, Unmounting, Removing, mountVars
    <3> QED BY <2>1, <2>3, <3>1, <3>2, <3>3, Stays, ControlStep
  <2> QED BY <2>2, <2>4, <2>5
<1> QED BY <1>1, <1>2, <1>3, <1>4

\* releaseLayer
LEMMA ReleaseLayerControl ==
    ASSUME Control, NEW p \in Procs, ReleaseLayer(p)
    PROVE  Control'
<1>0. /\ CallTypes /\ LayerTypes /\ RestTypes /\ CallOK(p)
      /\ pc[p] = "release" /\ at[p] \in Chains /\ layerL \in {None, p}
  BY ControlIs DEF ReleaseLayer, CallOK
<1>1. UNCHANGED <<layerMap, cacheID, parent, references, suspect>> /\ UNCHANGED mountVars /\ UNCHANGED diskVars
  BY DEF ReleaseLayer
<1>2. LayerTypes' /\ RestTypes'
  <2>1. panicked' \in BOOLEAN
    BY DEF ReleaseLayer
  <2>2. refCount' = refCount
        \/ (refCount[at[p]] # 0 /\ refCount' = [refCount EXCEPT ![at[p]] = refCount[at[p]] - 1])
    BY DEF ReleaseLayer
  <2>3. refCount' \in [Chains -> Nat]
    BY SMT, <1>0, <2>2 DEF LayerTypes
  <2> QED BY <1>0, <1>1, <2>1, <2>3 DEF LayerTypes, RestTypes
<1>3. CASE Return(p)
  BY <1>1, <1>2, <1>3, ReturnOK, Stays, ControlStep
<1>4. CASE layerL' = p /\ Goto(p, "rmdriver") /\ UNCHANGED <<mountL, target, at, id>>
  <2>1. pc' = [pc EXCEPT ![p] = "rmdriver"]
    BY <1>4 DEF Goto
  <2>2. CallTypes' /\ pc'[p] = "rmdriver" /\ \A q \in Procs \ {p} : pc'[q] = pc[q]
    BY <1>0, <1>4, <2>1 DEF CallTypes, Pcs
  <2>3. OfCall(p)
    BY <1>0, <1>4, <2>2 DEF OfCall
  <2>4. CallOK(p)'
    BY <1>0, <1>4, <2>2 DEF CallOK, Registering, Mounting, Unmounting, Removing
  <2> QED BY <1>1, <1>2, <2>2, <2>3, <2>4, Stays, ControlStep
<1> QED BY <1>3, <1>4 DEF ReleaseLayer

\* deleteLayer
LEMMA DeleteControl ==
    ASSUME Control, NEW p \in Procs, DeleteData(p) \/ DeleteMeta(p)
    PROVE  Control'
<1>0. CallTypes /\ LayerTypes /\ DiskTypes /\ RestTypes /\ CallOK(p)
  BY ControlIs
<1>1. CASE DeleteData(p)
  <2>1. /\ UNCHANGED <<references, panicked>> /\ UNCHANGED layerVars /\ UNCHANGED mountVars
        /\ UNCHANGED <<metaVars, diskMount, lost>> /\ driver' \subseteq driver
        /\ pc[p] = "rmdriver" /\ suspect' \in {suspect, suspect \cup {at[p]}}
    BY <1>1 DEF DeleteData
  <2>4. at[p] \in Chains
    BY <1>0, <2>1 DEF CallOK, Removing
  <2>2. DiskTypes' /\ RestTypes'
    BY <1>0, <2>1, <2>4 DEF DiskTypes, RestTypes, metaVars, diskMount
  <2>3. OfCall(p) /\ CallTypes' /\ CallOK(p)'
    <3>1. CASE Return(p)
      BY <3>1, ReturnOK
    <3>2. CASE Goto(p, "rmmeta") /\ UNCHANGED <<lockVars, target, at, id>>
      BY <2>1, <3>2, GotoOK, Stays DEF Removing, Pcs
    <3> QED BY <1>1, <3>1, <3>2 DEF DeleteData
  <2> QED BY <2>1, <2>2, <2>3, Stays, ControlStep
<1>2. CASE DeleteMeta(p)
  <2>1. /\ pc[p] = "rmmeta" /\ at[p] \in Chains
        /\ UNCHANGED <<refCount, references, driver, diskMount, panicked>>
        /\ UNCHANGED mountVars
    BY <1>0, <1>2 DEF DeleteMeta, CallOK, Removing
  <2>2. /\ meta' \in {meta, [meta EXCEPT ![at[p]] = None]}
        /\ metaParent' \in {metaParent, [metaParent EXCEPT ![at[p]] = None]}
        /\ layerMap' \subseteq layerMap /\ suspect' \subseteq suspect \cup {at[p]}
        /\ lost' \subseteq lost \cup {at[p]}
        /\ cacheID' \in {cacheID, [cacheID EXCEPT ![at[p]] = None]}
        /\ parent' \in {parent, [parent EXCEPT ![at[p]] = None]}
    BY <1>2 DEF DeleteMeta
  <2>3. LayerTypes'
    BY <1>0, <2>1, <2>2 DEF LayerTypes
  <2>4. DiskTypes' /\ RestTypes'
    <3>1. meta' \in [Chains -> Ids \cup {None}] /\ metaParent' \in [Chains -> Chains \cup {None}]
      BY <1>0, <2>2 DEF DiskTypes
    <3> QED BY <1>0, <2>1, <2>2, <3>1 DEF DiskTypes, RestTypes, diskMount
  <2>5. OfCall(p) /\ CallTypes' /\ CallOK(p)'
    <3>1. CASE Return(p)
      BY <3>1, ReturnOK
    <3>2. CASE /\ parent[at[p]] # None /\ at' = [at EXCEPT ![p] = parent[at[p]]]
               /\ Goto(p, "release") /\ UNCHANGED <<lockVars, target, id>>
      <4>1. parent[at[p]] \in Chains
        BY <1>0, <2>1, <3>2 DEF LayerTypes
      <4>2. pc' = [pc EXCEPT ![p] = "release"] /\ UNCHANGED <<layerL, mountL>>
        BY <3>2 DEF Goto, lockVars
      <4>3. /\ CallTypes' /\ pc'[p] = "release" /\ at'[p] = parent[at[p]]
            /\ \A q \in Procs \ {p} : pc'[q] = pc[q] /\ at'[q] = at[q]
        BY <1>0, <3>2, <4>1, <4>2 DEF CallTypes, Pcs
      <4>4. OfCall(p)
        BY <3>2, <4>2, <4>3 DEF OfCall
      <4> QED BY <4>1, <4>3, <4>4, IdleOK
    <3> QED BY <1>2, <3>1, <3>2 DEF DeleteMeta
  <2> QED BY <2>1, <2>3, <2>4, <2>5, Stays, ControlStep
<1> QED BY <1>1, <1>2

\* Register, up to the driver's Create
LEMMA RegisterControl ==
    ASSUME Control, NEW p \in Procs, NEW c \in Chains, Register(p, c)
    PROVE  Control'
<1>0. CallTypes /\ LayerTypes
  BY ControlIs
<1>1. /\ pc[p] = "idle" /\ target' = [target EXCEPT ![p] = c] /\ at' = [at EXCEPT ![p] = Parent[c]]
      /\ UNCHANGED <<layerL, mountL, layerMap, cacheID, parent, references, id, panicked, suspect>>
      /\ UNCHANGED mountVars /\ UNCHANGED diskVars
  BY DEF Register, lockVars
<1>2. Parent[c] \in Chains \cup {None}
  BY ParentAssumption
<1>3. \E l \in {"create", "release"} :
        pc' = [pc EXCEPT ![p] = l] /\ (l = "release" => Parent[c] \in Chains)
  BY <1>0 DEF Register, Goto, LayerTypes
<1>4. LayerTypes'
  <2>1. refCount' = refCount \/ (Parent[c] \in Chains /\ refCount' = [refCount EXCEPT ![Parent[c]] = @ + 1])
    BY <1>0 DEF Register, Retain, LayerTypes
  <2> QED BY SMT, <1>0, <1>1, <2>1 DEF LayerTypes
<1>5. /\ CallTypes' /\ target'[p] = c /\ at'[p] = Parent[c]
      /\ \A q \in Procs \ {p} : pc'[q] = pc[q] /\ target'[q] = target[q] /\ at'[q] = at[q]
  BY <1>0, <1>1, <1>2, <1>3 DEF CallTypes, Pcs
<1>6. pc'[p] = "create" \/ (pc'[p] = "release" /\ Parent[c] \in Chains)
  BY <1>0, <1>3 DEF CallTypes
<1>7. OfCall(p)
  BY <1>1, <1>5 DEF OfCall
<1>8. CallOK(p)'
  BY <1>5, <1>6 DEF CallOK, Registering, Mounting, Unmounting, Removing
<1> QED BY <1>1, <1>4, <1>5, <1>7, <1>8, Stays, ControlStep

\* driver.Create and CreateReadWrite
LEMMA DriverCreateControl ==
    ASSUME Control, NEW p \in Procs, NEW i \in Ids, DriverCreate(p, i) \/ CreateReadWrite(p, i)
    PROVE  Control'
<1>0. CallTypes /\ DiskTypes /\ CallOK(p)
  BY ControlIs
<1>1. /\ driver' = driver \cup {i} /\ id' = [id EXCEPT ![p] = i]
      /\ UNCHANGED <<layerL, mountL, references, metaVars, diskMount, lost, target, at,
                     panicked, suspect>>
      /\ UNCHANGED layerVars /\ UNCHANGED mountVars
  BY DEF DriverCreate, CreateReadWrite, lockVars
<1>2. \/ pc[p] = "create" /\ pc' = [pc EXCEPT ![p] = "begin"]
      \/ pc[p] = "mcreate" /\ pc' = [pc EXCEPT ![p] = "msave"]
  BY DEF DriverCreate, CreateReadWrite, Goto
<1>3. DiskTypes'
  BY <1>0, <1>1 DEF DiskTypes, metaVars, diskMount
<1>4. CallTypes' /\ \A q \in Procs \ {p} : pc'[q] = pc[q] /\ id'[q] = id[q]
  BY <1>0, <1>1, <1>2 DEF CallTypes, Pcs
<1>5. (pc[p] = "create" /\ pc'[p] = "begin") \/ (pc[p] = "mcreate" /\ pc'[p] = "msave")
  BY <1>0, <1>2 DEF CallTypes
<1>6. OfCall(p)
  BY <1>1, <1>4 DEF OfCall
<1>7. CallOK(p)'
  BY <1>0, <1>1, <1>5 DEF CallOK, Registering, Mounting, Unmounting, Removing, mountVars
<1> QED BY <1>1, <1>3, <1>4, <1>6, <1>7, Stays, ControlStep

\* Steps of Register that leave the store alone
LEMMA TransactionControl ==
    ASSUME Control, NEW p \in Procs, DriverCreateFails(p) \/ StartTransaction(p) \/ ApplyTar(p)
    PROVE  Control'
<1>1. /\ UNCHANGED layerVars /\ UNCHANGED mountVars /\ UNCHANGED diskVars
      /\ UNCHANGED <<references, panicked, suspect>>
  BY DEF DriverCreateFails, StartTransaction, ApplyTar
<1>2. CASE Abandon(p)
  BY <1>1, <1>2, AbandonOK, Stays, ControlStep
<1>3. CASE pc[p] \in Registering /\ UNCHANGED <<lockVars, target, at, id>>
           /\ \E l \in {"apply", "commit", "cleanup"} : Goto(p, l)
  BY <1>1, <1>3, GotoOK, Stays, ControlStep DEF Registering, Pcs
<1> QED BY <1>2, <1>3 DEF DriverCreateFails, StartTransaction, ApplyTar, Registering

\* The end of Register
LEMMA CommitControl ==
    ASSUME Control, NEW p \in Procs, NEW r \in Refs, Commit(p, r)
    PROVE  Control'
<1> DEFINE c == target[p]
<1>0. /\ CallTypes /\ LayerTypes /\ DiskTypes /\ RestTypes /\ CallOK(p)
      /\ pc[p] = "commit" /\ c \in Chains
  BY ControlIs DEF Commit, CallOK, Registering
<1>1. UNCHANGED <<driver, diskMount, panicked>> /\ UNCHANGED mountVars
  BY DEF Commit
<1>2. references' \in {references, [references EXCEPT ![r] = c]}
  BY DEF Commit, NewReference
<1>3. /\ suspect' \in {suspect, suspect \ {c}} /\ layerMap' \in {layerMap, layerMap \cup {c}}
      /\ lost' \in {lost, lost \ {c}}
  BY DEF Commit, NewLayer, layerVars
<1>4. /\ refCount' \in {refCount, [refCount EXCEPT ![c] = @ + 1], [refCount EXCEPT ![c] = 1]}
      /\ cacheID' \in {cacheID, [cacheID EXCEPT ![c] = id[p]]}
      /\ parent' \in {parent, [parent EXCEPT ![c] = at[p]]}
      /\ meta' \in {meta, [meta EXCEPT ![c] = id[p]]}
      /\ metaParent' \in {metaParent, [metaParent EXCEPT ![c] = at[p]]}
  BY DEF Commit, NewLayer, layerVars, metaVars, Retain
<1>5. id[p] \in Ids \cup {None} /\ at[p] \in Chains \cup {None}
  BY <1>0 DEF CallTypes
<1>6. LayerTypes'
  <2>1. refCount' \in [Chains -> Nat]
    BY SMT, <1>0, <1>4 DEF LayerTypes
  <2>2. layerMap' \subseteq Chains
    BY <1>0, <1>3 DEF LayerTypes
  <2>4. cacheID' \in [Chains -> Ids \cup {None}]
    BY <1>0, <1>4, <1>5 DEF LayerTypes
  <2>3. parent' \in [Chains -> Chains \cup {None}]
    BY <1>0, <1>4, <1>5 DEF LayerTypes
  <2> QED BY <2>1, <2>2, <2>3, <2>4 DEF LayerTypes
<1>7. DiskTypes' /\ RestTypes'
  <2>1. meta' \in [Chains -> Ids \cup {None}] /\ metaParent' \in [Chains -> Chains \cup {None}]
    BY <1>0, <1>4, <1>5 DEF DiskTypes
  <2>2. /\ references' \in [Refs -> Chains \cup Mounts \cup {None}]
        /\ suspect' \subseteq Chains \cup Mounts
    BY <1>0, <1>2, <1>3 DEF RestTypes
  <2>3. lost' \subseteq Chains \cup Mounts
    BY <1>0, <1>3 DEF DiskTypes
  <2> QED BY <1>0, <1>1, <2>1, <2>2, <2>3 DEF DiskTypes, RestTypes, diskMount
<1>8. OfCall(p) /\ CallTypes' /\ CallOK(p)'
  <2>1. CASE Return(p)
    BY <2>1, ReturnOK
  <2>2. CASE Goto(p, "cleanup") /\ UNCHANGED <<lockVars, target, at, id>>
    BY <1>0, <1>1, <2>2, GotoOK, Stays DEF Registering, Pcs
  <2> QED BY <2>1, <2>2 DEF Commit
<1> QED BY <1>1, <1>6, <1>7, <1>8, Stays, ControlStep

LEMMA CleanupControl ==
    ASSUME Control, NEW p \in Procs, Cleanup(p)
    PROVE  Control'
<1>1. /\ Abandon(p) /\ driver' \subseteq driver
      /\ UNCHANGED layerVars /\ UNCHANGED mountVars
      /\ UNCHANGED <<references, panicked, suspect, metaVars, diskMount, lost>>
  BY DEF Cleanup
<1>2. DiskTypes'
  BY <1>1, ControlIs DEF DiskTypes, metaVars, diskMount
<1> QED BY <1>1, <1>2, AbandonOK, Stays, ControlStep

\* CreateRWLayer, under mountL
LEMMA CreateRWLayerControl ==
    ASSUME Control, NEW p \in Procs, NEW m \in Mounts, NEW c \in Chains \cup {None},
           CreateRWLayer(p, m, c)
    PROVE  Control'
<1>0. CallTypes /\ LayerTypes
  BY ControlIs
<1>1. /\ mountL = None /\ m \notin mounts /\ mountL' = p
      /\ refCount' = refCount \/ (c \in Chains /\ refCount' = [refCount EXCEPT ![c] = @ + 1])
      /\ target' = [target EXCEPT ![p] = m] /\ at' = [at EXCEPT ![p] = c]
      /\ pc' = [pc EXCEPT ![p] = "mcreate"]
      /\ UNCHANGED <<layerL, layerMap, cacheID, parent, references, id, panicked, suspect>>
      /\ UNCHANGED mountVars /\ UNCHANGED diskVars
  BY <1>0 DEF CreateRWLayer, Retain, Goto, LayerTypes
<1>2. LayerTypes'
  BY SMT, <1>0, <1>1 DEF LayerTypes
<1>3. /\ CallTypes' /\ target'[p] = m /\ at'[p] = c /\ pc'[p] = "mcreate"
      /\ \A q \in Procs \ {p} : pc'[q] = pc[q] /\ target'[q] = target[q] /\ at'[q] = at[q]
  BY <1>0, <1>1 DEF CallTypes, Pcs
<1>4. OfCall(p)
  BY <1>1, <1>3 DEF OfCall
<1>5. CallOK(p)'
  BY SMT, <1>1, <1>3 DEF CallOK, Registering, Mounting, Unmounting, Removing, mountVars
<1> QED BY <1>1, <1>2, <1>3, <1>4, <1>5, Stays, ControlStep

\* saveMount
LEMMA SaveMountIDControl ==
    ASSUME Control, NEW p \in Procs, SaveMountID(p)
    PROVE  Control'
<1>0. /\ CallTypes /\ DiskTypes /\ pc[p] \in Mounting /\ target[p] \in Mounts
  BY ControlIs DEF SaveMountID, Mounting, CallOK
<1>1. id[p] \in Ids \cup {None}
  BY <1>0 DEF CallTypes
<1>2. /\ UNCHANGED layerVars /\ UNCHANGED mountVars /\ UNCHANGED <<references, panicked, suspect>>
      /\ UNCHANGED <<driver, metaVars, diskMountParent>>
      /\ lost' \subseteq lost \cup {target[p]}
      /\ diskMountID' \in {diskMountID, [diskMountID EXCEPT ![target[p]] = id[p]]}
  BY DEF SaveMountID
<1>3. DiskTypes'
  BY <1>0, <1>1, <1>2 DEF DiskTypes, metaVars
<1>4. OfCall(p) /\ CallTypes' /\ CallOK(p)'
  <2>1. CASE Abandon(p)
    BY <2>1, AbandonOK
  <2>2. CASE Goto(p, "mparent") /\ UNCHANGED <<lockVars, target, at, id>>
    BY <1>0, <1>2, <2>2, GotoOK, Stays DEF Mounting, Pcs
  <2> QED BY <2>1, <2>2 DEF SaveMountID
<1> QED BY <1>2, <1>3, <1>4, Stays, ControlStep

LEMMA SaveMountParentControl ==
    ASSUME Control, NEW p \in Procs, NEW r \in Refs, SaveMountParent(p, r)
    PROVE  Control'
<1> DEFINE m == target[p]
<1>0. /\ CallTypes /\ MountTypes /\ DiskTypes /\ RestTypes
      /\ mountL = p /\ m \in Mounts
  BY ControlIs DEF SaveMountParent, CallOK, Mounting
<1>1. id[p] \in Ids \cup {None} /\ at[p] \in Chains \cup {None}
  BY <1>0 DEF CallTypes
<1>2. /\ UNCHANGED layerVars /\ UNCHANGED <<driver, metaVars, diskMountID, panicked>>
      /\ suspect' \subseteq suspect \cup {m} /\ lost' \subseteq lost \cup {m}
      /\ references' \in {references, [references EXCEPT ![r] = m]}
      /\ diskMountParent' \in {diskMountParent, [diskMountParent EXCEPT ![m] = at[p]]}
  BY DEF SaveMountParent, NewMount, NewReference
<1>3. /\ mounts' \in {mounts, mounts \cup {m}}
      /\ mountID' \in {mountID, [mountID EXCEPT ![m] = id[p]]}
      /\ mountParent' \in {mountParent, [mountParent EXCEPT ![m] = at[p]]}
  BY DEF SaveMountParent, NewMount, mountVars
<1>4. DiskTypes' /\ RestTypes'
  <2>1. diskMountParent' \in [Mounts -> Chains \cup {None}]
    BY <1>0, <1>1, <1>2 DEF DiskTypes
  <2>2. references' \in [Refs -> Chains \cup Mounts \cup {None}]
    BY <1>0, <1>2 DEF RestTypes
  <2> QED BY <1>0, <1>2, <2>1, <2>2 DEF DiskTypes, RestTypes, metaVars
<1>5. MountTypes'
  BY <1>0, <1>1, <1>3 DEF MountTypes
<1>6. OfCall(p) /\ CallTypes' /\ CallOK(p)'
  BY AbandonOK, ReturnOK DEF SaveMountParent, NewMount
<1> QED BY <1>0, <1>2, <1>4, <1>5, <1>6, Stays, ControlStep

\* The removal of a mount
LEMMA RemoveMountControl ==
    ASSUME Control, NEW p \in Procs, NEW r \in Refs, RemoveMountData(p, r) \/ RemoveMount(p, r)
    PROVE  Control'
<1> DEFINE m == target[p]
<1>0. /\ CallTypes /\ MountTypes /\ DiskTypes /\ RestTypes /\ CallOK(p)
      /\ pc[p] \in Unmounting /\ mountL = p /\ m \in mounts /\ m \in Mounts
  BY ControlIs DEF RemoveMountData, RemoveMount, CallOK, Unmounting, MountTypes
<1>1. references' \in {references, [references EXCEPT ![r] = m]}
  BY DEF RemoveMountData, RemoveMount, Retake, NewReference
<1>2. UNCHANGED layerVars /\ UNCHANGED <<panicked, metaVars>>
      /\ suspect' \subseteq suspect \cup {m} /\ lost' \subseteq lost \cup {m}
  BY DEF RemoveMountData, RemoveMount
<1>3. RestTypes'
  BY <1>0, <1>1, <1>2 DEF RestTypes
<1>4. CASE RemoveMountData(p, r)
  <2>1. UNCHANGED mountVars /\ UNCHANGED diskMount /\ driver' \subseteq driver
    BY <1>4 DEF RemoveMountData
  <2>2. DiskTypes'
    BY <1>0, <1>2, <2>1 DEF DiskTypes, metaVars, diskMount
  <2>3. OfCall(p) /\ CallTypes' /\ CallOK(p)'
    <3>1. CASE Return(p)
      BY <3>1, ReturnOK
    <3>2. CASE Goto(p, "mrmmeta") /\ UNCHANGED <<lockVars, target, at, id>>
      BY <1>0, <2>1, <3>2, GotoOK, Stays DEF Unmounting, Pcs
    <3> QED BY <1>4, <3>1, <3>2 DEF RemoveMountData, Retake
  <2> QED BY <1>2, <1>3, <2>1, <2>2, <2>3, Stays, ControlStep
<1>5. CASE RemoveMount(p, r)
  <2>1. /\ diskMountID' \in {diskMountID, [diskMountID EXCEPT ![m] = None]}
        /\ diskMountParent' \in {diskMountParent, [diskMountParent EXCEPT ![m] = None]}
        /\ UNCHANGED driver
    BY <1>5 DEF RemoveMount
  <2>2. /\ mounts' \in {mounts, mounts \ {m}}
        /\ mountID' \in {mountID, [mountID EXCEPT ![m] = None]}
        /\ mountParent' \in {mountParent, [mountParent EXCEPT ![m] = None]}
    BY <1>5 DEF RemoveMount, mountVars
  <2>3. DiskTypes'
    BY <1>0, <1>2, <2>1 DEF DiskTypes, metaVars
  <2>4. MountTypes'
    BY <1>0, <2>2 DEF MountTypes
  <2>5. OfCall(p) /\ CallTypes' /\ CallOK(p)'
    <3>1. CASE Return(p)
      BY <3>1, ReturnOK
    <3>2. CASE /\ mountParent[m] # None /\ at' = [at EXCEPT ![p] = mountParent[m]]
               /\ Goto(p, "release") /\ UNCHANGED <<lockVars, target, id>>
      <4>1. mountParent[m] \in Chains
        BY <1>0, <3>2 DEF MountTypes
      <4>2. pc' = [pc EXCEPT ![p] = "release"] /\ UNCHANGED <<layerL, mountL>>
        BY <3>2 DEF Goto, lockVars
      <4>3. /\ CallTypes' /\ pc'[p] = "release" /\ at'[p] = mountParent[m]
            /\ \A q \in Procs \ {p} : pc'[q] = pc[q] /\ at'[q] = at[q]
        BY <1>0, <3>2, <4>1, <4>2 DEF CallTypes, Pcs
      <4>4. OfCall(p)
        BY <3>2, <4>2, <4>3 DEF OfCall
      <4> QED BY <4>1, <4>3, <4>4, IdleOK
    <3> QED BY <1>5, <3>1, <3>2 DEF RemoveMount, Retake
  <2> QED BY <1>0, <1>2, <1>3, <2>3, <2>4, <2>5, Stays, ControlStep
<1> QED BY <1>4, <1>5

\* What is being removed from the metadata store
Halfway == {at[p] : p \in {q \in Procs : pc[q] = "rmmeta"}}
           \cup {target[p] : p \in {q \in Procs : pc[q] = "mrmmeta"}}

\* The store is built again.
LEMMA RestartControl ==
    ASSUME Control, Restart
    PROVE  Control'
<1>0. DiskTypes /\ RestTypes /\ CallTypes /\ MountTypes
  BY ControlIs
<1>1. /\ layerL' = None /\ mountL' = None
      /\ pc' = [p \in Procs |-> "idle"] /\ target' = [p \in Procs |-> None]
      /\ at' = [p \in Procs |-> None] /\ id' = [p \in Procs |-> None]
      /\ references' = [r \in Refs |-> None]
      /\ UNCHANGED <<driver, meta, diskMountID, panicked>>
  BY DEF Restart
<1>2. layerMap' \subseteq Chains /\ mounts' \subseteq Mounts
  BY DEF Restart, Loadable, LoadableMounts
<1>3. PICK ids, parents \in SUBSET Halfway :
         /\ lost' = lost \cup ids
         /\ metaParent' = [c \in Chains |-> IF c \in parents THEN None ELSE metaParent[c]]
         /\ diskMountParent' = [m \in Mounts |-> IF m \in parents THEN None ELSE diskMountParent[m]]
  BY DEF Restart, Halfway
<1>11. Halfway \subseteq Chains \cup Mounts
  <2>1. /\ \A p \in Procs : pc[p] = "rmmeta" => at[p] \in Chains
        /\ \A p \in Procs : pc[p] = "mrmmeta" => target[p] \in Mounts
    BY <1>0, ControlIs DEF CallOK, Removing, Unmounting, MountTypes
  <2> QED BY <2>1 DEF Halfway
<1>12. DiskTypes'
  <2>1. metaParent' \in [Chains -> Chains \cup {None}]
    BY <1>0, <1>3 DEF DiskTypes
  <2>2. diskMountParent' \in [Mounts -> Chains \cup {None}]
    BY <1>0, <1>3 DEF DiskTypes
  <2> QED BY <1>0, <1>1, <1>3, <1>11, <2>1, <2>2 DEF DiskTypes
<1>4. \A c \in layerMap' : meta[c] \in Ids
  <2>1. \A c \in Loadable' : c \in Chains /\ meta'[c] # None
    BY DEF Loadable
  <2>2. layerMap' = Loadable'
    BY DEF Restart
  <2> QED BY <1>0, <1>1, <2>1, <2>2 DEF DiskTypes
<1>5. refCount' \in [Chains -> Nat]
  <2> DEFINE Kids(c) == {d \in layerMap' : parent'[d] = c} \cup {m \in mounts' : mountParent'[m] = c}
  <2>1. refCount' = [c \in Chains |-> Cardinality(Kids(c))]
    BY DEF Restart
  <2>2. ASSUME NEW c \in Chains PROVE Cardinality(Kids(c)) \in Nat
    <3>1. IsFiniteSet(Chains \cup Mounts) /\ Kids(c) \subseteq Chains \cup Mounts
      BY <1>2, FiniteAssumption, FS_Union
    <3> QED BY <3>1, FS_Subset, FS_CardinalityType
  <2> HIDE DEF Kids
  <2> QED BY <2>1, <2>2
<1>6. cacheID' \in [Chains -> Ids \cup {None}]
  <2>1. cacheID' = [c \in Chains |-> IF c \in layerMap' THEN meta[c] ELSE None]
    BY DEF Restart
  <2> QED BY <1>4, <2>1
<1>13. parent' \in [Chains -> Chains \cup {None}]
  <2>1. parent' = [c \in Chains |-> IF c \in layerMap' THEN metaParent'[c] ELSE None]
    BY DEF Restart
  <2> QED BY <1>12, <2>1 DEF DiskTypes
<1>7. mountID' \in [Mounts -> Ids \cup {None}] /\ mountParent' \in [Mounts -> Chains \cup {None}]
  <2>1. /\ mountID' = [m \in Mounts |-> IF m \in mounts' THEN diskMountID[m] ELSE None]
        /\ mountParent' = [m \in Mounts |-> IF m \in mounts' THEN diskMountParent'[m] ELSE None]
    BY DEF Restart
  <2> QED BY <1>0, <1>12, <2>1 DEF DiskTypes
<1>8. suspect' \subseteq Chains \cup Mounts
  <2>1. suspect' = suspect \cup Halfway
    BY DEF Restart, Halfway
  <2> QED BY <1>0, <1>11, <2>1 DEF RestTypes
<1>9. TypeOK'
  BY <1>0, <1>1, <1>2, <1>5, <1>6, <1>7, <1>8, <1>12, <1>13 DEF TypeOK, DiskTypes, RestTypes, Pcs
<1>10. \A p \in Procs : CallOK(p)'
  BY <1>1, IdleOK
<1> QED BY <1>9, <1>10 DEF Control

LEMMA InitControl == Init => Control
<1> SUFFICES ASSUME Init PROVE Control
  OBVIOUS
<1>1. TypeOK
  BY DEF Init, TypeOK, Pcs
<1>2. \A p \in Procs : CallOK(p)
  BY DEF Init, CallOK, Registering, Mounting, Unmounting, Removing
<1> QED BY <1>1, <1>2 DEF Control

\* Every step keeps Control.
LEMMA NextControl == Control /\ [Next]_vars => Control'
<1> SUFFICES ASSUME Control, [Next]_vars PROVE Control'
  OBVIOUS
<1>1. CASE UNCHANGED vars
  <2>1. /\ UNCHANGED <<layerL, mountL, pc, target, at, id, mounts>>
        /\ UNCHANGED layerVars /\ UNCHANGED mountVars /\ UNCHANGED diskVars
        /\ UNCHANGED <<references, panicked, suspect>>
    BY <1>1 DEF vars, lockVars, callVars, mountVars
  <2>2. TypeOK'
    BY <2>1, ControlIs DEF TypeOK, CallTypes, LayerTypes, MountTypes, DiskTypes, RestTypes,
       layerVars, mountVars, diskVars, metaVars, diskMount
  <2>3. ASSUME NEW p \in Procs PROVE CallOK(p)'
    BY <2>1, UnmovedOK
  <2> QED BY <2>2, <2>3 DEF Control
<1>2. CASE Restart
  BY <1>2, RestartControl
<1>3. ASSUME NEW p \in Procs, Step(p) PROVE Control'
  BY <1>3, ReferencesControl, ReleaseLayerControl, DeleteControl, RegisterControl,
     DriverCreateControl, TransactionControl, CommitControl, CleanupControl,
     CreateRWLayerControl, SaveMountIDControl, SaveMountParentControl, RemoveMountControl DEF Step
<1> QED BY <1>1, <1>2, <1>3 DEF Next

-----------------------------------------------------------------------------
(* Who holds a layer                                                        *)

\* A layer that somebody holds is in the map.
HeldIsLoaded == \A c \in Chains : Holders(c) # {} => c \in layerMap

\* Nobody holds a layer that deleteLayer is at.
RemovedIsFree ==
    \A p \in Procs : pc[p] \in Removing => at[p] \in layerMap /\ Holders(at[p]) = {}

Books == HeldIsLoaded /\ CountIsExact /\ RemovedIsFree /\ NeverPanics

\* The holders of a layer are finitely many, and of four kinds.
LEMMA HoldersFinite ==
    ASSUME Control, NEW c \in Chains
    PROVE  IsFiniteSet(Holders(c)) /\ Cardinality(Holders(c)) \in Nat
<1>1. IsFiniteSet((Refs \cup Chains) \cup (Mounts \cup Procs))
  BY FiniteAssumption, FS_Union
<1>2. layerMap \subseteq Chains /\ mounts \subseteq Mounts
  BY ControlIs DEF LayerTypes, MountTypes
<1>3. Holders(c) \subseteq (Refs \cup Chains) \cup (Mounts \cup Procs)
  BY <1>2 DEF Holders
<1> QED BY <1>1, <1>3, FS_Subset, FS_CardinalityType

\* What a count says
LEMMA CountIs ==
    ASSUME Control, Books, NEW c \in layerMap
    PROVE  /\ refCount[c] = Cardinality(Holders(c)) /\ refCount[c] \in Nat
           /\ IsFiniteSet(Holders(c)) /\ c \in Chains
<1>1. c \in Chains /\ refCount[c] \in Nat
  BY ControlIs DEF LayerTypes
<1> QED BY <1>1, HoldersFinite DEF Books, CountIsExact

\* How RemovedIsFree is shown for the next state
LEMMA FreeNext ==
    ASSUME \A q \in Procs : pc'[q] \in Removing =>
              \E d \in layerMap' : at'[q] = d /\ Holders(d)' = {}
    PROVE  RemovedIsFree'
<1> SUFFICES ASSUME NEW q \in Procs, pc'[q] \in Removing
             PROVE  (at[q] \in layerMap /\ Holders(at[q]) = {})'
  BY DEF RemovedIsFree
<1>1. PICK d \in layerMap' : at'[q] = d /\ Holders(d)' = {}
  OBVIOUS
<1>2. Holders(at[q])' = Holders(d)'
  BY <1>1 DEF Holders
<1> QED BY <1>1, <1>2

\* In a step of p a layer that another call removes stays free, if no layer gets its
\* first holder under the lock.
LEMMA FreeStays ==
    ASSUME Control, Books, NEW p \in Procs, OfCall(p), pc'[p] \notin Removing,
           layerL # None => \A c \in layerMap : Holders(c) = {} => c \in layerMap' /\ Holders(c)' = {}
    PROVE  RemovedIsFree'
<1>1. ASSUME NEW q \in Procs, pc'[q] \in Removing
      PROVE  \E d \in layerMap' : at'[q] = d /\ Holders(d)' = {}
  <2>1. q # p /\ pc[q] \in Removing /\ at'[q] = at[q]
    BY <1>1 DEF OfCall
  <2>2. layerL = q /\ q # None
    BY <2>1, ControlIs, DistinctAssumption DEF CallOK
  <2>3. PICK d \in layerMap : d = at[q] /\ Holders(d) = {}
    BY <2>1 DEF Books, RemovedIsFree
  <2> QED BY <2>1, <2>2, <2>3
<1> QED BY <1>1, FreeNext

\* A step after which everybody holds what they held
LEMMA BooksStay ==
    ASSUME Control, Books, NEW p \in Procs, OfCall(p), UNCHANGED <<layerMap, refCount, panicked>>,
           \A c \in Chains : Holders(c)' = Holders(c),
           pc'[p] \in Removing => pc[p] \in Removing /\ at'[p] = at[p]
    PROVE  Books'
<1>1. layerMap \subseteq Chains
  BY ControlIs DEF LayerTypes
<1>2. HeldIsLoaded' /\ CountIsExact' /\ NeverPanics'
  BY <1>1 DEF Books, HeldIsLoaded, CountIsExact, NeverPanics
<1>3. ASSUME NEW q \in Procs, pc'[q] \in Removing
      PROVE  \E d \in layerMap' : at'[q] = d /\ Holders(d)' = {}
  <2>1. pc[q] \in Removing /\ at'[q] = at[q]
    BY <1>3 DEF OfCall
  <2>2. PICK d \in layerMap : d = at[q] /\ Holders(d) = {}
    BY <2>1 DEF Books, RemovedIsFree
  <2> QED BY <1>1, <2>1, <2>2
<1> QED BY <1>2, <1>3, FreeNext DEF Books

\* A holder x of c comes.
LEMMA BooksRetain ==
    ASSUME Control, Books, NEW p \in Procs, OfCall(p), pc'[p] \notin Removing, layerL = None,
           NEW c \in layerMap, refCount' = [refCount EXCEPT ![c] = @ + 1],
           UNCHANGED <<layerMap, panicked>>,
           NEW x, x \notin Holders(c), Holders(c)' = Holders(c) \cup {x},
           \A d \in Chains \ {c} : Holders(d)' = Holders(d)
    PROVE  Books'
<1>1. layerMap \subseteq Chains /\ refCount \in [Chains -> Nat] /\ c \in Chains
  BY ControlIs DEF LayerTypes
<1>2. HeldIsLoaded' /\ NeverPanics'
  BY <1>1 DEF Books, HeldIsLoaded, NeverPanics
<1>3. CountIsExact'
  <2> SUFFICES ASSUME NEW d \in layerMap PROVE refCount'[d] = Cardinality(Holders(d)')
    BY DEF CountIsExact
  <2>1. refCount[d] = Cardinality(Holders(d)) /\ IsFiniteSet(Holders(d))
    BY CountIs
  <2>2. CASE d = c
    <3>1. Cardinality(Holders(c) \cup {x}) = Cardinality(Holders(c)) + 1
      BY <2>1, <2>2, FS_AddElement
    <3>2. refCount'[c] = refCount[c] + 1
      BY <1>1
    <3> QED BY <2>1, <2>2, <3>1, <3>2
  <2>3. CASE d # c
    BY <1>1, <2>1, <2>3
  <2> QED BY <2>2, <2>3
<1>4. RemovedIsFree'
  BY FreeStays
<1> QED BY <1>2, <1>3, <1>4 DEF Books

\* One holder takes the place of another: the count stays.
LEMMA Swap ==
    ASSUME NEW S, IsFiniteSet(S), NEW x \in S, NEW y, y \notin S
    PROVE  Cardinality((S \ {x}) \cup {y}) = Cardinality(S)
<1>1. /\ IsFiniteSet(S \ {x}) /\ Cardinality(S \ {x}) = Cardinality(S) - 1
      /\ Cardinality(S) \in Nat
  BY FS_RemoveElement, FS_CardinalityType
<1>2. Cardinality((S \ {x}) \cup {y}) = Cardinality(S \ {x}) + 1
  BY <1>1, FS_AddElement
<1> QED BY SMT, <1>1, <1>2

\* In c a holder y takes the place of x.
LEMMA BooksSwap ==
    ASSUME Control, Books, NEW p \in Procs, OfCall(p), pc'[p] \notin Removing,
           UNCHANGED <<layerMap, refCount, panicked>>,
           NEW c \in Chains, NEW x \in Holders(c), NEW y, y \notin Holders(c),
           Holders(c)' = (Holders(c) \ {x}) \cup {y},
           \A d \in Chains \ {c} : Holders(d)' = Holders(d)
    PROVE  Books'
<1>1. layerMap \subseteq Chains /\ c \in layerMap
  BY ControlIs DEF LayerTypes, Books, HeldIsLoaded
<1>2. HeldIsLoaded' /\ NeverPanics'
  BY <1>1 DEF Books, HeldIsLoaded, NeverPanics
<1>3. CountIsExact'
  <2> SUFFICES ASSUME NEW d \in layerMap PROVE refCount'[d] = Cardinality(Holders(d)')
    BY DEF CountIsExact
  <2>1. refCount[d] = Cardinality(Holders(d)) /\ IsFiniteSet(Holders(d))
    BY CountIs
  <2>2. CASE d = c
    BY SMT, <2>1, <2>2, Swap
  <2>3. CASE d # c
    BY <1>1, <2>1, <2>3
  <2> QED BY <2>2, <2>3
<1>4. RemovedIsFree'
  BY <1>1, FreeStays
<1> QED BY <1>2, <1>3, <1>4 DEF Books

\* A step after which p holds what it held, and no reference on a layer changes
LEMMA QuietHolders ==
    ASSUME NEW p \in Procs, OfCall(p), UNCHANGED <<layerMap, parent, mounts, mountParent>>,
           \A r \in Refs, c \in Chains : references'[r] = c <=> references[r] = c,
           \A c \in Chains :
              pc'[p] \in Holding /\ at'[p] = c <=> pc[p] \in Holding /\ at[p] = c
    PROVE  \A c \in Chains : Holders(c)' = Holders(c)
<1> TAKE c \in Chains
<1>1. {r \in Refs : references'[r] = c} = {r \in Refs : references[r] = c}
  OBVIOUS
<1>2. \A q \in Procs : pc'[q] \in Holding /\ at'[q] = c <=> pc[q] \in Holding /\ at[q] = c
  BY DEF OfCall
<1>3. {q \in Procs : pc'[q] \in Holding /\ at'[q] = c} = {q \in Procs : pc[q] \in Holding /\ at[q] = c}
  BY <1>2
<1> QED BY <1>1, <1>3 DEF Holders

LEMMA QuietBooks ==
    ASSUME Control, Books, NEW p \in Procs, OfCall(p),
           UNCHANGED <<layerMap, parent, refCount, panicked, mounts, mountParent>>,
           \A r \in Refs, c \in Chains : references'[r] = c <=> references[r] = c,
           pc[p] \in Holding => pc'[p] \in Holding /\ at'[p] = at[p],
           pc[p] \notin Holding => pc'[p] \notin Holding,
           pc'[p] \in Removing => pc[p] \in Removing /\ at'[p] = at[p]
    PROVE  Books'
BY QuietHolders, BooksStay

\* A failed call that releases the parent it holds, or holds none
LEMMA AbandonBooks ==
    ASSUME Control, Books, NEW p \in Procs, Abandon(p), pc[p] \in Holding,
           UNCHANGED <<layerMap, parent, refCount, panicked, mounts, mountParent, references>>
    PROVE  Books'
<1>1. CallTypes /\ at[p] \in Chains \cup {None} /\ None \notin Chains
  BY ControlIs, DistinctAssumption DEF CallTypes
<1>2. /\ OfCall(p) /\ at'[p] = at[p]
      /\ pc'[p] = IF at[p] = None THEN "idle" ELSE "release"
  BY <1>1, AbandonIs
<1>3. /\ \A c \in Chains : pc'[p] \in Holding /\ at'[p] = c <=> pc[p] \in Holding /\ at[p] = c
      /\ pc'[p] \notin Removing
  BY <1>1, <1>2 DEF Holding, Removing
<1>4. \A c \in Chains : Holders(c)' = Holders(c)
  BY <1>2, <1>3, QuietHolders
<1> QED BY <1>2, <1>3, <1>4, BooksStay

-----------------------------------------------------------------------------
(* Every step keeps Books                                                   *)

\* Get and Release of a layer
LEMMA GetBooks ==
    ASSUME Control, Books, NEW p \in Procs, NEW c \in Chains, NEW r \in Refs, Get(p, c, r)
    PROVE  Books'
<1>1. /\ layerL = None /\ c \in layerMap /\ references[r] = None
      /\ refCount' = [refCount EXCEPT ![c] = @ + 1]
      /\ references' = [references EXCEPT ![r] = c]
      /\ UNCHANGED <<layerMap, parent, panicked, mounts, mountParent>>
      /\ UNCHANGED <<layerL, mountL, pc, target, at, id>> /\ pc[p] = "idle"
  BY DEF Get, Retain, NewReference, callVars, lockVars, mountVars
<1>2. OfCall(p) /\ pc'[p] \notin Removing
  BY <1>1 DEF OfCall, Removing
<1>3. references \in [Refs -> Chains \cup Mounts \cup {None}] /\ layerMap \subseteq Chains /\ mounts \subseteq Mounts
  BY ControlIs DEF RestTypes, LayerTypes, MountTypes
<1>4. references'[r] = c /\ \A q \in Refs \ {r} : references'[q] = references[q]
  BY <1>1, <1>3
<1>5. r \notin Holders(c)
  BY <1>1, <1>3, DistinctAssumption DEF Holders
<1>6. Holders(c)' = Holders(c) \cup {r}
  BY <1>1, <1>3, <1>4 DEF Holders
<1>7. \A d \in Chains \ {c} : Holders(d)' = Holders(d)
  <2> SUFFICES ASSUME NEW d \in Chains \ {c} PROVE Holders(d)' = Holders(d)
    OBVIOUS
  <2>1. {q \in Refs : references'[q] = d} = {q \in Refs : references[q] = d}
    <3>1. references[r] # d /\ references'[r] # d
      BY <1>1, <1>4, DistinctAssumption
    <3> QED BY <1>4, <3>1
  <2>2. {e \in layerMap' : parent'[e] = d} = {e \in layerMap : parent[e] = d}
    BY <1>1
  <2>3. {n \in mounts' : mountParent'[n] = d} = {n \in mounts : mountParent[n] = d}
    BY <1>1
  <2>4. {q \in Procs : pc'[q] \in Holding /\ at'[q] = d}
          = {q \in Procs : pc[q] \in Holding /\ at[q] = d}
    BY <1>1
  <2> QED BY <2>1, <2>2, <2>3, <2>4 DEF Holders
<1> QED BY <1>1, <1>2, <1>5, <1>6, <1>7, BooksRetain

LEMMA ReleaseBooks ==
    ASSUME Control, Books, NEW p \in Procs, NEW r \in Refs, Release(p, r)
    PROVE  Books'
<1>0. PICK c \in layerMap : c = references[r]
  BY DEF Release
<1>1. /\ pc[p] = "idle" /\ layerL = None
      /\ references' = [references EXCEPT ![r] = None] /\ layerL' = p
      /\ at' = [at EXCEPT ![p] = c] /\ pc' = [pc EXCEPT ![p] = "release"]
      /\ UNCHANGED <<layerMap, parent, refCount, panicked, mounts, mountParent, mountL, target, id>>
  BY <1>0 DEF Release, Goto, layerVars, mountVars
<1>2. /\ references \in [Refs -> Chains \cup Mounts \cup {None}]
      /\ layerMap \subseteq Chains /\ mounts \subseteq Mounts /\ CallTypes
      /\ c \in Chains /\ None \notin Chains
  BY <1>0, ControlIs, DistinctAssumption DEF RestTypes, LayerTypes, MountTypes
<1>3. /\ pc'[p] = "release" /\ at'[p] = c
      /\ \A q \in Procs \ {p} : pc'[q] = pc[q] /\ at'[q] = at[q]
  BY <1>1, <1>2 DEF CallTypes
<1>4. OfCall(p) /\ pc'[p] \notin Removing
  BY <1>1, <1>3 DEF OfCall, Removing
<1>5. references'[r] = None /\ \A q \in Refs \ {r} : references'[q] = references[q]
  BY <1>1, <1>2
<1>6. r \in Holders(c) /\ p \notin Holders(c)
  BY <1>0, <1>1, <1>2, DistinctAssumption DEF Holders, Holding
<1>7. Holders(c)' = (Holders(c) \ {r}) \cup {p}
  <2>1. {q \in Refs : references'[q] = c} = {q \in Refs : references[q] = c} \ {r}
    BY <1>2, <1>5
  <2>2. {e \in layerMap' : parent'[e] = c} = {e \in layerMap : parent[e] = c}
    BY <1>1
  <2>3. {n \in mounts' : mountParent'[n] = c} = {n \in mounts : mountParent[n] = c}
    BY <1>1
  <2>4. {q \in Procs : pc'[q] \in Holding /\ at'[q] = c}
          = {q \in Procs : pc[q] \in Holding /\ at[q] = c} \cup {p}
    BY <1>3 DEF Holding
  <2>5. r \notin layerMap /\ r \notin mounts /\ r \notin Procs
    BY <1>2, DistinctAssumption
  <2> QED BY <2>1, <2>2, <2>3, <2>4, <2>5 DEF Holders
<1>8. \A d \in Chains \ {c} : Holders(d)' = Holders(d)
  <2> SUFFICES ASSUME NEW d \in Chains \ {c} PROVE Holders(d)' = Holders(d)
    OBVIOUS
  <2>1. {q \in Refs : references'[q] = d} = {q \in Refs : references[q] = d}
    BY <1>0, <1>2, <1>5
  <2>2. {e \in layerMap' : parent'[e] = d} = {e \in layerMap : parent[e] = d}
    BY <1>1
  <2>3. {n \in mounts' : mountParent'[n] = d} = {n \in mounts : mountParent[n] = d}
    BY <1>1
  <2>4. {q \in Procs : pc'[q] \in Holding /\ at'[q] = d}
          = {q \in Procs : pc[q] \in Holding /\ at[q] = d}
    BY <1>1, <1>3 DEF Holding
  <2> QED BY <2>1, <2>2, <2>3, <2>4 DEF Holders
<1> QED BY <1>1, <1>2, <1>4, <1>6, <1>7, <1>8, BooksSwap

\* releaseLayer: p itself still holds the layer, so that it is in the map and its
\* count is not 0; and if nobody else does, no reference is left.
LEMMA ReleaseLayerBooks ==
    ASSUME Control, Books, NEW p \in Procs, ReleaseLayer(p)
    PROVE  Books'
<1>0. PICK c \in Chains : c = at[p]
  BY ControlIs DEF ReleaseLayer, CallOK
<1>1. /\ CallTypes /\ LayerTypes /\ pc[p] = "release" /\ layerL \in {None, p}
      /\ mounts \subseteq Mounts
      /\ UNCHANGED <<layerMap, parent, mounts, mountParent, references>>
  BY ControlIs DEF ReleaseLayer, mountVars, MountTypes
<1>2. p \in Holders(c)
  BY <1>0, <1>1 DEF Holders, Holding
<1>3. c \in layerMap
  BY <1>2 DEF Books, HeldIsLoaded
<1>4. /\ refCount[c] = Cardinality(Holders(c)) /\ refCount[c] \in Nat
      /\ IsFiniteSet(Holders(c))
  BY <1>3, CountIs
<1>5. /\ Cardinality(Holders(c) \ {p}) = refCount[c] - 1
      /\ Cardinality(Holders(c) \ {p}) \in Nat
      /\ IsFiniteSet(Holders(c) \ {p})
  BY SMT, <1>2, <1>4, FS_RemoveElement, FS_CardinalityType
<1>6. refCount[c] - 1 = 0 => Holders(c) \ {p} = {}
  BY <1>5, FS_EmptySet
<1>7. /\ refCount[c] # 0
      /\ ~(refCount[c] - 1 = 0 /\ \E r \in Refs : references[r] = c)
  <2>1. ASSUME NEW r \in Refs, references[r] = c PROVE r \in Holders(c) \ {p}
    BY <2>1, DistinctAssumption DEF Holders
  <2> QED BY SMT, <1>4, <1>5, <1>6, <2>1
<1>8. /\ ~panicked' /\ refCount' = [refCount EXCEPT ![c] = refCount[c] - 1]
      /\ \/ Return(p)
         \/ /\ refCount[c] - 1 = 0 /\ layerL' = p /\ Goto(p, "rmdriver")
            /\ UNCHANGED <<mountL, target, at, id>>
  BY <1>0, <1>7 DEF ReleaseLayer
<1>9. OfCall(p) /\ pc'[p] \in {"idle", "rmdriver"}
      /\ (pc'[p] = "rmdriver" => at'[p] = c /\ refCount[c] - 1 = 0)
  <2>1. CASE Return(p)
    BY <1>1, <2>1, ReturnIs
  <2>2. CASE /\ refCount[c] - 1 = 0 /\ layerL' = p /\ Goto(p, "rmdriver")
             /\ UNCHANGED <<mountL, target, at, id>>
    <3>1. pc'[p] = "rmdriver" /\ \A q \in Procs \ {p} : pc'[q] = pc[q]
      BY <1>1, <2>2 DEF Goto, CallTypes
    <3> QED BY <1>0, <1>1, <2>2, <3>1 DEF OfCall
  <2> QED BY <1>8, <2>1, <2>2
<1>10. Holders(c)' = Holders(c) \ {p} /\ \A d \in Chains \ {c} : Holders(d)' = Holders(d)
  <2>1. /\ pc'[p] \notin Holding
        /\ \A q \in Procs \ {p} : pc'[q] = pc[q] /\ at'[q] = at[q]
    BY <1>9 DEF Holding, OfCall
  <2>2. Holders(c)' = Holders(c) \ {p}
    <3>1. {q \in Refs : references'[q] = c} = {q \in Refs : references[q] = c}
      BY <1>1
    <3>2. {e \in layerMap' : parent'[e] = c} = {e \in layerMap : parent[e] = c}
      BY <1>1
    <3>3. {n \in mounts' : mountParent'[n] = c} = {n \in mounts : mountParent[n] = c}
      BY <1>1
    <3>4. {q \in Procs : pc'[q] \in Holding /\ at'[q] = c}
            = {q \in Procs : pc[q] \in Holding /\ at[q] = c} \ {p}
      BY <2>1
    <3>5. p \notin Refs /\ p \notin layerMap /\ p \notin mounts
      BY <1>1, DistinctAssumption DEF LayerTypes
    <3> QED BY <3>1, <3>2, <3>3, <3>4, <3>5 DEF Holders
  <2>3. \A d \in Chains \ {c} : Holders(d)' = Holders(d)
    <3> SUFFICES ASSUME NEW d \in Chains \ {c} PROVE Holders(d)' = Holders(d)
      OBVIOUS
    <3>1. {q \in Refs : references'[q] = d} = {q \in Refs : references[q] = d}
      BY <1>1
    <3>2. {e \in layerMap' : parent'[e] = d} = {e \in layerMap : parent[e] = d}
      BY <1>1
    <3>3. {n \in mounts' : mountParent'[n] = d} = {n \in mounts : mountParent[n] = d}
      BY <1>1
    <3>4. {q \in Procs : pc'[q] \in Holding /\ at'[q] = d}
            = {q \in Procs : pc[q] \in Holding /\ at[q] = d}
      BY <1>0, <2>1
    <3> QED BY <3>1, <3>2, <3>3, <3>4 DEF Holders
  <2> QED BY <2>2, <2>3
<1>11. HeldIsLoaded' /\ NeverPanics'
  BY <1>1, <1>3, <1>8, <1>10 DEF Books, HeldIsLoaded, NeverPanics
<1>12. CountIsExact'
  <2> SUFFICES ASSUME NEW d \in layerMap PROVE refCount'[d] = Cardinality(Holders(d)')
    BY <1>1 DEF CountIsExact
  <2>1. refCount[d] = Cardinality(Holders(d)) /\ d \in Chains
    BY CountIs
  <2>2. refCount'[c] = refCount[c] - 1 /\ (d # c => refCount'[d] = refCount[d])
    BY <1>1, <1>8, <2>1 DEF LayerTypes
  <2> QED BY <1>5, <1>10, <2>1, <2>2
<1>13. RemovedIsFree'
  <2>1. ASSUME NEW q \in Procs, pc'[q] \in Removing
        PROVE  \E d \in layerMap' : at'[q] = d /\ Holders(d)' = {}
    <3>1. CASE q = p
      BY <1>1, <1>3, <1>6, <1>9, <1>10, <2>1, <3>1 DEF Removing
    <3>2. CASE q # p
      <4>1. pc[q] \in Removing
        BY <1>9, <2>1, <3>2 DEF OfCall
      <4>2. layerL = q /\ q # None
        BY <4>1, ControlIs, DistinctAssumption DEF CallOK
      <4> QED BY <1>1, <3>2, <4>2
    <3> QED BY <3>1, <3>2
  <2> QED BY <2>1, FreeNext
<1> QED BY <1>11, <1>12, <1>13 DEF Books

\* deleteLayer: the layer leaves the map, and p holds its parent in its place.
LEMMA DeleteBooks ==
    ASSUME Control, Books, NEW p \in Procs, DeleteData(p) \/ DeleteMeta(p)
    PROVE  Books'
<1>0. PICK c \in layerMap : c = at[p] /\ Holders(c) = {}
  BY DEF DeleteData, DeleteMeta, Books, RemovedIsFree, Removing
<1>1. /\ CallTypes /\ LayerTypes /\ pc[p] \in Removing /\ layerL = p /\ c \in Chains
      /\ mounts \subseteq Mounts /\ references \in [Refs -> Chains \cup Mounts \cup {None}]
      /\ UNCHANGED <<refCount, panicked, mounts, mountParent, references>>
  BY <1>0, ControlIs DEF DeleteData, DeleteMeta, CallOK, Removing, layerVars, mountVars, LayerTypes,
     MountTypes, RestTypes
<1>2. CASE Return(p) /\ UNCHANGED <<layerMap, parent>>
  <2>1. OfCall(p) /\ pc'[p] = "idle"
    BY <1>1, <1>2, ReturnIs
  <2> QED BY <1>1, <1>2, <2>1, QuietBooks DEF Removing, Holding
<1>3. CASE Goto(p, "rmmeta") /\ UNCHANGED <<lockVars, target, at, id, layerMap, parent>>
  <2>1. OfCall(p) /\ pc'[p] = "rmmeta"
    BY <1>1, <1>3, GotoIs DEF Pcs
  <2> QED BY <1>1, <1>3, <2>1, QuietBooks DEF Removing, Holding
<1>4. CASE /\ layerMap' = layerMap \ {c} /\ parent' = [parent EXCEPT ![c] = None]
           /\ IF parent[c] = None
              THEN Return(p)
              ELSE /\ at' = [at EXCEPT ![p] = parent[c]] /\ Goto(p, "release")
                   /\ UNCHANGED <<lockVars, target, id>>
  <2>0. PICK u \in Chains \cup {None} : u = parent[c]
    BY <1>1 DEF LayerTypes
  <2>1. /\ u # c /\ None \notin Chains
        /\ \A e \in layerMap' : e \in layerMap /\ e # c /\ parent'[e] = parent[e]
    BY <1>0, <1>1, <1>4, <2>0, DistinctAssumption DEF Holders, LayerTypes
  <2>2. /\ OfCall(p) /\ pc'[p] = IF u = None THEN "idle" ELSE "release"
        /\ at'[p] = u
    <3>1. CASE u = None
      BY <1>1, <1>4, <2>0, <3>1, ReturnIs
    <3>2. CASE u # None
      <4>1. pc' = [pc EXCEPT ![p] = "release"] /\ at' = [at EXCEPT ![p] = u]
            /\ UNCHANGED <<layerL, mountL, target, id>>
        BY <1>4, <2>0, <3>2 DEF Goto, lockVars
      <4>2. /\ pc'[p] = "release" /\ at'[p] = u
            /\ \A q \in Procs \ {p} : pc'[q] = pc[q] /\ at'[q] = at[q]
        BY <1>1, <4>1 DEF CallTypes
      <4> QED BY <3>2, <4>1, <4>2 DEF OfCall
    <3> QED BY <3>1, <3>2
  <2>3. \A q \in Procs \ {p} : pc'[q] = pc[q] /\ at'[q] = at[q]
    BY <2>2 DEF OfCall
  <2>4. \A d \in Chains : d # u => Holders(d)' = Holders(d)
    <3> SUFFICES ASSUME NEW d \in Chains, d # u PROVE Holders(d)' = Holders(d)
      OBVIOUS
    <3>1. {q \in Refs : references'[q] = d} = {q \in Refs : references[q] = d}
      BY <1>1
    <3>2. {e \in layerMap' : parent'[e] = d} = {e \in layerMap : parent[e] = d}
      BY <1>4, <2>0, <2>1
    <3>3. {n \in mounts' : mountParent'[n] = d} = {n \in mounts : mountParent[n] = d}
      BY <1>1
    <3>4. {q \in Procs : pc'[q] \in Holding /\ at'[q] = d}
            = {q \in Procs : pc[q] \in Holding /\ at[q] = d}
      BY <1>1, <2>2, <2>3 DEF Holding, Removing
    <3> QED BY <3>1, <3>2, <3>3, <3>4 DEF Holders
  <2>5. ASSUME u # None
        PROVE  /\ Holders(u)' = (Holders(u) \ {c}) \cup {p}
               /\ c \in Holders(u) /\ p \notin Holders(u)
    <3>1. c \in Holders(u) /\ p \notin Holders(u)
      BY <1>0, <1>1, <2>0, DistinctAssumption DEF Holders, Holding, Removing, LayerTypes
    <3>2. Holders(u)' = (Holders(u) \ {c}) \cup {p}
      <4>1. {q \in Refs : references'[q] = u} = {q \in Refs : references[q] = u}
        BY <1>1, <1>4
      <4>2. {e \in layerMap' : parent'[e] = u}
              = {e \in layerMap : parent[e] = u} \ {c}
        BY <1>4, <2>1
      <4>3. {n \in mounts' : mountParent'[n] = u}
              = {n \in mounts : mountParent[n] = u}
        BY <1>1, <1>4
      <4>4. {q \in Procs : pc'[q] \in Holding /\ at'[q] = u}
              = {q \in Procs : pc[q] \in Holding /\ at[q] = u} \cup {p}
        BY <2>2, <2>3, <2>5 DEF Holding
      <4>5. c \notin Refs /\ c \notin mounts /\ c \notin Procs
        BY <1>1, DistinctAssumption DEF LayerTypes, MountTypes
      <4> QED BY <4>1, <4>2, <4>3, <4>4, <4>5 DEF Holders
    <3> QED BY <3>1, <3>2
  <2>6. HeldIsLoaded'
    <3> SUFFICES ASSUME NEW d \in Chains, Holders(d)' # {} PROVE d \in layerMap'
      BY DEF HeldIsLoaded
    <3>1. d # c
      BY <1>0, <1>1, <2>1, <2>4
    <3>2. Holders(d) # {}
      BY <2>1, <2>4, <2>5
    <3> QED BY <1>4, <3>1, <3>2 DEF Books, HeldIsLoaded
  <2>7. CountIsExact'
    <3> SUFFICES ASSUME NEW d \in layerMap' PROVE refCount[d] = Cardinality(Holders(d)')
      BY <1>1 DEF CountIsExact
    <3>1. d \in layerMap /\ refCount[d] = Cardinality(Holders(d)) /\ IsFiniteSet(Holders(d)) /\ d \in Chains
      BY <1>4, CountIs
    <3> QED BY SMT, <2>1, <2>4, <2>5, <3>1, Swap
  <2>8. RemovedIsFree'
    <3>1. ASSUME NEW q \in Procs, pc'[q] \in Removing PROVE FALSE
      <4>1. q # p /\ pc[q] \in Removing
        BY <2>2, <2>3, <3>1 DEF Removing
      <4>2. layerL = q
        BY <4>1, ControlIs DEF CallOK
      <4> QED BY <1>1, <4>1, <4>2
    <3> QED BY <3>1, FreeNext
  <2>9. NeverPanics'
    BY <1>1 DEF Books, NeverPanics
  <2> QED BY <2>6, <2>7, <2>8, <2>9 DEF Books
<1>5. CASE DeleteData(p)
  BY <1>2, <1>3, <1>5 DEF DeleteData, layerVars
<1>6. CASE DeleteMeta(p)
  BY <1>0, <1>2, <1>4, <1>6 DEF DeleteMeta
<1> QED BY <1>5, <1>6

\* A call takes hold of a layer: Register of its parent, and CreateRWLayer.
LEMMA TakeHolders ==
    ASSUME Control, NEW p \in Procs, OfCall(p), NEW c \in Chains,
           UNCHANGED <<layerMap, parent, mounts, mountParent, references>>,
           pc[p] \notin Holding, pc'[p] \in Holding, at'[p] = c
    PROVE  /\ p \notin Holders(c) /\ Holders(c)' = Holders(c) \cup {p}
           /\ \A d \in Chains \ {c} : Holders(d)' = Holders(d)
<1>1. layerMap \subseteq Chains /\ mounts \subseteq Mounts
  BY ControlIs DEF LayerTypes, MountTypes
<1>2. \A q \in Procs \ {p} : pc'[q] = pc[q] /\ at'[q] = at[q]
  BY DEF OfCall
<1>3. p \notin Holders(c)
  BY <1>1, DistinctAssumption DEF Holders
<1>4. Holders(c)' = Holders(c) \cup {p}
  BY <1>1, <1>2 DEF Holders
<1>5. \A d \in Chains \ {c} : Holders(d)' = Holders(d)
  BY SMT, <1>1, <1>2 DEF Holders
<1> QED BY <1>3, <1>4, <1>5

LEMMA RegisterBooks ==
    ASSUME Control, Books, NEW p \in Procs, NEW c \in Chains, Register(p, c)
    PROVE  Books'
<1>0. CallTypes /\ layerMap \subseteq Chains /\ None \notin Chains
  BY ControlIs, DistinctAssumption DEF LayerTypes
<1>1. /\ pc[p] = "idle" /\ target' = [target EXCEPT ![p] = c] /\ at' = [at EXCEPT ![p] = Parent[c]]
      /\ UNCHANGED <<layerL, mountL, layerMap, parent, mounts, mountParent, references, id, panicked>>
  BY DEF Register, lockVars, mountVars
<1>2. \E l \in {"create", "release"} : pc' = [pc EXCEPT ![p] = l]
  BY DEF Register, Goto
<1>3. /\ pc'[p] \in {"create", "release"} /\ at'[p] = Parent[c]
      /\ \A q \in Procs \ {p} : pc'[q] = pc[q] /\ target'[q] = target[q] /\ at'[q] = at[q]
  BY <1>0, <1>1, <1>2 DEF CallTypes
<1>4. OfCall(p) /\ pc'[p] \notin Removing /\ pc'[p] \in Holding /\ pc[p] \notin Holding
  BY <1>1, <1>3 DEF OfCall, Removing, Holding
<1>5. CASE Parent[c] = None
  <2>1. UNCHANGED refCount
    BY <1>0, <1>5 DEF Register
  <2>2. \A d \in Chains : pc'[p] \in Holding /\ at'[p] = d <=> pc[p] \in Holding /\ at[p] = d
    BY <1>0, <1>3, <1>4, <1>5
  <2>3. \A d \in Chains : Holders(d)' = Holders(d)
    BY <1>1, <1>4, <2>2, QuietHolders
  <2> QED BY <1>1, <1>4, <2>1, <2>3, BooksStay
<1>6. CASE Parent[c] # None
  <2>1. Parent[c] \in layerMap /\ layerL = None /\ refCount' = [refCount EXCEPT ![Parent[c]] = @ + 1]
    BY <1>6 DEF Register, Retain
  <2>2. PICK d \in layerMap : d = Parent[c] /\ d \in Chains
    BY <1>0, <2>1
  <2>3. /\ p \notin Holders(d) /\ Holders(d)' = Holders(d) \cup {p}
        /\ \A e \in Chains \ {d} : Holders(e)' = Holders(e)
    BY <1>1, <1>3, <1>4, <2>2, TakeHolders
  <2> QED BY <1>1, <1>4, <2>1, <2>2, <2>3, BooksRetain
<1> QED BY <1>5, <1>6

LEMMA CreateRWLayerBooks ==
    ASSUME Control, Books, NEW p \in Procs, NEW m \in Mounts, NEW c \in Chains \cup {None},
           CreateRWLayer(p, m, c)
    PROVE  Books'
<1>0. CallTypes /\ layerMap \subseteq Chains /\ None \notin Chains
  BY ControlIs, DistinctAssumption DEF LayerTypes
<1>1. /\ pc[p] = "idle" /\ mountL = None /\ mountL' = p
      /\ target' = [target EXCEPT ![p] = m] /\ at' = [at EXCEPT ![p] = c]
      /\ pc' = [pc EXCEPT ![p] = "mcreate"]
      /\ UNCHANGED <<layerL, layerMap, parent, mounts, mountParent, references, id, panicked>>
  BY DEF CreateRWLayer, Goto, mountVars
<1>2. /\ target'[p] = m /\ at'[p] = c /\ pc'[p] = "mcreate"
      /\ \A q \in Procs \ {p} : pc'[q] = pc[q] /\ target'[q] = target[q] /\ at'[q] = at[q]
  BY <1>0, <1>1 DEF CallTypes
<1>3. OfCall(p) /\ pc'[p] \notin Removing /\ pc'[p] \in Holding /\ pc[p] \notin Holding
  BY <1>1, <1>2 DEF OfCall, Removing, Holding
<1>4. CASE c = None
  <2>1. UNCHANGED refCount
    BY <1>0, <1>4 DEF CreateRWLayer
  <2>2. \A d \in Chains : pc'[p] \in Holding /\ at'[p] = d <=> pc[p] \in Holding /\ at[p] = d
    BY <1>0, <1>2, <1>3, <1>4
  <2>3. \A d \in Chains : Holders(d)' = Holders(d)
    BY <1>1, <1>3, <2>2, QuietHolders
  <2> QED BY <1>1, <1>3, <2>1, <2>3, BooksStay
<1>5. CASE c # None
  <2>1. c \in layerMap /\ c \in Chains /\ layerL = None /\ refCount' = [refCount EXCEPT ![c] = @ + 1]
    BY <1>0, <1>5 DEF CreateRWLayer, Retain
  <2>2. /\ p \notin Holders(c) /\ Holders(c)' = Holders(c) \cup {p}
        /\ \A d \in Chains \ {c} : Holders(d)' = Holders(d)
    BY <1>1, <1>2, <1>3, <2>1, TakeHolders
  <2> QED BY <1>1, <1>3, <2>1, <2>2, BooksRetain
<1> QED BY <1>4, <1>5

\* Steps that hold on to what p holds
LEMMA HoldingBooks ==
    ASSUME Control, Books, NEW p \in Procs,
           \/ \E i \in Ids : DriverCreate(p, i) \/ CreateReadWrite(p, i)
           \/ DriverCreateFails(p) \/ StartTransaction(p) \/ ApplyTar(p) \/ Cleanup(p) \/ SaveMountID(p)
    PROVE  Books'
<1>0. CallTypes
  BY ControlIs
<1>1. /\ UNCHANGED <<layerMap, parent, refCount, panicked, mounts, mountParent, references>>
      /\ pc[p] \in Holding
  <2>1. ASSUME NEW i \in Ids, DriverCreate(p, i) \/ CreateReadWrite(p, i)
        PROVE  /\ UNCHANGED <<layerMap, parent, refCount, panicked, mounts, mountParent, references>>
               /\ pc[p] \in Holding
    BY <2>1 DEF DriverCreate, CreateReadWrite, layerVars, mountVars, Holding
  <2>2. CASE DriverCreateFails(p) \/ StartTransaction(p) \/ ApplyTar(p)
    BY <2>2 DEF DriverCreateFails, StartTransaction, ApplyTar, layerVars, mountVars, Holding
  <2>3. CASE Cleanup(p) \/ SaveMountID(p)
    BY <2>3 DEF Cleanup, SaveMountID, layerVars, mountVars, Holding
  <2> QED BY <2>1, <2>2, <2>3
<1>2. CASE Abandon(p)
  BY <1>1, <1>2, AbandonBooks
<1>3. ASSUME NEW l \in Holding, Goto(p, l), UNCHANGED <<lockVars, target, at>>,
             \E i \in Ids \cup {None} : id' \in {id, [id EXCEPT ![p] = i]}
      PROVE  Books'
  <2>1. pc'[p] = l /\ \A q \in Procs \ {p} : pc'[q] = pc[q] /\ id'[q] = id[q]
    BY <1>0, <1>3 DEF Goto, CallTypes
  <2>2. OfCall(p)
    BY <1>3, <2>1 DEF OfCall, lockVars
  <2>3. pc'[p] \in Holding /\ at'[p] = at[p] /\ pc'[p] \notin Removing
    BY <1>3, <2>1 DEF Holding, Removing
  <2> QED BY <1>1, <2>2, <2>3, QuietBooks
<1>4. ASSUME NEW i \in Ids, DriverCreate(p, i) \/ CreateReadWrite(p, i) PROVE Books'
  <2>1. /\ \E l \in {"begin", "msave"} : Goto(p, l)
        /\ id' = [id EXCEPT ![p] = i] /\ UNCHANGED <<lockVars, target, at>>
    BY <1>4 DEF DriverCreate, CreateReadWrite
  <2> QED BY <1>3, <2>1 DEF Holding
<1>5. CASE DriverCreateFails(p) \/ Cleanup(p)
  BY <1>2, <1>5 DEF DriverCreateFails, Cleanup
<1>6. CASE StartTransaction(p)
  BY <1>2, <1>3, <1>6 DEF StartTransaction, Holding
<1>7. CASE ApplyTar(p)
  BY <1>3, <1>7 DEF ApplyTar, Holding
<1>8. CASE SaveMountID(p)
  BY <1>2, <1>3, <1>8 DEF SaveMountID, Holding
<1> QED BY <1>4, <1>5, <1>6, <1>7, <1>8

\* Commit of a layer that is new: the reference handed out is its only holder, and
\* it holds its parent in place of the call.
LEMMA CommitNewBooks ==
    ASSUME Control, Books, NEW p \in Procs, NEW r \in Refs, NEW c \in Chains,
           pc[p] = "commit", layerL = None, c \notin layerMap, at[p] = Parent[c],
           layerMap' = layerMap \cup {c}, parent' = [parent EXCEPT ![c] = at[p]], refCount' = [refCount EXCEPT ![c] = 1],
           references[r] = None, references' = [references EXCEPT ![r] = c],
           Return(p), UNCHANGED <<mounts, mountParent, panicked>>
    PROVE  Books'
<1>0. /\ CallTypes /\ LayerTypes /\ mounts \subseteq Mounts
      /\ references \in [Refs -> Chains \cup Mounts \cup {None}] /\ None \notin Chains
  BY ControlIs, DistinctAssumption DEF MountTypes, RestTypes
<1>1. OfCall(p) /\ pc'[p] = "idle" /\ at'[p] = None
  BY <1>0, ReturnIs
<1>2. \A q \in Procs \ {p} : pc'[q] = pc[q] /\ at'[q] = at[q]
  BY <1>1 DEF OfCall
<1>3. references'[r] = c /\ \A q \in Refs \ {r} : references'[q] = references[q]
  BY <1>0
<1>13. parent'[c] = Parent[c] /\ \A e \in layerMap : e # c /\ parent'[e] = parent[e]
  BY <1>0 DEF LayerTypes
<1>4. Holders(c) = {}
  BY DEF Books, HeldIsLoaded
<1>5. Parent[c] \in Chains \cup {None} /\ Parent[c] # c
  <2>1. Parent[c] = c => p \in Holders(c)
    BY DEF Holders, Holding
  <2> QED BY <1>4, <2>1, ParentAssumption
<1>6. Holders(c)' = {r}
  <2>1. {q \in Refs : references'[q] = c} = {r}
    BY SMT, <1>3, <1>4 DEF Holders
  <2>2. {d \in layerMap' : parent'[d] = c} = {}
    BY <1>4, <1>5, <1>13 DEF Holders
  <2>3. {m \in mounts' : mountParent'[m] = c} = {}
    BY <1>4 DEF Holders
  <2>4. {q \in Procs : pc'[q] \in Holding /\ at'[q] = c} = {}
    BY <1>0, <1>1, <1>2, <1>4 DEF Holders
  <2> QED BY <2>1, <2>2, <2>3, <2>4 DEF Holders
<1>7. \A d \in Chains \ {c} : d # Parent[c] => Holders(d)' = Holders(d)
  <2> SUFFICES ASSUME NEW d \in Chains \ {c}, d # Parent[c] PROVE Holders(d)' = Holders(d)
    OBVIOUS
  <2>1. {q \in Refs : references'[q] = d} = {q \in Refs : references[q] = d}
    BY <1>0, <1>3
  <2>2. {e \in layerMap' : parent'[e] = d} = {e \in layerMap : parent[e] = d}
    BY <1>13
  <2>3. {n \in mounts' : mountParent'[n] = d} = {n \in mounts : mountParent[n] = d}
    OBVIOUS
  <2>4. {q \in Procs : pc'[q] \in Holding /\ at'[q] = d}
          = {q \in Procs : pc[q] \in Holding /\ at[q] = d}
    BY <1>0, <1>1, <1>2 DEF Holding
  <2> QED BY <2>1, <2>2, <2>3, <2>4 DEF Holders
<1>8. ASSUME Parent[c] # None
      PROVE  /\ Holders(Parent[c])' = (Holders(Parent[c]) \ {p}) \cup {c}
             /\ p \in Holders(Parent[c]) /\ c \notin Holders(Parent[c])
  <2>1. p \in Holders(Parent[c])
    BY DEF Holders, Holding
  <2>2. c \notin Holders(Parent[c])
    BY <1>0, DistinctAssumption DEF Holders, LayerTypes
  <2>3. Holders(Parent[c])' = (Holders(Parent[c]) \ {p}) \cup {c}
    <3>1. {q \in Refs : references'[q] = Parent[c]} = {q \in Refs : references[q] = Parent[c]}
      BY <1>3, <1>5, <1>8
    <3>2. {e \in layerMap' : parent'[e] = Parent[c]}
            = {e \in layerMap : parent[e] = Parent[c]} \cup {c}
      BY <1>13
    <3>3. {n \in mounts' : mountParent'[n] = Parent[c]}
            = {n \in mounts : mountParent[n] = Parent[c]}
      BY <1>0
    <3>4. {q \in Procs : pc'[q] \in Holding /\ at'[q] = Parent[c]}
            = {q \in Procs : pc[q] \in Holding /\ at[q] = Parent[c]} \ {p}
      BY <1>1, <1>2 DEF Holding
    <3>5. p \notin Refs /\ p \notin layerMap /\ p \notin mounts
      BY <1>0, DistinctAssumption DEF LayerTypes, MountTypes
    <3> QED BY <3>1, <3>2, <3>3, <3>4, <3>5 DEF Holders
  <2> QED BY <2>1, <2>2, <2>3
<1>9. HeldIsLoaded'
  <2> SUFFICES ASSUME NEW d \in Chains \ {c}, Holders(d)' # {} PROVE d \in layerMap
    BY DEF HeldIsLoaded
  <2>1. Holders(d) # {}
    BY <1>0, <1>7, <1>8
  <2> QED BY <2>1 DEF Books, HeldIsLoaded
<1>10. CountIsExact'
  <2> SUFFICES ASSUME NEW d \in layerMap' PROVE refCount'[d] = Cardinality(Holders(d)')
    BY DEF CountIsExact
  <2>1. CASE d = c
    <3>1. refCount'[c] = 1
      BY <1>0 DEF LayerTypes
    <3> QED BY <1>6, <2>1, <3>1, FS_Singleton
  <2>2. CASE d # c
    <3>1. d \in layerMap /\ refCount[d] = Cardinality(Holders(d)) /\ IsFiniteSet(Holders(d)) /\ d \in Chains
      BY <2>2, CountIs
    <3>2. refCount'[d] = refCount[d]
      BY <1>0, <2>2, <3>1 DEF LayerTypes
    <3> QED BY SMT, <1>0, <1>7, <1>8, <2>2, <3>1, <3>2, Swap
  <2> QED BY <2>1, <2>2
<1>11. RemovedIsFree'
  BY <1>1, FreeStays DEF Removing
<1>12. NeverPanics'
  BY DEF Books, NeverPanics
<1> QED BY <1>9, <1>10, <1>11, <1>12 DEF Books

LEMMA CommitBooks ==
    ASSUME Control, Books, NEW p \in Procs, NEW r \in Refs, Commit(p, r)
    PROVE  Books'
<1>0. PICK c \in Chains : c = target[p] /\ at[p] = Parent[c]
  BY ControlIs DEF Commit, CallOK, Registering
<1>1. /\ CallTypes /\ LayerTypes /\ mounts \subseteq Mounts
      /\ references \in [Refs -> Chains \cup Mounts \cup {None}] /\ None \notin Chains
      /\ pc[p] = "commit" /\ layerL = None /\ UNCHANGED <<mounts, mountParent, panicked>>
  BY ControlIs, DistinctAssumption DEF Commit, MountTypes, RestTypes, mountVars
<1>2. CASE /\ c \in layerMap /\ Retain(c) /\ NewReference(r, c) /\ Goto(p, "cleanup")
           /\ UNCHANGED <<lockVars, target, at, id, layerMap, parent>>
  <2>1. OfCall(p) /\ pc'[p] = "cleanup"
    BY <1>1, <1>2, GotoIs DEF Pcs
  <2>2. \A q \in Procs : at'[q] = at[q] /\ (pc'[q] \in Holding <=> pc[q] \in Holding)
    BY <1>1, <1>2, <2>1 DEF OfCall, Holding
  <2>3. references[r] = None /\ references'[r] = c /\ \A q \in Refs \ {r} : references'[q] = references[q]
    BY <1>1, <1>2 DEF NewReference
  <2>4. r \notin Holders(c)
    BY <1>1, <2>3, DistinctAssumption DEF Holders, LayerTypes
  <2>5. Holders(c)' = Holders(c) \cup {r}
    BY <1>1, <1>2, <2>2, <2>3 DEF Holders
  <2>6. \A d \in Chains \ {c} : Holders(d)' = Holders(d)
    <3> SUFFICES ASSUME NEW d \in Chains \ {c} PROVE Holders(d)' = Holders(d)
      OBVIOUS
    <3>1. {q \in Refs : references'[q] = d} = {q \in Refs : references[q] = d}
      BY <1>1, <2>3
    <3>2. {e \in layerMap' : parent'[e] = d} = {e \in layerMap : parent[e] = d}
      BY <1>2
    <3>3. {n \in mounts' : mountParent'[n] = d} = {n \in mounts : mountParent[n] = d}
      BY <1>1
    <3>4. {q \in Procs : pc'[q] \in Holding /\ at'[q] = d}
            = {q \in Procs : pc[q] \in Holding /\ at[q] = d}
      BY <2>2
    <3> QED BY <3>1, <3>2, <3>3, <3>4 DEF Holders
  <2>7. refCount' = [refCount EXCEPT ![c] = @ + 1] /\ pc'[p] \notin Removing
    BY <1>2, <2>1 DEF Retain, Removing
  <2> QED BY <1>1, <1>2, <2>1, <2>4, <2>5, <2>6, <2>7, BooksRetain
<1>3. CASE Goto(p, "cleanup") /\ UNCHANGED <<lockVars, target, at, id, layerVars, references>>
  <2>1. OfCall(p) /\ pc'[p] = "cleanup"
    BY <1>1, <1>3, GotoIs DEF Pcs
  <2> QED BY <1>1, <1>3, <2>1, QuietBooks DEF Holding, Removing, layerVars
<1>4. CASE /\ c \notin layerMap /\ layerMap' = layerMap \cup {c}
           /\ parent' = [parent EXCEPT ![c] = at[p]] /\ refCount' = [refCount EXCEPT ![c] = 1]
           /\ NewReference(r, c) /\ Return(p)
  BY <1>0, <1>1, <1>4, CommitNewBooks DEF NewReference
<1> QED BY <1>0, <1>2, <1>3, <1>4 DEF Commit, NewLayer

\* saveMount: the mount holds the layer in place of the call.
LEMMA SaveMountParentBooks ==
    ASSUME Control, Books, NEW p \in Procs, NEW r \in Refs, SaveMountParent(p, r)
    PROVE  Books'
<1>0. /\ CallTypes /\ MountTypes /\ layerMap \subseteq Chains
      /\ references \in [Refs -> Chains \cup Mounts \cup {None}] /\ None \notin Chains
      /\ pc[p] = "mparent" /\ UNCHANGED <<layerMap, parent, refCount, panicked>>
  BY ControlIs, DistinctAssumption DEF SaveMountParent, RestTypes, layerVars, LayerTypes
<1>1. PICK m \in Mounts \ mounts, c \in Chains \cup {None} : m = target[p] /\ c = at[p]
  BY <1>0, ControlIs DEF CallOK, Mounting, CallTypes
<1>2. CASE Abandon(p) /\ UNCHANGED <<mountVars, references>>
  BY <1>0, <1>2, AbandonBooks DEF Holding, mountVars
<1>3. CASE /\ mounts' = mounts \cup {m} /\ mountParent' = [mountParent EXCEPT ![m] = c]
           /\ NewReference(r, m) /\ Return(p)
  <2>1. OfCall(p) /\ pc'[p] = "idle"
    BY <1>0, <1>3, ReturnIs
  <2>2. \A q \in Procs \ {p} : pc'[q] = pc[q] /\ at'[q] = at[q]
    BY <2>1 DEF OfCall
  <2>3. \A q \in Refs, d \in Chains : references'[q] = d <=> references[q] = d
    BY <1>0, <1>3, DistinctAssumption DEF NewReference
  <2>4. mountParent'[m] = c /\ \A n \in mounts : n # m /\ mountParent'[n] = mountParent[n]
    BY <1>0, <1>1, <1>3 DEF MountTypes
  <2>8. CASE c = None
    <3>1. \A d \in Chains : Holders(d)' = Holders(d)
      <4> SUFFICES ASSUME NEW d \in Chains PROVE Holders(d)' = Holders(d)
        OBVIOUS
      <4>1. {q \in Refs : references'[q] = d} = {q \in Refs : references[q] = d}
        BY <2>3
      <4>2. {n \in mounts' : mountParent'[n] = d} = {n \in mounts : mountParent[n] = d}
        BY <1>0, <1>3, <2>4, <2>8
      <4>3. {q \in Procs : pc'[q] \in Holding /\ at'[q] = d} = {q \in Procs : pc[q] \in Holding /\ at[q] = d}
        BY <1>0, <1>1, <2>1, <2>2, <2>8 DEF Holding
      <4> QED BY <1>0, <4>1, <4>2, <4>3 DEF Holders
    <3> QED BY <1>0, <2>1, <3>1, BooksStay DEF Removing
  <2>9. CASE c \in Chains
    <3>5. p \in Holders(c) /\ m \notin Holders(c)
      BY <1>0, <1>1, <2>9, DistinctAssumption DEF Holders, Holding
    <3>6. Holders(c)' = (Holders(c) \ {p}) \cup {m}
      <4>1. {q \in Refs : references'[q] = c} = {q \in Refs : references[q] = c}
        BY <2>3, <2>9
      <4>2. {e \in layerMap' : parent'[e] = c} = {e \in layerMap : parent[e] = c}
        BY <1>0
      <4>3. {n \in mounts' : mountParent'[n] = c} = {n \in mounts : mountParent[n] = c} \cup {m}
        BY <1>3, <2>4
      <4>4. {q \in Procs : pc'[q] \in Holding /\ at'[q] = c} = {q \in Procs : pc[q] \in Holding /\ at[q] = c} \ {p}
        BY <2>1, <2>2 DEF Holding
      <4>5. p \notin Refs /\ p \notin layerMap /\ p \notin mounts
        BY <1>0, DistinctAssumption DEF MountTypes
      <4> QED BY <4>1, <4>2, <4>3, <4>4, <4>5 DEF Holders
    <3>7. \A d \in Chains \ {c} : Holders(d)' = Holders(d)
      <4> SUFFICES ASSUME NEW d \in Chains \ {c} PROVE Holders(d)' = Holders(d)
        OBVIOUS
      <4>1. {q \in Refs : references'[q] = d} = {q \in Refs : references[q] = d}
        BY <2>3
      <4>2. {e \in layerMap' : parent'[e] = d} = {e \in layerMap : parent[e] = d}
        BY <1>0
      <4>3. {n \in mounts' : mountParent'[n] = d} = {n \in mounts : mountParent[n] = d}
        BY <1>3, <2>4
      <4>4. {q \in Procs : pc'[q] \in Holding /\ at'[q] = d} = {q \in Procs : pc[q] \in Holding /\ at[q] = d}
        BY <1>1, <2>1, <2>2 DEF Holding
      <4> QED BY <4>1, <4>2, <4>3, <4>4 DEF Holders
    <3> QED BY <1>0, <2>1, <2>9, <3>5, <3>6, <3>7, BooksSwap DEF Removing
  <2> QED BY <2>8, <2>9
<1> QED BY <1>1, <1>2, <1>3 DEF SaveMountParent, NewMount

\* References on mounts, and the removal of a mount's data, concern no layer.
LEMMA MountReferencesBooks ==
    ASSUME Control, Books, NEW p \in Procs, NEW r \in Refs,
           \/ \E m \in Mounts : GetRWLayer(p, m, r)
           \/ ReleaseRWLayer(p, r) \/ RemoveMountData(p, r)
    PROVE  Books'
<1>0. /\ CallTypes /\ mounts \subseteq Mounts /\ Chains \cap Mounts = {} /\ None \notin Chains
      /\ references \in [Refs -> Chains \cup Mounts \cup {None}]
  BY ControlIs, DistinctAssumption DEF RestTypes, MountTypes
<1>1. UNCHANGED <<layerMap, parent, refCount, panicked, mounts, mountParent>>
  BY DEF GetRWLayer, ReleaseRWLayer, RemoveMountData, layerVars, mountVars
<1>2. ASSUME NEW m \in Mounts, GetRWLayer(p, m, r) PROVE Books'
  <2>1. /\ references[r] = None /\ references' = [references EXCEPT ![r] = m]
        /\ UNCHANGED <<layerL, mountL, pc, target, at, id>>
    BY <1>2 DEF GetRWLayer, NewReference, callVars, lockVars
  <2>2. \A q \in Refs, d \in Chains : references'[q] = d <=> references[q] = d
    BY <1>0, <2>1
  <2> QED BY <1>1, <2>1, <2>2, QuietBooks DEF OfCall
<1>3. CASE ReleaseRWLayer(p, r)
  <2>1. /\ references[r] \in mounts /\ pc[p] = "idle" /\ mountL = None
        /\ references' = [references EXCEPT ![r] = None]
        /\ UNCHANGED <<layerL, at, id>>
    BY <1>3 DEF ReleaseRWLayer
  <2>2. \/ UNCHANGED <<mountL, pc, target>>
        \/ /\ mountL' = p /\ target' = [target EXCEPT ![p] = references[r]]
           /\ pc' = [pc EXCEPT ![p] = "mrmdriver"]
    BY <1>3 DEF ReleaseRWLayer, Goto
  <2>3. \A q \in Refs, d \in Chains : references'[q] = d <=> references[q] = d
    BY <1>0, <2>1
  <2>4. /\ pc'[p] \in {"idle", "mrmdriver"} /\ mountL' \in {mountL, p}
        /\ \A q \in Procs \ {p} : pc'[q] = pc[q] /\ target'[q] = target[q]
    BY <1>0, <2>1, <2>2 DEF CallTypes
  <2>5. OfCall(p)
    BY <2>1, <2>4 DEF OfCall
  <2> QED BY <1>1, <2>1, <2>3, <2>4, <2>5, QuietBooks DEF Holding, Removing
<1>4. CASE RemoveMountData(p, r)
  <2>1. pc[p] = "mrmdriver" /\ target[p] \in Mounts
    BY <1>0, <1>4, ControlIs DEF RemoveMountData, CallOK, Unmounting
  <2>2. CASE Goto(p, "mrmmeta") /\ UNCHANGED <<lockVars, references, target, at, id>>
    <3>1. OfCall(p) /\ pc'[p] = "mrmmeta"
      BY <1>0, <2>2, GotoIs DEF Pcs
    <3> QED BY <1>1, <2>1, <2>2, <3>1, QuietBooks DEF Holding, Removing
  <2>3. CASE Retake(p, r)
    <3>1. OfCall(p) /\ pc'[p] = "idle"
      BY <1>0, <2>3, ReturnIs DEF Retake
    <3>2. \A q \in Refs, d \in Chains : references'[q] = d <=> references[q] = d
      BY <1>0, <2>1, <2>3 DEF Retake, NewReference
    <3> QED BY <1>1, <2>1, <3>1, <3>2, QuietBooks DEF Holding, Removing
  <2> QED BY <1>4, <2>2, <2>3 DEF RemoveMountData
<1> QED BY <1>2, <1>3, <1>4

\* The mount goes, and the call holds its parent.
LEMMA RemoveMountBooks ==
    ASSUME Control, Books, NEW p \in Procs, NEW r \in Refs, RemoveMount(p, r)
    PROVE  Books'
<1>0. /\ CallTypes /\ MountTypes /\ layerMap \subseteq Chains /\ Chains \cap Mounts = {}
      /\ references \in [Refs -> Chains \cup Mounts \cup {None}] /\ None \notin Chains
      /\ pc[p] = "mrmmeta" /\ UNCHANGED <<layerMap, parent, refCount, panicked>>
  BY ControlIs, DistinctAssumption DEF RemoveMount, RestTypes, layerVars, LayerTypes
<1>1. PICK m \in mounts : m = target[p]
  BY <1>0, ControlIs DEF CallOK, Unmounting
<1>2. m \in Mounts /\ mountParent[m] \in Chains \cup {None}
  BY <1>0 DEF MountTypes
<1>3. CASE Retake(p, r) /\ UNCHANGED mountVars
  <2>1. OfCall(p) /\ pc'[p] = "idle"
    BY <1>0, <1>3, ReturnIs DEF Retake
  <2>2. \A q \in Refs, d \in Chains : references'[q] = d <=> references[q] = d
    BY <1>0, <1>1, <1>2, <1>3 DEF Retake, NewReference
  <2> QED BY <1>0, <1>3, <2>1, <2>2, QuietBooks DEF Holding, Removing, mountVars
<1>4. CASE /\ mounts' = mounts \ {m} /\ mountParent' = [mountParent EXCEPT ![m] = None]
           /\ IF mountParent[m] = None THEN Return(p)
              ELSE /\ at' = [at EXCEPT ![p] = mountParent[m]] /\ Goto(p, "release")
                   /\ UNCHANGED <<lockVars, target, id>>
           /\ UNCHANGED references
  <2>1. \A n \in mounts' : n \in mounts /\ n # m /\ mountParent'[n] = mountParent[n]
    BY <1>0, <1>4 DEF MountTypes
  <2>2. CASE mountParent[m] = None
    <3>1. OfCall(p) /\ pc'[p] = "idle"
      BY <1>0, <1>4, <2>2, ReturnIs
    <3>2. \A q \in Procs \ {p} : pc'[q] = pc[q] /\ at'[q] = at[q]
      BY <3>1 DEF OfCall
    <3>3. \A d \in Chains : Holders(d)' = Holders(d)
      <4> SUFFICES ASSUME NEW d \in Chains PROVE Holders(d)' = Holders(d)
        OBVIOUS
      <4>0. d # None
        BY <1>0
      <4>1. {q \in Refs : references'[q] = d} = {q \in Refs : references[q] = d}
        BY <1>4
      <4>2. {e \in layerMap' : parent'[e] = d} = {e \in layerMap : parent[e] = d}
        BY <1>0
      <4>3. {n \in mounts' : mountParent'[n] = d} = {n \in mounts : mountParent[n] = d}
        BY <1>4, <2>1, <2>2, <4>0
      <4>4. {q \in Procs : pc'[q] \in Holding /\ at'[q] = d} = {q \in Procs : pc[q] \in Holding /\ at[q] = d}
        BY <1>0, <3>1, <3>2 DEF Holding
      <4> QED BY <4>1, <4>2, <4>3, <4>4 DEF Holders
    <3> QED BY <1>0, <3>1, <3>3, BooksStay DEF Removing
  <2>3. CASE mountParent[m] # None
    <3>1. PICK c \in Chains : c = mountParent[m]
      BY <1>2, <2>3
    <3>2. /\ at' = [at EXCEPT ![p] = c] /\ pc' = [pc EXCEPT ![p] = "release"]
          /\ UNCHANGED <<layerL, mountL, target, id>>
      BY <1>4, <2>3, <3>1 DEF Goto, lockVars
    <3>3. /\ pc'[p] = "release" /\ at'[p] = c
          /\ \A q \in Procs \ {p} : pc'[q] = pc[q] /\ at'[q] = at[q]
      BY <1>0, <3>2 DEF CallTypes
    <3>4. OfCall(p) /\ pc'[p] \notin Removing
      BY <3>2, <3>3 DEF OfCall, Removing
    <3>5. m \in Holders(c) /\ p \notin Holders(c)
      BY <1>0, <1>1, <3>1, DistinctAssumption DEF Holders, Holding, MountTypes
    <3>6. Holders(c)' = (Holders(c) \ {m}) \cup {p}
      <4>1. {q \in Refs : references'[q] = c} = {q \in Refs : references[q] = c}
        BY <1>4
      <4>2. {e \in layerMap' : parent'[e] = c} = {e \in layerMap : parent[e] = c}
        BY <1>0
      <4>3. {n \in mounts' : mountParent'[n] = c} = {n \in mounts : mountParent[n] = c} \ {m}
        BY <1>4, <2>1
      <4>4. {q \in Procs : pc'[q] \in Holding /\ at'[q] = c} = {q \in Procs : pc[q] \in Holding /\ at[q] = c} \cup {p}
        BY <3>3 DEF Holding
      <4>5. m \notin Refs /\ m \notin layerMap /\ m \notin Procs
        BY <1>0, <1>2, DistinctAssumption
      <4> QED BY <4>1, <4>2, <4>3, <4>4, <4>5 DEF Holders
    <3>7. \A d \in Chains \ {c} : Holders(d)' = Holders(d)
      <4> SUFFICES ASSUME NEW d \in Chains \ {c} PROVE Holders(d)' = Holders(d)
        OBVIOUS
      <4>1. {q \in Refs : references'[q] = d} = {q \in Refs : references[q] = d}
        BY <1>4
      <4>2. {e \in layerMap' : parent'[e] = d} = {e \in layerMap : parent[e] = d}
        BY <1>0
      <4>3. {n \in mounts' : mountParent'[n] = d} = {n \in mounts : mountParent[n] = d}
        BY <1>4, <2>1, <3>1
      <4>4. {q \in Procs : pc'[q] \in Holding /\ at'[q] = d} = {q \in Procs : pc[q] \in Holding /\ at[q] = d}
        BY <1>0, <3>3 DEF Holding
      <4> QED BY <4>1, <4>2, <4>3, <4>4 DEF Holders
    <3> QED BY <1>0, <3>4, <3>5, <3>6, <3>7, BooksSwap
  <2> QED BY <2>2, <2>3
<1> QED BY <1>1, <1>3, <1>4 DEF RemoveMount

\* The counts a restart starts with are those of the children and mounts it loads.
LEMMA RestartBooks ==
    ASSUME Control, Books, Restart
    PROVE  Books'
<1>1. /\ pc' = [p \in Procs |-> "idle"] /\ references' = [r \in Refs |-> None]
      /\ layerMap' = Loadable' /\ UNCHANGED panicked
      /\ parent' = [c \in Chains |-> IF c \in layerMap' THEN metaParent'[c] ELSE None]
  BY DEF Restart
<1>2. \A c \in layerMap' : c \in Chains /\ parent'[c] \in layerMap' \cup {None}
  <2>1. \A c \in Loadable' : c \in Chains /\ metaParent'[c] \in Loadable' \cup {None}
    BY DEF Loadable
  <2> QED BY <1>1, <2>1
<1>3. mounts' \subseteq Mounts /\ \A m \in mounts' : mountParent'[m] \in layerMap' \cup {None}
  BY DEF Restart, LoadableMounts
<1>4. None \notin Chains
  BY DistinctAssumption
<1>5. \A c \in Chains : Holders(c)' = {d \in layerMap' : parent'[d] = c} \cup
                                      {m \in mounts' : mountParent'[m] = c}
  BY <1>1, <1>3, <1>4 DEF Holders, Holding
<1>6. HeldIsLoaded'
  BY SMT, <1>2, <1>3, <1>4, <1>5 DEF HeldIsLoaded
<1>7. CountIsExact'
  <2>1. refCount' = [c \in Chains |-> Cardinality({d \in layerMap' : parent'[d] = c} \cup
                                                  {m \in mounts' : mountParent'[m] = c})]
    BY DEF Restart
  <2> QED BY <1>2, <1>5, <2>1 DEF CountIsExact
<1>8. RemovedIsFree'
  BY <1>1 DEF RemovedIsFree, Removing
<1>9. NeverPanics'
  BY <1>1 DEF Books, NeverPanics
<1> QED BY <1>6, <1>7, <1>8, <1>9 DEF Books

LEMMA InitBooks == Init => Books
<1> SUFFICES ASSUME Init PROVE Books
  OBVIOUS
<1>1. \A c \in Chains : Holders(c) = {}
  BY DistinctAssumption DEF Init, Holders, Holding
<1> QED BY <1>1 DEF Init, Books, HeldIsLoaded, CountIsExact, RemovedIsFree, Removing, NeverPanics

\* Every step keeps Books.
LEMMA NextBooks == Control /\ Books /\ [Next]_vars => Books'
<1> SUFFICES ASSUME Control, Books, [Next]_vars PROVE Books'
  OBVIOUS
<1>1. CASE UNCHANGED vars
  <2>1. UNCHANGED <<layerMap, parent, refCount, mounts, mountParent, references, pc, at, panicked>>
    BY <1>1 DEF vars, layerVars, mountVars, callVars
  <2>2. \A c : Holders(c)' = Holders(c)
    BY <2>1 DEF Holders
  <2>3. \A p \in Procs : Holders(at[p])' = Holders(at[p])
    BY <2>1 DEF Holders
  <2> QED BY <2>1, <2>2, <2>3 DEF Books, HeldIsLoaded, CountIsExact, RemovedIsFree, NeverPanics
<1>2. CASE Restart
  BY <1>2, RestartBooks
<1>3. ASSUME NEW p \in Procs, Step(p) PROVE Books'
  BY <1>3, GetBooks, ReleaseBooks, ReleaseLayerBooks, DeleteBooks, RegisterBooks, HoldingBooks,
     CommitBooks, CreateRWLayerBooks, SaveMountParentBooks, MountReferencesBooks,
     RemoveMountBooks DEF Step
<1> QED BY <1>1, <1>2, <1>3 DEF Next

-----------------------------------------------------------------------------
(* Memory, disk and the driver                                              *)

Applying == {"begin", "apply", "commit"}

\* The IDs in memory are on disk.
MemoryIsDisk ==
    /\ \A c \in layerMap : cacheID[c] = meta[c] /\ meta[c] \in Ids
    /\ \A m \in mounts : mountID[m] = diskMountID[m]
    /\ \A p \in Procs : pc[p] = "mparent" => diskMountID[target[p]] = id[p]

\* A driver ID has one user: a layer on disk, a mount on disk, or a call.  Only
\* saveMount shares one, with the mount it saves.
IdsDiffer ==
    /\ \A c, d \in Chains : meta[c] \in Ids /\ meta[c] = meta[d] => c = d
    /\ \A c \in Chains, m \in Mounts : meta[c] \in Ids => meta[c] # diskMountID[m]
    /\ \A c \in Chains, p \in Procs : meta[c] \in Ids => meta[c] # id[p]
    /\ \A p, q \in Procs : id[p] \in Ids /\ id[p] = id[q] => p = q
    /\ \A p \in Procs, m \in Mounts :
          id[p] \in Ids /\ diskMountID[m] = id[p] => pc[p] = "mparent" /\ target[p] = m

\* The driver has the data of a layer on disk, unless deleteLayer is between
\* removing its data and its metadata, or has stopped there.
DataIsThere ==
    /\ \A p \in Procs : pc[p] \in Applying => id[p] \in driver
    /\ \A c \in Chains \ suspect :
          meta[c] \in Ids => meta[c] \in driver \/ \E p \in Procs : pc[p] = "rmmeta" /\ at[p] = c

Disk == MemoryIsDisk /\ IdsDiffer /\ DataIsThere

\* IDs keep their users as long as nobody gets one.
LEMMA IdsStay ==
    ASSUME IdsDiffer,
           \A c \in Chains : meta'[c] \in Ids => meta'[c] = meta[c],
           \A m \in Mounts : diskMountID'[m] \in Ids => diskMountID'[m] = diskMountID[m],
           \A q \in Procs : id'[q] \in Ids => id'[q] = id[q],
           \A q \in Procs : id'[q] \in Ids /\ pc[q] = "mparent"
                              => pc'[q] = "mparent" /\ target'[q] = target[q]
    PROVE  IdsDiffer'
<1>1. \A c, d \in Chains : meta'[c] \in Ids /\ meta'[c] = meta'[d] => c = d
  <2> SUFFICES ASSUME NEW c \in Chains, NEW d \in Chains, meta'[c] \in Ids, meta'[c] = meta'[d]
               PROVE  c = d
    OBVIOUS
  <2>1. meta[c] \in Ids /\ meta[c] = meta[d]
    OBVIOUS
  <2> QED BY <2>1 DEF IdsDiffer
<1>2. \A c \in Chains, m \in Mounts : meta'[c] \in Ids => meta'[c] # diskMountID'[m]
  <2> SUFFICES ASSUME NEW c \in Chains, NEW m \in Mounts, meta'[c] \in Ids,
                      meta'[c] = diskMountID'[m]
               PROVE  FALSE
    OBVIOUS
  <2>1. meta[c] \in Ids /\ meta[c] = diskMountID[m]
    OBVIOUS
  <2> QED BY <2>1 DEF IdsDiffer
<1>3. \A c \in Chains, q \in Procs : meta'[c] \in Ids => meta'[c] # id'[q]
  <2> SUFFICES ASSUME NEW c \in Chains, NEW q \in Procs, meta'[c] \in Ids, meta'[c] = id'[q]
               PROVE  FALSE
    OBVIOUS
  <2>1. meta[c] \in Ids /\ meta[c] = id[q]
    OBVIOUS
  <2> QED BY <2>1 DEF IdsDiffer
<1>4. \A q, r \in Procs : id'[q] \in Ids /\ id'[q] = id'[r] => q = r
  <2> SUFFICES ASSUME NEW q \in Procs, NEW r \in Procs, id'[q] \in Ids, id'[q] = id'[r]
               PROVE  q = r
    OBVIOUS
  <2>1. id[q] \in Ids /\ id[q] = id[r]
    OBVIOUS
  <2> QED BY <2>1 DEF IdsDiffer
<1>5. \A q \in Procs, m \in Mounts :
         id'[q] \in Ids /\ diskMountID'[m] = id'[q] => pc'[q] = "mparent" /\ target'[q] = m
  <2> SUFFICES ASSUME NEW q \in Procs, NEW m \in Mounts, id'[q] \in Ids, diskMountID'[m] = id'[q]
               PROVE  pc'[q] = "mparent" /\ target'[q] = m
    OBVIOUS
  <2>1. id[q] \in Ids /\ diskMountID[m] = id[q]
    OBVIOUS
  <2>2. pc[q] = "mparent" /\ target[q] = m
    BY <2>1 DEF IdsDiffer
  <2> QED BY <2>2
<1> QED BY <1>1, <1>2, <1>3, <1>4, <1>5 DEF IdsDiffer

\* Data stays where it is as long as driver and layers on disk are left alone.
LEMMA DataStays ==
    ASSUME DataIsThere, NEW p \in Procs, UNCHANGED <<driver, meta>>, suspect \cap Chains \subseteq suspect',
           \A q \in Procs \ {p} : pc'[q] = pc[q] /\ at'[q] = at[q] /\ id'[q] = id[q],
           pc[p] # "rmmeta",
           pc'[p] \in Applying => pc[p] \in Applying /\ id'[p] = id[p]
    PROVE  DataIsThere'
<1>1. \A q \in Procs : pc'[q] \in Applying => id'[q] \in driver'
  <2> SUFFICES ASSUME NEW q \in Procs, pc'[q] \in Applying PROVE id'[q] \in driver
    OBVIOUS
  <2>1. pc[q] \in Applying /\ id'[q] = id[q]
    OBVIOUS
  <2> QED BY <2>1 DEF DataIsThere
<1>2. \A c \in Chains \ suspect' :
         meta'[c] \in Ids => meta'[c] \in driver' \/ \E q \in Procs : pc'[q] = "rmmeta" /\ at'[q] = c
  <2> SUFFICES ASSUME NEW c \in Chains \ suspect', meta[c] \in Ids, meta[c] \notin driver
               PROVE  \E q \in Procs : pc'[q] = "rmmeta" /\ at'[q] = c
    OBVIOUS
  <2>1. PICK q \in Procs : pc[q] = "rmmeta" /\ at[q] = c
    BY DEF DataIsThere
  <2> QED BY <2>1
<1> QED BY <1>1, <1>2 DEF DataIsThere

\* Outside the calls, the step leaves what Disk is about.
SameDisk ==
    /\ UNCHANGED <<layerMap, cacheID, mounts, mountID, driver, meta, diskMountID>>
    /\ suspect \cap Chains \subseteq suspect'

LEMMA SameIs ==
    ASSUME UNCHANGED diskVars, UNCHANGED mountVars, UNCHANGED <<layerMap, cacheID, suspect>>
    PROVE  SameDisk
BY DEF SameDisk, diskVars, metaVars, diskMount, mountVars

\* A step that writes nothing to disk or driver
LEMMA DiskStays ==
    ASSUME Control, Disk, NEW p \in Procs, OfCall(p),
           SameDisk,
           id'[p] \in {id[p], None}, id'[p] = None \/ pc[p] # "mparent",
           pc'[p] # "mparent", pc[p] # "rmmeta",
           pc'[p] \in Applying => pc[p] \in Applying /\ id'[p] = id[p]
    PROVE  Disk'
<1>1. /\ None \notin Ids /\ suspect \cap Chains \subseteq suspect'
      /\ UNCHANGED <<layerMap, cacheID, mounts, mountID, driver, meta, diskMountID>>
  BY DistinctAssumption DEF SameDisk
<1>2. \A q \in Procs \ {p} : pc'[q] = pc[q] /\ target'[q] = target[q] /\ at'[q] = at[q] /\ id'[q] = id[q]
  BY DEF OfCall
<1>3. MemoryIsDisk'
  BY SMT, <1>1, <1>2 DEF Disk, MemoryIsDisk
<1>4. IdsDiffer'
  <2>1. \A q \in Procs : id'[q] \in Ids => id'[q] = id[q]
    BY <1>1, <1>2
  <2>2. \A q \in Procs : id'[q] \in Ids /\ pc[q] = "mparent" => pc'[q] = pc[q] /\ target'[q] = target[q]
    BY <1>1, <1>2
  <2> QED BY <1>1, <2>1, <2>2, IdsStay DEF Disk
<1>5. DataIsThere'
  BY <1>1, <1>2, DataStays DEF Disk
<1> QED BY <1>3, <1>4, <1>5 DEF Disk

\* A call that fails or returns without writing anything
LEMMA AbandonDisk ==
    ASSUME Control, Disk, NEW p \in Procs, Abandon(p) \/ Return(p), pc[p] # "rmmeta",
           SameDisk
    PROVE  Disk'
<1>1. CallTypes
  BY ControlIs
<1>2. OfCall(p) /\ id'[p] = None /\ pc'[p] \in {"idle", "release"}
  BY <1>1, AbandonIs, ReturnIs
<1> QED BY <1>2, DiskStays DEF Applying

\* A call that goes on without writing anything
LEMMA GotoDisk ==
    ASSUME Control, Disk, NEW p \in Procs, NEW l \in Pcs \ {"mparent"}, Goto(p, l),
           UNCHANGED <<target, at, id>>, UNCHANGED lockVars,
           pc[p] \notin {"rmmeta", "mparent"}, l \in Applying => pc[p] \in Applying,
           SameDisk
    PROVE  Disk'
<1>1. CallTypes
  BY ControlIs
<1>2. OfCall(p) /\ pc'[p] = l
  BY <1>1, GotoIs
<1> QED BY <1>2, DiskStays

-----------------------------------------------------------------------------
(* Every step keeps Disk                                                    *)

\* Get, GetRWLayer, Release, ReleaseRWLayer, Register and CreateRWLayer begin with
\* a step in memory.
LEMMA BeginDisk ==
    ASSUME Control, Disk, NEW p \in Procs,
           \/ \E r \in Refs : \/ \E c \in Chains : Get(p, c, r)
                              \/ \E m \in Mounts : GetRWLayer(p, m, r)
                              \/ Release(p, r) \/ ReleaseRWLayer(p, r)
           \/ \E c \in Chains : Register(p, c)
           \/ \E m \in Mounts, c \in Chains \cup {None} : CreateRWLayer(p, m, c)
    PROVE  Disk'
<1>0. CallTypes
  BY ControlIs
<1>1. ASSUME pc[p] = "idle", UNCHANGED diskVars, UNCHANGED mountVars,
             UNCHANGED <<layerMap, cacheID, parent, suspect, id>>,
             pc'[p] \in {"idle", "release", "mrmdriver", "create", "mcreate"},
             \A q \in Procs \ {p} : pc'[q] = pc[q] /\ target'[q] = target[q] /\ at'[q] = at[q],
             layerL' = layerL \/ (layerL = None /\ layerL' = p),
             mountL' = mountL \/ (mountL = None /\ mountL' = p)
      PROVE  Disk'
  <2>1. OfCall(p)
    BY <1>1 DEF OfCall
  <2>2. SameDisk
    BY <1>1, SameIs
  <2> QED BY <1>1, <2>1, <2>2, DiskStays DEF Applying
<1>3. ASSUME NEW r \in Refs, \/ \E c \in Chains : Get(p, c, r)
                             \/ \E m \in Mounts : GetRWLayer(p, m, r)
      PROVE  Disk'
  <2>1. /\ pc[p] = "idle" /\ UNCHANGED diskVars /\ UNCHANGED mountVars
        /\ UNCHANGED <<layerMap, cacheID, parent, suspect, id>> /\ UNCHANGED <<layerL, mountL, pc, target, at>>
    BY <1>3 DEF Get, GetRWLayer, callVars, lockVars, layerVars
  <2> QED BY <1>1, <2>1
<1>4. ASSUME NEW r \in Refs, Release(p, r) PROVE Disk'
  <2>1. /\ pc[p] = "idle" /\ UNCHANGED diskVars /\ UNCHANGED mountVars
        /\ UNCHANGED <<layerMap, cacheID, parent, suspect, id>> /\ UNCHANGED <<mountL, target>>
        /\ layerL = None /\ layerL' = p
        /\ pc' = [pc EXCEPT ![p] = "release"] /\ at' = [at EXCEPT ![p] = references[r]]
    BY <1>4 DEF Release, Goto, layerVars
  <2>5. /\ pc'[p] \in {"idle", "release", "mrmdriver", "create", "mcreate"}
        /\ \A q \in Procs \ {p} : pc'[q] = pc[q] /\ target'[q] = target[q] /\ at'[q] = at[q]
    BY <1>0, <2>1 DEF CallTypes
  <2> QED BY <1>1, <2>1, <2>5
<1>5. ASSUME NEW r \in Refs, ReleaseRWLayer(p, r) PROVE Disk'
  <2>1. /\ pc[p] = "idle" /\ UNCHANGED diskVars /\ UNCHANGED mountVars /\ mountL = None
        /\ UNCHANGED <<layerMap, cacheID, parent, suspect, id>> /\ UNCHANGED <<layerL, at>>
    BY <1>5 DEF ReleaseRWLayer, layerVars
  <2>2. \/ UNCHANGED <<mountL, pc, target>>
        \/ /\ mountL' = p /\ target' = [target EXCEPT ![p] = references[r]]
           /\ pc' = [pc EXCEPT ![p] = "mrmdriver"]
    BY <1>5 DEF ReleaseRWLayer, Goto
  <2>5. /\ pc'[p] \in {"idle", "release", "mrmdriver", "create", "mcreate"}
        /\ \A q \in Procs \ {p} : pc'[q] = pc[q] /\ target'[q] = target[q] /\ at'[q] = at[q]
    BY <1>0, <2>1, <2>2 DEF CallTypes
  <2> QED BY <1>1, <2>1, <2>2, <2>5
<1>6. ASSUME NEW c \in Chains, Register(p, c) PROVE Disk'
  <2>1. /\ pc[p] = "idle" /\ UNCHANGED diskVars /\ UNCHANGED mountVars
        /\ UNCHANGED <<layerMap, cacheID, parent, suspect, id>> /\ UNCHANGED <<layerL, mountL>>
        /\ target' = [target EXCEPT ![p] = c] /\ at' = [at EXCEPT ![p] = Parent[c]]
        /\ \E l \in {"create", "release"} : pc' = [pc EXCEPT ![p] = l]
    BY <1>6 DEF Register, Goto, lockVars
  <2>5. /\ pc'[p] \in {"idle", "release", "mrmdriver", "create", "mcreate"}
        /\ \A q \in Procs \ {p} : pc'[q] = pc[q] /\ target'[q] = target[q] /\ at'[q] = at[q]
    BY <1>0, <2>1 DEF CallTypes
  <2> QED BY <1>1, <2>1, <2>5
<1>7. ASSUME NEW m \in Mounts, NEW c \in Chains \cup {None}, CreateRWLayer(p, m, c) PROVE Disk'
  <2>1. /\ pc[p] = "idle" /\ UNCHANGED diskVars /\ UNCHANGED mountVars
        /\ UNCHANGED <<layerMap, cacheID, parent, suspect, id>> /\ UNCHANGED layerL
        /\ mountL = None /\ mountL' = p
        /\ target' = [target EXCEPT ![p] = m] /\ at' = [at EXCEPT ![p] = c]
        /\ pc' = [pc EXCEPT ![p] = "mcreate"]
    BY <1>7 DEF CreateRWLayer, Goto
  <2>5. /\ pc'[p] \in {"idle", "release", "mrmdriver", "create", "mcreate"}
        /\ \A q \in Procs \ {p} : pc'[q] = pc[q] /\ target'[q] = target[q] /\ at'[q] = at[q]
    BY <1>0, <2>1 DEF CallTypes
  <2> QED BY <1>1, <2>1, <2>5
<1> QED BY <1>3, <1>4, <1>5, <1>6, <1>7

\* driver.Create and CreateReadWrite: an ID nobody else has
LEMMA CreateDisk ==
    ASSUME Control, Disk, NEW p \in Procs, NEW i \in Ids,
           DriverCreate(p, i) \/ CreateReadWrite(p, i)
    PROVE  Disk'
<1>1. /\ UNCHANGED <<meta, diskMountID, layerMap, cacheID, mounts, mountID, target, at, suspect>>
      /\ driver' = driver \cup {i} /\ id' = [id EXCEPT ![p] = i]
      /\ \E l \in {"begin", "msave"} : pc' = [pc EXCEPT ![p] = l]
      /\ pc[p] \in {"create", "mcreate"} /\ FreshId(i)
  BY DEF DriverCreate, CreateReadWrite, layerVars, mountVars, metaVars, diskMount, Goto
<1>2. CallTypes
  BY ControlIs
<1>3. /\ id'[p] = i /\ pc'[p] \in {"begin", "msave"}
      /\ \A q \in Procs \ {p} : pc'[q] = pc[q] /\ id'[q] = id[q]
  BY <1>1, <1>2 DEF CallTypes
<1>4. /\ \A c \in Chains : i # meta[c]
      /\ \A m \in Mounts : i # diskMountID[m]
      /\ \A q \in Procs : i # id[q]
  BY <1>1 DEF FreshId
<1>5. MemoryIsDisk'
  BY <1>1, <1>3 DEF Disk, MemoryIsDisk
<1>6. IdsDiffer'
  <2>0. IdsDiffer /\ meta' = meta /\ diskMountID' = diskMountID /\ target' = target
    BY <1>1 DEF Disk
  <2>1. \A c, d \in Chains : meta'[c] \in Ids /\ meta'[c] = meta'[d] => c = d
    BY <2>0 DEF IdsDiffer
  <2>2. \A c \in Chains, m \in Mounts : meta'[c] \in Ids => meta'[c] # diskMountID'[m]
    BY <2>0 DEF IdsDiffer
  <2>3. ASSUME NEW c \in Chains, NEW q \in Procs, meta'[c] \in Ids PROVE meta'[c] # id'[q]
    <3>1. meta[c] # i /\ meta[c] # id[q]
      BY <1>4, <2>0, <2>3 DEF IdsDiffer
    <3> QED BY <1>3, <2>0, <3>1
  <2>4. ASSUME NEW q \in Procs, NEW s \in Procs, id'[q] \in Ids, id'[q] = id'[s] PROVE q = s
    <3>1. CASE q = p \/ s = p
      BY <1>3, <1>4, <2>4, <3>1
    <3>2. CASE q # p /\ s # p
      <4>1. id[q] \in Ids /\ id[q] = id[s]
        BY <1>3, <2>4, <3>2
      <4> QED BY <2>0, <4>1 DEF IdsDiffer
    <3> QED BY <3>1, <3>2
  <2>5. ASSUME NEW q \in Procs, NEW m \in Mounts, id'[q] \in Ids, diskMountID'[m] = id'[q]
        PROVE  pc'[q] = "mparent" /\ target'[q] = m
    <3>1. q # p
      BY <1>3, <1>4, <2>0, <2>5
    <3>2. pc'[q] = pc[q] /\ id'[q] = id[q]
      BY <1>3, <3>1
    <3>3. id[q] \in Ids /\ diskMountID[m] = id[q]
      BY <2>0, <2>5, <3>2
    <3> QED BY <2>0, <3>2, <3>3 DEF IdsDiffer
  <2> QED BY <2>1, <2>2, <2>3, <2>4, <2>5 DEF IdsDiffer
<1>7. DataIsThere'
  <2>0. driver' = driver \cup {i} /\ i \in driver'
    BY <1>1
  <2>1. ASSUME NEW q \in Procs, pc'[q] \in Applying PROVE id'[q] \in driver'
    <3>1. CASE q = p
      BY <1>3, <2>0, <3>1
    <3>2. CASE q # p
      <4>1. pc[q] \in Applying /\ id'[q] = id[q]
        BY <1>3, <2>1, <3>2
      <4>2. id[q] \in driver
        BY <4>1 DEF Disk, DataIsThere
      <4> QED BY <2>0, <4>1, <4>2
    <3> QED BY <3>1, <3>2
  <2>2. ASSUME NEW c \in Chains \ suspect', meta'[c] \in Ids
        PROVE  meta'[c] \in driver' \/ \E q \in Procs : pc'[q] = "rmmeta" /\ at'[q] = c
    <3>1. c \notin suspect /\ meta[c] \in Ids /\ meta'[c] = meta[c] /\ at' = at
      BY <1>1, <2>2
    <3>2. meta[c] \in driver \/ \E q \in Procs : pc[q] = "rmmeta" /\ at[q] = c
      BY <3>1 DEF Disk, DataIsThere
    <3>3. CASE meta[c] \in driver
      BY <2>0, <3>1, <3>3
    <3>4. CASE \E q \in Procs : pc[q] = "rmmeta" /\ at[q] = c
      <4>1. PICK q \in Procs : pc[q] = "rmmeta" /\ at[q] = c
        BY <3>4
      <4>2. q # p
        BY <1>1, <4>1
      <4>3. pc'[q] = "rmmeta" /\ at'[q] = c
        BY <1>3, <3>1, <4>1, <4>2
      <4> QED BY <4>3
    <3> QED BY <3>2, <3>3, <3>4
  <2> QED BY <2>1, <2>2 DEF DataIsThere
<1> QED BY <1>5, <1>6, <1>7 DEF Disk

\* A step of p that removes from the driver what is on no other layer and under
\* no other call
LEMMA DropDisk ==
    ASSUME Control, Disk, NEW p \in Procs, OfCall(p), NEW i,
           driver' = driver \ {i},
           UNCHANGED <<meta, diskMountID, layerMap, cacheID, mounts, mountID>>,
           suspect \cap Chains \subseteq suspect',
           id'[p] \in {id[p], None}, pc[p] \notin {"rmmeta", "mparent"},
           pc'[p] \notin {"begin", "apply", "commit", "mparent"},
           \A q \in Procs \ {p} : pc[q] \in Applying => id[q] # i,
           \A c \in Chains \ suspect' : meta[c] = i => pc'[p] = "rmmeta" /\ at'[p] = c
    PROVE  Disk'
<1>1. None \notin Ids
  BY DistinctAssumption
<1>2. \A q \in Procs \ {p} : pc'[q] = pc[q] /\ target'[q] = target[q] /\ at'[q] = at[q] /\ id'[q] = id[q]
  BY DEF OfCall
<1>3. MemoryIsDisk'
  <2>1. \A c \in layerMap' : cacheID'[c] = meta'[c] /\ meta'[c] \in Ids
    BY DEF Disk, MemoryIsDisk
  <2>2. \A m \in mounts' : mountID'[m] = diskMountID'[m]
    BY <1>1 DEF Disk, MemoryIsDisk
  <2>3. ASSUME NEW q \in Procs, pc'[q] = "mparent" PROVE diskMountID'[target'[q]] = id'[q]
    <3>1. q # p
      BY <2>3
    <3>2. pc[q] = "mparent" /\ target'[q] = target[q] /\ id'[q] = id[q]
      BY <1>2, <2>3, <3>1
    <3>3. diskMountID[target[q]] = id[q]
      BY <3>2 DEF Disk, MemoryIsDisk
    <3> QED BY <3>2, <3>3
  <2> QED BY <2>1, <2>2, <2>3 DEF MemoryIsDisk
<1>4. IdsDiffer'
  <2>1. \A q \in Procs : id'[q] \in Ids => id'[q] = id[q]
    BY <1>1, <1>2
  <2>2. \A q \in Procs : pc[q] = "mparent" => pc'[q] = pc[q] /\ target'[q] = target[q]
    BY <1>2
  <2> QED BY <2>1, <2>2, IdsStay DEF Disk
<1>5. DataIsThere'
  <2>1. ASSUME NEW q \in Procs, pc'[q] \in Applying PROVE id'[q] \in driver'
    <3>1. q # p
      BY <2>1 DEF Applying
    <3>2. pc[q] \in Applying /\ id'[q] = id[q]
      BY <1>2, <2>1, <3>1
    <3>3. id[q] \in driver
      BY <3>2 DEF Disk, DataIsThere
    <3>4. id[q] # i
      BY <3>1, <3>2
    <3> QED BY <3>2, <3>3, <3>4
  <2>2. ASSUME NEW c \in Chains \ suspect', meta'[c] \in Ids
        PROVE  meta'[c] \in driver' \/ \E q \in Procs : pc'[q] = "rmmeta" /\ at'[q] = c
    <3>1. CASE meta[c] = i
      BY <3>1
    <3>2. CASE meta[c] # i
      <4>1. meta[c] \in driver \/ \E q \in Procs : pc[q] = "rmmeta" /\ at[q] = c
        BY <2>2 DEF Disk, DataIsThere
      <4>2. CASE meta[c] \in driver
        BY <3>2, <4>2
      <4>3. CASE \E q \in Procs : pc[q] = "rmmeta" /\ at[q] = c
        <5>1. PICK q \in Procs : pc[q] = "rmmeta" /\ at[q] = c
          BY <4>3
        <5>2. pc'[q] = "rmmeta" /\ at'[q] = c
          BY <1>2, <5>1
        <5> QED BY <5>2
      <4> QED BY <4>1, <4>2, <4>3
    <3> QED BY <3>1, <3>2
  <2> QED BY <2>1, <2>2 DEF DataIsThere
<1> QED BY <1>3, <1>4, <1>5 DEF Disk

\* deleteLayer takes the data of its layer only; on an error, that or nothing.
LEMMA DeleteDataDisk ==
    ASSUME Control, Books, Disk, NEW p \in Procs, DeleteData(p)
    PROVE  Disk'
<1>1. /\ UNCHANGED <<meta, diskMountID, layerMap, cacheID, mounts, mountID>> /\ pc[p] = "rmdriver"
      /\ suspect \subseteq suspect'
  BY DEF DeleteData, layerVars, mountVars, metaVars, diskMount
<1>0. CallTypes
  BY ControlIs
<1>2. CASE Return(p) /\ UNCHANGED driver
  BY <1>1, <1>2, AbandonDisk DEF SameDisk
<1>3. CASE /\ driver' = driver \ {cacheID[at[p]]}
           /\ \/ Goto(p, "rmmeta") /\ UNCHANGED <<lockVars, target, at, id>>
              \/ Return(p) /\ suspect' = suspect \cup {at[p]}
  <2>2. PICK c \in Chains, i \in Ids : c = at[p] /\ i = cacheID[c] /\ meta[c] = i
    <3>1. at[p] \in layerMap
      BY <1>1 DEF Books, RemovedIsFree, Removing
    <3>2. layerMap \subseteq Chains
      BY ControlIs DEF LayerTypes
    <3> QED BY <3>1, <3>2 DEF Disk, MemoryIsDisk
  <2>3. /\ OfCall(p) /\ id'[p] \in {id[p], None}
        /\ (pc'[p] = "rmmeta" /\ at'[p] = c) \/ (pc'[p] = "idle" /\ c \in suspect')
    <3>1. CASE Goto(p, "rmmeta") /\ UNCHANGED <<lockVars, target, at, id>>
      BY <1>0, <2>2, <3>1, GotoIs DEF Pcs
    <3>2. CASE Return(p) /\ suspect' = suspect \cup {at[p]}
      BY <1>0, <2>2, <3>2, ReturnIs
    <3> QED BY <1>3, <3>1, <3>2
  <2>4. \A q \in Procs : id[q] # i
    <3>1. \A d \in Chains, q \in Procs : meta[d] \in Ids => meta[d] # id[q]
      BY DEF Disk, IdsDiffer
    <3> QED BY <2>2, <3>1
  <2>5. \A d \in Chains : meta[d] = i => d = c
    <3>1. \A d, e \in Chains : meta[d] \in Ids /\ meta[d] = meta[e] => d = e
      BY DEF Disk, IdsDiffer
    <3> QED BY <2>2, <3>1
  <2>6. driver' = driver \ {i} /\ suspect \cap Chains \subseteq suspect'
    BY <1>1, <1>3, <2>2
  <2>7. pc[p] \notin {"rmmeta", "mparent"} /\ pc'[p] \notin {"begin", "apply", "commit", "mparent"}
    BY <1>1, <2>3
  <2>8. \A d \in Chains \ suspect' : meta[d] = i => pc'[p] = "rmmeta" /\ at'[p] = d
    BY <2>3, <2>5
  <2>9. \A q \in Procs \ {p} : pc[q] \in Applying => id[q] # i
    BY <2>4
  <2> QED BY <1>1, <2>3, <2>6, <2>7, <2>8, <2>9, DropDisk
<1> QED BY <1>2, <1>3 DEF DeleteData

\* The clean-up of a Register that failed takes only the data of its own ID.
LEMMA CleanupDisk ==
    ASSUME Control, Disk, NEW p \in Procs, Cleanup(p)
    PROVE  Disk'
<1>1. /\ UNCHANGED <<meta, diskMountID, layerMap, cacheID, mounts, mountID, suspect>>
      /\ pc[p] = "cleanup" /\ Abandon(p)
  BY DEF Cleanup, layerVars, mountVars, metaVars, diskMount
<1>2. CASE UNCHANGED driver
  BY <1>1, <1>2, AbandonDisk DEF SameDisk
<1>3. CASE driver' = driver \ {id[p]}
  <2>1. CallTypes /\ DiskTypes
    BY ControlIs
  <2>2. PICK i \in Ids \cup {None} : i = id[p]
    BY <2>1 DEF CallTypes
  <2>3. OfCall(p) /\ id'[p] = None /\ pc'[p] \in {"idle", "release"}
    BY <1>1, <2>1, AbandonIs
  <2>4. CASE i = None
    <3>1. driver' = driver
      <4>1. None \notin driver
        BY <2>1, DistinctAssumption DEF DiskTypes
      <4> QED BY <1>3, <2>2, <2>4, <4>1
    <3> QED BY <1>1, <3>1, AbandonDisk DEF SameDisk
  <2>5. CASE i \in Ids
    <3>1. \A q \in Procs \ {p} : id[q] # i
      BY <2>2, <2>5 DEF Disk, IdsDiffer
    <3>2. \A c \in Chains : meta[c] # i
      BY <2>2, <2>5 DEF Disk, IdsDiffer
    <3>3. driver' = driver \ {i} /\ id'[p] \in {id[p], None}
      BY <1>3, <2>2, <2>3
    <3>4. pc[p] \notin {"rmmeta", "mparent"} /\ pc'[p] \notin {"begin", "apply", "commit", "mparent"}
      BY <1>1, <2>3
    <3>5. \A c \in Chains \ suspect' : meta[c] = i => pc'[p] = "rmmeta" /\ at'[p] = c
      BY <3>2
    <3>6. \A q \in Procs \ {p} : pc[q] \in Applying => id[q] # i
      BY <3>1
    <3> QED BY <1>1, <2>3, <3>3, <3>4, <3>5, <3>6, DropDisk
  <2> QED BY <2>4, <2>5
<1> QED BY <1>2, <1>3 DEF Cleanup

\* The removal of a mount takes only the mount's data.
LEMMA RemoveMountDataDisk ==
    ASSUME Control, Disk, NEW p \in Procs, NEW r \in Refs, RemoveMountData(p, r)
    PROVE  Disk'
<1>0. driver' \in {driver, driver \ {mountID[target[p]]}} /\ UNCHANGED suspect
  BY DEF RemoveMountData
<1>1. UNCHANGED <<meta, diskMountID, layerMap, cacheID, mounts, mountID>> /\ pc[p] = "mrmdriver"
  BY DEF RemoveMountData, layerVars, mountVars, metaVars, diskMount
<1>2. CallTypes /\ MountTypes /\ DiskTypes
  BY ControlIs
<1>3. OfCall(p) /\ pc'[p] \in {"idle", "mrmmeta"} /\ id'[p] \in {id[p], None}
  <2>1. CASE Retake(p, r)
    BY <1>2, <2>1, ReturnIs DEF Retake
  <2>2. CASE Goto(p, "mrmmeta") /\ UNCHANGED <<lockVars, references, target, at, id>>
    BY <1>2, <2>2, GotoIs DEF Pcs
  <2> QED BY <2>1, <2>2 DEF RemoveMountData
<1>4. pc[p] \notin {"rmmeta", "mparent"} /\ pc'[p] \notin {"begin", "apply", "commit", "mparent"}
  BY <1>1, <1>3
<1>5. CASE driver' = driver
  BY <1>0, <1>1, <1>3, <1>4, <1>5, DiskStays DEF SameDisk, Applying
<1>6. CASE driver' = driver \ {mountID[target[p]]}
  <2>1. PICK m \in Mounts, i \in Ids \cup {None} : m = target[p] /\ i = mountID[m] /\ diskMountID[m] = i
    <3>1. target[p] \in mounts
      BY <1>1 DEF Control, CallOK, Unmounting
    <3> QED BY <1>2, <3>1 DEF MountTypes, Disk, MemoryIsDisk
  <2>2. driver' = driver \ {i} /\ suspect \cap Chains \subseteq suspect'
    BY <1>0, <1>6, <2>1
  <2>3. CASE i = None
    <3>1. None \notin driver
      BY <1>2, DistinctAssumption DEF DiskTypes
    <3>2. driver' = driver
      BY <2>2, <2>3, <3>1
    <3> QED BY <1>5, <3>2
  <2>4. CASE i \in Ids
    <3>1. \A q \in Procs \ {p} : pc[q] \in Applying => id[q] # i
      <4>1. \A q \in Procs, n \in Mounts :
               id[q] \in Ids /\ diskMountID[n] = id[q] => pc[q] = "mparent"
        BY DEF Disk, IdsDiffer
      <4> QED BY <2>1, <2>4, <4>1 DEF Applying
    <3>2. \A c \in Chains \ suspect' : meta[c] = i => pc'[p] = "rmmeta" /\ at'[p] = c
      <4>1. \A c \in Chains : meta[c] \in Ids => meta[c] # diskMountID[m]
        BY DEF Disk, IdsDiffer
      <4>2. \A c \in Chains : meta[c] # i
        BY <2>1, <2>4, <4>1
      <4> QED BY <4>2
    <3> QED BY <1>1, <1>3, <1>4, <2>2, <3>1, <3>2, DropDisk
  <2> QED BY <2>3, <2>4
<1> QED BY <1>0, <1>5, <1>6

\* releaseLayer up to the removal, and Register up to its transaction's commit
LEMMA QuietDisk ==
    ASSUME Control, Disk, NEW p \in Procs,
           ReleaseLayer(p) \/ DriverCreateFails(p) \/ StartTransaction(p) \/ ApplyTar(p)
    PROVE  Disk'
<1>1. CASE ReleaseLayer(p)
  <2>1. /\ UNCHANGED diskVars /\ UNCHANGED mountVars /\ UNCHANGED <<layerMap, cacheID, parent, suspect>>
        /\ pc[p] = "release" /\ layerL \in {None, p}
    BY <1>1 DEF ReleaseLayer
  <2>2. \/ Return(p)
        \/ layerL' = p /\ Goto(p, "rmdriver") /\ UNCHANGED <<mountL, target, at, id>>
    BY <1>1 DEF ReleaseLayer
  <2>3. CASE Return(p)
    BY <2>1, <2>3, SameIs, AbandonDisk
  <2>4. CASE layerL' = p /\ Goto(p, "rmdriver") /\ UNCHANGED <<mountL, target, at, id>>
    <3>1. CallTypes
      BY ControlIs
    <3>2. pc'[p] = "rmdriver" /\ \A q \in Procs \ {p} : pc'[q] = pc[q]
      BY <2>4, <3>1 DEF CallTypes, Goto
    <3>3. OfCall(p)
      BY <2>1, <2>4, <3>2 DEF OfCall
    <3> QED BY SMT, <2>1, <2>4, <3>2, <3>3, SameIs, DiskStays DEF Applying
  <2> QED BY SMT, <2>2, <2>3, <2>4
<1>2. CASE DriverCreateFails(p)
  <2>1. /\ UNCHANGED diskVars /\ UNCHANGED mountVars /\ UNCHANGED <<layerMap, cacheID, parent, suspect>>
        /\ pc[p] # "rmmeta" /\ Abandon(p)
    BY <1>2 DEF DriverCreateFails, layerVars
  <2> QED BY <2>1, SameIs, AbandonDisk
<1>3. CASE StartTransaction(p)
  <2>1. /\ UNCHANGED diskVars /\ UNCHANGED mountVars /\ UNCHANGED <<layerMap, cacheID, parent, suspect>>
        /\ pc[p] = "begin"
    BY <1>3 DEF StartTransaction, layerVars
  <2>2. CASE Abandon(p)
    BY <2>1, <2>2, SameIs, AbandonDisk
  <2>3. CASE Goto(p, "apply") /\ UNCHANGED <<lockVars, target, at, id>>
    BY <2>1, <2>3, SameIs, GotoDisk DEF Pcs, Applying
  <2> QED BY <1>3, <2>2, <2>3 DEF StartTransaction
<1>4. CASE ApplyTar(p)
  <2>1. /\ UNCHANGED diskVars /\ UNCHANGED mountVars /\ UNCHANGED <<layerMap, cacheID, parent, suspect>>
        /\ pc[p] = "apply" /\ UNCHANGED <<target, at, id>> /\ UNCHANGED lockVars
        /\ (Goto(p, "commit") \/ Goto(p, "cleanup"))
    BY <1>4 DEF ApplyTar, layerVars
  <2> QED BY <2>1, SameIs, GotoDisk DEF Pcs, Applying
<1> QED BY <1>1, <1>2, <1>3, <1>4

\* Commit: the metadata that the rename puts in place names the call's own ID.
LEMMA CommitDisk ==
    ASSUME Control, Disk, NEW p \in Procs, NEW r \in Refs, Commit(p, r)
    PROVE  Disk'
<1>1. UNCHANGED <<driver, diskMountID, mounts, mountID>> /\ pc[p] = "commit"
  BY DEF Commit, mountVars, diskMount
<1>2. CASE Goto(p, "cleanup") /\ UNCHANGED <<lockVars, target, at, id, layerMap, cacheID, meta, suspect>>
  BY <1>1, <1>2, GotoDisk DEF Pcs, Applying, SameDisk
<1>3. CASE /\ layerMap' = layerMap \cup {target[p]} /\ suspect' = suspect \ {target[p]}
           /\ cacheID' = [cacheID EXCEPT ![target[p]] = id[p]]
           /\ meta' = [meta EXCEPT ![target[p]] = id[p]] /\ Return(p)
  <2>1. CallTypes /\ LayerTypes /\ DiskTypes
    BY ControlIs
  <2>2. PICK c \in Chains, i \in Ids : c = target[p] /\ i = id[p] /\ i \in driver
    <3>1. target[p] \in Chains
      BY <1>1 DEF Control, CallOK, Registering
    <3>2. id[p] \in driver
      BY <1>1 DEF Disk, DataIsThere, Applying
    <3> QED BY <2>1, <3>1, <3>2 DEF DiskTypes
  <2>3. OfCall(p) /\ id'[p] = None /\ pc'[p] = "idle"
    BY <1>3, <2>1, ReturnIs
  <2>4. \A q \in Procs \ {p} : pc'[q] = pc[q] /\ target'[q] = target[q] /\ at'[q] = at[q] /\ id'[q] = id[q]
    BY <2>3 DEF OfCall
  <2>5. /\ meta'[c] = i /\ cacheID'[c] = i
        /\ \A d \in Chains \ {c} : meta'[d] = meta[d] /\ cacheID'[d] = cacheID[d]
    BY <1>3, <2>1, <2>2 DEF LayerTypes, DiskTypes
  <2>6. /\ layerMap' = layerMap \cup {c} /\ suspect' = suspect \ {c} /\ layerMap \subseteq Chains
        /\ None \notin Ids
    BY <1>1, <1>3, <2>1, <2>2, DistinctAssumption DEF LayerTypes
  <2>7. /\ \A d \in Chains : meta[d] # i
        /\ \A m \in Mounts : diskMountID[m] # i
        /\ \A q \in Procs \ {p} : id[q] # i
    BY <1>1, <2>2 DEF Disk, IdsDiffer
  <2>8. MemoryIsDisk'
    <3>1. \A d \in layerMap' : cacheID'[d] = meta'[d] /\ meta'[d] \in Ids
      <4> SUFFICES ASSUME NEW d \in layerMap', d # c PROVE cacheID'[d] = meta'[d] /\ meta'[d] \in Ids
        BY <2>5
      <4>1. d \in layerMap /\ d \in Chains \ {c}
        BY <2>6
      <4> QED BY <2>5, <4>1 DEF Disk, MemoryIsDisk
    <3>2. \A m \in mounts' : mountID'[m] = diskMountID'[m]
      BY <1>1, <2>6 DEF Disk, MemoryIsDisk
    <3>3. \A q \in Procs : pc'[q] = "mparent" => diskMountID'[target'[q]] = id'[q]
      BY <1>1, <2>3, <2>4 DEF Disk, MemoryIsDisk
    <3> QED BY <3>1, <3>2, <3>3 DEF MemoryIsDisk
  <2>9. IdsDiffer'
    <3>0. IdsDiffer /\ \A q \in Procs : id'[q] \in Ids => q # p /\ id'[q] = id[q]
      BY <2>3, <2>4, <2>6 DEF Disk
    <3>1. \A d, e \in Chains : meta'[d] \in Ids /\ meta'[d] = meta'[e] => d = e
      <4> SUFFICES ASSUME NEW d \in Chains, NEW e \in Chains, meta'[d] \in Ids, meta'[d] = meta'[e]
                   PROVE  d = e
        OBVIOUS
      <4>1. CASE d = c \/ e = c
        BY <2>5, <2>7, <4>1
      <4>2. CASE d # c /\ e # c
        <5>1. meta[d] \in Ids /\ meta[d] = meta[e]
          BY <2>5, <4>2
        <5> QED BY <3>0, <5>1 DEF IdsDiffer
      <4> QED BY <4>1, <4>2
    <3>2. \A d \in Chains, m \in Mounts : meta'[d] \in Ids => meta'[d] # diskMountID'[m]
      <4> SUFFICES ASSUME NEW d \in Chains, NEW m \in Mounts, meta'[d] \in Ids
                   PROVE  meta'[d] # diskMountID[m]
        BY <1>1
      <4>1. CASE d = c
        BY <2>5, <2>7, <4>1
      <4>2. CASE d # c
        <5>1. meta'[d] = meta[d] /\ meta[d] \in Ids
          BY <2>5, <4>2
        <5>2. meta[d] # diskMountID[m]
          BY <3>0, <5>1 DEF IdsDiffer
        <5> QED BY <5>1, <5>2
      <4> QED BY <4>1, <4>2
    <3>3. \A d \in Chains, q \in Procs : meta'[d] \in Ids => meta'[d] # id'[q]
      <4> SUFFICES ASSUME NEW d \in Chains, NEW q \in Procs, meta'[d] \in Ids, meta'[d] = id'[q]
                   PROVE  FALSE
        OBVIOUS
      <4>1. q # p /\ id'[q] = id[q]
        BY <3>0
      <4>2. CASE d = c
        BY <2>5, <2>7, <4>1, <4>2
      <4>3. CASE d # c
        <5>1. meta'[d] = meta[d] /\ meta[d] \in Ids
          BY <2>5, <4>3
        <5>2. meta[d] # id[q]
          BY <3>0, <5>1 DEF IdsDiffer
        <5> QED BY <4>1, <5>1, <5>2
      <4> QED BY <4>2, <4>3
    <3>4. \A q, s \in Procs : id'[q] \in Ids /\ id'[q] = id'[s] => q = s
      <4> SUFFICES ASSUME NEW q \in Procs, NEW s \in Procs, id'[q] \in Ids, id'[q] = id'[s]
                   PROVE  q = s
        OBVIOUS
      <4>1. id[q] \in Ids /\ id[q] = id[s]
        BY <3>0
      <4> QED BY <3>0, <4>1 DEF IdsDiffer
    <3>5. \A q \in Procs, m \in Mounts :
             id'[q] \in Ids /\ diskMountID'[m] = id'[q] => pc'[q] = "mparent" /\ target'[q] = m
      <4> SUFFICES ASSUME NEW q \in Procs, NEW m \in Mounts, id'[q] \in Ids, diskMountID[m] = id'[q]
                   PROVE  pc'[q] = "mparent" /\ target'[q] = m
        BY <1>1
      <4>1. pc[q] = "mparent" /\ target[q] = m
        BY <3>0 DEF IdsDiffer
      <4> QED BY <2>4, <3>0, <4>1
    <3> QED BY <3>1, <3>2, <3>3, <3>4, <3>5 DEF IdsDiffer
  <2>10. DataIsThere'
    <3>1. \A q \in Procs : pc'[q] \in Applying => id'[q] \in driver'
      BY <1>1, <2>3, <2>4 DEF Disk, DataIsThere, Applying
    <3>2. \A d \in Chains \ suspect' :
             meta'[d] \in Ids => meta'[d] \in driver' \/ \E q \in Procs : pc'[q] = "rmmeta" /\ at'[q] = d
      <4> SUFFICES ASSUME NEW d \in Chains \ suspect', meta'[d] \in Ids, meta'[d] \notin driver
                   PROVE  \E q \in Procs : pc'[q] = "rmmeta" /\ at'[q] = d
        BY <1>1
      <4>1. d # c
        BY <2>2, <2>5
      <4>2. d \in Chains \ suspect /\ meta[d] \in Ids /\ meta[d] \notin driver
        BY <2>5, <2>6, <4>1
      <4>3. PICK q \in Procs : pc[q] = "rmmeta" /\ at[q] = d
        BY <4>2 DEF Disk, DataIsThere
      <4>4. q # p
        BY <1>1, <4>3
      <4> QED BY <2>4, <4>3, <4>4
    <3> QED BY <3>1, <3>2 DEF DataIsThere
  <2> QED BY <2>8, <2>9, <2>10 DEF Disk
<1>4. \/ Goto(p, "cleanup") /\ UNCHANGED <<lockVars, target, at, id, layerMap, cacheID, meta, suspect>>
      \/ /\ layerMap' = layerMap \cup {target[p]} /\ suspect' = suspect \ {target[p]}
         /\ cacheID' = [cacheID EXCEPT ![target[p]] = id[p]]
         /\ meta' = [meta EXCEPT ![target[p]] = id[p]] /\ Return(p)
  BY DEF Commit, NewLayer, layerVars, metaVars
<1> QED BY <1>2, <1>3, <1>4

\* deleteLayer: the metadata goes after the data; where it cannot be removed the
\* layer is left without its data.
LEMMA DeleteMetaDisk ==
    ASSUME Control, Disk, NEW p \in Procs, DeleteMeta(p)
    PROVE  Disk'
<1>1. UNCHANGED <<driver, diskMountID, mounts, mountID>> /\ pc[p] = "rmmeta"
  BY DEF DeleteMeta, mountVars, diskMount
<1>2. CallTypes /\ LayerTypes /\ DiskTypes /\ None \notin Ids
  BY ControlIs, DistinctAssumption
<1>3. PICK c \in Chains : c = at[p]
  BY <1>1 DEF Control, CallOK, Removing
<1>4. /\ \A q \in Procs \ {p} : pc'[q] = pc[q] /\ target'[q] = target[q] /\ at'[q] = at[q] /\ id'[q] = id[q]
      /\ id'[p] \in {id[p], None} /\ pc'[p] \in {"idle", "release"}
  <2>1. CASE Return(p)
    BY <1>2, <2>1, ReturnIs DEF OfCall
  <2>2. CASE Goto(p, "release") /\ at' = [at EXCEPT ![p] = parent[c]] /\ UNCHANGED <<lockVars, target, id>>
    BY <1>2, <2>2 DEF Goto, CallTypes
  <2> QED BY <1>3, <2>1, <2>2 DEF DeleteMeta
<1>5. \/ /\ layerMap' = layerMap \ {c} /\ suspect' = suspect \ {c}
         /\ cacheID' = [cacheID EXCEPT ![c] = None] /\ meta' = [meta EXCEPT ![c] = None]
      \/ suspect' = suspect \cup {c} /\ UNCHANGED <<layerMap, cacheID, meta>>
  BY <1>3 DEF DeleteMeta
<1>6. /\ \A d \in Chains \ {c} : meta'[d] = meta[d] /\ cacheID'[d] = cacheID[d]
      /\ \/ layerMap' = layerMap \ {c} /\ suspect' = suspect \ {c} /\ meta'[c] = None
         \/ suspect' = suspect \cup {c} /\ UNCHANGED <<layerMap, cacheID, meta>>
  BY <1>2, <1>5 DEF LayerTypes, DiskTypes
<1>7. layerMap \subseteq Chains
  BY <1>2 DEF LayerTypes
<1>8. MemoryIsDisk'
  <2>1. \A d \in layerMap' : cacheID'[d] = meta'[d] /\ meta'[d] \in Ids
    <3> SUFFICES ASSUME NEW d \in layerMap' PROVE cacheID'[d] = meta'[d] /\ meta'[d] \in Ids
      OBVIOUS
    <3>1. d \in layerMap /\ d \in Chains
      BY <1>6, <1>7
    <3>2. cacheID'[d] = cacheID[d] /\ meta'[d] = meta[d]
      BY <1>6, <3>1
    <3> QED BY <3>1, <3>2 DEF Disk, MemoryIsDisk
  <2>2. \A m \in mounts' : mountID'[m] = diskMountID'[m]
    BY <1>1, <1>7 DEF Disk, MemoryIsDisk
  <2>3. \A q \in Procs : pc'[q] = "mparent" => diskMountID'[target'[q]] = id'[q]
    BY <1>1, <1>4 DEF Disk, MemoryIsDisk
  <2> QED BY <2>1, <2>2, <2>3 DEF MemoryIsDisk
<1>9. IdsDiffer'
  <2>1. \A d \in Chains : meta'[d] \in Ids => meta'[d] = meta[d]
    BY <1>2, <1>6
  <2>2. \A q \in Procs : id'[q] \in Ids => id'[q] = id[q]
    BY <1>2, <1>4
  <2>3. \A q \in Procs : pc[q] = "mparent" => pc'[q] = pc[q] /\ target'[q] = target[q]
    BY <1>1, <1>4
  <2> QED BY <1>1, <2>1, <2>2, <2>3, IdsStay DEF Disk
<1>10. DataIsThere'
  <2>1. \A q \in Procs : pc'[q] \in Applying => id'[q] \in driver'
    BY <1>1, <1>4 DEF Disk, DataIsThere, Applying
  <2>2. \A d \in Chains \ suspect' :
           meta'[d] \in Ids => meta'[d] \in driver' \/ \E q \in Procs : pc'[q] = "rmmeta" /\ at'[q] = d
    <3> SUFFICES ASSUME NEW d \in Chains \ suspect', meta'[d] \in Ids, meta'[d] \notin driver
                 PROVE  \E q \in Procs : pc'[q] = "rmmeta" /\ at'[q] = d
      BY <1>1
    <3>1. d # c
      BY <1>2, <1>6
    <3>2. d \in Chains \ suspect /\ meta'[d] = meta[d]
      BY <1>6, <3>1
    <3>3. PICK q \in Procs : pc[q] = "rmmeta" /\ at[q] = d
      BY <3>2 DEF Disk, DataIsThere
    <3>4. q # p
      BY <1>3, <3>1, <3>3
    <3> QED BY <1>4, <3>3, <3>4
  <2> QED BY <2>1, <2>2 DEF DataIsThere
<1> QED BY <1>8, <1>9, <1>10 DEF Disk

\* saveMount, first file: the mount is on disk under the call's ID.
LEMMA SaveMountIDDisk ==
    ASSUME Control, Disk, NEW p \in Procs, SaveMountID(p)
    PROVE  Disk'
<1>1. /\ UNCHANGED <<driver, meta, layerMap, cacheID, mounts, mountID, suspect>>
      /\ pc[p] = "msave"
  BY DEF SaveMountID, layerVars, mountVars, metaVars
<1>2. CASE Abandon(p) /\ UNCHANGED diskMountID
  BY <1>1, <1>2, AbandonDisk DEF SameDisk
<1>3. CASE /\ diskMountID' = [diskMountID EXCEPT ![target[p]] = id[p]]
           /\ Goto(p, "mparent") /\ UNCHANGED <<lockVars, target, at, id>>
  <2>1. CallTypes /\ DiskTypes /\ None \notin Ids
    BY ControlIs, DistinctAssumption
  <2>2. PICK m \in Mounts, i \in {id[p]} : m = target[p] /\ m \notin mounts /\ i = id[p] /\ mountL = p
    BY <1>1 DEF Control, CallOK, Mounting
  <2>3. pc'[p] = "mparent" /\ (\A q \in Procs \ {p} : pc'[q] = pc[q]) /\ UNCHANGED <<target, at, id>>
    BY <1>3, <2>1, GotoIs DEF Pcs, OfCall
  <2>4. diskMountID'[m] = i /\ \A n \in Mounts \ {m} : diskMountID'[n] = diskMountID[n]
    BY <1>3, <2>1, <2>2 DEF DiskTypes
  <2>5. \A q \in Procs \ {p} : pc[q] # "mparent"
    BY <2>2 DEF Control, CallOK, Mounting
  <2>6. mounts \subseteq Mounts
    BY ControlIs DEF MountTypes
  <2>7. MemoryIsDisk'
    <3>1. \A c \in layerMap' : cacheID'[c] = meta'[c] /\ meta'[c] \in Ids
      BY <1>1 DEF Disk, MemoryIsDisk
    <3>2. \A n \in mounts' : mountID'[n] = diskMountID'[n]
      <4> SUFFICES ASSUME NEW n \in mounts
                   PROVE  mountID[n] = diskMountID'[n]
        BY <1>1
      <4>1. n \in Mounts \ {m}
        BY <2>2, <2>6
      <4> QED BY <2>4, <4>1 DEF Disk, MemoryIsDisk
    <3>3. \A q \in Procs : pc'[q] = "mparent" => diskMountID'[target'[q]] = id'[q]
      BY <2>2, <2>3, <2>4, <2>5
    <3> QED BY <3>1, <3>2, <3>3 DEF MemoryIsDisk
  <2>8. IdsDiffer'
    <3>1. \A d \in Chains, n \in Mounts : meta'[d] \in Ids => meta'[d] # diskMountID'[n]
      <4> SUFFICES ASSUME NEW d \in Chains, NEW n \in Mounts, meta[d] \in Ids
                   PROVE  meta[d] # diskMountID'[n]
        BY <1>1
      <4>1. meta[d] # id[p] /\ meta[d] # diskMountID[n]
        BY DEF Disk, IdsDiffer
      <4> QED BY <2>2, <2>4, <4>1
    <3>2. \A q \in Procs, n \in Mounts :
             id'[q] \in Ids /\ diskMountID'[n] = id'[q] => pc'[q] = "mparent" /\ target'[q] = n
      <4> SUFFICES ASSUME NEW q \in Procs, NEW n \in Mounts, id[q] \in Ids, diskMountID'[n] = id[q]
                   PROVE  pc'[q] = "mparent" /\ target[q] = n
        BY <2>3
      <4>1. CASE n = m
        <5>1. q = p
          <6>1. id[q] = id[p]
            BY <2>2, <2>4, <4>1
          <6> QED BY <6>1 DEF Disk, IdsDiffer
        <5> QED BY <2>2, <2>3, <4>1, <5>1
      <4>2. CASE n # m
        <5>1. pc[q] = "mparent" /\ target[q] = n
          <6>1. diskMountID[n] = id[q]
            BY <2>4, <4>2
          <6> QED BY <6>1 DEF Disk, IdsDiffer
        <5> QED BY <1>1, <2>3, <5>1
      <4> QED BY <4>1, <4>2
    <3>3. \A c, d \in Chains : meta'[c] \in Ids /\ meta'[c] = meta'[d] => c = d
      BY <1>1 DEF Disk, IdsDiffer
    <3>4. ASSUME NEW c \in Chains, NEW q \in Procs, meta'[c] \in Ids
          PROVE  meta'[c] # id'[q]
      <4>1. meta'[c] = meta[c] /\ id'[q] = id[q]
        BY <1>1, <2>3
      <4>2. meta[c] \in Ids
        BY <3>4, <4>1
      <4>3. \A d \in Chains, s \in Procs : meta[d] \in Ids => meta[d] # id[s]
        BY DEF Disk, IdsDiffer
      <4> QED BY <4>1, <4>2, <4>3
    <3>5. ASSUME NEW q \in Procs, NEW s \in Procs, id'[q] \in Ids, id'[q] = id'[s]
          PROVE  q = s
      <4>1. id[q] \in Ids /\ id[q] = id[s]
        BY <2>3, <3>5
      <4> QED BY <4>1 DEF Disk, IdsDiffer
    <3> QED BY <3>1, <3>2, <3>3, <3>4, <3>5 DEF IdsDiffer
  <2>9. DataIsThere'
    BY <1>1, <2>3, DataStays DEF Disk, Applying
  <2> QED BY <2>7, <2>8, <2>9 DEF Disk
<1> QED BY <1>2, <1>3 DEF SaveMountID

\* saveMount, second file: the ID that goes into ls.mounts is the one on disk.
LEMMA SaveMountParentDisk ==
    ASSUME Control, Disk, NEW p \in Procs, NEW r \in Refs, SaveMountParent(p, r)
    PROVE  Disk'
<1>1. /\ UNCHANGED <<driver, meta, diskMountID, layerMap, cacheID>> /\ pc[p] = "mparent"
      /\ suspect \ {target[p]} \subseteq suspect'
  BY DEF SaveMountParent, layerVars, metaVars
<1>4. suspect \cap Chains \subseteq suspect'
  BY <1>1, DistinctAssumption DEF Control, CallOK, Mounting
<1>2. CASE Abandon(p) /\ UNCHANGED mountVars
  BY <1>1, <1>2, <1>4, AbandonDisk DEF SameDisk, mountVars
<1>3. CASE /\ mounts' = mounts \cup {target[p]}
           /\ mountID' = [mountID EXCEPT ![target[p]] = id[p]]
           /\ Return(p)
  <2>1. CallTypes /\ DiskTypes /\ MountTypes /\ None \notin Ids
    BY ControlIs, DistinctAssumption
  <2>2. PICK m \in Mounts, i \in {id[p]} : m = target[p] /\ m \notin mounts /\ i = id[p]
    BY <1>1 DEF Control, CallOK, Mounting
  <2>3. /\ id'[p] = None /\ pc'[p] = "idle"
        /\ \A q \in Procs \ {p} : pc'[q] = pc[q] /\ target'[q] = target[q] /\ at'[q] = at[q] /\ id'[q] = id[q]
    BY <1>3, <2>1, ReturnIs DEF OfCall
  <2>4. /\ mountID'[m] = i /\ mounts' = mounts \cup {m}
        /\ \A n \in Mounts \ {m} : mountID'[n] = mountID[n]
    BY <1>3, <2>1, <2>2 DEF MountTypes
  <2>5. diskMountID[m] = i /\ mounts \subseteq Mounts
    BY <1>1, <2>1, <2>2 DEF Disk, MemoryIsDisk, MountTypes
  <2>6. MemoryIsDisk'
    <3>1. \A c \in layerMap' : cacheID'[c] = meta'[c] /\ meta'[c] \in Ids
      BY <1>1 DEF Disk, MemoryIsDisk
    <3>2. \A n \in mounts' : mountID'[n] = diskMountID'[n]
      <4> SUFFICES ASSUME NEW n \in mounts', n # m
                   PROVE  mountID'[n] = diskMountID[n]
        BY <1>1, <2>4, <2>5
      <4>1. n \in mounts /\ n \in Mounts \ {m}
        BY <2>4, <2>5
      <4> QED BY <2>4, <4>1 DEF Disk, MemoryIsDisk
    <3>3. \A q \in Procs : pc'[q] = "mparent" => diskMountID'[target'[q]] = id'[q]
      BY <1>1, <2>3 DEF Disk, MemoryIsDisk
    <3> QED BY <3>1, <3>2, <3>3 DEF MemoryIsDisk
  <2>7. IdsDiffer'
    <3>1. \A q \in Procs : id'[q] \in Ids => id'[q] = id[q]  /\ pc'[q] = pc[q] /\ target'[q] = target[q]
      BY <2>1, <2>3
    <3> QED BY <1>1, <3>1, IdsStay DEF Disk
  <2>8. DataIsThere'
    BY <1>1, <1>4, <2>3, DataStays DEF Disk, Applying
  <2> QED BY <2>6, <2>7, <2>8 DEF Disk
<1> QED BY <1>2, <1>3 DEF SaveMountParent, NewMount

\* A mount leaves disk and memory together.
LEMMA RemoveMountDisk ==
    ASSUME Control, Disk, NEW p \in Procs, NEW r \in Refs, RemoveMount(p, r)
    PROVE  Disk'
<1>1. /\ UNCHANGED <<driver, meta, layerMap, cacheID>> /\ pc[p] = "mrmmeta"
      /\ suspect \ {target[p]} \subseteq suspect'
  BY DEF RemoveMount, layerVars, metaVars
<1>4. suspect \cap Chains \subseteq suspect'
  <2>1. target[p] \in mounts /\ mounts \subseteq Mounts
    BY <1>1, ControlIs DEF CallOK, Unmounting, MountTypes
  <2> QED BY <1>1, <2>1, DistinctAssumption
<1>2. CASE Return(p) /\ UNCHANGED <<diskMountID, mountVars>>
  BY <1>1, <1>2, <1>4, AbandonDisk DEF SameDisk, mountVars
<1>3. CASE /\ diskMountID' = [diskMountID EXCEPT ![target[p]] = None]
           /\ mounts' = mounts \ {target[p]}
           /\ mountID' = [mountID EXCEPT ![target[p]] = None]
           /\ \/ Return(p)
              \/ /\ at' = [at EXCEPT ![p] = mountParent[target[p]]]
                 /\ Goto(p, "release") /\ UNCHANGED <<lockVars, target, id>>
  <2>1. CallTypes /\ DiskTypes /\ MountTypes /\ None \notin Ids
    BY ControlIs, DistinctAssumption
  <2>2. PICK m \in Mounts : m = target[p] /\ mountL = p
    BY <1>1, <2>1 DEF Control, CallOK, Unmounting, MountTypes
  <2>3. /\ id'[p] \in {id[p], None} /\ pc'[p] \in {"idle", "release"}
        /\ \A q \in Procs \ {p} : pc'[q] = pc[q] /\ target'[q] = target[q] /\ at'[q] = at[q] /\ id'[q] = id[q]
    <3>1. CASE Return(p)
      BY <2>1, <3>1, ReturnIs DEF OfCall
    <3>2. CASE /\ at' = [at EXCEPT ![p] = mountParent[target[p]]]
               /\ Goto(p, "release") /\ UNCHANGED <<lockVars, target, id>>
      BY <2>1, <3>2 DEF Goto, CallTypes
    <3> QED BY <1>3, <3>1, <3>2
  <2>4. /\ diskMountID'[m] = None /\ mounts' = mounts \ {m}
        /\ \A n \in Mounts \ {m} : diskMountID'[n] = diskMountID[n] /\ mountID'[n] = mountID[n]
    BY <1>3, <2>1, <2>2 DEF DiskTypes, MountTypes
  <2>5. \A q \in Procs : pc[q] # "mparent"
    BY <1>1, <2>2 DEF Control, CallOK, Mounting
  <2>6. MemoryIsDisk'
    <3>1. \A c \in layerMap' : cacheID'[c] = meta'[c] /\ meta'[c] \in Ids
      BY <1>1 DEF Disk, MemoryIsDisk
    <3>2. \A n \in mounts' : mountID'[n] = diskMountID'[n]
      BY <2>1, <2>4 DEF Disk, MemoryIsDisk, MountTypes
    <3>3. \A q \in Procs : pc'[q] # "mparent"
      BY <2>3, <2>5
    <3> QED BY <3>1, <3>2, <3>3 DEF MemoryIsDisk
  <2>7. IdsDiffer'
    <3>1. \A q \in Procs : id'[q] \in Ids => id'[q] = id[q]
      BY <2>1, <2>3
    <3>2. \A n \in Mounts : diskMountID'[n] \in Ids => diskMountID'[n] = diskMountID[n]
      BY <2>1, <2>4
    <3> QED BY <1>1, <2>5, <3>1, <3>2, IdsStay DEF Disk
  <2>8. DataIsThere'
    BY <1>1, <1>4, <2>3, DataStays DEF Disk, Applying
  <2> QED BY <2>6, <2>7, <2>8 DEF Disk
<1> QED BY <1>2, <1>3 DEF RemoveMount, Retake

\* A restart reads memory back from disk; a layer whose removal the crash cut
\* short is suspect.
LEMMA RestartDisk ==
    ASSUME Control, Disk, Restart
    PROVE  Disk'
<1>1. /\ UNCHANGED <<driver, meta, diskMountID>> /\ suspect' = suspect \cup Halfway
      /\ layerMap' = Loadable' /\ mounts' = LoadableMounts'
  BY DEF Restart, Halfway
<1>2. /\ cacheID' = [c \in Chains |-> IF c \in layerMap' THEN meta[c] ELSE None]
      /\ mountID' = [m \in Mounts |-> IF m \in mounts' THEN diskMountID[m] ELSE None]
  BY DEF Restart
<1>3. \A p \in Procs : pc'[p] = "idle" /\ id'[p] = None
  BY DEF Restart
<1>4. \A c \in layerMap' : c \in Chains /\ meta[c] \in Ids
  <2>1. \A c \in Loadable' : c \in Chains /\ meta'[c] # None
    BY DEF Loadable
  <2> QED BY <1>1, <2>1, ControlIs DEF DiskTypes
<1>5. mounts' \subseteq Mounts /\ None \notin Ids
  BY <1>1, DistinctAssumption DEF LoadableMounts
<1>6. MemoryIsDisk'
  BY <1>1, <1>2, <1>3, <1>4, <1>5 DEF MemoryIsDisk
<1>7. IdsDiffer'
  BY <1>1, <1>3, <1>5, IdsStay DEF Disk
<1>8. DataIsThere'
  <2>1. ASSUME NEW c \in Chains \ suspect', meta'[c] \in Ids PROVE meta'[c] \in driver'
    <3>1. \A p \in Procs : pc[p] = "rmmeta" => at[p] # c
      BY <1>1, <2>1 DEF Halfway
    <3> QED BY <1>1, <2>1, <3>1 DEF Disk, DataIsThere
  <2> QED BY <1>3, <2>1 DEF DataIsThere, Applying
<1> QED BY <1>6, <1>7, <1>8 DEF Disk

LEMMA InitDisk == Init => Disk
<1> SUFFICES ASSUME Init PROVE Disk
  OBVIOUS
<1>1. /\ layerMap = {} /\ mounts = {} /\ None \notin Ids
      /\ \A c \in Chains : meta[c] = None
      /\ \A p \in Procs : pc[p] = "idle" /\ id[p] = None
  BY DistinctAssumption DEF Init
<1> QED BY <1>1 DEF Disk, MemoryIsDisk, IdsDiffer, DataIsThere, Applying

LEMMA NextDisk == Control /\ Books /\ Disk /\ [Next]_vars => Disk'
<1> SUFFICES ASSUME Control, Books, Disk, [Next]_vars PROVE Disk'
  OBVIOUS
<1>1. CASE UNCHANGED vars
  <2>1. /\ UNCHANGED <<layerMap, cacheID, mounts, mountID, driver, meta, diskMountID>>
        /\ UNCHANGED <<pc, target, at, id, suspect>>
    BY <1>1 DEF vars, layerVars, mountVars, diskVars, metaVars, diskMount, callVars
  <2>2. MemoryIsDisk'
    BY <2>1 DEF Disk, MemoryIsDisk
  <2>3. IdsDiffer'
    BY <2>1, IdsStay DEF Disk
  <2>4. DataIsThere'
    BY <2>1 DEF Disk, DataIsThere
  <2> QED BY <2>2, <2>3, <2>4 DEF Disk
<1>2. CASE Restart
  BY <1>2, RestartDisk
<1>3. ASSUME NEW p \in Procs, Step(p) PROVE Disk'
  BY <1>3, BeginDisk, CreateDisk, QuietDisk, CommitDisk, CleanupDisk, DeleteDataDisk, DeleteMetaDisk,
     SaveMountIDDisk, SaveMountParentDisk, RemoveMountDataDisk, RemoveMountDisk DEF Step
<1> QED BY <1>1, <1>2, <1>3 DEF Next

-----------------------------------------------------------------------------
(* The files of a directory that no removal has touched                     *)

\* The parent in memory is the one on disk, and the ID file of a layer is there,
\* unless a removal stopped half-way.
Files ==
    /\ \A c \in layerMap \ suspect : metaParent[c] = parent[c] /\ c \notin lost
    /\ \A m \in mounts \ suspect : diskMountParent[m] = mountParent[m]

LEMMA FilesStay ==
    ASSUME Control, Files, UNCHANGED <<layerMap, mounts, parent, mountParent, metaParent, diskMountParent>>,
           lost' \cap Chains \subseteq lost, suspect \subseteq suspect'
    PROVE  Files'
<1>1. layerMap \subseteq Chains
  BY ControlIs DEF LayerTypes
<1> QED BY <1>1 DEF Files

\* Most steps write none of the files.
LEMMA QuietFiles ==
    ASSUME Control, Files, UNCHANGED <<layerMap, parent>>, UNCHANGED mountVars,
           UNCHANGED <<metaVars, diskMount, lost>>, suspect \subseteq suspect'
    PROVE  Files'
BY FilesStay DEF mountVars, metaVars, diskMount

LEMMA BeginFiles ==
    ASSUME Control, Files, NEW p \in Procs,
           \/ \E r \in Refs : \/ \E c \in Chains : Get(p, c, r)
                              \/ \E m \in Mounts : GetRWLayer(p, m, r)
                              \/ Release(p, r) \/ ReleaseRWLayer(p, r) \/ RemoveMountData(p, r)
           \/ \E c \in Chains : Register(p, c)
           \/ \E m \in Mounts, c \in Chains \cup {None} : CreateRWLayer(p, m, c)
    PROVE  Files'
<1>1. ASSUME NEW r \in Refs, NEW c \in Chains, Get(p, c, r) PROVE Files'
  BY <1>1, QuietFiles DEF Get, diskVars
<1>2. ASSUME NEW r \in Refs, NEW m \in Mounts, GetRWLayer(p, m, r) PROVE Files'
  BY <1>2, QuietFiles DEF GetRWLayer, diskVars, layerVars
<1>3. ASSUME NEW r \in Refs, Release(p, r) \/ ReleaseRWLayer(p, r) PROVE Files'
  BY <1>3, QuietFiles DEF Release, ReleaseRWLayer, diskVars, layerVars
<1>4. ASSUME NEW r \in Refs, RemoveMountData(p, r) PROVE Files'
  BY <1>4, QuietFiles DEF RemoveMountData, layerVars
<1>5. ASSUME NEW c \in Chains, Register(p, c) PROVE Files'
  BY <1>5, QuietFiles DEF Register, diskVars
<1>6. ASSUME NEW m \in Mounts, NEW c \in Chains \cup {None}, CreateRWLayer(p, m, c) PROVE Files'
  BY <1>6, QuietFiles DEF CreateRWLayer, diskVars
<1> QED BY <1>1, <1>2, <1>3, <1>4, <1>5, <1>6

LEMMA CallFiles ==
    ASSUME Control, Files, NEW p \in Procs,
           \/ \E i \in Ids : DriverCreate(p, i) \/ CreateReadWrite(p, i)
           \/ DriverCreateFails(p) \/ StartTransaction(p) \/ ApplyTar(p) \/ Cleanup(p)
           \/ ReleaseLayer(p) \/ DeleteData(p)
    PROVE  Files'
<1>1. ASSUME NEW i \in Ids, DriverCreate(p, i) \/ CreateReadWrite(p, i) PROVE Files'
  BY <1>1, QuietFiles DEF DriverCreate, CreateReadWrite, layerVars
<1>2. CASE DriverCreateFails(p) \/ StartTransaction(p) \/ ApplyTar(p)
  BY <1>2, QuietFiles DEF DriverCreateFails, StartTransaction, ApplyTar, layerVars, diskVars
<1>3. CASE ReleaseLayer(p)
  BY <1>3, QuietFiles DEF ReleaseLayer, diskVars
<1>4. CASE Cleanup(p)
  BY <1>4, QuietFiles DEF Cleanup, layerVars
<1>5. CASE DeleteData(p)
  <2>1. suspect \subseteq suspect'
    BY <1>5 DEF DeleteData
  <2> QED BY <1>5, <2>1, QuietFiles DEF DeleteData, layerVars
<1> QED BY <1>1, <1>2, <1>3, <1>4, <1>5

\* Commit writes both files of a new layer.
LEMMA CommitFiles ==
    ASSUME Control, Files, NEW p \in Procs, NEW r \in Refs, Commit(p, r)
    PROVE  Files'
<1>1. UNCHANGED mountVars /\ UNCHANGED diskMount
  BY DEF Commit
<1>2. CASE UNCHANGED <<layerMap, parent, metaVars, lost, suspect>>
  BY <1>1, <1>2, QuietFiles
<1>3. CASE NewLayer(p)
  <2>1. PICK c \in Chains : c = target[p]
    BY ControlIs DEF Commit, CallOK, Registering
  <2>2. /\ layerMap' = layerMap \cup {c} /\ lost' = lost \ {c} /\ suspect' = suspect \ {c}
        /\ parent' = [parent EXCEPT ![c] = at[p]] /\ metaParent' = [metaParent EXCEPT ![c] = at[p]]
    BY <1>3, <2>1 DEF NewLayer
  <2>3. /\ parent'[c] = at[p] /\ metaParent'[c] = at[p]
        /\ \A d \in Chains \ {c} : parent'[d] = parent[d] /\ metaParent'[d] = metaParent[d]
    BY <2>2, ControlIs DEF LayerTypes, DiskTypes
  <2>4. layerMap \subseteq Chains /\ mounts \subseteq Mounts /\ Chains \cap Mounts = {}
    BY ControlIs, DistinctAssumption DEF LayerTypes, MountTypes
  <2>5. ASSUME NEW d \in layerMap' \ suspect' PROVE metaParent'[d] = parent'[d] /\ d \notin lost'
    <3>1. CASE d = c
      BY <2>2, <2>3, <3>1
    <3>2. CASE d # c
      <4>1. d \in layerMap \ suspect /\ d \in Chains \ {c}
        BY <2>2, <2>4, <2>5, <3>2
      <4>2. metaParent[d] = parent[d] /\ d \notin lost
        BY <4>1 DEF Files
      <4> QED BY <2>2, <2>3, <4>1, <4>2
    <3> QED BY <3>1, <3>2
  <2>6. ASSUME NEW m \in mounts' \ suspect' PROVE diskMountParent'[m] = mountParent'[m]
    <3>1. UNCHANGED <<mounts, mountParent, diskMountParent>>
      BY <1>1 DEF mountVars, diskMount
    <3>2. m \in mounts \ suspect
      BY <2>2, <2>4, <2>6, <3>1
    <3> QED BY <3>1, <3>2 DEF Files
  <2> QED BY <2>5, <2>6 DEF Files
<1> QED BY <1>2, <1>3 DEF Commit, layerVars

\* deleteLayer takes both files, or leaves the layer suspect.
LEMMA DeleteMetaFiles ==
    ASSUME Control, Files, NEW p \in Procs, DeleteMeta(p)
    PROVE  Files'
<1>1. PICK c \in Chains : c = at[p]
  BY ControlIs DEF DeleteMeta, CallOK, Removing
<1>2. /\ UNCHANGED <<mounts, mountParent, diskMountParent>>
      /\ lost' \subseteq lost \cup {c} /\ suspect \ {c} \subseteq suspect'
      /\ layerMap' \subseteq layerMap /\ (c \in layerMap' => c \in suspect')
      /\ parent' \in {parent, [parent EXCEPT ![c] = None]}
      /\ metaParent' \in {metaParent, [metaParent EXCEPT ![c] = None]}
  BY <1>1 DEF DeleteMeta, mountVars, diskMount
<1>3. \A d \in Chains \ {c} : parent'[d] = parent[d] /\ metaParent'[d] = metaParent[d]
  BY <1>2, ControlIs DEF LayerTypes, DiskTypes
<1>4. layerMap \subseteq Chains /\ mounts \subseteq Mounts /\ Chains \cap Mounts = {}
  BY ControlIs, DistinctAssumption DEF LayerTypes, MountTypes
<1>5. ASSUME NEW d \in layerMap' \ suspect' PROVE metaParent'[d] = parent'[d] /\ d \notin lost'
  <2>1. d \in layerMap \ suspect /\ d \in Chains \ {c}
    BY <1>2, <1>4, <1>5
  <2>2. metaParent[d] = parent[d] /\ d \notin lost
    BY <2>1 DEF Files
  <2> QED BY <1>2, <1>3, <2>1, <2>2
<1>6. ASSUME NEW m \in mounts' \ suspect' PROVE diskMountParent'[m] = mountParent'[m]
  <2>1. m \in mounts \ suspect
    BY <1>2, <1>4, <1>6
  <2> QED BY <1>2, <2>1 DEF Files
<1> QED BY <1>5, <1>6 DEF Files

\* saveMount: a mount whose parent is not the one on disk is suspect.
LEMMA SaveMountFiles ==
    ASSUME Control, Files, NEW p \in Procs,
           SaveMountID(p) \/ \E r \in Refs : SaveMountParent(p, r)
    PROVE  Files'
<1>0. layerMap \subseteq Chains /\ mounts \subseteq Mounts /\ Chains \cap Mounts = {}
  BY ControlIs, DistinctAssumption DEF LayerTypes, MountTypes
<1>1. PICK m \in Mounts \ mounts : m = target[p]
  BY ControlIs DEF SaveMountID, SaveMountParent, CallOK, Mounting
<1>2. UNCHANGED <<layerMap, parent, metaParent>> /\ lost' \subseteq lost \cup {m}
  BY <1>1 DEF SaveMountID, SaveMountParent, layerVars, metaVars
<1>3. lost' \cap Chains \subseteq lost
  BY <1>0, <1>1, <1>2
<1>4. CASE UNCHANGED <<diskMountParent, mountVars, suspect>>
  BY <1>2, <1>3, <1>4, FilesStay DEF mountVars
<1>5. CASE /\ mounts' = mounts \cup {m} /\ mountParent' = [mountParent EXCEPT ![m] = at[p]]
           /\ diskMountParent' \in {diskMountParent, [diskMountParent EXCEPT ![m] = at[p]]}
           /\ suspect' = IF diskMountParent'[m] = at[p] THEN suspect \ {m} ELSE suspect \cup {m}
  <2>1. /\ mountParent'[m] = at[p]
        /\ \A n \in Mounts \ {m} : /\ mountParent'[n] = mountParent[n]
                                   /\ diskMountParent'[n] = diskMountParent[n]
    BY <1>5, ControlIs DEF MountTypes, DiskTypes
  <2>2. suspect \ {m} \subseteq suspect' /\ (m \in suspect' \/ diskMountParent'[m] = at[p])
    BY <1>5
  <2>3. ASSUME NEW c \in layerMap' \ suspect' PROVE metaParent'[c] = parent'[c] /\ c \notin lost'
    <3>1. c \in layerMap \ suspect /\ c \in Chains
      BY <1>0, <1>2, <2>2, <2>3
    <3> QED BY <1>2, <1>3, <3>1 DEF Files
  <2>4. ASSUME NEW n \in mounts' \ suspect' PROVE diskMountParent'[n] = mountParent'[n]
    <3>1. CASE n = m
      BY <2>1, <2>2, <2>4, <3>1
    <3>2. CASE n # m
      <4>1. n \in mounts \ suspect /\ n \in Mounts \ {m}
        BY <1>0, <1>5, <2>2, <2>4, <3>2
      <4> QED BY <2>1, <4>1 DEF Files
    <3> QED BY <3>1, <3>2
  <2> QED BY <2>3, <2>4 DEF Files
<1>6. CASE SaveMountID(p)
  BY <1>4, <1>6 DEF SaveMountID
<1>7. ASSUME NEW r \in Refs, SaveMountParent(p, r) PROVE Files'
  BY <1>1, <1>4, <1>5, <1>7 DEF SaveMountParent, NewMount
<1> QED BY <1>6, <1>7

\* The removal of a mount takes both files, or leaves the mount suspect.
LEMMA RemoveMountFiles ==
    ASSUME Control, Files, NEW p \in Procs, NEW r \in Refs, RemoveMount(p, r)
    PROVE  Files'
<1>0. layerMap \subseteq Chains /\ mounts \subseteq Mounts /\ Chains \cap Mounts = {}
  BY ControlIs, DistinctAssumption DEF LayerTypes, MountTypes
<1>1. PICK m \in Mounts : m = target[p]
  BY <1>0, ControlIs DEF RemoveMount, CallOK, Unmounting
<1>2. /\ UNCHANGED <<layerMap, parent, metaParent>>
      /\ lost' \subseteq lost \cup {m} /\ suspect \ {m} \subseteq suspect'
      /\ mounts' \subseteq mounts /\ (m \in mounts' => m \in suspect')
      /\ mountParent' \in {mountParent, [mountParent EXCEPT ![m] = None]}
      /\ diskMountParent' \in {diskMountParent, [diskMountParent EXCEPT ![m] = None]}
  BY <1>1 DEF RemoveMount, layerVars, metaVars, mountVars
<1>3. \A n \in Mounts \ {m} : mountParent'[n] = mountParent[n] /\ diskMountParent'[n] = diskMountParent[n]
  BY <1>2, ControlIs DEF MountTypes, DiskTypes
<1>4. ASSUME NEW c \in layerMap' \ suspect' PROVE metaParent'[c] = parent'[c] /\ c \notin lost'
  <2>1. c \in layerMap \ suspect /\ c # m
    BY <1>0, <1>2, <1>4
  <2> QED BY <1>2, <2>1 DEF Files
<1>5. ASSUME NEW n \in mounts' \ suspect' PROVE diskMountParent'[n] = mountParent'[n]
  <2>1. n \in mounts \ suspect /\ n \in Mounts \ {m}
    BY <1>0, <1>2, <1>5
  <2> QED BY <1>3, <2>1 DEF Files
<1> QED BY <1>4, <1>5 DEF Files

\* A restart reads the files back.
LEMMA RestartFiles ==
    ASSUME Restart
    PROVE  Files'
<1>1. /\ layerMap' = Loadable' /\ mounts' = LoadableMounts'
      /\ parent' = [c \in Chains |-> IF c \in layerMap' THEN metaParent'[c] ELSE None]
      /\ mountParent' = [m \in Mounts |-> IF m \in mounts' THEN diskMountParent'[m] ELSE None]
  BY DEF Restart
<1>2. /\ \A c \in Loadable' : c \in Chains /\ c \notin lost'
      /\ \A m \in LoadableMounts' : m \in Mounts
  BY DEF Loadable, LoadableMounts
<1> QED BY <1>1, <1>2 DEF Files

LEMMA NextFiles == Control /\ Files /\ [Next]_vars => Files'
<1> SUFFICES ASSUME Control, Files, [Next]_vars PROVE Files'
  OBVIOUS
<1>1. CASE UNCHANGED vars
  BY <1>1, FilesStay DEF vars, layerVars, mountVars, diskVars, metaVars, diskMount
<1>2. CASE Restart
  BY <1>2, RestartFiles
<1>3. ASSUME NEW p \in Procs, Step(p) PROVE Files'
  BY <1>3, BeginFiles, CallFiles, CommitFiles, DeleteMetaFiles, SaveMountFiles, RemoveMountFiles DEF Step
<1> QED BY <1>1, <1>2, <1>3 DEF Next

-----------------------------------------------------------------------------
(* The theorems                                                             *)

IInv == Control /\ Books /\ Disk /\ Files

LEMMA Invariant == Spec => []IInv
<1>1. Init => IInv
  <2>1. Init => Files
    BY DEF Init, Files
  <2> QED BY <2>1, InitControl, InitBooks, InitDisk DEF IInv
<1>2. IInv /\ [Next]_vars => IInv'
  BY NextControl, NextBooks, NextDisk, NextFiles DEF IInv
<1> QED BY <1>1, <1>2, PTL DEF Spec

\* Every variable of the layer store keeps its type.
THEOREM TypeCorrect == Spec => []TypeOK
<1>1. IInv => TypeOK
  BY DEF IInv, Control
<1> QED BY <1>1, Invariant, PTL

\* referenceCount of a loaded layer is the number of its holders, however Register,
\* Get, Release and the mount calls interleave, fail, or are cut off by a restart.
THEOREM CountsHolders == Spec => []CountIsExact
<1>1. IInv => CountIsExact
  BY DEF IInv, Books
<1> QED BY <1>1, Invariant, PTL

\* releaseLayer never finds a layer that is not retained or is still referenced.
THEOREM NoPanic == Spec => []NeverPanics
<1>1. IInv => NeverPanics
  BY DEF IInv, Books
<1> QED BY <1>1, Invariant, PTL

\* A layer that anybody holds has its data in the graph driver, and its cache ID and
\* parent are on disk for the next restart, unless a removal of it stopped half-way.
THEOREM HeldKeepsData == Spec => []HeldIsIntact
<1>1. IInv => HeldIsIntact
  <2> SUFFICES ASSUME IInv, NEW c \in layerMap \ suspect, Holders(c) # {}
               PROVE  /\ cacheID[c] \in driver /\ c \notin lost
                      /\ meta[c] = cacheID[c] /\ metaParent[c] = parent[c]
    BY DEF HeldIsIntact
  <2>1. c \in Chains \ suspect
    BY ControlIs DEF IInv, LayerTypes
  <2>2. cacheID[c] = meta[c] /\ meta[c] \in Ids
    BY DEF IInv, Disk, MemoryIsDisk
  <2>3. \A p \in Procs : pc[p] = "rmmeta" => at[p] # c
    BY DEF IInv, Books, RemovedIsFree, Removing
  <2>4. metaParent[c] = parent[c] /\ c \notin lost
    BY DEF IInv, Files
  <2>5. cacheID[c] \in driver
    BY <2>1, <2>2, <2>3 DEF IInv, Disk, DataIsThere
  <2> QED BY <2>2, <2>4, <2>5
<1> QED BY <1>1, Invariant, PTL

\* Only saveMount, the removal of a mount and a restart write ls.mounts.
LEMMA MountStep ==
    ASSUME IInv, Next
    PROVE  KeepsMounts
<1> USE DEF KeepsMounts
<1>1. MountTypes
  BY ControlIs DEF IInv
<1>2. CASE Restart
  <2> SUFFICES ASSUME NEW m \in (mounts \cap mounts') \ suspect'
               PROVE  mountParent'[m] = mountParent[m] /\ mountID'[m] = mountID[m]
    OBVIOUS
  <2>1. /\ mountID' = [n \in Mounts |-> IF n \in mounts' THEN diskMountID[n] ELSE None]
        /\ mountParent' = [n \in Mounts |-> IF n \in mounts' THEN diskMountParent'[n] ELSE None]
    BY <1>2 DEF Restart
  <2>2. suspect' = suspect \cup Halfway /\ \E parents \in SUBSET Halfway :
           diskMountParent' = [n \in Mounts |-> IF n \in parents THEN None ELSE diskMountParent[n]]
    BY <1>2 DEF Restart, Halfway
  <2>3. m \in Mounts /\ mountID[m] = diskMountID[m] /\ mountParent[m] = diskMountParent[m]
    BY <1>1, <2>2 DEF MountTypes, IInv, Disk, MemoryIsDisk, Files
  <2>4. diskMountParent'[m] = diskMountParent[m]
    BY <2>2, <2>3
  <2> QED BY <2>1, <2>3, <2>4
<1>3. ASSUME NEW p \in Procs, Step(p) PROVE KeepsMounts
  <2>1. ASSUME NEW r \in Refs, SaveMountParent(p, r)
        PROVE  \A m \in mounts : mountParent'[m] = mountParent[m] /\ mountID'[m] = mountID[m]
    <3>1. target[p] \in Mounts \ mounts
      BY <2>1 DEF IInv, Control, CallOK, Mounting, SaveMountParent
    <3>2. \/ UNCHANGED <<mountID, mountParent>>
          \/ /\ mountID' = [mountID EXCEPT ![target[p]] = id[p]]
             /\ mountParent' = [mountParent EXCEPT ![target[p]] = at[p]]
      BY <2>1 DEF SaveMountParent, NewMount, mountVars
    <3> QED BY <1>1, <3>1, <3>2 DEF MountTypes
  <2>2. ASSUME NEW r \in Refs, RemoveMount(p, r) PROVE KeepsMounts
    <3>1. \/ UNCHANGED <<mountID, mountParent>>
          \/ /\ mounts' = mounts \ {target[p]}
             /\ mountID' = [mountID EXCEPT ![target[p]] = None]
             /\ mountParent' = [mountParent EXCEPT ![target[p]] = None]
      BY <2>2 DEF RemoveMount, mountVars
    <3> QED BY <1>1, <3>1 DEF MountTypes
  <2>3. ASSUME NEW r \in Refs,
               \/ \E c \in Chains : Get(p, c, r)
               \/ \E m \in Mounts : GetRWLayer(p, m, r)
               \/ Release(p, r) \/ ReleaseRWLayer(p, r)
               \/ Commit(p, r) \/ RemoveMountData(p, r)
        PROVE  UNCHANGED mountVars
    BY <2>3 DEF Get, GetRWLayer, Release, ReleaseRWLayer, Commit, RemoveMountData
  <2>4. ASSUME \/ \E c \in Chains : Register(p, c)
               \/ \E m \in Mounts, c \in Chains \cup {None} : CreateRWLayer(p, m, c)
               \/ \E i \in Ids : DriverCreate(p, i) \/ CreateReadWrite(p, i)
        PROVE  UNCHANGED mountVars
    BY <2>4 DEF Register, CreateRWLayer, DriverCreate, CreateReadWrite
  <2>5. ASSUME \/ DriverCreateFails(p) \/ StartTransaction(p) \/ ApplyTar(p) \/ Cleanup(p)
               \/ SaveMountID(p)
               \/ ReleaseLayer(p) \/ DeleteData(p) \/ DeleteMeta(p)
        PROVE  UNCHANGED mountVars
    BY <2>5 DEF DriverCreateFails, StartTransaction, ApplyTar, Cleanup, SaveMountID, ReleaseLayer,
                DeleteData, DeleteMeta
  <2>6. \/ UNCHANGED mountVars
        \/ \E r \in Refs : SaveMountParent(p, r) \/ RemoveMount(p, r)
    BY <1>3, <2>3, <2>4, <2>5 DEF Step
  <2> QED BY <2>1, <2>2, <2>6 DEF mountVars
<1> QED BY <1>2, <1>3 DEF Next

\* No step, a restart included, changes the parent or the driver ID of a mount that
\* was there before and is there after it, unless a removal of the mount stopped
\* half-way, or it was made without a parent over what such a removal left.
THEOREM MountIsStable == Spec => MountKeepsParent
<1>1. IInv /\ [Next]_vars => [KeepsMounts]_vars
  BY MountStep
<1> QED BY <1>1, Invariant, PTL DEF Spec, MountKeepsParent
=============================================================================
