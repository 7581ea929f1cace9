------------------------------ MODULE ImageStore ------------------------------
(***************************************************************************)
(* The image store, image/store.go, over its files, image/fs.go: images by *)
(* the digest of their configuration, each holding a reference on its top  *)
(* layer, and a tree of parents kept in memory and on disk.  Create writes *)
(* the configuration before it takes the store's lock.                     *)
(*                                                                         *)
(* An image's callers (a pull, a commit, a build or a load) hold a         *)
(* reference on its layer while they are in Create.  Most keep it until    *)
(* SetParent has returned, whatever fails; legacyLoadImage                 *)
(* (image/tarexport/load.go) gives it back before SetParent, and not at    *)
(* all after an error.  The layer store, modelled in LayerStore, is here a *)
(* count of references and the set of stored layers.                       *)
(* A section under the store's lock is one step unless a crash in it would *)
(* be seen on disk.                                                        *)
(***************************************************************************)
EXTENDS Integers, FiniteSets

CONSTANTS Procs,     \* goroutines that create and delete images
          Images,    \* image IDs
          Layers,    \* chain IDs
          LayerOf,   \* image ID -> the chain ID of its root file system, or None
          Parents,   \* image ID -> the images it may be given as parent
          Faults,    \* what may happen: "set", "parent", "delete", "crash"
          MaxLeaks,  \* bound: references on a layer that nobody gives back
          None

ASSUME LayerOfAssumption == LayerOf \in [Images -> Layers \cup {None}]
ASSUME ParentsAssumption == Parents \in [Images -> SUBSET Images]
ASSUME LeaksAssumption == MaxLeaks \in Nat
ASSUME NoneAssumption == None \notin Procs /\ None \notin Images /\ None \notin Layers
ASSUME FiniteAssumption ==
    IsFiniteSet(Procs) /\ IsFiniteSet(Images) /\ Procs \cap Images = {}

VARIABLES
    lock,              \* store.Mutex, held between two steps, or None
    images,            \* the keys of store.images
    children,          \* imageMeta.children
    content, parent,   \* the files: configurations, and "parent" metadata
    refs, stored,      \* the layer store
    leaked,            \* history: references of failed loads
    pc, img,           \* calls
    broken,            \* a restart failed
    undeleted          \* history: images whose fs.Delete failed and that are not known

memory == <<lock, images, children>>
files  == <<content, parent>>
layers == <<refs, stored, leaked>>
status == <<broken, undeleted>>
vars   == <<memory, files, layers, pc, img, status>>

TypeOK ==
    /\ lock \in Procs \cup {None}
    /\ images \subseteq Images /\ children \in [Images -> SUBSET Images]
    /\ content \subseteq Images /\ parent \in [Images -> Images \cup {None}]
    /\ refs \in [Layers -> Nat] /\ stored \subseteq Layers
    /\ leaked \in [Layers -> 0..MaxLeaks]
    /\ pc \in [Procs -> {"idle", "set", "failed", "create", "created", "parent", "release",
                         "meta", "content", "drop"}]
    /\ img \in [Procs -> Images \cup {None}]
    /\ broken \in BOOLEAN /\ undeleted \subseteq Images

Init ==
    /\ lock = None
    /\ images = {} /\ children = [i \in Images |-> {}]
    /\ content = {} /\ parent = [i \in Images |-> None]
    /\ refs = [l \in Layers |-> 0] /\ stored = {} /\ leaked = [l \in Layers |-> 0]
    /\ pc = [p \in Procs |-> "idle"] /\ img = [p \in Procs |-> None]
    /\ broken = FALSE /\ undeleted = {}

-----------------------------------------------------------------------------
(* The layer store                                                          *)

Get(l) ==
    /\ refs' = [k \in Layers |-> refs[k] + (IF k = l THEN 1 ELSE 0)]
    /\ UNCHANGED <<stored, leaked>>

Release(l) ==
    /\ refs' = [k \in Layers |-> refs[k] - (IF k = l THEN 1 ELSE 0)]
    /\ stored' = IF l # None /\ refs[l] = 1 THEN stored \ {l} ELSE stored
    /\ UNCHANGED leaked

-----------------------------------------------------------------------------
(* Callers of Create                                                        *)

\* A pull, a commit or a load has registered the layer of an image it will create
\* (layerStore.Register: the layer is new, or its count goes up).
Register(p, i) ==
    /\ pc[p] = "idle"
    /\ pc' = [pc EXCEPT ![p] = "set"] /\ img' = [img EXCEPT ![p] = i]
    /\ refs' = [l \in Layers |-> refs[l] + (IF l = LayerOf[i] THEN 1 ELSE 0)]
    /\ stored' = stored \cup ({LayerOf[i]} \ {None})
    /\ UNCHANGED <<memory, files, leaked, status>>

\* The first half of Create: the configuration is refused, or fs.Set writes it.
Set(p) ==
    /\ pc[p] = "set"
    /\ \/ /\ content' = content \cup {img[p]}
          /\ pc' = [pc EXCEPT ![p] = "create"]
       \/ /\ "set" \in Faults
          /\ pc' = [pc EXCEPT ![p] = "failed"] /\ UNCHANGED content
    /\ UNCHANGED <<memory, parent, layers, img, status>>

\* Mutant of Create: a known image is overwritten.
CreateAgain(p) ==
    /\ pc[p] = "create" /\ lock = None
    /\ pc' = [pc EXCEPT ![p] = "created"]
    /\ images' = images \cup {img[p]}
    /\ children' = [children EXCEPT ![img[p]] = {}]
    /\ Get(LayerOf[img[p]])
    /\ UNCHANGED <<lock, files, img, status>>

\* Create, under the lock.  Its two errors cannot happen: the caller has a reference
\* on the layer that ls.Get looks for, and imageID is a digest digestSet.Add takes.
Create(p) ==
    /\ pc[p] = "create" /\ lock = None
    /\ pc' = [pc EXCEPT ![p] = "created"]
    /\ IF img[p] \in images
       THEN UNCHANGED <<images, children, layers>>
       ELSE /\ images' = images \cup {img[p]}
            /\ children' = [children EXCEPT ![img[p]] = {}]
            /\ Get(LayerOf[img[p]])
    /\ undeleted' = undeleted \ {img[p]}
    /\ UNCHANGED <<lock, files, img, broken>>

\* GetParent: no parent without a configuration.
GetParent(i) == IF i \in content THEN parent[i] ELSE None

\* children, with image i taken from its parent's
Orphaned(i) ==
    [j \in Images |-> IF j = GetParent(i) /\ j \in images THEN children[j] \ {i}
                                                          ELSE children[j]]

\* SetParent.  Memory comes first: writing the file may fail, and does fail when
\* the image has no configuration any more.
SetParent(p, q) ==
    LET i == img[p]
    IN  /\ lock = None
        /\ \/ pc[p] = "created" /\ pc' = [pc EXCEPT ![p] = "release"] /\ UNCHANGED img
           \/ /\ pc[p] = "parent" /\ pc' = [pc EXCEPT ![p] = "idle"]
              /\ img' = [img EXCEPT ![p] = None]
        /\ IF q \notin images THEN UNCHANGED <<children, parent>>
           ELSE /\ children' = [Orphaned(i) EXCEPT ![q] = @ \cup {i}]
                /\ \/ i \in content /\ parent' = [parent EXCEPT ![i] = q]
                   \/ (i \notin content \/ "parent" \in Faults) /\ UNCHANGED parent
        /\ UNCHANGED <<lock, images, content, layers, status>>

\* The caller gives its reference on the layer back, after an error as well.
Done(p) ==
    /\ pc[p] \in {"failed", "created", "release"}
    /\ pc' = [pc EXCEPT ![p] = "idle"] /\ img' = [img EXCEPT ![p] = None]
    /\ Release(LayerOf[img[p]])
    /\ UNCHANGED <<memory, files, status>>

\* legacyLoadImage: the reference is given back before SetParent, if there is a
\* parent to set ...
LoadReleases(p) ==
    /\ pc[p] = "created" /\ Parents[img[p]] # {}
    /\ pc' = [pc EXCEPT ![p] = "parent"]
    /\ Release(LayerOf[img[p]])
    /\ UNCHANGED <<memory, files, img, status>>

\* ... and kept for ever if Create fails.
LoadFails(p) ==
    /\ pc[p] = "failed" /\ \A l \in Layers : leaked[l] < MaxLeaks
    /\ pc' = [pc EXCEPT ![p] = "idle"] /\ img' = [img EXCEPT ![p] = None]
    /\ leaked' = [l \in Layers |-> leaked[l] + (IF l = LayerOf[img[p]] THEN 1 ELSE 0)]
    /\ UNCHANGED <<memory, files, refs, stored, status>>

-----------------------------------------------------------------------------
(* Delete                                                                   *)

\* Delete takes the lock, forgets the image and its place in the tree; an error
\* of removing a child's metadata is ignored ...
Delete(p, i) ==
    /\ pc[p] = "idle" /\ lock = None /\ i \in images
    /\ lock' = p /\ images' = images \ {i} /\ children' = [Orphaned(i) EXCEPT ![i] = {}]
    /\ \E kept \in SUBSET children[i] :
          /\ kept = {} \/ "delete" \in Faults
          /\ parent' = [j \in Images |-> IF j \in children[i] \ kept THEN None ELSE parent[j]]
    /\ pc' = [pc EXCEPT ![p] = "meta"] /\ img' = [img EXCEPT ![p] = i]
    /\ UNCHANGED <<content, layers, status>>

\* ... fs.Delete removes the metadata, then the configuration, its error is
\* ignored ...
DeleteMetadata(p) ==
    /\ pc[p] = "meta"
    /\ \/ /\ parent' = [parent EXCEPT ![img[p]] = None]
          /\ pc' = [pc EXCEPT ![p] = "content"] /\ UNCHANGED undeleted
       \/ /\ "delete" \in Faults /\ undeleted' = undeleted \cup {img[p]}
          /\ pc' = [pc EXCEPT ![p] = "drop"] /\ UNCHANGED parent
    /\ UNCHANGED <<memory, content, layers, img, broken>>

\* Mutant of DeleteContent: the layer is released first.
DeleteLayerFirst(p) ==
    /\ pc[p] = "content"
    /\ IF lock = p
       THEN Release(LayerOf[img[p]]) /\ lock' = None /\ UNCHANGED <<content, pc, img>>
       ELSE /\ content' = content \ {img[p]} /\ UNCHANGED <<layers, lock>>
            /\ pc' = [pc EXCEPT ![p] = "idle"] /\ img' = [img EXCEPT ![p] = None]
    /\ UNCHANGED <<images, children, parent, status>>

DeleteContent(p) ==
    /\ pc[p] = "content"
    /\ \/ content' = content \ {img[p]} /\ UNCHANGED undeleted
       \/ /\ "delete" \in Faults /\ UNCHANGED content
          /\ undeleted' = undeleted \cup {img[p]}
    /\ pc' = [pc EXCEPT ![p] = "drop"]
    /\ UNCHANGED <<memory, parent, layers, img, broken>>

\* ... and the layer is released.
DeleteRelease(p) ==
    /\ pc[p] = "drop"
    /\ Release(LayerOf[img[p]])
    /\ lock' = None
    /\ pc' = [pc EXCEPT ![p] = "idle"] /\ img' = [img EXCEPT ![p] = None]
    /\ UNCHANGED <<images, children, files, status>>

-----------------------------------------------------------------------------
\* The daemon dies and starts again: restore loads every configuration, takes a
\* reference on its layer, and fails if there is none; then it fills in the
\* children.  A layer nobody refers to stays stored.
Restart ==
    LET lost == {i \in content : LayerOf[i] \notin stored \cup {None}}
    IN  /\ "crash" \in Faults /\ ~broken
        /\ broken' = (lost # {}) /\ undeleted' = lost
        /\ lock' = None
        /\ images' = content
        /\ children' = [q \in Images |->
                          IF q \in content THEN {i \in content : parent[i] = q} ELSE {}]
        /\ refs' = [l \in Layers |-> Cardinality({i \in content : LayerOf[i] = l})]
        /\ leaked' = [l \in Layers |-> 0]
        /\ pc' = [p \in Procs |-> "idle"] /\ img' = [p \in Procs |-> None]
        /\ UNCHANGED <<files, stored>>

Next ==
    \/ /\ ~broken
       /\ \E p \in Procs :
             \/ \E i \in Images : Register(p, i) \/ Delete(p, i)
             \/ Set(p) \/ Create(p) \/ Done(p) \/ LoadReleases(p) \/ LoadFails(p)
             \/ \E q \in Images : img[p] # None /\ q \in Parents[img[p]] /\ SetParent(p, q)
             \/ DeleteMetadata(p) \/ DeleteContent(p) \/ DeleteRelease(p)
    \/ Restart

Spec == Init /\ [][Next]_vars

-----------------------------------------------------------------------------
(* Properties                                                               *)

Holders(l) ==
    {i \in images : LayerOf[i] = l}
       \cup {p \in Procs : img[p] # None /\ pc[p] # "parent" /\ LayerOf[img[p]] = l}

\* Every layer has one reference per image in the store, one per caller at work
\* with it, and one per failed load: Create and Delete take and give back a layer
\* once, in whatever order they come, and also after a crash.
RefsAreExact == ~broken => \A l \in Layers : refs[l] = Cardinality(Holders(l)) + leaked[l]

\* The daemon can always be started again: restore finds the layer of every
\* configuration on disk, whenever Create or Delete was cut off.  Only a file that
\* fs.Delete failed to remove (Delete ignores the error) may have lost its layer.
RestartSucceeds == \A i \in content \ undeleted : LayerOf[i] \in stored \cup {None}

\* An image whose file names a parent in the store is among that parent's children,
\* which is what protects the parent from being deleted.
ParentKnowsChild ==
    lock = None => \A i \in content : parent[i] \in images => i \in children[parent[i]]

\* Create makes an image Get can read (TestAddDelete): an image in the store has
\* its configuration on disk.
CreatedIsReadable == lock = None => images \subseteq content

\* "A hard conflict is any image which has the given image as a parent"
\* (checkImageDeleteConflict, which looks at Children): a child is an image.
ChildrenExist == \A q \in images : children[q] \subseteq images
=============================================================================
