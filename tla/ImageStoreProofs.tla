--------------------------- MODULE ImageStoreProofs ---------------------------
(***************************************************************************)
(* Proofs, for any finite sets of callers and images and any layers, that  *)
(* the image store counts its references on layers exactly, and that it    *)
(* can be loaded again whenever it is cut off.                             *)
(*                                                                         *)
(* The second rests on the first: a configuration on disk belongs to an    *)
(* image in the store or to a call at work with it (Accounted), each of    *)
(* which holds a reference, and the layer store keeps what is referenced   *)
(* (Kept).                                                                 *)
(*                                                                         *)
(* A third: where deletions and writes of the parent do not fail and the   *)
(* daemon runs on, the tree of images holds together (Tree): an image has  *)
(* its parent in the store, and is among its children.                     *)
(***************************************************************************)
EXTENDS ImageStore, FiniteSetTheorems, TLAPS

\* Zenon unless a leaf says SMT: most steps are first-order.
USE Zenon

Pcs == {"idle", "set", "failed", "create", "created", "parent", "release",
        "meta", "content", "drop"}

\* What TypeOK says of all variables but the counts
Types ==
    /\ lock \in Procs \cup {None}
    /\ images \subseteq Images /\ children \in [Images -> SUBSET Images]
    /\ content \subseteq Images /\ parent \in [Images -> Images \cup {None}]
    /\ stored \subseteq Layers /\ leaked \in [Layers -> 0..MaxLeaks]
    /\ pc \in [Procs -> Pcs]
    /\ img \in [Procs -> Images \cup {None}]
    /\ broken \in BOOLEAN /\ undeleted \subseteq Images

\* A caller has an image while it is at work.
Calls == \A p \in Procs : img[p] = None <=> pc[p] = "idle"

\* The layer store keeps what is referenced.
Kept == \A l \in Layers : Holders(l) # {} => l \in stored

Exact == \A l \in Layers : refs[l] = Cardinality(Holders(l)) + leaked[l]

\* A configuration on disk is that of an image in the store, of a call between
\* fs.Set and Create or before the end of fs.Delete, or was left by fs.Delete.
Accounted ==
    \A i \in content :
        \/ i \in undeleted \cup images
        \/ \E p \in Procs : img[p] = i /\ pc[p] \in {"create", "meta", "content"}

IInv ==
    /\ Types /\ Calls /\ refs \in [Layers -> Nat]
    /\ ~broken => Exact /\ Kept /\ Accounted
    /\ broken => RestartSucceeds

-----------------------------------------------------------------------------
(* Holders of a layer                                                       *)

\* The holders of a layer are finitely many.
LEMMA HoldersFinite ==
    ASSUME images \subseteq Images, NEW l \in Layers
    PROVE  IsFiniteSet(Holders(l)) /\ Cardinality(Holders(l)) \in Nat
<1>1. IsFiniteSet(Images \cup Procs)
  BY FiniteAssumption, FS_Union
<1>2. Holders(l) \subseteq Images \cup Procs
  BY DEF Holders
<1> QED BY <1>1, <1>2, FS_Subset, FS_CardinalityType

LEMMA LeakedNat ==
    ASSUME Types, NEW l \in Layers
    PROVE  leaked[l] \in Nat
BY SMT, LeaksAssumption DEF Types

\* What Release does to the counts and to the layers stored
LEMMA ReleaseIs ==
    ASSUME NEW m, Release(m), None \notin Layers, NEW l \in Layers
    PROVE  /\ refs'[l] = refs[l] - (IF l = m THEN 1 ELSE 0)
           /\ l \in stored /\ (l # m \/ refs[l] # 1) => l \in stored'
BY DEF Release

\* A holder x of the layer m comes: layerStore.Get or Register.
LEMMA HolderComes ==
    ASSUME Types, Exact, Kept, NEW m, NEW x, UNCHANGED leaked,
           \A l \in Layers : refs'[l] = refs[l] + (IF l = m THEN 1 ELSE 0),
           \A l \in Layers : l \in stored \/ l = m => l \in stored',
           \A l \in Layers : l = m => x \notin Holders(l),
           \A l \in Layers : Holders(l)' = IF l = m THEN Holders(l) \cup {x} ELSE Holders(l)
    PROVE  Exact' /\ Kept'
<1> SUFFICES ASSUME NEW l \in Layers
             PROVE  /\ refs'[l] = Cardinality(Holders(l)') + leaked'[l]
                    /\ Holders(l)' # {} => l \in stored'
  BY DEF Exact, Kept
<1>1. /\ refs[l] = Cardinality(Holders(l)) + leaked[l] /\ IsFiniteSet(Holders(l))
      /\ Cardinality(Holders(l)) \in Nat /\ leaked[l] \in Nat /\ leaked'[l] = leaked[l]
      /\ Holders(l) # {} => l \in stored
  BY HoldersFinite, LeakedNat DEF Exact, Kept, Types
<1>2. CASE l = m
  <2>1. x \notin Holders(l) /\ Holders(l)' = Holders(l) \cup {x} /\ l \in stored'
    BY <1>2
  <2>2. Cardinality(Holders(l) \cup {x}) = Cardinality(Holders(l)) + 1
    BY <1>1, <2>1, FS_AddElement
  <2>3. refs'[l] = refs[l] + 1
    BY <1>2
  <2> QED BY SMT, <1>1, <2>1, <2>2, <2>3
<1>3. CASE l # m
  <2>1. Holders(l)' = Holders(l) /\ refs'[l] = refs[l] + 0
    BY <1>3
  <2> QED BY SMT, <1>1, <2>1
<1> QED BY <1>2, <1>3

\* A holder x of the layer m goes: layerStore.Release, which removes the layer with
\* its last reference.
LEMMA HolderGoes ==
    ASSUME Types, Exact, Kept, NEW m, NEW x, UNCHANGED leaked, Release(m), None \notin Layers,
           \A l \in Layers : x \in Holders(l) <=> l = m,
           \A l \in Layers : Holders(l)' = Holders(l) \ {x}
    PROVE  Exact' /\ Kept'
<1> SUFFICES ASSUME NEW l \in Layers
             PROVE  /\ refs'[l] = Cardinality(Holders(l)') + leaked'[l]
                    /\ Holders(l)' # {} => l \in stored'
  BY DEF Exact, Kept
<1>1. /\ refs[l] = Cardinality(Holders(l)) + leaked[l] /\ IsFiniteSet(Holders(l))
      /\ Cardinality(Holders(l)) \in Nat /\ leaked[l] \in Nat /\ leaked'[l] = leaked[l]
      /\ Holders(l) # {} => l \in stored
  BY HoldersFinite, LeakedNat DEF Exact, Kept, Types
<1>2. CASE l = m
  <2>1. x \in Holders(l) /\ Holders(l)' = Holders(l) \ {x}
    BY <1>2
  <2>2. /\ Cardinality(Holders(l) \ {x}) = Cardinality(Holders(l)) - 1
        /\ IsFiniteSet(Holders(l) \ {x}) /\ Cardinality(Holders(l) \ {x}) \in Nat
    BY <1>1, <2>1, FS_RemoveElement, FS_CardinalityType
  <2>3. refs'[l] = refs[l] - 1 /\ (l \in stored /\ refs[l] # 1 => l \in stored')
    BY <1>2, ReleaseIs
  <2>4. Holders(l) \ {x} # {} => Cardinality(Holders(l) \ {x}) # 0
    BY <2>2, FS_EmptySet
  <2> QED BY SMT, <1>1, <2>1, <2>2, <2>3, <2>4
<1>3. CASE l # m
  <2>1. Holders(l)' = Holders(l)
    BY <1>3
  <2>2. refs'[l] = refs[l] - 0 /\ (l \in stored => l \in stored')
    BY <1>3, ReleaseIs
  <2> QED BY SMT, <1>1, <2>1, <2>2
<1> QED BY <1>2, <1>3

\* The holders do not change.
LEMMA HoldersStay ==
    ASSUME Exact, Kept, UNCHANGED <<images, refs, stored, leaked>>,
           \A l \in Layers : Holders(l)' = Holders(l)
    PROVE  Exact' /\ Kept'
BY DEF Exact, Kept

\* They do not if no caller takes or gives back a layer.
LEMMA SameHolders ==
    ASSUME UNCHANGED images,
           \A p \in Procs : \/ img'[p] = img[p] /\ (pc'[p] = "parent" <=> pc[p] = "parent")
                            \/ pc[p] = "parent" /\ img'[p] = None,
           NEW l \in Layers
    PROVE  Holders(l)' = Holders(l)
BY DEF Holders

\* A step after which the counts are exact keeps the invariant if it keeps the rest.
LEMMA StepIInv ==
    ASSUME Types', Calls', refs' \in [Layers -> Int], ~broken', Exact', Kept', Accounted'
    PROVE  IInv'
<1>1. ASSUME NEW l \in Layers PROVE refs'[l] \in Nat
  <2>1. images' \subseteq Images
    BY DEF Types
  <2>2. Holders(l)' \subseteq Images \cup Procs
    BY <2>1 DEF Holders
  <2>3. IsFiniteSet(Images \cup Procs)
    BY FiniteAssumption, FS_Union
  <2>4. Cardinality(Holders(l)') \in Nat
    BY <2>2, <2>3, FS_Subset, FS_CardinalityType
  <2>5. leaked'[l] \in Nat /\ refs'[l] = Cardinality(Holders(l)') + leaked'[l]
    BY SMT, LeaksAssumption DEF Exact, Types
  <2> QED BY SMT, <2>4, <2>5
<1>2. refs' \in [Layers -> Nat]
  BY <1>1
<1> QED BY <1>2 DEF IInv

-----------------------------------------------------------------------------
\* The invariant holds for an empty store.
LEMMA Initially == Init => IInv
<1> SUFFICES ASSUME Init PROVE IInv
  OBVIOUS
<1>1. \A l \in Layers : Holders(l) = {}
  BY DEF Init, Holders
<1>2. Exact /\ Kept
  <2>1. ASSUME NEW l \in Layers PROVE refs[l] = Cardinality(Holders(l)) + leaked[l]
    <3>1. refs[l] = 0 /\ leaked[l] = 0 /\ Cardinality(Holders(l)) = 0
      BY <1>1, FS_EmptySet DEF Init
    <3> QED BY SMT, <3>1
  <2> QED BY <1>1, <2>1 DEF Exact, Kept
<1>3. leaked \in [Layers -> 0..MaxLeaks]
  BY SMT, LeaksAssumption DEF Init
<1> QED BY <1>2, <1>3, NoneAssumption DEF Init, IInv, Types, Calls, Accounted, Pcs

\* What the invariant gives a step of a store that was loaded.
LEMMA Given ==
    ASSUME IInv, ~broken
    PROVE  /\ Types
           /\ images \subseteq Images /\ content \subseteq Images /\ stored \subseteq Layers
           /\ pc \in [Procs -> Pcs] /\ img \in [Procs -> Images \cup {None}]
           /\ refs \in [Layers -> Nat]
           /\ Calls /\ Exact /\ Kept /\ Accounted
           /\ LayerOf \in [Images -> Layers \cup {None}]
           /\ None \notin Layers /\ None \notin Images /\ Procs \cap Images = {}
BY LayerOfAssumption, NoneAssumption, FiniteAssumption DEF IInv, Types

\* layerStore.Register for an image to be created
LEMMA RegisterStep ==
    ASSUME IInv, ~broken, NEW p \in Procs, NEW i \in Images, Register(p, i)
    PROVE  IInv'
<1>0. /\ images \subseteq Images /\ stored \subseteq Layers
      /\ pc \in [Procs -> Pcs] /\ img \in [Procs -> Images \cup {None}]
      /\ refs \in [Layers -> Nat] /\ Calls /\ Exact /\ Kept /\ Accounted
      /\ LayerOf[i] \in Layers \cup {None}
      /\ None \notin Layers /\ None \notin Images /\ Procs \cap Images = {}
  BY Given
<1>1. /\ pc[p] = "idle" /\ img[p] = None
      /\ pc' = [pc EXCEPT ![p] = "set"] /\ img' = [img EXCEPT ![p] = i]
      /\ refs' = [l \in Layers |-> refs[l] + (IF l = LayerOf[i] THEN 1 ELSE 0)]
      /\ stored' = stored \cup ({LayerOf[i]} \ {None})
  BY <1>0 DEF Register, Calls
<1>2. UNCHANGED <<lock, images, children, content, parent, leaked, broken, undeleted>> /\ Types
  BY DEF Register, memory, files, status, IInv
<1>3. img'[p] = i /\ pc'[p] = "set" /\ \A q \in Procs \ {p} : img'[q] = img[q] /\ pc'[q] = pc[q]
  BY <1>0, <1>1
<1>4. Types'
  BY <1>0, <1>1, <1>2 DEF IInv, Types, Pcs
<1>5. Calls'
  BY <1>0, <1>3 DEF Calls
<1>6. Accounted'
  <2> SUFFICES ASSUME NEW j \in content, j \notin undeleted \cup images
               PROVE  \E q \in Procs : img'[q] = j /\ pc'[q] \in {"create", "meta", "content"}
    BY <1>2 DEF Accounted
  <2>1. PICK q \in Procs : img[q] = j /\ pc[q] \in {"create", "meta", "content"}
    BY <1>0 DEF Accounted
  <2>2. q # p
    BY <1>1, <2>1
  <2> QED BY <1>3, <2>1, <2>2
<1>7. Exact' /\ Kept'
  <2>1. \A l \in Layers : l = LayerOf[i] => p \notin Holders(l)
    BY <1>0, <1>1 DEF Holders
  <2>2. \A l \in Layers :
          Holders(l)' = IF l = LayerOf[i] THEN Holders(l) \cup {p} ELSE Holders(l)
    BY SMT, <1>0, <1>1, <1>2, <1>3 DEF Holders
  <2>3. /\ \A l \in Layers : refs'[l] = refs[l] + (IF l = LayerOf[i] THEN 1 ELSE 0)
        /\ \A l \in Layers : l \in stored \/ l = LayerOf[i] => l \in stored'
    BY <1>0, <1>1
  <2> QED BY <1>0, <1>2, <2>1, <2>2, <2>3, HolderComes
<1>8. refs' \in [Layers -> Int]
  BY SMT, <1>0, <1>1
<1> QED BY <1>2, <1>4, <1>5, <1>6, <1>7, <1>8, StepIInv

\* Create, under the lock
LEMMA CreateStep ==
    ASSUME IInv, ~broken, NEW p \in Procs, Create(p)
    PROVE  IInv'
<1>0. /\ images \subseteq Images /\ content \subseteq Images /\ stored \subseteq Layers
      /\ pc \in [Procs -> Pcs] /\ img \in [Procs -> Images \cup {None}]
      /\ refs \in [Layers -> Nat] /\ Calls /\ Exact /\ Kept /\ Accounted
      /\ LayerOf \in [Images -> Layers \cup {None}]
      /\ None \notin Layers /\ None \notin Images /\ Procs \cap Images = {}
  BY Given
<1>1. /\ pc[p] = "create" /\ img[p] \in Images
      /\ pc' = [pc EXCEPT ![p] = "created"]
      /\ undeleted' = undeleted \ {img[p]}
      /\ UNCHANGED <<lock, content, parent, img, leaked, broken>> /\ Types
  BY <1>0, Given DEF Create, Calls, files, layers, Get
<1>2. \/ img[p] \in images /\ UNCHANGED <<images, children, refs, stored>>
      \/ /\ img[p] \notin images /\ images' = images \cup {img[p]}
         /\ children' = [children EXCEPT ![img[p]] = {}]
         /\ Get(LayerOf[img[p]])
  BY DEF Create, layers
<1>3. pc'[p] = "created" /\ \A q \in Procs \ {p} : pc'[q] = pc[q]
  BY <1>0, <1>1
<1>4. images' = images \cup {img[p]}
  BY <1>2
<1>5. Types'
  <2>1. children' \in [Images -> SUBSET Images]
    BY <1>1, <1>2 DEF IInv, Types
  <2>2. stored' = stored
    BY <1>2 DEF Get
  <2> QED BY <1>0, <1>1, <1>4, <2>1, <2>2 DEF IInv, Types, Pcs
<1>6. Calls'
  BY <1>0, <1>1, <1>3 DEF Calls
<1>7. Accounted'
  BY SMT, <1>0, <1>1, <1>3, <1>4 DEF Accounted
<1>8. Exact' /\ Kept' /\ refs' \in [Layers -> Int]
  <2>1. CASE UNCHANGED <<images, refs, stored>>
    <3>1. \A l \in Layers : Holders(l)' = Holders(l)
      BY <1>1, <1>3, <2>1, SameHolders
    <3>2. refs' \in [Layers -> Int]
      BY SMT, <1>0, <2>1
    <3> QED BY <1>0, <1>1, <2>1, <3>1, <3>2, HoldersStay
  <2>2. CASE img[p] \notin images /\ Get(LayerOf[img[p]])
    <3> DEFINE m == LayerOf[img[p]]
    <3>1. \A l \in Layers : refs'[l] = refs[l] + (IF l = m THEN 1 ELSE 0)
      BY <2>2 DEF Get
    <3>2. \A l \in Layers : l = m => p \in Holders(l) /\ img[p] \notin Holders(l)
      BY <1>0, <1>1, <2>2 DEF Holders
    <3>3. \A l \in Layers : l \in stored \/ l = m => l \in stored'
      BY <1>0, <2>2, <3>2 DEF Get, Kept
    <3>4. \A l \in Layers :
            Holders(l)' = IF l = m THEN Holders(l) \cup {img[p]} ELSE Holders(l)
      BY <1>0, <1>1, <1>3, <1>4 DEF Holders
    <3>5. refs' \in [Layers -> Int]
      BY SMT, <1>0, <2>2 DEF Get
    <3> HIDE DEF m
    <3> QED BY <1>0, <1>1, <3>1, <3>2, <3>3, <3>4, <3>5, HolderComes
  <2> QED BY <1>2, <2>1, <2>2
<1> QED BY <1>1, <1>5, <1>6, <1>7, <1>8, StepIInv

\* Steps that take and give back no layer: fs.Set, SetParent and the two halves of
\* fs.Delete
LEMMA FilesStep ==
    ASSUME IInv, ~broken, NEW p \in Procs,
           \/ Set(p) \/ (\E q \in Images : SetParent(p, q))
           \/ DeleteMetadata(p) \/ DeleteContent(p)
    PROVE  IInv'
<1>0. /\ images \subseteq Images /\ content \subseteq Images
      /\ pc \in [Procs -> Pcs] /\ img \in [Procs -> Images \cup {None}]
      /\ refs \in [Layers -> Nat] /\ Calls /\ Exact /\ Kept /\ Accounted
      /\ None \notin Images
  BY Given
<1>1. UNCHANGED <<lock, images, refs, stored, leaked, broken>>
  BY DEF Set, SetParent, DeleteMetadata, DeleteContent, memory, layers, status
<1>2. /\ pc[p] \in {"set", "created", "parent", "meta", "content"} /\ img[p] \in Images
      /\ \/ UNCHANGED img /\ pc[p] # "parent"
            /\ \E l \in Pcs \ {"idle", "parent"} : pc' = [pc EXCEPT ![p] = l]
         \/ /\ pc[p] = "parent" /\ img' = [img EXCEPT ![p] = None]
            /\ pc' = [pc EXCEPT ![p] = "idle"]
  BY <1>0 DEF Set, SetParent, DeleteMetadata, DeleteContent, Calls, Pcs
<1>3. /\ \A q \in Procs \ {p} : img'[q] = img[q] /\ pc'[q] = pc[q]
      /\ \/ img'[p] = img[p] /\ pc'[p] \in Pcs \ {"idle", "parent"} /\ pc[p] # "parent"
         \/ img'[p] = None /\ pc'[p] = "idle" /\ pc[p] = "parent"
  BY <1>0, <1>2
<1>4. Types'
  <2>0. pc' \in [Procs -> Pcs] /\ img' \in [Procs -> Images \cup {None}]
    BY <1>0, <1>2 DEF Pcs
  <2>1. content' \subseteq Images /\ undeleted' \subseteq Images
    BY <1>0, <1>2 DEF Set, SetParent, DeleteMetadata, DeleteContent, files, status, IInv, Types
  <2>2. children' \in [Images -> SUBSET Images]
    <3>0. children \in [Images -> SUBSET Images]
      BY DEF IInv, Types
    <3>1. ASSUME NEW q \in Images, SetParent(p, q), ~UNCHANGED children
          PROVE  children' \in [Images -> SUBSET Images]
      <4>1. Orphaned(img[p]) \in [Images -> SUBSET Images]
        BY <3>0 DEF Orphaned
      <4>2. children' = [Orphaned(img[p]) EXCEPT ![q] = @ \cup {img[p]}]
        BY <3>1 DEF SetParent
      <4> QED BY <1>2, <4>1, <4>2
    <3>2. CASE Set(p) \/ DeleteMetadata(p) \/ DeleteContent(p)
      BY <3>0, <3>2 DEF Set, DeleteMetadata, DeleteContent, memory
    <3> QED BY <3>0, <3>1, <3>2
  <2>3. parent' \in [Images -> Images \cup {None}]
    <3>0. parent \in [Images -> Images \cup {None}]
      BY DEF IInv, Types
    <3> QED BY <1>2, <3>0 DEF Set, SetParent, DeleteMetadata, DeleteContent
  <2> QED BY <1>1, <2>0, <2>1, <2>2, <2>3 DEF IInv, Types
<1>5. Calls'
  BY <1>0, <1>2, <1>3 DEF Calls
<1>6. Accounted'
  <2>1. CASE Set(p)
    <3>1. /\ (content' = content \cup {img[p]} /\ pc'[p] = "create") \/ content' = content
          /\ UNCHANGED undeleted /\ pc[p] = "set"
      BY <1>0, <2>1 DEF Set, status
    <3> SUFFICES ASSUME NEW j \in content', j \notin undeleted \cup images
                 PROVE  \E q \in Procs : img'[q] = j /\ pc'[q] \in {"create", "meta", "content"}
      BY <1>1, <3>1 DEF Accounted
    <3>2. CASE j \notin content
      BY <1>3, <3>1, <3>2
    <3>3. CASE j \in content
      <4>1. PICK q \in Procs : img[q] = j /\ pc[q] \in {"create", "meta", "content"}
        BY <1>0, <3>3 DEF Accounted
      <4>2. q # p
        BY <3>1, <4>1
      <4> QED BY <1>3, <4>1, <4>2
    <3> QED BY <3>2, <3>3
  <2>2. ASSUME NEW q \in Images, SetParent(p, q) PROVE Accounted'
    <3>1. UNCHANGED <<content, undeleted>> /\ pc[p] \in {"created", "parent"}
      BY <2>2 DEF SetParent, status
    <3>2. ASSUME NEW r \in Procs, pc[r] \in {"create", "meta", "content"}
          PROVE  img'[r] = img[r] /\ pc'[r] = pc[r]
      <4>1. r # p
        BY <3>1, <3>2
      <4> QED BY <1>3, <4>1
    <3>3. images' = images
      BY <1>1
    <3> SUFFICES ASSUME NEW j \in content, j \notin undeleted \cup images
                 PROVE  \E r \in Procs : img'[r] = j /\ pc'[r] \in {"create", "meta", "content"}
      BY <3>1, <3>3 DEF Accounted
    <3>4. PICK r \in Procs : img[r] = j /\ pc[r] \in {"create", "meta", "content"}
      BY <1>0 DEF Accounted
    <3> QED BY <3>2, <3>4
  <2>3. CASE DeleteMetadata(p)
    <3>1. /\ UNCHANGED content /\ undeleted \subseteq undeleted'
          /\ pc'[p] = "content" \/ img[p] \in undeleted'
      BY <1>0, <2>3 DEF DeleteMetadata
    <3> QED BY SMT, <1>0, <1>1, <1>3, <3>1 DEF Accounted
  <2>4. CASE DeleteContent(p)
    <3>1. /\ undeleted \subseteq undeleted'
          /\ content' = content \ {img[p]} \/ (content' = content /\ img[p] \in undeleted')
      BY <2>4 DEF DeleteContent
    <3> QED BY SMT, <1>0, <1>1, <1>3, <3>1 DEF Accounted
  <2> QED BY <2>1, <2>2, <2>3, <2>4
<1>7. Exact' /\ Kept'
  <2>1. \A l \in Layers : Holders(l)' = Holders(l)
    BY <1>1, <1>3, SameHolders
  <2> QED BY <1>0, <1>1, <2>1, HoldersStay
<1> QED BY SMT, <1>0, <1>1, <1>4, <1>5, <1>6, <1>7, StepIInv

\* The caller of Create, or Delete, gives its reference back.
LEMMA ReleaseStep ==
    ASSUME IInv, ~broken, NEW p \in Procs, Done(p) \/ LoadReleases(p) \/ DeleteRelease(p)
    PROVE  IInv'
<1>0. /\ images \subseteq Images /\ stored \subseteq Layers
      /\ pc \in [Procs -> Pcs] /\ img \in [Procs -> Images \cup {None}]
      /\ refs \in [Layers -> Nat] /\ Calls /\ Exact /\ Kept /\ Accounted
      /\ LayerOf \in [Images -> Layers \cup {None}]
      /\ None \notin Layers /\ None \notin Images /\ Procs \cap Images = {}
  BY Given
<1>1. /\ pc[p] \in {"failed", "created", "release", "drop"} /\ img[p] \in Images
      /\ \/ pc' = [pc EXCEPT ![p] = "idle"] /\ img' = [img EXCEPT ![p] = None]
         \/ pc' = [pc EXCEPT ![p] = "parent"] /\ UNCHANGED img
      /\ Release(LayerOf[img[p]])
      /\ lock' \in {lock, None}
      /\ UNCHANGED <<images, children, content, parent, leaked, broken, undeleted>> /\ Types
  BY <1>0, Given DEF Done, LoadReleases, DeleteRelease, Release, Calls, memory, files, status
<1>2. /\ \/ img'[p] = None /\ pc'[p] = "idle"
         \/ img'[p] = img[p] /\ pc'[p] = "parent"
      /\ \A q \in Procs \ {p} : img'[q] = img[q] /\ pc'[q] = pc[q]
  BY <1>0, <1>1
<1>3. Types'
  <2>1. stored' \subseteq Layers
    BY <1>0, <1>1 DEF Release
  <2>2. pc' \in [Procs -> Pcs] /\ img' \in [Procs -> Images \cup {None}]
    BY <1>0, <1>1 DEF Pcs
  <2> QED BY <1>1, <2>1, <2>2 DEF Types
<1>4. Calls'
  BY <1>0, <1>1, <1>2 DEF Calls
<1>5. Accounted'
  BY SMT, <1>0, <1>1, <1>2 DEF Accounted
<1>6. Exact' /\ Kept'
  <2> DEFINE m == LayerOf[img[p]]
  <2>1. \A l \in Layers : p \in Holders(l) <=> l = m
    BY <1>0, <1>1 DEF Holders
  <2>2. \A l \in Layers : Holders(l)' = Holders(l) \ {p}
    BY SMT, <1>0, <1>1, <1>2 DEF Holders
  <2>3. Release(m)
    BY <1>1
  <2> HIDE DEF m
  <2> QED BY <1>0, <1>1, <2>1, <2>2, <2>3, HolderGoes
<1>7. refs' \in [Layers -> Int]
  BY SMT, <1>0, <1>1 DEF Release
<1> QED BY <1>1, <1>3, <1>4, <1>5, <1>6, <1>7, StepIInv

\* legacyLoadImage ends with an error: its reference is nobody's from now on.
LEMMA LeakStep ==
    ASSUME IInv, ~broken, NEW p \in Procs, LoadFails(p)
    PROVE  IInv'
<1> PICK m : m = LayerOf[img[p]]
  OBVIOUS
<1>0. /\ pc \in [Procs -> Pcs] /\ img \in [Procs -> Images \cup {None}]
      /\ refs \in [Layers -> Nat] /\ Calls /\ Exact /\ Kept /\ Accounted /\ Types
      /\ images \subseteq Images /\ None \notin Images /\ Procs \cap Images = {}
  BY Given
<1>1. /\ pc[p] = "failed" /\ img[p] \in Images
      /\ pc' = [pc EXCEPT ![p] = "idle"] /\ img' = [img EXCEPT ![p] = None]
      /\ \A l \in Layers : leaked[l] < MaxLeaks
      /\ leaked' = [l \in Layers |-> leaked[l] + (IF l = m THEN 1 ELSE 0)]
      /\ UNCHANGED <<lock, images, children, content, parent, refs, stored, broken, undeleted>>
  BY <1>0 DEF LoadFails, Calls, memory, files, status
<1>2. img'[p] = None /\ pc'[p] = "idle" /\ \A q \in Procs \ {p} : img'[q] = img[q] /\ pc'[q] = pc[q]
  BY <1>0, <1>1
<1>3. Types'
  <2>1. leaked' \in [Layers -> 0..MaxLeaks]
    BY SMT, <1>0, <1>1, LeaksAssumption DEF Types
  <2>2. pc' \in [Procs -> Pcs] /\ img' \in [Procs -> Images \cup {None}]
    BY <1>0, <1>1 DEF Pcs
  <2> QED BY <1>0, <1>1, <2>1, <2>2 DEF Types
<1>4. Calls'
  BY <1>0, <1>2 DEF Calls
<1>5. Accounted'
  BY SMT, <1>0, <1>1, <1>2 DEF Accounted
<1>6. Exact' /\ Kept'
  <2> SUFFICES ASSUME NEW l \in Layers
               PROVE  /\ refs'[l] = Cardinality(Holders(l)') + leaked'[l]
                      /\ Holders(l)' # {} => l \in stored'
    BY DEF Exact, Kept
  <2>1. /\ refs[l] = Cardinality(Holders(l)) + leaked[l] /\ IsFiniteSet(Holders(l))
        /\ Cardinality(Holders(l)) \in Nat /\ leaked[l] \in Nat
        /\ Holders(l) # {} => l \in stored
    BY <1>0, HoldersFinite, LeakedNat DEF Exact, Kept
  <2>2. Holders(l)' = Holders(l) \ {p}
    BY <1>0, <1>1, <1>2 DEF Holders
  <2>3. p \in Holders(l) <=> l = m
    BY <1>0, <1>1 DEF Holders
  <2>4. CASE l = m
    <3>1. Cardinality(Holders(l) \ {p}) = Cardinality(Holders(l)) - 1
      BY <2>1, <2>3, <2>4, FS_RemoveElement
    <3>2. leaked'[l] = leaked[l] + 1 /\ refs'[l] = refs[l]
      BY <1>1, <2>4
    <3>3. refs'[l] = Cardinality(Holders(l) \ {p}) + leaked'[l]
      BY SMT, <2>1, <3>1, <3>2
    <3> QED BY <1>1, <2>1, <2>2, <3>3
  <2>5. CASE l # m
    <3>1. Holders(l)' = Holders(l)
      BY <2>2, <2>3, <2>5
    <3>2. leaked'[l] = leaked[l] + 0
      BY <1>1, <2>5
    <3>3. leaked'[l] = leaked[l]
      BY SMT, <2>1, <3>2
    <3> QED BY <1>1, <2>1, <3>1, <3>3
  <2> QED BY <2>4, <2>5
<1>7. refs' \in [Layers -> Int]
  BY SMT, <1>0, <1>1
<1> QED BY <1>1, <1>3, <1>4, <1>5, <1>6, <1>7, StepIInv

\* One holder takes the place of another: the count stays.
LEMMA Swap ==
    ASSUME NEW S, IsFiniteSet(S), NEW x \in S, NEW y, y \notin S
    PROVE  Cardinality((S \ {x}) \cup {y}) = Cardinality(S)
<1>1. /\ IsFiniteSet(S \ {x}) /\ Cardinality(S \ {x}) = Cardinality(S) - 1
      /\ Cardinality(S) \in Nat
  BY FS_RemoveElement, FS_CardinalityType
<1>2. Cardinality((S \ {x}) \cup {y}) = Cardinality(S \ {x}) + 1
  BY <1>1, FS_AddElement
<1> QED BY SMT, <1>1, <1>2

\* Delete forgets the image; the reference it held is now the caller's.
LEMMA DeleteStep ==
    ASSUME IInv, ~broken, NEW p \in Procs, NEW i \in Images, Delete(p, i)
    PROVE  IInv'
<1>0. /\ images \subseteq Images
      /\ pc \in [Procs -> Pcs] /\ img \in [Procs -> Images \cup {None}]
      /\ refs \in [Layers -> Nat] /\ Calls /\ Exact /\ Kept /\ Accounted
      /\ None \notin Layers /\ None \notin Images /\ Procs \cap Images = {}
  BY Given
<1>1. /\ pc[p] = "idle" /\ img[p] = None /\ i \in images
      /\ lock' = p /\ images' = images \ {i}
      /\ pc' = [pc EXCEPT ![p] = "meta"] /\ img' = [img EXCEPT ![p] = i]
      /\ UNCHANGED <<content, refs, stored, leaked, broken, undeleted>> /\ Types
  BY <1>0, Given DEF Delete, Calls, layers, status
<1>2. img'[p] = i /\ pc'[p] = "meta" /\ \A q \in Procs \ {p} : img'[q] = img[q] /\ pc'[q] = pc[q]
  BY <1>0, <1>1
<1>3. Types'
  <2>1. children' \in [Images -> SUBSET Images]
    <3>1. children \in [Images -> SUBSET Images]
      BY DEF IInv, Types
    <3>2. Orphaned(i) \in [Images -> SUBSET Images]
      BY <3>1 DEF Orphaned
    <3> QED BY <3>2 DEF Delete
  <2>2. parent' \in [Images -> Images \cup {None}]
    <3>1. parent \in [Images -> Images \cup {None}]
      BY DEF IInv, Types
    <3> QED BY <3>1 DEF Delete
  <2> QED BY <1>0, <1>1, <2>1, <2>2 DEF IInv, Types, Pcs
<1>4. Calls'
  BY <1>0, <1>2 DEF Calls
<1>5. Accounted'
  BY SMT, <1>0, <1>1, <1>2 DEF Accounted
<1>6. Exact' /\ Kept'
  <2> SUFFICES ASSUME NEW l \in Layers
               PROVE  /\ refs'[l] = Cardinality(Holders(l)') + leaked'[l]
                      /\ Holders(l)' # {} => l \in stored'
    BY DEF Exact, Kept
  <2>1. /\ refs[l] = Cardinality(Holders(l)) + leaked[l] /\ IsFiniteSet(Holders(l))
        /\ Holders(l) # {} => l \in stored
    BY <1>0, HoldersFinite DEF Exact, Kept
  <2>2. CASE LayerOf[i] = l
    <3>1. i \in Holders(l) /\ p \notin Holders(l)
      BY <1>0, <1>1, <2>2 DEF Holders
    <3>2. Holders(l)' = (Holders(l) \ {i}) \cup {p}
      BY SMT, <1>0, <1>1, <1>2, <2>2 DEF Holders
    <3>3. Cardinality((Holders(l) \ {i}) \cup {p}) = Cardinality(Holders(l))
      BY <2>1, <3>1, Swap
    <3> QED BY <1>1, <2>1, <3>1, <3>2, <3>3
  <2>3. CASE LayerOf[i] # l
    <3>1. Holders(l)' = Holders(l)
      BY <1>0, <1>1, <1>2, <2>3 DEF Holders
    <3> QED BY <1>1, <2>1, <3>1
  <2> QED BY <2>2, <2>3
<1> QED BY SMT, <1>0, <1>1, <1>3, <1>4, <1>5, <1>6, StepIInv

\* restore: every configuration whose layer is there is loaded, with a reference.
LEMMA RestartStep ==
    ASSUME IInv, Restart
    PROVE  IInv'
<1> DEFINE lost == {i \in content : LayerOf[i] \notin stored \cup {None}}
<1>0. /\ content \subseteq Images /\ stored \subseteq Layers
      /\ parent \in [Images -> Images \cup {None}]
  BY DEF IInv, Types
<1>1. /\ broken' = (lost # {}) /\ undeleted' = lost /\ lock' = None /\ images' = content
      /\ refs' = [l \in Layers |-> Cardinality({i \in content : LayerOf[i] = l})]
      /\ pc' = [p \in Procs |-> "idle"] /\ img' = [p \in Procs |-> None]
      /\ leaked' = [l \in Layers |-> 0]
      /\ UNCHANGED <<content, parent, stored>>
  BY DEF Restart, files
<1>2. children' \in [Images -> SUBSET Images]
  BY <1>0 DEF Restart
<1>3. Types'
  <2>1. broken' \in BOOLEAN /\ lost \subseteq Images
    BY <1>0, <1>1
  <2>2. leaked' \in [Layers -> 0..MaxLeaks]
    BY SMT, <1>1, LeaksAssumption
  <2> QED BY <1>0, <1>1, <1>2, <2>1, <2>2 DEF Types, Pcs
<1>4. Calls'
  BY <1>1 DEF Calls
<1>5. \A l \in Layers : Holders(l)' = {i \in content : LayerOf[i] = l}
  BY <1>1 DEF Holders
<1>6. Exact'
  <2>1. ASSUME NEW l \in Layers PROVE refs'[l] = Cardinality(Holders(l)') + leaked'[l]
    <3>1. refs'[l] = Cardinality(Holders(l)') /\ leaked'[l] = 0
      BY <1>1, <1>5
    <3>2. Cardinality({i \in content : LayerOf[i] = l}) \in Nat
      BY <1>0, FiniteAssumption, FS_Subset, FS_CardinalityType
    <3> QED BY SMT, <1>5, <3>1, <3>2
  <2> QED BY <2>1 DEF Exact
<1>7. CASE lost = {}
  <2>1. ~broken'
    BY <1>1, <1>7
  <2>2. Kept'
    <3> SUFFICES ASSUME NEW l \in Layers, NEW i \in content, LayerOf[i] = l PROVE l \in stored
      BY <1>1, <1>5 DEF Kept
    <3> QED BY <1>7, NoneAssumption
  <2>3. Accounted'
    BY <1>1 DEF Accounted
  <2>4. refs' \in [Layers -> Int]
    <3>1. ASSUME NEW l \in Layers PROVE Cardinality({i \in content : LayerOf[i] = l}) \in Nat
      BY <1>0, FiniteAssumption, FS_Subset, FS_CardinalityType
    <3> QED BY SMT, <1>1, <3>1
  <2> QED BY <1>3, <1>4, <1>6, <2>1, <2>2, <2>3, <2>4, StepIInv
<1>8. CASE lost # {}
  <2>1. broken'
    BY <1>1, <1>8
  <2>2. RestartSucceeds'
    BY <1>1 DEF RestartSucceeds
  <2>3. refs' \in [Layers -> Nat]
    <3>1. ASSUME NEW l \in Layers PROVE Cardinality({i \in content : LayerOf[i] = l}) \in Nat
      BY <1>0, FiniteAssumption, FS_Subset, FS_CardinalityType
    <3> QED BY <1>1, <3>1
  <2> QED BY <1>3, <1>4, <2>1, <2>2, <2>3 DEF IInv
<1> QED BY <1>7, <1>8

\* Every step keeps the invariant.
LEMMA NextIInv == IInv /\ [Next]_vars => IInv'
<1> SUFFICES ASSUME IInv, [Next]_vars PROVE IInv'
  OBVIOUS
<1>1. CASE UNCHANGED vars
  <2>1. UNCHANGED <<lock, images, children, content, parent, refs, stored, leaked, pc, img, broken, undeleted>>
    BY <1>1 DEF vars, memory, files, layers, status
  <2>2. Types' = Types /\ Calls' = Calls
    BY <2>1 DEF Types, Calls
  <2>3. Exact' = Exact /\ Kept' = Kept
    BY <2>1 DEF Exact, Kept, Holders
  <2>4. Accounted' = Accounted /\ RestartSucceeds' = RestartSucceeds
    BY <2>1 DEF Accounted, RestartSucceeds
  <2> QED BY <2>1, <2>2, <2>3, <2>4 DEF IInv
<1>2. CASE Restart
  BY <1>2, RestartStep
<1>3. ASSUME ~broken, NEW p \in Procs, NEW i \in Images, Register(p, i) \/ Delete(p, i)
      PROVE  IInv'
  BY <1>3, RegisterStep, DeleteStep
<1>4. ASSUME ~broken, NEW p \in Procs,
             \/ Set(p) \/ (\E q \in Images : SetParent(p, q))
             \/ DeleteMetadata(p) \/ DeleteContent(p)
      PROVE  IInv'
  BY <1>4, FilesStep
<1>5. ASSUME ~broken, NEW p \in Procs, Create(p) PROVE IInv'
  BY <1>5, CreateStep
<1>6. ASSUME ~broken, NEW p \in Procs, Done(p) \/ LoadReleases(p) \/ DeleteRelease(p) PROVE IInv'
  BY <1>6, ReleaseStep
<1>7. ASSUME ~broken, NEW p \in Procs, LoadFails(p) PROVE IInv'
  BY <1>7, LeakStep
<1> QED BY <1>1, <1>2, <1>3, <1>4, <1>5, <1>6, <1>7 DEF Next

-----------------------------------------------------------------------------
\* The variables of the image store keep their types; no count is ever negative.
THEOREM TypeCorrect == Spec => []TypeOK
<1>1. IInv => TypeOK
  BY DEF IInv, Types, TypeOK, Pcs
<1> QED BY <1>1, Initially, NextIInv, PTL DEF Spec

\* A layer has exactly one reference per image in the store and per call at work,
\* in whatever order Create and Delete run, fail and are cut off.
THEOREM CountsReferences == Spec => []RefsAreExact
<1>1. IInv => RefsAreExact
  BY DEF IInv, RefsAreExact, Exact
<1> QED BY <1>1, Initially, NextIInv, PTL DEF Spec

\* Wherever the daemon dies, restore finds the layer of every configuration that
\* fs.Delete has not failed to remove.
THEOREM CanBeRestored == Spec => []RestartSucceeds
<1>1. IInv => RestartSucceeds
  <2> SUFFICES ASSUME IInv, ~broken, NEW i \in content \ undeleted, LayerOf[i] # None
               PROVE  LayerOf[i] \in stored
    BY DEF IInv, RestartSucceeds
  <2>1. Kept /\ Accounted /\ i \in Images /\ LayerOf[i] \in Layers
    BY Given
  <2>2. i \in images \/ \E p \in Procs : img[p] = i /\ pc[p] # "parent"
    BY <2>1 DEF Accounted
  <2>3. Holders(LayerOf[i]) # {}
    BY <2>1, <2>2, NoneAssumption DEF Holders
  <2> QED BY <2>1, <2>3 DEF Kept
<1> QED BY <1>1, Initially, NextIInv, PTL DEF Spec

-----------------------------------------------------------------------------
(* The tree of images, when the files can be written and removed.  Memory and
   disk name the same parents, except for the image that Delete is at work with:
   it leaves the children of its parent first, and its file is removed next. *)

\* Only the writing of configurations fails, and the daemon runs on.
Reliable == Faults \subseteq {"set"}

Deleting == {"meta", "content", "drop"}

\* The file of i names no parent, or an image in the store that knows its child.
Rooted(i) ==
    parent[i] # None =>
        /\ i \in content /\ parent[i] \in images
        /\ i \in children[parent[i]] \/ \E p \in Procs : pc[p] = "meta" /\ img[p] = i

Tree ==
    /\ \A p \in Procs : pc[p] \in Deleting => lock = p
    /\ \A p \in Procs : pc[p] = "content" => parent[img[p]] = None
    /\ \A i \in Images : Rooted(i)

\* The steps that leave the files of parents alone
LEMMA GrowingTree ==
    ASSUME Types, Tree, NEW p \in Procs,
           UNCHANGED <<lock, parent>>, content \subseteq content', images \subseteq images',
           \A q \in images : children'[q] = children[q],
           pc[p] \notin Deleting, \E s \in Pcs \ Deleting : pc' = [pc EXCEPT ![p] = s],
           \A q \in Procs \ {p} : img'[q] = img[q]
    PROVE  Tree'
<1>1. /\ pc'[p] \notin Deleting /\ \A q \in Procs \ {p} : pc'[q] = pc[q]
  BY DEF Types
<1>2. \A q \in Procs : pc'[q] \in Deleting => q # p /\ pc'[q] = pc[q] /\ img'[q] = img[q]
  BY <1>1
<1>3. \A q \in Procs : pc[q] = "meta" => pc'[q] = "meta" /\ img'[q] = img[q]
  BY <1>1 DEF Deleting
<1>4. ASSUME NEW i \in Images PROVE Rooted(i)'
  <2>1. Rooted(i) /\ parent'[i] = parent[i]
    BY DEF Tree
  <2>2. (\E q \in Procs : pc[q] = "meta" /\ img[q] = i)
           => \E q \in Procs : pc'[q] = "meta" /\ img'[q] = i
    BY <1>3
  <2>3. parent[i] \in images => parent[i] \in images' /\ children'[parent[i]] = children[parent[i]]
    OBVIOUS
  <2> QED BY <2>1, <2>2, <2>3 DEF Rooted
<1>5. \A q \in Procs : pc'[q] \in Deleting => lock' = q
  BY <1>2 DEF Tree
<1>6. \A q \in Procs : pc'[q] = "content" => parent'[img'[q]] = None
  BY <1>2 DEF Tree, Deleting
<1> QED BY <1>4, <1>5, <1>6 DEF Tree

\* Register, Set, Create and the end of a call
LEMMA CallTree ==
    ASSUME Types, Tree, NEW p \in Procs,
           \/ (\E i \in Images : Register(p, i)) \/ Set(p) \/ Create(p)
           \/ Done(p) \/ LoadReleases(p) \/ LoadFails(p)
    PROVE  Tree'
<1>1. UNCHANGED <<lock, parent>> /\ content \subseteq content' /\ images \subseteq images'
  BY DEF Register, Set, Create, Done, LoadReleases, LoadFails, memory, files
<1>2. \A q \in images : children'[q] = children[q]
  BY DEF Register, Set, Create, Done, LoadReleases, LoadFails, memory, Types
<1>3. /\ pc[p] \notin Deleting
      /\ \E s \in Pcs \ Deleting : pc' = [pc EXCEPT ![p] = s]
  BY DEF Register, Set, Create, Done, LoadReleases, LoadFails, Deleting, Pcs
<1>4. \A q \in Procs \ {p} : img'[q] = img[q]
  BY DEF Register, Set, Create, Done, LoadReleases, LoadFails, Types
<1> QED BY <1>1, <1>2, <1>3, <1>4, GrowingTree

\* While nobody holds the lock, nobody deletes.
LEMMA NobodyDeletes ==
    ASSUME Tree, lock = None
    PROVE  /\ \A p \in Procs : pc[p] \notin Deleting
           /\ \A i \in Images : parent[i] # None =>
                 i \in content /\ parent[i] \in images /\ i \in children[parent[i]]
<1>1. \A p \in Procs : pc[p] \notin Deleting
  BY NoneAssumption DEF Tree
<1> QED BY <1>1 DEF Tree, Rooted, Deleting

\* SetParent
LEMMA ParentTree ==
    ASSUME Types, Calls, Tree, Reliable, NEW p \in Procs, NEW q \in Images, SetParent(p, q)
    PROVE  Tree'
<1> PICK i : i = img[p]
  OBVIOUS
<1>1. /\ lock = None /\ pc[p] # "idle"
      /\ pc' = [pc EXCEPT ![p] = "release"] \/ pc' = [pc EXCEPT ![p] = "idle"]
      /\ UNCHANGED <<lock, images, content>>
  BY DEF SetParent
<1>2. i \in Images
  BY <1>1 DEF Calls, Types
<1>3. /\ \A r \in Procs : pc[r] \notin Deleting
      /\ \A j \in Images : parent[j] # None =>
            j \in content /\ parent[j] \in images /\ j \in children[parent[j]]
  BY <1>1, NobodyDeletes
<1>4. \A r \in Procs : pc'[r] \notin Deleting
  BY <1>1, <1>3 DEF Types, Deleting
<1>5. CASE q \notin images
  <2>1. UNCHANGED <<children, parent>>
    BY <1>5 DEF SetParent
  <2>2. \A j \in Images : Rooted(j)'
    BY <1>1, <1>3, <2>1 DEF Rooted
  <2> QED BY <1>4, <2>2 DEF Tree, Deleting
<1>6. CASE q \in images
  <2>1. /\ children' = [Orphaned(i) EXCEPT ![q] = Orphaned(i)[q] \cup {i}]
        /\ \/ i \in content /\ parent' = [parent EXCEPT ![i] = q]
           \/ i \notin content /\ UNCHANGED parent
    BY <1>6 DEF SetParent, Reliable
  <2>2. /\ i \in children'[q]
        /\ \A j, k \in Images : j # i /\ j \in children[k] => j \in children'[k]
    BY <2>1 DEF Orphaned
  <2>3. ASSUME NEW j \in Images PROVE Rooted(j)'
    <3>1. CASE j = i
      <4>1. parent'[i] # None => i \in content /\ parent'[i] = q
        BY <1>2, <1>3, <2>1 DEF Types
      <4> QED BY <1>1, <1>6, <2>2, <3>1, <4>1 DEF Rooted
    <3>2. CASE j # i
      <4>1. parent'[j] = parent[j]
        BY <2>1, <3>2 DEF Types
      <4>2. parent[j] # None => parent[j] \in Images
        BY DEF Types
      <4> QED BY <1>1, <1>3, <2>2, <3>2, <4>1, <4>2 DEF Rooted
    <3> QED BY <3>1, <3>2
  <2> QED BY <1>4, <2>3 DEF Tree, Deleting
<1> QED BY <1>5, <1>6

\* Delete takes the lock, and no file names the image any more.
LEMMA DeleteTree ==
    ASSUME Types, Tree, Reliable, NEW p \in Procs, NEW i \in Images, Delete(p, i)
    PROVE  Tree'
<1>1. /\ lock = None /\ lock' = p /\ images' = images \ {i} /\ UNCHANGED content
      /\ children' = [Orphaned(i) EXCEPT ![i] = {}]
      /\ pc' = [pc EXCEPT ![p] = "meta"] /\ img' = [img EXCEPT ![p] = i]
  BY DEF Delete
<1>2. parent' = [j \in Images |-> IF j \in children[i] THEN None ELSE parent[j]]
  <2>1. PICK kept \in SUBSET children[i] :
           /\ kept = {} \/ "delete" \in Faults
           /\ parent' = [j \in Images |-> IF j \in children[i] \ kept THEN None ELSE parent[j]]
    BY DEF Delete
  <2>2. kept = {}
    BY <2>1 DEF Reliable
  <2> QED BY <2>1, <2>2
<1>3. /\ \A r \in Procs : pc[r] \notin Deleting
      /\ \A j \in Images : parent[j] # None =>
            j \in content /\ parent[j] \in images /\ j \in children[parent[j]]
  BY <1>1, NobodyDeletes
<1>4. /\ pc'[p] = "meta" /\ img'[p] = i
      /\ \A r \in Procs \ {p} : pc'[r] = pc[r]
  BY <1>1 DEF Types
<1>5. \A j, k \in Images : j # i /\ k # i /\ j \in children[k] => j \in children'[k]
  BY <1>1 DEF Orphaned
<1>6. ASSUME NEW j \in Images PROVE Rooted(j)'
  <2> SUFFICES ASSUME parent'[j] # None PROVE Rooted(j)'
    BY DEF Rooted
  <2>1. parent'[j] = parent[j] /\ j \notin children[i]
    BY <1>2
  <2>2. /\ j \in content /\ parent[j] \in images /\ j \in children[parent[j]]
        /\ parent[j] # i /\ parent[j] \in Images
    BY <1>3, <2>1 DEF Types
  <2>3. CASE j = i
    BY <1>1, <1>4, <2>1, <2>2, <2>3 DEF Rooted
  <2>4. CASE j # i
    BY <1>1, <1>5, <2>1, <2>2, <2>4 DEF Rooted
  <2> QED BY <2>3, <2>4
<1>7. \A r \in Procs : /\ pc'[r] \in Deleting => lock' = r
                       /\ pc'[r] # "content"
  BY <1>1, <1>3, <1>4 DEF Deleting
<1> QED BY <1>6, <1>7 DEF Tree

\* The rest of Delete, under the lock
LEMMA DeletingTree ==
    ASSUME Types, Calls, Tree, Reliable, NEW p \in Procs,
           DeleteMetadata(p) \/ DeleteContent(p) \/ DeleteRelease(p)
    PROVE  Tree'
<1> PICK i : i = img[p]
  OBVIOUS
<1>1. pc[p] \in Deleting /\ lock = p /\ UNCHANGED <<images, children>>
  BY DEF DeleteMetadata, DeleteContent, DeleteRelease, Deleting, Tree, memory
<1>2. i \in Images
  BY <1>1 DEF Calls, Types, Deleting
<1>3. \A r \in Procs \ {p} : pc[r] \notin Deleting
  BY <1>1 DEF Tree
<1>4. CASE DeleteMetadata(p)
  <2>1. /\ parent' = [parent EXCEPT ![i] = None] /\ pc' = [pc EXCEPT ![p] = "content"]
        /\ UNCHANGED <<lock, content, img>>
    BY <1>4 DEF DeleteMetadata, Reliable, memory
  <2>2. /\ parent'[i] = None /\ \A j \in Images \ {i} : parent'[j] = parent[j]
        /\ pc'[p] = "content" /\ \A r \in Procs \ {p} : pc'[r] = pc[r]
    BY <1>2, <2>1 DEF Types
  <2>3. ASSUME NEW j \in Images PROVE Rooted(j)'
    <3>1. CASE j = i
      BY <2>2, <3>1 DEF Rooted
    <3>2. CASE j # i
      <4>1. Rooted(j) /\ ~\E r \in Procs : pc[r] = "meta" /\ img[r] = j
        BY <1>3, <3>2 DEF Tree, Deleting
      <4>2. parent'[j] = parent[j] /\ images' = images /\ children' = children /\ content' = content
        BY <1>1, <2>1, <2>2, <3>2
      <4> QED BY <4>1, <4>2 DEF Rooted
    <3> QED BY <3>1, <3>2
  <2>4. \A r \in Procs : /\ pc'[r] \in Deleting => lock' = r
                         /\ pc'[r] = "content" => parent'[img'[r]] = None
    <3> SUFFICES ASSUME NEW r \in Procs, pc'[r] \in Deleting
                 PROVE  lock' = r /\ parent'[img'[r]] = None
      BY DEF Deleting
    <3>1. r = p
      BY <1>3, <2>2
    <3>2. lock' = lock /\ img'[p] = i
      BY <2>1
    <3> QED BY <1>1, <2>2, <3>1, <3>2
  <2> QED BY <2>3, <2>4 DEF Tree
<1>5. CASE DeleteContent(p) \/ DeleteRelease(p)
  <2>1. /\ UNCHANGED parent /\ content \ {i} \subseteq content'
        /\ pc[p] = "content" \/ content' = content
        /\ pc[p] \in {"content", "drop"}
    BY <1>5 DEF DeleteContent, DeleteRelease, files
  <2>2. \/ pc' = [pc EXCEPT ![p] = "drop"] /\ UNCHANGED lock
        \/ pc' = [pc EXCEPT ![p] = "idle"]
    BY <1>5 DEF DeleteContent, DeleteRelease, memory
  <2>3. /\ pc'[p] = "drop" => lock' = p
        /\ pc'[p] \in {"drop", "idle"} /\ \A r \in Procs \ {p} : pc'[r] = pc[r]
    BY <1>1, <2>2 DEF Types
  <2>4. ASSUME NEW j \in Images PROVE Rooted(j)'
    <3>1. Rooted(j) /\ ~\E r \in Procs : pc[r] = "meta" /\ img[r] = j
      BY <1>3, <2>1 DEF Tree, Deleting
    <3>2. j = i /\ pc[p] = "content" => parent[j] = None
      BY DEF Tree
    <3> QED BY <1>1, <2>1, <3>1, <3>2 DEF Rooted
  <2>5. \A r \in Procs : /\ pc'[r] \in Deleting => lock' = r
                         /\ pc'[r] # "content"
    BY <1>3, <2>3 DEF Deleting
  <2> QED BY <2>4, <2>5 DEF Tree
<1> QED BY <1>4, <1>5

\* Every step keeps the tree.
LEMMA NextTree == Reliable /\ IInv /\ Tree /\ [Next]_vars => Tree'
<1> SUFFICES ASSUME Reliable, IInv, Tree, [Next]_vars PROVE Tree'
  OBVIOUS
<1>1. Types /\ Calls
  BY DEF IInv
<1>2. CASE UNCHANGED vars
  <2>1. UNCHANGED <<lock, images, children, content, parent, pc, img>>
    BY <1>2 DEF vars, memory, files
  <2> QED BY <2>1 DEF Tree, Rooted
<1>3. ~Restart
  BY DEF Restart, Reliable
<1> QED BY <1>1, <1>2, <1>3, CallTree, ParentTree, DeleteTree, DeletingTree DEF Next

\* As long as files of parents can be written, images be removed and the daemon runs
\* on, an image whose file names a parent is among that parent's children, which is what keeps the
\* parent from being deleted: for any number of images and of calls of Create,
\* SetParent and Delete.
THEOREM ParentsAreHeld == Reliable => (Spec => []ParentKnowsChild)
<1> SUFFICES ASSUME Reliable PROVE Spec => []ParentKnowsChild
  OBVIOUS
<1>1. Init => Tree
  BY DEF Init, Tree, Rooted, Deleting
<1>2. IInv /\ Tree /\ [Next]_vars => Tree'
  BY NextTree
<1>3. IInv /\ Tree => ParentKnowsChild
  <2> SUFFICES ASSUME IInv, Tree, lock = None, NEW i \in content, parent[i] \in images
               PROVE  i \in children[parent[i]]
    BY DEF ParentKnowsChild
  <2>1. i \in Images /\ parent[i] # None
    BY NoneAssumption DEF IInv, Types
  <2> QED BY <2>1, NobodyDeletes
<1> QED BY <1>1, <1>2, <1>3, Initially, NextIInv, PTL DEF Spec
=============================================================================
