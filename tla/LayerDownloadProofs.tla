------------------------- MODULE LayerDownloadProofs -------------------------
(***************************************************************************)
(* Proofs about LayerDownload, for every number of pulls, transfers,       *)
(* images and layers.                                                      *)
(*                                                                         *)
(* The argument is about who watches what.  The watchers of a transfer are *)
(* exactly the calls that have it among their downloads or return it       *)
(* (Watching), and a transfer is released, and drops its layer, only       *)
(* without watchers (Manager).  A call holds successive layers of its      *)
(* image: the one it found last, then its downloads, of one blob more each *)
(* (Shape, Keyed).  A transfer under way is among the downloads of the     *)
(* call that made it, next to its parent, unless that call has given up    *)
(* (Parentage).                                                            *)
(***************************************************************************)
EXTENDS LayerDownload, SequenceTheorems, WellFoundedInduction, TLAPS

\* Zenon unless a leaf says SMT: most steps are first-order.
USE Zenon

\* A goroutine under way, and one that is done.
Active == {"queued", "fetching", "delay", "parent", "source", "registering"}
Ended  == {"registered", "dropped", "failed", "lost"}

\* The tracked transfers, the watchers they have or had, and their results.
Manager ==
    /\ \A k \in Layers : transfers[k] # None
          => phase[transfers[k]] = "tracked" /\ key[transfers[k]] = k
    /\ \A t \in Transfers :
          /\ phase[t] = "free" => watchers[t] = {} /\ work[t].at = "none"
          /\ phase[t] = "closed" /\ watchers[t] = {} => t \in released
          /\ t \in released => phase[t] = "closed" /\ watchers[t] = {}
          /\ work[t].at # "none" => key[t] \in Layers
          /\ t \in done <=> work[t].at \in Ended
          /\ work[t].at = "dropped" => t \in released

\* What the call has to release
Holds(c) == Range(c.xfers) \cup {c.held}

\* A call watches the transfers it has to release, and no others.
Watching ==
    \A p \in Pulls, t \in Transfers :
        p \in watchers[t] <=> t \in Holds(call[p])

\* The download has its layer, or had it until it was released.
Kept(t) == t \in done /\ work[t].at \in {"registered", "dropped"}

\* l is a layer of the image s, or nothing.
IsLower(l, s) == Len(l) \in Nat /\ Len(l) <= Len(s) /\ l = SubSeq(s, 1, Len(l))

\* The layers a call has found or asked for
Reached(c) == Len(c.top) + Len(c.xfers)

\* A call watches a transfer once, so that it can release it once.
Distinct(c) ==
    /\ \A i, j \in 1..Len(c.xfers) : i # j => c.xfers[i] # c.xfers[j]
    /\ \A i \in 1..Len(c.xfers) : c.xfers[i] # c.held

\* Call c, which pulls the image s, by where it is.
Shape(c, s) ==
    LET n == Len(c.xfers) IN
    /\ Distinct(c)
    /\ c.at = "new" => c = NewCall
    /\ c.at = "over" => c = Over
    /\ c.at = "unwinding" => c.top # <<>> \/ c.xfers # <<>>
    /\ c.at = "returned" => n = 0 /\ (c.held = None => c.top = s)
    /\ c.at \in {"layers", "waiting"} => /\ c.held = None
                                         /\ c.next = Reached(c) + 1
                                         /\ IsLower(c.top, s)
    /\ c.at = "layers" => c.next <= Len(s)
    /\ c.at = "waiting" => c.next = Len(s) + 1 /\ n # 0

\* The layers its transfers are for
Keyed(c, s) ==
    /\ c.held # None => Kept(c.held) /\ key[c.held] = s
    /\ c.at \in {"layers", "waiting"} =>
          \A i \in 1..Len(c.xfers) : key[c.xfers[i]] = SubSeq(s, 1, Len(c.top) + i)

CallOK(p) == Shape(call[p], stack[p]) /\ Keyed(call[p], stack[p])

\* The place of a transfer under way among the downloads of the call that made it
Parentage(t) ==
    LET w == work[t]  c == call[w.by] IN
    w.at \in Active =>
        /\ w.by \in Pulls /\ c.at # "new"
        /\ c.at \in {"layers", "waiting"} =>
              /\ \E j \in 1..Len(c.xfers) :
                    c.xfers[j] = t /\ w.parent = (IF j = 1 THEN None ELSE c.xfers[j - 1])
              /\ w.at = "source" => Kept(w.parent)

\* The inductive invariant
IInv ==
    /\ TypeOK /\ Manager /\ Watching
    /\ \A p \in Pulls : CallOK(p)
    /\ \A t \in Transfers : Parentage(t)

-----------------------------------------------------------------------------
(* Sequences                                                                *)

\* Layers, element by element
LEMMA LayersDef ==
    \A l : l \in Layers <=> l # <<>> /\ \E f \in Stacks, p \in Pulls : l \in Prefixes(f[p])
<1> DEFINE U == {Prefixes(f[p]) : f \in Stacks, p \in Pulls}
<1>1. Layers = (UNION U) \ {<<>>}
  BY SMT DEF Layers
<1>2. \A l : l \in UNION U <=> \E f \in Stacks, p \in Pulls : l \in Prefixes(f[p])
  BY SMT
<1> HIDE DEF U
<1> QED
  BY <1>1, <1>2

\* The layers of a pull, of every height, and the one below each.
LEMMA Heights ==
    ASSUME TypeOK, NEW p \in Pulls
    PROVE  /\ stack[p] \in Seq(Blobs) /\ Len(stack[p]) \in Nat \ {0}
           /\ SubSeq(stack[p], 1, Len(stack[p])) = stack[p]
           /\ SubSeq(stack[p], 1, 0) = <<>>
           /\ \A n \in 1..Len(stack[p]) :
                 /\ SubSeq(stack[p], 1, n) \in Layers
                 /\ Len(SubSeq(stack[p], 1, n)) = n
                 /\ Front(SubSeq(stack[p], 1, n)) = SubSeq(stack[p], 1, n - 1)
<1> DEFINE s == stack[p]
<1>1. s \in Seq(Blobs) /\ s # <<>>
  BY DownloadAssumption, SMT DEF TypeOK
<1>2. Len(s) \in Nat \ {0}
  BY <1>1, EmptySeq
<1>3. SubSeq(s, 1, Len(s)) = s
  BY <1>1, SubSeqFull
<1>4. SubSeq(s, 1, 0) = <<>>
  BY <1>1, SubSeqEmpty, SMT
<1>5. ASSUME NEW n \in 1..Len(s)
      PROVE  /\ SubSeq(s, 1, n) \in Layers
             /\ Len(SubSeq(s, 1, n)) = n
             /\ Front(SubSeq(s, 1, n)) = SubSeq(s, 1, n - 1)
  <2>1. Len(SubSeq(s, 1, n)) = n
    BY <1>1, <1>2, SMT
  <2>2. SubSeq(s, 1, n) # <<>>
    BY <2>1, SMT
  <2>3. SubSeq(s, 1, n) \in Prefixes(s)
    BY <1>2, SMT DEF Prefixes
  <2>4. s = stack[p] /\ stack \in Stacks
    BY DEF TypeOK
  <2>5. SubSeq(s, 1, n) \in Layers
    BY <2>2, <2>3, <2>4, LayersDef
  <2>6. Front(SubSeq(s, 1, n)) = SubSeq(s, 1, n - 1)
    BY <1>1, <1>2, <2>1, SMT DEF Front
  <2> QED
    BY <2>1, <2>5, <2>6
<1> QED
  BY <1>1, <1>2, <1>3, <1>4, <1>5

\* No layer is empty, and each lies below itself.
LEMMA LayersAreSequences == \A l \in Layers : l # <<>> /\ IsPrefix(l, l)
<1> SUFFICES ASSUME NEW l \in Layers PROVE l # <<>> /\ IsPrefix(l, l)
  OBVIOUS
<1>1. PICK f \in Stacks, p \in Pulls : l \in Prefixes(f[p])
  BY LayersDef
<1>2. f[p] \in Seq(Blobs)
  BY DownloadAssumption
<1>3. l \in Seq(Blobs)
  BY <1>1, <1>2, SMT DEF Prefixes
<1>4. l # <<>>
  BY LayersDef
<1> QED
  BY <1>3, <1>4, LenProperties, SMT DEF IsPrefix

\* A layer that somebody holds is stored.
LEMMA HeldIsStored == \A l \in Layers : Held(l) => Stored(l)
BY LayersAreSequences DEF Stored

\* The elements of a list of transfers
LEMMA Ranges ==
    ASSUME NEW x \in Seq(Transfers), NEW t
    PROVE  t \in Range(x) <=> \E i \in 1..Len(x) : x[i] = t
BY LenProperties DEF Range

\* Append puts a transfer on top, and Front takes one off.
LEMMA Tops ==
    ASSUME NEW x \in Seq(Transfers)
    PROVE  /\ Len(x) \in Nat /\ (x = <<>> <=> Len(x) = 0)
           /\ \A t \in Transfers :
                 /\ Append(x, t) \in Seq(Transfers) /\ Len(Append(x, t)) = Len(x) + 1
                 /\ Append(x, t)[Len(x) + 1] = t
                 /\ \A i \in 1..Len(x) : Append(x, t)[i] = x[i]
           /\ x # <<>> =>
                 /\ Front(x) \in Seq(Transfers) /\ Len(Front(x)) = Len(x) - 1
                 /\ Last(x) = x[Len(x)] /\ Last(x) \in Transfers
                 /\ \A i \in 1..(Len(x) - 1) : Front(x)[i] = x[i]
<1>1. Len(x) \in Nat /\ (x = <<>> <=> Len(x) = 0)
  BY EmptySeq, SMT
<1>2. \A t \in Transfers :
         /\ Append(x, t) \in Seq(Transfers) /\ Len(Append(x, t)) = Len(x) + 1
         /\ Append(x, t)[Len(x) + 1] = t
         /\ \A i \in 1..Len(x) : Append(x, t)[i] = x[i]
  BY AppendProperties, SMT
<1>3. ASSUME x # <<>>
      PROVE  /\ Front(x) \in Seq(Transfers) /\ Len(Front(x)) = Len(x) - 1
             /\ Last(x) = x[Len(x)] /\ Last(x) \in Transfers
             /\ \A i \in 1..(Len(x) - 1) : Front(x)[i] = x[i]
  <2>1. Last(x) = x[Len(x)]
    BY DEF Last
  <2>2. Len(x) \in 1..Len(x)
    BY <1>1, <1>3, SMT
  <2>3. x[Len(x)] \in Transfers
    BY <2>2, ElementOfSeq
  <2>4. Front(x) \in Seq(Transfers) /\ Len(Front(x)) = Len(x) - 1
    <3>1. 1 \in Int /\ Len(x) - 1 \in Int /\ \A i \in 1..(Len(x) - 1) : x[i] \in Transfers
      BY <1>1, SMT
    <3>2. Front(x) \in Seq(Transfers)
      BY <3>1, SubSeqProperties DEF Front
    <3>3. PICK m \in Nat : m = Len(x)
      BY <1>1
    <3>4. Len(Front(x)) = IF 1 <= m - 1 THEN (m - 1) - 1 + 1 ELSE 0
      BY <3>1, <3>3, SubSeqProperties, SMT DEF Front
    <3>5. m # 0
      BY <1>1, <1>3, <3>3
    <3>6. PICK k : k = Len(Front(x))
      OBVIOUS
    <3>7. k = m - 1
      <4>1. k = IF 1 <= m - 1 THEN (m - 1) - 1 + 1 ELSE 0
        BY <3>4, <3>6
      <4> QED
        BY <3>5, <4>1, SMT
    <3> QED
      BY <3>2, <3>3, <3>6, <3>7
  <2>5. \A i \in 1..(Len(x) - 1) : Front(x)[i] = x[i]
    <3>1. Len(x) - 1 \in Int /\ \A i \in 1..(Len(x) - 1) : x[i] \in Transfers
      BY <1>1, SMT
    <3>2. \A i \in 1..(Len(x) - 1 - 1 + 1) : SubSeq(x, 1, Len(x) - 1)[i] = x[1 + i - 1]
      BY <3>1, SubSeqProperties, SMT
    <3> QED
      BY <1>1, <3>2, SMT DEF Front
  <2> QED
    BY <2>1, <2>3, <2>4, <2>5
<1> QED
  BY <1>1, <1>2, <1>3
-----------------------------------------------------------------------------
(* What a step leaves alone                                                 *)

\* The types of calls and of goroutines
Calls == [at : {"new", "layers", "waiting", "unwinding", "returned", "over"}, next : Nat,
          top : Layers \cup {<<>>}, xfers : Seq(Transfers), held : Transfers \cup {None}]
Works == [at : {"none", "queued", "fetching", "delay", "parent", "source", "registering",
                "registered", "dropped", "failed", "lost"},
          by : Pulls \cup {None}, parent : Transfers \cup {None},
          source : Transfers \cup {None}, retries : 0..(MaxAttempts - 1)]

\* TypeOK says so.
LEMMA Typed == TypeOK => call \in [Pulls -> Calls] /\ work \in [Transfers -> Works]
BY DEF TypeOK, Calls, Works

\* Calls and goroutines go on, and the manager does nothing.
LEMMA TypeStays ==
    ASSUME TypeOK, UNCHANGED <<transfers, phase, key, watchers, cancelled, done, released>>,
           stack' = stack, images' = images, call' \in [Pulls -> Calls],
           work' \in [Transfers -> Works]
    PROVE  TypeOK'
<1>1. /\ transfers' = transfers /\ phase' = phase /\ key' = key /\ watchers' = watchers
      /\ cancelled' = cancelled /\ done' = done /\ released' = released
  OBVIOUS
<1>2. /\ transfers' \in [Layers -> Transfers \cup {None}]
      /\ phase' \in [Transfers -> {"free", "tracked", "removed", "closed"}]
      /\ key' \in [Transfers -> Layers \cup {None}] /\ watchers' \in [Transfers -> SUBSET Pulls]
  BY <1>1 DEF TypeOK
<1>3. /\ cancelled' \subseteq Transfers /\ done' \subseteq Transfers /\ released' \subseteq Transfers
      /\ stack' \in Stacks /\ images' \subseteq Layers
  BY <1>1 DEF TypeOK
<1> QED
  BY <1>2, <1>3 DEF TypeOK, Calls, Works

\* What Manager says of a transfer stays true while nothing happens to it.
LEMMA ManagerFrame ==
    ASSUME Manager, NEW u \in Transfers, phase'[u] = phase[u], watchers'[u] = watchers[u],
           key'[u] = key[u], work'[u] = work[u],
           u \in released' <=> u \in released, u \in done' <=> u \in done
    PROVE  /\ phase'[u] = "free" => watchers'[u] = {} /\ work'[u].at = "none"
           /\ phase'[u] = "closed" /\ watchers'[u] = {} => u \in released'
           /\ u \in released' => phase'[u] = "closed" /\ watchers'[u] = {}
           /\ work'[u].at # "none" => key'[u] \in Layers
           /\ u \in done' <=> work'[u].at \in Ended
           /\ work'[u].at = "dropped" => u \in released'
<1>1. /\ phase[u] = "free" => watchers[u] = {} /\ work[u].at = "none"
      /\ phase[u] = "closed" /\ watchers[u] = {} => u \in released
      /\ u \in released => phase[u] = "closed" /\ watchers[u] = {}
      /\ work[u].at # "none" => key[u] \in Layers
      /\ u \in done <=> work[u].at \in Ended
      /\ work[u].at = "dropped" => u \in released
  BY DEF Manager
<1> QED
  BY <1>1

\* What a call holds it watches.
LEMMA HoldsWatched ==
    ASSUME TypeOK, Watching, NEW q \in Pulls
    PROVE  /\ \A i \in 1..Len(call[q].xfers) :
                 call[q].xfers[i] \in Transfers /\ q \in watchers[call[q].xfers[i]]
           /\ call[q].held # None =>
                 call[q].held \in Transfers /\ q \in watchers[call[q].held]
<1>1. call[q].xfers \in Seq(Transfers) /\ call[q].held \in Transfers \cup {None}
  BY Typed, SMT DEF Calls
<1>2. \A i \in 1..Len(call[q].xfers) : call[q].xfers[i] \in Transfers
  BY <1>1, ElementOfSeq
<1>3. \A i \in 1..Len(call[q].xfers) : call[q].xfers[i] \in Range(call[q].xfers)
  BY <1>1, Ranges
<1> QED
  BY <1>1, <1>2, <1>3 DEF Watching, Holds

\* A call keeps its shape when the transfers it watches keep their keys and results.
LEMMA CallFrame ==
    ASSUME TypeOK, Watching, NEW q \in Pulls, CallOK(q), call'[q] = call[q], stack' = stack,
           \A t \in Transfers : q \in watchers[t]
              => key'[t] = key[t] /\ (Kept(t) => Kept(t)')
    PROVE  CallOK(q)'
<1>1. \A i \in 1..Len(call[q].xfers) : key'[call[q].xfers[i]] = key[call[q].xfers[i]]
  BY HoldsWatched
<1>2. call[q].held # None => /\ key'[call[q].held] = key[call[q].held]
                             /\ Kept(call[q].held) => Kept(call[q].held)'
  BY HoldsWatched
<1>3. Shape(call'[q], stack'[q])
  BY DEF CallOK
<1>4. Keyed(call[q], stack[q])
  BY DEF CallOK
<1>5. call[q].held # None => Kept(call[q].held)' /\ key'[call[q].held] = stack[q]
  BY <1>2, <1>4 DEF Keyed
<1>6. Keyed(call[q], stack[q])'
  <2>1. call[q].at \in {"layers", "waiting"} =>
           \A i \in 1..Len(call[q].xfers) :
              key'[call[q].xfers[i]] = SubSeq(stack[q], 1, Len(call[q].top) + i)
    BY <1>1, <1>4 DEF Keyed
  <2> QED
    BY <1>5, <2>1 DEF Keyed, Kept
<1> QED
  BY <1>3, <1>6 DEF CallOK

\* A call goes on, or has ended: it does not begin again, and while it looks for
\* layers its downloads become only more.
Onward(q) ==
    call[q].at # "new" =>
        /\ call'[q].at # "new"
        /\ call'[q].at \in {"layers", "waiting"} =>
              /\ call[q].at \in {"layers", "waiting"}
              /\ Len(call[q].xfers) <= Len(call'[q].xfers)
              /\ \A j \in 1..Len(call[q].xfers) : call'[q].xfers[j] = call[q].xfers[j]

\* An index of a sequence, and the one before it, are indices of a longer one.
LEMMA LongerSequence ==
    ASSUME NEW s, NEW r, Len(s) \in Nat, Len(s) <= Len(r), NEW j \in 1..Len(s)
    PROVE  j \in 1..Len(r) /\ (j = 1 \/ j - 1 \in 1..Len(s))
BY SMT

\* A goroutine keeps its place among the downloads of the call that made it.
LEMMA ParentFrame ==
    ASSUME TypeOK, NEW t \in Transfers, Parentage(t),
           work'[t].by = work[t].by, work'[t].parent = work[t].parent,
           work'[t].at \in Active => work[t].at \in Active,
           work'[t].at = "source" => work[t].at = "source" \/ Kept(work[t].parent),
           Onward(work[t].by),
           Kept(work[t].parent) => Kept(work[t].parent)'
    PROVE  Parentage(t)'
<1> DEFINE w == work[t]  c == call[w.by]  d == call'[w.by]
<1>0. SUFFICES ASSUME work'[t].at \in Active
               PROVE  /\ w.by \in Pulls /\ d.at # "new"
                      /\ d.at \in {"layers", "waiting"} =>
                           /\ \E j \in 1..Len(d.xfers) :
                                 /\ d.xfers[j] = t
                                 /\ w.parent = (IF j = 1 THEN None ELSE d.xfers[j - 1])
                           /\ work'[t].at = "source" => Kept(w.parent)'
  BY DEF Parentage, Kept
<1>1. w.at \in Active
  BY <1>0
<1>2. w.by \in Pulls /\ c.at # "new"
  BY <1>1 DEF Parentage
<1>3. d.at # "new"
  BY <1>2 DEF Onward
<1>4. ASSUME d.at \in {"layers", "waiting"}
      PROVE  /\ \E j \in 1..Len(d.xfers) :
                   d.xfers[j] = t /\ w.parent = (IF j = 1 THEN None ELSE d.xfers[j - 1])
             /\ work'[t].at = "source" => Kept(w.parent)'
  <2>1. /\ c.at \in {"layers", "waiting"}
        /\ Len(c.xfers) <= Len(d.xfers)
        /\ \A j \in 1..Len(c.xfers) : d.xfers[j] = c.xfers[j]
    BY <1>2, <1>4 DEF Onward
  <2>2. PICK j \in 1..Len(c.xfers) :
              c.xfers[j] = t /\ w.parent = (IF j = 1 THEN None ELSE c.xfers[j - 1])
    BY <1>1, <2>1 DEF Parentage
  <2>3. w.at = "source" => Kept(w.parent)
    BY <1>1, <2>1 DEF Parentage
  <2>4. c \in Calls
    BY <1>2, Typed
  <2>5. Len(c.xfers) \in Nat
    BY <2>4, LenProperties, SMT DEF Calls
  <2>6. j \in 1..Len(d.xfers) /\ (j = 1 \/ j - 1 \in 1..Len(c.xfers))
    BY <2>1, <2>5, LongerSequence
  <2>7. d.xfers[j] = t /\ w.parent = (IF j = 1 THEN None ELSE d.xfers[j - 1])
    <3>1. CASE j = 1
      BY <2>1, <2>2, <3>1
    <3>2. CASE j # 1
      <4>1. d.xfers[j - 1] = c.xfers[j - 1]
        BY <2>1, <2>6, <3>2
      <4> QED
        BY <2>1, <2>2, <3>2, <4>1
    <3> QED
      BY <3>1, <3>2
  <2>8. work'[t].at = "source" => Kept(w.parent)'
    BY <2>3
  <2> QED
    BY <2>6, <2>7, <2>8
<1> QED
  BY <1>2, <1>3, <1>4

\* A step that takes call p onward takes every call onward.
LEMMA OnwardFrame ==
    ASSUME TypeOK, NEW p, Onward(p), \A q \in Pulls : q # p => call'[q] = call[q]
    PROVE  \A q \in Pulls : Onward(q)
<1>1. \A q \in Pulls : Len(call[q].xfers) <= Len(call[q].xfers)
  BY Typed, LenProperties, SMT DEF Calls
<1> QED
  BY <1>1 DEF Onward
-----------------------------------------------------------------------------
(* Steps of a call                                                          *)

\* A step that changes one call, and not what it holds.
LEMMA OnlyCall ==
    ASSUME IInv, NEW p \in Pulls, NEW d \in Calls,
           UNCHANGED <<tmVars, work, stack, images>>, call' = [call EXCEPT ![p] = d],
           \A t \in Transfers : t \in Holds(d) <=> t \in Holds(call[p]),
           Onward(p), Shape(d, stack[p]), Keyed(d, stack[p])
    PROVE  IInv'
<1>0. TypeOK /\ Manager /\ Watching
  BY DEF IInv
<1>1. /\ UNCHANGED <<transfers, phase, key, watchers, cancelled, done, released>>
      /\ work' = work /\ stack' = stack /\ images' = images
  BY DEF tmVars
<1>2. call \in [Pulls -> Calls]
  BY <1>0, Typed
<1>3. call'[p] = d /\ \A q \in Pulls : q # p => call'[q] = call[q]
  BY <1>2
<1>4. TypeOK'
  <2>1. call' \in [Pulls -> Calls]
    BY <1>2
  <2> QED
    BY <1>0, <1>1, <2>1, Typed, TypeStays
<1>5. Manager'
  BY <1>0, <1>1 DEF Manager
<1>6. \A t : Kept(t)' <=> Kept(t)
  BY <1>1 DEF Kept
<1>7. Watching'
  BY <1>0, <1>1, <1>3 DEF Watching
<1>8. ASSUME NEW q \in Pulls PROVE CallOK(q)'
  <2>1. CASE q = p
    <3>1. Keyed(d, stack[p])'
      BY <1>1, <1>6 DEF Keyed
    <3> QED
      BY <1>1, <1>3, <2>1, <3>1 DEF CallOK
  <2>2. CASE q # p
    BY <1>0, <1>1, <1>3, <1>6, <2>2, CallFrame DEF IInv
  <2> QED
    BY <2>1, <2>2
<1>9. ASSUME NEW t \in Transfers PROVE Parentage(t)'
  <2>1. Parentage(t)
    BY DEF IInv
  <2>2. CASE work[t].at \notin Active
    BY <1>1, <2>2 DEF Parentage
  <2>3. CASE work[t].at \in Active
    <3>1. work[t].by \in Pulls
      BY <2>1, <2>3 DEF Parentage
    <3>2. Onward(work[t].by)
      BY <1>0, <1>3, <3>1, OnwardFrame
    <3> QED
      BY <1>0, <1>1, <1>6, <2>1, <2>3, <3>2, ParentFrame
  <2> QED
    BY <2>2, <2>3
<1> QED
  BY <1>4, <1>5, <1>7, <1>8, <1>9 DEF IInv

\* A step that releases one transfer, and changes one call.
LEMMA Leaving ==
    ASSUME IInv, NEW p \in Pulls, NEW t \in Transfers, NEW d \in Calls,
           tm!Leave(p, t), UNCHANGED <<work, stack, images>>, call' = [call EXCEPT ![p] = d],
           \A u \in Transfers : u \in Holds(d) <=> u \in Holds(call[p]) /\ u # t,
           d.at \notin {"new", "layers", "waiting"}, Shape(d, stack[p]), Keyed(d, stack[p])
    PROVE  IInv'
<1>0. TypeOK /\ Manager /\ Watching
  BY DEF IInv
<1>1. /\ UNCHANGED <<transfers, phase, key, done>>
      /\ work' = work /\ stack' = stack /\ images' = images
  BY DEF tm!Leave
<1>2. call \in [Pulls -> Calls]
  BY <1>0, Typed
<1>3. call'[p] = d /\ \A q \in Pulls : q # p => call'[q] = call[q]
  BY <1>2
<1>a. /\ p \in watchers[t] /\ watchers \in [Transfers -> SUBSET Pulls]
      /\ watchers'[t] = watchers[t] \ {p}
      /\ \A u \in Transfers : u # t => watchers'[u] = watchers[u]
      /\ watchers' \in [Transfers -> SUBSET Pulls]
  <2>1. watchers \in [Transfers -> SUBSET Pulls]
    BY <1>0 DEF TypeOK
  <2>2. p \in watchers[t] /\ watchers' = [watchers EXCEPT ![t] = watchers[t] \ {p}]
    BY DEF tm!Leave
  <2>3. watchers[t] \ {p} \in SUBSET Pulls
    BY <2>1
  <2> QED
    BY <2>1, <2>2, <2>3
<1>b. /\ released' \subseteq released \cup {t} /\ released \subseteq released'
      /\ t \in released' => t \in released \/ (watchers[t] = {p} /\ phase[t] = "closed")
      /\ watchers[t] = {p} /\ phase[t] = "closed" => t \in released'
      /\ cancelled' \subseteq cancelled \cup {t}
  BY DEF tm!Leave
<1>4. TypeOK'
  <2>1. call' \in [Pulls -> Calls]
    BY <1>2
  <2>2. cancelled' \subseteq Transfers /\ released' \subseteq Transfers
    BY <1>0, <1>b DEF TypeOK
  <2>3. TypeOK /\ watchers' \in [Transfers -> SUBSET Pulls]
    BY <1>0, <1>a
  <2> QED
    BY <1>1, <2>1, <2>2, <2>3 DEF TypeOK, Calls
<1>5. Manager'
  <2>1. phase[t] # "free" /\ t \notin released
    BY <1>0, <1>a DEF Manager
  <2>2. ASSUME NEW u \in Transfers
        PROVE  /\ phase'[u] = "free" => watchers'[u] = {} /\ work'[u].at = "none"
               /\ phase'[u] = "closed" /\ watchers'[u] = {} => u \in released'
               /\ u \in released' => phase'[u] = "closed" /\ watchers'[u] = {}
               /\ work'[u].at = "dropped" => u \in released'
    <3>1. CASE u = t
      <4>1. watchers'[t] = {} <=> watchers[t] = {p}
        BY <1>a
      <4> QED
        <5>1. work[t].at # "dropped"
          BY <1>0, <2>1 DEF Manager
        <5> QED
          BY <1>1, <1>b, <2>1, <3>1, <4>1, <5>1
    <3>2. CASE u # t
      <4>1. watchers'[u] = watchers[u] /\ (u \in released' <=> u \in released)
        BY <1>a, <1>b, <3>2
      <4> QED
        BY <1>0, <1>1, <4>1, ManagerFrame
    <3> QED
      BY <3>1, <3>2
  <2>3. /\ \A k \in Layers : transfers'[k] # None
             => phase'[transfers'[k]] = "tracked" /\ key'[transfers'[k]] = k
        /\ \A u \in Transfers : /\ work'[u].at # "none" => key'[u] \in Layers
                                /\ u \in done' <=> work'[u].at \in Ended
    BY <1>0, <1>1 DEF Manager
  <2> QED
    BY <2>2, <2>3 DEF Manager
<1>6. \A u : Kept(u)' <=> Kept(u)
  BY <1>1 DEF Kept
<1>7. Watching'
  <2> SUFFICES ASSUME NEW q \in Pulls, NEW u \in Transfers
               PROVE  q \in watchers'[u] <=> u \in Holds(call'[q])
    BY DEF Watching, Holds
  <2>1. q \in watchers[u] <=> u \in Holds(call[q])
    BY <1>0 DEF Watching
  <2> QED
    BY <1>3, <1>a, <2>1
<1>8. ASSUME NEW q \in Pulls PROVE CallOK(q)'
  <2>1. CASE q = p
    <3>1. Keyed(d, stack[p])'
      BY <1>1, <1>6 DEF Keyed
    <3> QED
      BY <1>1, <1>3, <2>1, <3>1 DEF CallOK
  <2>2. CASE q # p
    BY <1>0, <1>1, <1>3, <1>6, <2>2, CallFrame DEF IInv
  <2> QED
    BY <2>1, <2>2
<1>9. ASSUME NEW u \in Transfers PROVE Parentage(u)'
  <2>1. Parentage(u)
    BY DEF IInv
  <2>2. CASE work[u].at \notin Active
    BY <1>1, <2>2 DEF Parentage
  <2>3. CASE work[u].at \in Active
    <3>1. work[u].by \in Pulls
      BY <2>1, <2>3 DEF Parentage
    <3>2. Onward(p)
      BY <1>3 DEF Onward
    <3>3. Onward(work[u].by)
      BY <1>0, <1>3, <3>1, <3>2, OnwardFrame
    <3> QED
      BY <1>0, <1>1, <1>6, <2>1, <2>3, <3>3, ParentFrame
  <2> QED
    BY <2>2, <2>3
<1> QED
  BY <1>4, <1>5, <1>7, <1>8, <1>9 DEF IInv

\* The call unwinds: it keeps what it holds.
LEMMA Unwinding ==
    ASSUME NEW c \in Calls, NEW s, Distinct(c),
           c.held # None => Kept(c.held) /\ key[c.held] = s
    PROVE  LET d == Unwound(c)
           IN  /\ d \in Calls /\ d.at \in {"unwinding", "returned", "over"}
               /\ Shape(d, s) /\ Keyed(d, s)
               /\ \A t \in Transfers : t \in Holds(d) <=> t \in Holds(c)
<1> DEFINE d == Unwound(c)
<1>0. /\ c.xfers \in Seq(Transfers) /\ Len(c.xfers) \in Nat /\ (c.xfers = <<>> <=> Len(c.xfers) = 0)
      /\ c.held \in Transfers \cup {None} /\ c.top \in Layers \cup {<<>>}
  BY Tops, SMT DEF Calls
<1>1. CASE c.top # <<>> \/ c.xfers # <<>>
  <2>1. d = [c EXCEPT !.at = "unwinding"]
    BY <1>1 DEF Unwound
  <2>2. /\ d \in Calls /\ d.at = "unwinding" /\ d.xfers = c.xfers /\ d.held = c.held
        /\ d.top = c.top
    BY <2>1, SMT DEF Calls
  <2>3. Distinct(d) /\ Shape(d, s)
    BY <1>1, <2>2 DEF Distinct, Shape
  <2>4. Keyed(d, s)
    BY <2>2 DEF Keyed
  <2>5. \A t : t \in Holds(d) <=> t \in Holds(c)
    BY <2>2 DEF Holds
  <2> QED
    BY <2>2, <2>3, <2>4, <2>5
<1>2. CASE c.top = <<>> /\ c.xfers = <<>> /\ c.held # None
  <2>1. d = [c EXCEPT !.at = "returned"]
    BY <1>2 DEF Unwound
  <2>2. d \in Calls /\ d.at = "returned" /\ d.xfers = c.xfers /\ d.held = c.held
    BY <2>1, SMT DEF Calls
  <2>3. Distinct(d) /\ Shape(d, s)
    BY <1>0, <1>2, <2>2 DEF Distinct, Shape
  <2>4. Keyed(d, s)
    BY <2>2 DEF Keyed
  <2>5. \A t : t \in Holds(d) <=> t \in Holds(c)
    BY <2>2 DEF Holds
  <2> QED
    BY <2>2, <2>3, <2>4, <2>5
<1>3. CASE c.top = <<>> /\ c.xfers = <<>> /\ c.held = None
  <2>1. d = Over
    BY <1>3 DEF Unwound
  <2>2. d \in Calls /\ d.at = "over" /\ d.xfers = c.xfers /\ d.held = c.held
    BY <1>0, <1>3, <2>1, SMT DEF Calls, Over, NewCall
  <2>3. Distinct(d) /\ Shape(d, s)
    BY <2>1, <2>2 DEF Distinct, Shape
  <2>4. Keyed(d, s)
    BY <1>3, <2>2 DEF Keyed
  <2>5. \A t : t \in Holds(d) <=> t \in Holds(c)
    BY <2>2 DEF Holds
  <2> QED
    BY <2>2, <2>3, <2>4, <2>5
<1> QED
  BY <1>1, <1>2, <1>3

\* Call c, at its next layer
Moved(c, m, a) == [c EXCEPT !.next = m, !.at = a]

\* Moved changes two fields.
LEMMA Updated ==
    ASSUME NEW c \in Calls, NEW m \in Nat, NEW a \in {"layers", "returned", "waiting"}
    PROVE  LET d == Moved(c, m, a)
           IN  /\ d \in Calls /\ d.next = m /\ d.xfers = c.xfers /\ d.held = c.held
               /\ d.top = c.top /\ d.at = a
<1>1. PICK e : e = [c EXCEPT !.next = m]
  OBVIOUS
<1>2. /\ e \in Calls /\ e.next = m /\ e.xfers = c.xfers /\ e.held = c.held
      /\ e.top = c.top
  BY <1>1, SMT DEF Calls
<1>3. Moved(c, m, a) = [e EXCEPT !.at = a]
  BY <1>1 DEF Moved
<1> QED
  BY <1>2, <1>3, SMT DEF Calls

\* On to the next layer, with one more found or asked for.
LEMMA Advancing ==
    ASSUME TypeOK, NEW p \in Pulls, NEW c \in Calls, Distinct(c), c.held = None,
           c.next \in 1..Len(stack[p]), c.next = Reached(c),
           IsLower(c.top, stack[p])
    PROVE  LET d == Advance(p, c)
           IN  /\ d \in Calls /\ d.at \in {"layers", "waiting", "returned"}
               /\ d.xfers = c.xfers /\ d.held = None /\ d.top = c.top
               /\ Shape(d, stack[p])
<1> DEFINE d == Advance(p, c)  s == stack[p]  n == Len(c.xfers)
<1>e. c.xfers \in Seq(Transfers) /\ c.next \in Nat
  BY SMT DEF Calls
<1>0. n \in Nat /\ Len(s) \in Nat
  BY <1>e, Tops, Heights
<1>f. c.xfers = <<>> <=> n = 0
  BY <1>e, Tops
<1>d. Len(c.top) \in Nat
  BY DEF IsLower
<1>1. d = [c EXCEPT !.next = c.next + 1,
                    !.at = IF c.next < Len(s) THEN "layers"
                           ELSE IF c.xfers = <<>> THEN "returned" ELSE "waiting"]
  BY DEF Advance
<1>a. PICK a \in {"layers", "returned", "waiting"} :
            a = IF c.next < Len(s) THEN "layers"
                ELSE IF c.xfers = <<>> THEN "returned" ELSE "waiting"
  OBVIOUS
<1>b. PICK m \in Nat : m = c.next + 1
  BY <1>e, SMT
<1>c. d = Moved(c, m, a)
  BY <1>1, <1>a, <1>b DEF Moved
<1>2. /\ d \in Calls /\ d.next = m /\ d.xfers = c.xfers /\ d.held = None /\ d.top = c.top
      /\ d.at = a
  <2> DEFINE e == Moved(c, m, a)
  <2>1. /\ e \in Calls /\ e.next = m /\ e.xfers = c.xfers /\ e.held = c.held
        /\ e.top = c.top /\ e.at = a
    BY Updated
  <2> HIDE DEF e, d
  <2>2. d = e
    BY <1>c DEF e
  <2> QED
    BY <2>1, <2>2
<1> HIDE DEF d
<1>3. Distinct(d)
  BY <1>2 DEF Distinct
<1>4. CASE c.next < Len(s)
  <2>1. d.at = "layers"
    BY <1>2, <1>4, <1>a
  <2>2. m = Reached(d) + 1 /\ m <= Len(s)
    <3>1. Reached(d) = Reached(c)
      BY <1>2 DEF Reached
    <3> QED
      BY <1>0, <1>4, <1>b, <1>e, <3>1, SMT
  <2> QED
    BY <1>2, <1>3, <2>1, <2>2 DEF Shape, d
<1>5. CASE ~(c.next < Len(s)) /\ c.xfers = <<>>
  <2>0. d.at = "returned"
    BY <1>2, <1>5, <1>a
  <2>a. n = 0
    BY <1>5, <1>f
  <2>b. \A k \in Nat : k + 0 = k
    BY SMT
  <2>c. Reached(c) = Len(c.top)
    BY <1>d, <2>a, <2>b DEF Reached
  <2>d. c.next = Len(s)
    BY <1>0, <1>5, SMT
  <2>1. Len(c.top) = Len(s)
    BY <2>c, <2>d
  <2>2. d.top = s
    BY <1>2, <2>1, Heights DEF IsLower
  <2> QED
    BY <1>2, <1>3, <2>0, <2>a, <2>2 DEF Shape, d
<1>6. CASE ~(c.next < Len(s)) /\ c.xfers # <<>>
  <2>1. d.at = "waiting"
    BY <1>2, <1>6, <1>a
  <2>2. m = Reached(d) + 1 /\ m = Len(s) + 1
    <3>1. Reached(d) = Reached(c)
      BY <1>2 DEF Reached
    <3> QED
      BY <1>0, <1>6, <1>b, <1>e, <3>1, SMT
  <2> QED
    BY <1>2, <1>3, <1>6, <1>f, <2>1, <2>2 DEF Shape, d
<1> QED
  BY <1>4, <1>5, <1>6

\* Download begins.
LEMMA BegunStep == ASSUME IInv, NEW p \in Pulls, Begun(p) PROVE IInv'
<1> DEFINE c == call[p]  s == stack[p]
<1>0. TypeOK /\ Watching /\ Shape(c, s) /\ Keyed(c, s)
  BY DEF IInv, CallOK
<1>1. c = NewCall
  BY <1>0 DEF Begun, Shape
<1>2. PICK d : d = [c EXCEPT !.at = "layers"]
  OBVIOUS
<1>3. /\ d \in Calls /\ d.at = "layers" /\ d.next = 1 /\ d.top = <<>> /\ d.xfers = <<>>
      /\ d.held = None /\ c.xfers = <<>> /\ c.held = None /\ c.at = "new"
  <2>1. c \in Calls
    BY <1>0, Typed
  <2>2. d \in Calls
    BY <1>2, <2>1, SMT DEF Calls
  <2>3. c.xfers = <<>> /\ c.held = None /\ c.at = "new"
    BY <1>1, SMT DEF NewCall
  <2>4. d = [NewCall EXCEPT !.at = "layers"]
    BY <1>1, <1>2
  <2>5. /\ d.at = "layers" /\ d.next = 1 /\ d.top = <<>> /\ d.xfers = <<>>
        /\ d.held = None
    BY <2>4 DEF NewCall
  <2> QED
    BY <2>2, <2>3, <2>5
<1>4. Len(<<>>) = 0 /\ Len(s) \in Nat \ {0} /\ SubSeq(s, 1, 0) = <<>>
  BY <1>0, Heights, EmptySeq
<1>5. 0 <= Len(s) /\ 1 <= Len(s) /\ 1 = 0 + 0 + 1 /\ 0 \in Nat /\ \A i \in 1..0 : FALSE
  BY <1>4, SMT
<1>6. Distinct(d)
  BY <1>3, <1>4, <1>5 DEF Distinct
<1>7. IsLower(d.top, s) /\ d.next = Reached(d) + 1
  BY <1>3, <1>4, <1>5 DEF IsLower, Reached
<1>8. Shape(d, s)
  BY <1>3, <1>4, <1>5, <1>6, <1>7 DEF Shape
<1>9. Keyed(d, s)
  BY <1>3, <1>4, <1>5 DEF Keyed
<1>10. call' = [call EXCEPT ![p] = d] /\ UNCHANGED <<tmVars, work, stack, images>>
  BY <1>2 DEF Begun
<1>11. \A t \in Transfers : t \in Holds(d) <=> t \in Holds(c)
  BY <1>3 DEF Holds
<1>12. Onward(p)
  BY <1>3 DEF Onward
<1> QED
  BY <1>3, <1>8, <1>9, <1>10, <1>11, <1>12, OnlyCall

\* Download finds a layer in the store.
LEMMA FindStep == ASSUME IInv, NEW p \in Pulls, Find(p) PROVE IInv'
<1> DEFINE c == call[p]  s == stack[p]
<1>0. TypeOK /\ Watching /\ Shape(c, s) /\ Keyed(c, s) /\ call \in [Pulls -> Calls]
  BY Typed DEF IInv, CallOK
<1>1. c.at = "layers" /\ c.xfers = <<>> /\ c.held = None /\ c.next <= Len(s) /\ c \in Calls
  BY <1>0 DEF Find, Shape
<1>2. PICK l : l = Layer(p)
  OBVIOUS
<1>3. PICK e : e = [c EXCEPT !.top = l]
  OBVIOUS
<1>4. c.next \in Nat /\ Len(s) \in Nat /\ Len(<<>>) = 0
  BY <1>0, <1>1, Heights, EmptySeq, SMT DEF Calls
<1>5. c.next \in 1..Len(s)
  <2>1. IsLower(c.top, s) /\ c.next = Reached(c) + 1
    BY <1>0, <1>1 DEF Shape
  <2>2. Len(c.top) \in Nat /\ Reached(c) = Len(c.top) + 0
    BY <1>1, <1>4, <2>1 DEF IsLower, Reached
  <2>3. Reached(c) \in Nat
    BY <2>2, SMT
  <2> QED
    BY <1>1, <1>4, <2>1, <2>3, SMT
<1>6. l \in Layers /\ Len(l) = c.next /\ l = SubSeq(s, 1, c.next)
  BY <1>0, <1>2, <1>5, Heights DEF Layer
<1>7. e \in Calls /\ e.next = c.next /\ e.top = l /\ e.xfers = <<>> /\ e.held = None
  <2>1. l \in Layers /\ c \in Calls
    BY <1>1, <1>6
  <2>2. e \in Calls /\ e.next = c.next /\ e.top = l /\ e.xfers = c.xfers /\ e.held = c.held
    BY <1>3, <2>1, SMT DEF Calls
  <2> QED
    BY <1>1, <2>2
<1>8. IsLower(e.top, s)
  BY <1>1, <1>4, <1>6, <1>7 DEF IsLower
<1>9. e.next = Reached(e)
  <2>1. c.next = c.next + 0
    BY <1>4, SMT
  <2> QED
    BY <1>4, <1>6, <1>7, <2>1 DEF Reached
<1>10. Distinct(e) /\ \A i \in 1..0 : FALSE
  <2>1. \A i \in 1..0 : FALSE
    BY SMT
  <2> QED
    BY <1>4, <1>7, <2>1 DEF Distinct
<1>11. PICK d : d = Advance(p, e)
  OBVIOUS
<1>12. /\ d \in Calls /\ d.at \in {"layers", "waiting", "returned"} /\ d.xfers = e.xfers
       /\ d.held = None /\ Shape(d, s)
  BY <1>0, <1>5, <1>7, <1>8, <1>9, <1>10, <1>11, Advancing
<1>13. Keyed(d, s)
  BY <1>4, <1>7, <1>10, <1>12 DEF Keyed
<1>14. call' = [call EXCEPT ![p] = d] /\ UNCHANGED <<tmVars, work, stack, images>>
  BY <1>2, <1>3, <1>11 DEF Find
<1>15. \A t \in Transfers : t \in Holds(d) <=> t \in Holds(c)
  BY <1>1, <1>7, <1>12 DEF Holds
<1>16. Onward(p)
  <2>1. call'[p] = d /\ 0 <= 0
    BY <1>0, <1>14, SMT
  <2> QED
    BY <1>1, <1>4, <1>7, <1>10, <1>12, <2>1 DEF Onward
<1> QED
  BY <1>12, <1>13, <1>14, <1>15, <1>16, OnlyCall

\* The top download has succeeded: the call keeps it, to return it.
LEMMA SucceedStep == ASSUME IInv, NEW p \in Pulls, Succeed(p) PROVE IInv'
<1> DEFINE c == call[p]  s == stack[p]  x == c.xfers  n == Len(x)
<1>0. /\ TypeOK /\ Manager /\ Watching /\ Shape(c, s) /\ Keyed(c, s)
      /\ call \in [Pulls -> Calls]
  BY Typed DEF IInv, CallOK
<1>1. c.at = "waiting" /\ c.held = None /\ Distinct(c) /\ c \in Calls /\ n # 0
  BY <1>0 DEF Succeed, Shape
<1>2. x \in Seq(Transfers)
  BY <1>1, SMT DEF Calls
<1>3. x # <<>> /\ n \in Nat
  BY <1>1, <1>2, Tops
<1>4. PICK y : y = Front(x)
  OBVIOUS
<1>5. PICK t \in Transfers : t = x[n] /\ t = Top(p)
  BY <1>2, <1>3, Tops DEF Top
<1>6. /\ y \in Seq(Transfers) /\ Len(y) = n - 1
      /\ \A i \in 1..(n - 1) : y[i] = x[i]
  BY <1>2, <1>3, <1>4, Tops
<1>a. PICK f : f = [c EXCEPT !.held = t]
  OBVIOUS
<1>b. f \in Calls /\ f.held = t /\ f.xfers = x
  BY <1>1, <1>a, SMT DEF Calls
<1>7. PICK e : e = [f EXCEPT !.xfers = y]
  OBVIOUS
<1>c. y \in Seq(Transfers)
  BY <1>6
<1>8. e \in Calls /\ e.held = t /\ e.xfers = y
  BY <1>b, <1>c, <1>7, SMT DEF Calls
<1>9. \A i \in 1..(n - 1) : i \in 1..n /\ n \in 1..n /\ i # n
  BY <1>1, <1>3, SMT
<1>10. Distinct(e)
  <2>1. \A i \in 1..(n - 1) : y[i] # t /\ \A j \in 1..(n - 1) : i # j => y[i] # y[j]
    BY <1>1, <1>5, <1>6, <1>9 DEF Distinct
  <2>2. 1..Len(e.xfers) = 1..(n - 1)
    BY <1>6, <1>8
  <2> QED
    BY <1>8, <2>1, <2>2 DEF Distinct
<1>11. key[t] = s
  <2>1. key[x[n]] = SubSeq(s, 1, Len(c.top) + n)
    <3>1. n \in 1..n
      BY <1>1, <1>3, SMT
    <3> QED
      BY <1>0, <1>1, <3>1 DEF Keyed
  <2>2. c.next = Reached(c) + 1 /\ c.next = Len(s) + 1 /\ IsLower(c.top, s)
    BY <1>0, <1>1 DEF Shape
  <2>3. Reached(c) = Len(c.top) + n /\ Len(c.top) \in Nat
    BY <2>2 DEF Reached, IsLower
  <2>4. Len(s) \in Nat /\ SubSeq(s, 1, Len(s)) = s
    BY <1>0, Heights
  <2>a. \A j, l \in Nat : j + l \in Nat
    BY SMT
  <2>5. Len(c.top) + n \in Nat
    BY <1>3, <2>3, <2>a
  <2>6. \A j, l \in Nat : j + 1 = l + 1 => j = l
    BY SMT
  <2>7. Len(c.top) + n = Len(s)
    BY <2>2, <2>3, <2>4, <2>5, <2>6
  <2> QED
    BY <1>5, <2>1, <2>4, <2>7
<1>12. Kept(t)
  <2>1. t \in done /\ work[t].at \notin {"failed", "lost"}
    BY <1>5 DEF Succeed, Failed
  <2>2. t \in done <=> work[t].at \in Ended
    BY <1>0 DEF Manager
  <2> QED
    BY <2>1, <2>2 DEF Kept, Ended
<1>13. PICK d : d = Unwound(e)
  OBVIOUS
<1>14. /\ d \in Calls /\ d.at \in {"unwinding", "returned", "over"}
       /\ Shape(d, s) /\ Keyed(d, s) /\ \A u \in Transfers : u \in Holds(d) <=> u \in Holds(e)
  BY <1>8, <1>10, <1>11, <1>12, <1>13, Unwinding
<1>15. call' = [call EXCEPT ![p] = d] /\ UNCHANGED <<tmVars, work, stack, images>>
  <2>1. f = [call[p] EXCEPT !.held = Top(p)]
    BY <1>5, <1>a
  <2>2. call' = [call EXCEPT ![p] = Unwound([f EXCEPT !.xfers = Front(x)])]
    BY <2>1 DEF Succeed
  <2> QED
    BY <1>4, <1>7, <1>13, <2>2 DEF Succeed
<1>16. ASSUME NEW u \in Transfers PROVE u \in Holds(e) <=> u \in Holds(c)
  <2>1. u \in Range(x) <=> \E i \in 1..n : x[i] = u
    BY <1>2, Ranges
  <2>2. u \in Range(y) <=> \E i \in 1..(n - 1) : y[i] = u
    <3>1. u \in Range(y) <=> \E i \in 1..Len(y) : y[i] = u
      BY <1>6, Ranges
    <3> QED
      BY <1>6, <3>1
  <2>3. \A i \in 1..n : i = n \/ i \in 1..(n - 1)
    BY <1>3, SMT
  <2>4. n \in 1..n
    BY <1>1, <1>3, SMT
  <2>5. u \in Range(x) <=> u \in Range(y) \/ u = t
    BY <1>5, <1>6, <1>9, <2>1, <2>2, <2>3, <2>4
  <2>6. u # None
    BY DownloadAssumption
  <2> QED
    BY <1>1, <1>8, <2>5, <2>6 DEF Holds
<1>17. Onward(p)
  <2>1. call'[p] = d
    BY <1>0, <1>15
  <2> QED
    BY <1>14, <2>1 DEF Onward
<1> QED
  BY <1>14, <1>15, <1>16, <1>17, OnlyCall

\* The deferred release of topLayer.
LEMMA ReleaseTopLayerStep == ASSUME IInv, NEW p \in Pulls, ReleaseTopLayer(p) PROVE IInv'
<1> DEFINE c == call[p]  s == stack[p]
<1>0. TypeOK /\ Shape(c, s) /\ Keyed(c, s) /\ call \in [Pulls -> Calls]
  BY Typed DEF IInv, CallOK
<1>1. Distinct(c) /\ c \in Calls /\ (c.held # None => Kept(c.held) /\ key[c.held] = s)
  BY <1>0 DEF Shape, Keyed
<1>2. PICK e : e = [c EXCEPT !.top = <<>>]
  OBVIOUS
<1>3. e \in Calls /\ e.held = c.held /\ e.xfers = c.xfers
  BY <1>1, <1>2, SMT DEF Calls
<1>4. Distinct(e)
  BY <1>1, <1>3 DEF Distinct
<1>5. PICK d : d = Unwound(e)
  OBVIOUS
<1>6. /\ d \in Calls /\ d.at \in {"unwinding", "returned", "over"}
      /\ Shape(d, s) /\ Keyed(d, s) /\ \A u \in Transfers : u \in Holds(d) <=> u \in Holds(e)
  BY <1>1, <1>3, <1>4, <1>5, Unwinding
<1>7. call' = [call EXCEPT ![p] = d] /\ UNCHANGED <<tmVars, work, stack, images>>
  BY <1>2, <1>5 DEF ReleaseTopLayer
<1>8. \A u \in Transfers : u \in Holds(e) <=> u \in Holds(c)
  BY <1>3 DEF Holds
<1>9. Onward(p)
  <2>1. call'[p] = d
    BY <1>0, <1>7
  <2> QED
    BY <1>6, <2>1 DEF Onward
<1> QED
  BY <1>6, <1>7, <1>8, <1>9, OnlyCall

\* Release of the highest download, in a call that waits or unwinds.
LEMMA LeaveStep ==
    ASSUME IInv, NEW p \in Pulls, Leave(p),
           call[p].at = "waiting" \/ (call[p].at = "unwinding" /\ call[p].top = <<>>)
    PROVE  IInv'
<1> DEFINE c == call[p]  s == stack[p]  x == c.xfers  n == Len(x)
<1>0. /\ TypeOK /\ Shape(c, s) /\ Keyed(c, s)
      /\ call \in [Pulls -> Calls]
  BY Typed DEF IInv, CallOK
<1>1. Distinct(c) /\ c \in Calls /\ (c.held # None => Kept(c.held) /\ key[c.held] = s)
  BY <1>0 DEF Shape, Keyed
<1>2. x \in Seq(Transfers)
  BY <1>1, SMT DEF Calls
<1>3. x # <<>> /\ n \in Nat /\ n # 0
  BY <1>0, <1>2, Tops DEF Shape
<1>4. PICK y : y = Front(x)
  OBVIOUS
<1>5. PICK t \in Transfers : t = x[n] /\ t = Last(x)
  BY <1>2, <1>3, Tops
<1>6. /\ y \in Seq(Transfers) /\ Len(y) = n - 1
      /\ \A i \in 1..(n - 1) : y[i] = x[i]
  BY <1>2, <1>3, <1>4, Tops
<1>7. PICK e : e = [c EXCEPT !.xfers = y]
  OBVIOUS
<1>a. y \in Seq(Transfers)
  BY <1>6
<1>8. e \in Calls /\ e.held = c.held /\ e.xfers = y
  BY <1>1, <1>7, <1>a, SMT DEF Calls
<1>9. \A i \in 1..(n - 1) : i \in 1..n /\ i # n
  BY <1>3, SMT
<1>b. n \in 1..n
  BY <1>3, SMT
<1>10. Distinct(e)
  <2>1. \A i \in 1..(n - 1) : y[i] # c.held /\ \A j \in 1..(n - 1) : i # j => y[i] # y[j]
    BY <1>1, <1>6, <1>9 DEF Distinct
  <2>2. 1..Len(e.xfers) = 1..(n - 1)
    BY <1>6, <1>8
  <2> QED
    BY <1>8, <2>1, <2>2 DEF Distinct
<1>11. PICK d : d = Unwound(e)
  OBVIOUS
<1>12. /\ d \in Calls /\ d.at \in {"unwinding", "returned", "over"}
       /\ Shape(d, s) /\ Keyed(d, s) /\ \A u \in Transfers : u \in Holds(d) <=> u \in Holds(e)
  BY <1>1, <1>8, <1>10, <1>11, Unwinding
<1>13. call' = [call EXCEPT ![p] = d] /\ UNCHANGED <<work, stack, images>> /\ tm!Leave(p, t)
  BY <1>4, <1>5, <1>7, <1>11 DEF Leave
<1>14. ASSUME NEW u \in Transfers PROVE u \in Holds(e) <=> u \in Holds(c) /\ u # t
  <2>1. u \in Range(x) <=> \E i \in 1..n : x[i] = u
    BY <1>2, Ranges
  <2>2. u \in Range(y) <=> \E i \in 1..(n - 1) : y[i] = u
    <3>1. u \in Range(y) <=> \E i \in 1..Len(y) : y[i] = u
      BY <1>6, Ranges
    <3> QED
      BY <1>6, <3>1
  <2>3. \A i \in 1..n : i = n \/ i \in 1..(n - 1)
    BY <1>3, SMT
  <2>4. u \in Range(y) <=> u \in Range(x) /\ u # t
    <3>1. ASSUME u \in Range(y) PROVE u \in Range(x) /\ u # t
      <4>1. PICK i \in 1..(n - 1) : y[i] = u
        BY <2>2, <3>1
      <4>2. i \in 1..n /\ i # n /\ x[i] = u
        BY <1>6, <1>9, <4>1
      <4> QED
        BY <1>1, <1>5, <1>b, <2>1, <4>2 DEF Distinct
    <3>2. ASSUME u \in Range(x), u # t PROVE u \in Range(y)
      <4>1. PICK i \in 1..n : x[i] = u
        BY <2>1, <3>2
      <4>2. i \in 1..(n - 1)
        BY <1>5, <2>3, <3>2, <4>1
      <4> QED
        BY <1>6, <2>2, <4>1, <4>2
    <3> QED
      BY <3>1, <3>2
  <2>5. t # c.held
    BY <1>1, <1>5, <1>b DEF Distinct
  <2> QED
    BY <1>8, <2>4, <2>5 DEF Holds
<1>15. d.at \notin {"new", "layers", "waiting"}
  BY <1>12
<1>16. \A u \in Transfers : u \in Holds(d) <=> u \in Holds(c) /\ u # t
  BY <1>12, <1>14
<1>17. d \in Calls /\ Shape(d, s) /\ Keyed(d, s)
  BY <1>12
<1> QED
  BY <1>13, <1>15, <1>16, <1>17, Leaving

\* The function that Download returned.
LEMMA ReleaseStep == ASSUME IInv, NEW p \in Pulls, Release(p) PROVE IInv'
<1> DEFINE c == call[p]  s == stack[p]
<1>0. /\ TypeOK /\ Shape(c, s) /\ Keyed(c, s)
      /\ call \in [Pulls -> Calls]
  BY Typed DEF IInv, CallOK
<1>1. c \in Calls /\ c.at = "returned" /\ Len(c.xfers) = 0
  BY <1>0 DEF Release, Shape
<1>2. c.xfers = <<>> /\ c.held \in Transfers \cup {None}
  <2>1. c.xfers \in Seq(Transfers) /\ c.held \in Transfers \cup {None}
    BY <1>1, SMT DEF Calls
  <2> QED
    BY <1>1, <2>1, Tops
<1>3. Over.at = "over" /\ Over.xfers = <<>> /\ Over.held = None
  BY DEF Over, NewCall
<1>4. Over \in Calls
  <2>1. <<>> \in Seq(Transfers) /\ 1 \in Nat
    BY <1>1, EmptySeq, SMT
  <2> QED
    BY <2>1 DEF Over, NewCall, Calls
<1>5. Len(<<>>) = 0 /\ \A i \in 1..0 : FALSE
  BY SMT
<1>6. Distinct(Over)
  BY <1>3, <1>5 DEF Distinct
<1>7. Shape(Over, s) /\ Keyed(Over, s)
  BY <1>3, <1>6 DEF Shape, Keyed
<1>8. call' = [call EXCEPT ![p] = Over] /\ UNCHANGED <<work, stack, images>>
  BY DEF Release
<1>9. call'[p] = Over
  BY <1>0, <1>8
<1>10. CASE c.held = None
  <2>1. UNCHANGED <<tmVars, work, stack, images>>
    BY <1>10 DEF Release
  <2>2. \A u \in Transfers : u \in Holds(Over) <=> u \in Holds(c)
    BY <1>2, <1>3, <1>10 DEF Holds
  <2>3. Onward(p)
    BY <1>3, <1>9 DEF Onward
  <2> QED
    BY <1>4, <1>7, <1>8, <2>1, <2>2, <2>3, OnlyCall
<1>11. CASE c.held # None
  <2>1. tm!Leave(p, c.held) /\ c.held \in Transfers
    BY <1>2, <1>11 DEF Release
  <2>a. \A u : u \notin Range(<<>>)
    <3>1. <<>> \in Seq(Transfers)
      BY <2>1, EmptySeq
    <3> QED
      BY <1>5, <3>1, Ranges
  <2>2. \A u \in Transfers : u \in Holds(Over) <=> u \in Holds(c) /\ u # c.held
    BY <1>2, <1>3, <2>a, DownloadAssumption DEF Holds
  <2>3. Over.at \notin {"new", "layers", "waiting"}
    BY <1>3
  <2> QED
    BY <1>4, <1>7, <1>8, <2>1, <2>2, <2>3, Leaving
<1> QED
  BY <1>10, <1>11

\* Call c, with downloads y
WithDownloads(c, y) == [c EXCEPT !.xfers = y]

\* WithDownloads changes one field.
LEMMA DownloadsSet ==
    ASSUME NEW c \in Calls, NEW y \in Seq(Transfers)
    PROVE  LET e == WithDownloads(c, y)
           IN  /\ e \in Calls /\ e.held = c.held /\ e.xfers = y /\ e.next = c.next
               /\ e.top = c.top
BY SMTT(30) DEF Calls, WithDownloads

\* The next layer of a call is none of those it has a transfer for.
LEMMA NextLayer ==
    ASSUME TypeOK, NEW p \in Pulls, CallOK(p), call[p].at = "layers"
    PROVE  /\ call[p].next \in 1..Len(stack[p])
           /\ call[p].next = Len(call[p].top) + (Len(call[p].xfers) + 1)
           /\ Layer(p) \in Layers /\ Layer(p) = SubSeq(stack[p], 1, call[p].next)
           /\ Front(Layer(p)) = SubSeq(stack[p], 1, call[p].next - 1)
           /\ \A i \in 1..Len(call[p].xfers) : key[call[p].xfers[i]] # Layer(p)
<1> DEFINE c == call[p]  s == stack[p]  n == Len(c.xfers)  k == Len(c.top)
<1>1. /\ c \in Calls /\ Shape(c, s) /\ Keyed(c, s)
  BY Typed DEF CallOK
<1>2. /\ IsLower(c.top, s) /\ c.next = Reached(c) + 1 /\ c.next <= Len(s)
      /\ \A i \in 1..n : key[c.xfers[i]] = SubSeq(s, 1, k + i)
  BY <1>1 DEF Shape, Keyed
<1>3. k \in Nat /\ n \in Nat /\ Len(s) \in Nat
  <2>1. c.xfers \in Seq(Transfers)
    BY <1>1, SMT DEF Calls
  <2> QED
    BY <1>2, <2>1, Tops, Heights DEF IsLower
<1>4. c.next = (k + n) + 1
  BY <1>2 DEF Reached
<1>5. PICK a \in Nat : a = k
  BY <1>3
<1>6. PICK b \in Nat : b = n
  BY <1>3
<1>7. PICK m \in Nat : m = Len(s)
  BY <1>3
<1>8. PICK h \in Nat : h = (a + b) + 1 /\ h = a + (b + 1) /\ h \in Nat \ {0}
  BY SMT
<1>9. c.next = h /\ c.next = k + (n + 1) /\ h <= m
  BY <1>2, <1>4, <1>5, <1>6, <1>7, <1>8
<1>10. h \in 1..m
  BY <1>8, <1>9, SMT
<1>11. \A i \in 1..b : a + i \in 1..m /\ a + i # h
  BY <1>8, <1>9, SMT
<1>12. c.next \in 1..Len(s)
  BY <1>7, <1>9, <1>10
<1>13. Layer(p) = SubSeq(s, 1, c.next)
  BY DEF Layer
<1>14. ASSUME NEW i \in 1..n PROVE key[c.xfers[i]] # Layer(p)
  <2>1. key[c.xfers[i]] = SubSeq(s, 1, a + i)
    BY <1>2, <1>5
  <2>2. Len(SubSeq(s, 1, a + i)) = a + i
    BY <1>6, <1>7, <1>11, Heights
  <2>3. Len(SubSeq(s, 1, h)) = h
    BY <1>7, <1>10, Heights
  <2> QED
    BY <1>6, <1>9, <1>11, <1>13, <2>1, <2>2, <2>3
<1>15. Layer(p) \in Layers /\ Front(Layer(p)) = SubSeq(s, 1, c.next - 1)
  BY <1>12, <1>13, Heights
<1> QED
  BY <1>9, <1>12, <1>13, <1>14, <1>15

\* Call d is call c with one more download, t.
Pushed(c, d, t) ==
    LET n == Len(c.xfers)
    IN  /\ d \in Calls /\ d.at \in {"layers", "waiting"}
        /\ d.held = None /\ d.top = c.top
        /\ n \in Nat /\ Len(d.xfers) = n + 1 /\ d.xfers[n + 1] = t
        /\ \A i \in 1..n : d.xfers[i] = c.xfers[i]
        /\ \A i \in 1..(n + 1) : i \in 1..n \/ i = n + 1
        /\ \A u \in Transfers : u \in Holds(d) <=> u \in Holds(c) \/ u = t

\* The call asks for its next layer, and gets transfer t.
LEMMA Pushing ==
    ASSUME TypeOK, NEW p \in Pulls, CallOK(p), call[p].at = "layers", NEW t \in Transfers,
           \A i \in 1..Len(call[p].xfers) : call[p].xfers[i] # t,
           NEW d, d = Advance(p, [call[p] EXCEPT !.xfers = Append(call[p].xfers, t)])
    PROVE  Pushed(call[p], d, t) /\ Shape(d, stack[p])
<1> DEFINE c == call[p]  s == stack[p]  x == c.xfers  n == Len(x)
<1>1. c \in Calls /\ Shape(c, s)
  BY Typed DEF CallOK
<1>2. c.held = None /\ Distinct(c) /\ IsLower(c.top, s)
  BY <1>1 DEF Shape
<1>3. x \in Seq(Transfers)
  BY <1>1, SMT DEF Calls
<1>4. PICK y : y = Append(x, t)
  OBVIOUS
<1>5. /\ n \in Nat /\ y \in Seq(Transfers) /\ Len(y) = n + 1 /\ y[n + 1] = t
      /\ \A i \in 1..n : y[i] = x[i]
  <2>1. /\ n \in Nat /\ Append(x, t) \in Seq(Transfers) /\ Len(Append(x, t)) = n + 1
        /\ Append(x, t)[n + 1] = t /\ \A i \in 1..n : Append(x, t)[i] = x[i]
    BY <1>3, Tops
  <2> QED
    BY <1>4, <2>1
<1>6. PICK e : e = [c EXCEPT !.xfers = y]
  OBVIOUS
<1>a. y \in Seq(Transfers)
  BY <1>5
<1>7. e \in Calls /\ e.held = c.held /\ e.xfers = y /\ e.next = c.next /\ e.top = c.top
  <2>1. e = WithDownloads(c, y)
    BY <1>6 DEF WithDownloads
  <2> QED
    BY <1>1, <1>a, <2>1, DownloadsSet
<1>8. \A i \in 1..(n + 1) : i \in 1..n \/ i = n + 1
  BY <1>5, SMT
<1>9. n + 1 \in 1..(n + 1) /\ n + 1 \notin 1..n
  BY <1>5, SMT
<1>10. Distinct(e)
  <2>1. \A i \in 1..(n + 1) : y[i] \in Transfers
    BY <1>5, ElementOfSeq
  <2>2. \A i, j \in 1..(n + 1) : i # j => y[i] # y[j]
    BY <1>2, <1>5, <1>8 DEF Distinct
  <2>3. \A i \in 1..(n + 1) : y[i] # None
    BY <2>1, DownloadAssumption
  <2> QED
    BY <1>2, <1>5, <1>7, <2>2, <2>3 DEF Distinct
<1>11. e.next \in 1..Len(s) /\ e.next = Reached(e)
  BY <1>5, <1>7, NextLayer DEF Reached
<1>12. d = Advance(p, e)
  BY <1>4, <1>6
<1>13. /\ d \in Calls /\ d.at \in {"layers", "waiting", "returned"} /\ d.xfers = y
       /\ d.held = None /\ d.top = c.top /\ Shape(d, s)
  <2>1. PICK f : f = Advance(p, e)
    OBVIOUS
  <2>2. e.held = None /\ IsLower(e.top, s)
    BY <1>2, <1>7
  <2>3. /\ f \in Calls /\ f.at \in {"layers", "waiting", "returned"} /\ f.xfers = e.xfers
        /\ f.held = None /\ f.top = e.top /\ Shape(f, s)
    BY <1>7, <1>10, <1>11, <2>1, <2>2, Advancing
  <2> QED
    BY <1>7, <1>12, <2>1, <2>3
<1>14. d.at # "returned"
  <2>1. n + 1 # 0
    BY <1>5, SMT
  <2> QED
    BY <1>5, <1>13, <2>1 DEF Shape
<1>15. ASSUME NEW u \in Transfers PROVE u \in Holds(d) <=> u \in Holds(c) \/ u = t
  <2>1. u \in Range(x) <=> \E i \in 1..n : x[i] = u
    BY <1>3, Ranges
  <2>2. u \in Range(y) <=> \E i \in 1..(n + 1) : y[i] = u
    <3>1. u \in Range(y) <=> \E i \in 1..Len(y) : y[i] = u
      BY <1>5, Ranges
    <3> QED
      BY <1>5, <3>1
  <2>3. \A i \in 1..n : i \in 1..(n + 1)
    BY <1>5, SMT
  <2>4. u \in Range(y) <=> u \in Range(x) \/ u = t
    BY <1>5, <1>8, <1>9, <2>1, <2>2, <2>3
  <2> QED
    BY <1>2, <1>13, <2>4 DEF Holds
<1>16. Len(d.xfers) = n + 1 /\ d.xfers[n + 1] = t /\ \A i \in 1..n : d.xfers[i] = x[i]
  BY <1>5, <1>13
<1> QED
  BY <1>5, <1>8, <1>13, <1>14, <1>15, <1>16 DEF Pushed

\* The downloads of call c are of successive layers, by the keys k.
Successive(k, c, s) ==
    \A i \in 1..Len(c.xfers) : k[c.xfers[i]] = SubSeq(s, 1, Len(c.top) + i)

\* The next download is of the next layer.
LEMMA PushKeyed ==
    ASSUME TypeOK, NEW p \in Pulls, CallOK(p), call[p].at = "layers", NEW t, NEW d, NEW k,
           Pushed(call[p], d, t), k[t] = Layer(p), Successive(k, call[p], stack[p])
    PROVE  Successive(k, d, stack[p])
<1> DEFINE c == call[p]  n == Len(c.xfers)
<1>1. \A i \in 1..n : k[c.xfers[i]] = SubSeq(stack[p], 1, Len(c.top) + i)
  BY DEF Successive
<1>2. Layer(p) = SubSeq(stack[p], 1, Len(c.top) + (n + 1))
  <2>1. c.next = Len(c.top) + (n + 1) /\ Layer(p) = SubSeq(stack[p], 1, c.next)
    BY NextLayer
  <2> QED
    BY <2>1
<1>3. SUFFICES ASSUME NEW i \in 1..(n + 1)
               PROVE  k[d.xfers[i]] = SubSeq(stack[p], 1, Len(c.top) + i)
  BY DEF Pushed, Successive
<1>4. CASE i \in 1..n
  BY <1>1, <1>4 DEF Pushed
<1>5. CASE i = n + 1
  BY <1>2, <1>5 DEF Pushed
<1> QED
  BY <1>4, <1>5 DEF Pushed

\* The call gets a transfer that others watch.
LEMMA JoinStep == ASSUME IInv, NEW p \in Pulls, Join(p) PROVE IInv'
<1> DEFINE c == call[p]  s == stack[p]  n == Len(c.xfers)
<1>0. /\ TypeOK /\ Manager /\ Watching /\ CallOK(p) /\ call \in [Pulls -> Calls]
      /\ c.at = "layers" /\ Layer(p) \in Layers
  <2>1. TypeOK /\ Manager /\ Watching /\ CallOK(p) /\ c.at = "layers"
    BY DEF IInv, Join
  <2> QED
    BY <2>1, Typed, NextLayer
<1>1. PICK t : t = transfers[Layer(p)]
  OBVIOUS
<1>2. t \in Transfers /\ phase[t] = "tracked" /\ key[t] = Layer(p)
  <2>1. t # None
    BY <1>1 DEF Join, tm!Join
  <2>2. transfers \in [Layers -> Transfers \cup {None}]
    BY <1>0 DEF TypeOK
  <2>3. \A k \in Layers : transfers[k] # None
          => phase[transfers[k]] = "tracked" /\ key[transfers[k]] = k
    BY <1>0 DEF Manager
  <2> QED
    BY <1>0, <1>1, <2>1, <2>2, <2>3
<1>3. \A i \in 1..n : c.xfers[i] # t
  BY <1>0, <1>2, NextLayer
<1>4. PICK d : d = Advance(p, [call[p] EXCEPT !.xfers = Append(call[p].xfers, t)])
  OBVIOUS
<1>5. Pushed(c, d, t) /\ Shape(d, s)
  BY <1>0, <1>2, <1>3, <1>4, Pushing
<1>a. d \in Calls /\ d.at \in {"layers", "waiting"} /\ d.held = None
  BY <1>5 DEF Pushed
<1>6. /\ call' = [call EXCEPT ![p] = d] /\ work' = work /\ stack' = stack /\ images' = images
      /\ UNCHANGED <<transfers, phase, key, cancelled, done, released>>
      /\ watchers' = [watchers EXCEPT ![t] = watchers[t] \cup {p}]
  BY <1>1, <1>4 DEF Join, tm!Join
<1>7. call'[p] = d /\ call' \in [Pulls -> Calls] /\ \A q \in Pulls : q # p => call'[q] = call[q]
  BY <1>0, <1>6, <1>a
<1>8. /\ watchers' \in [Transfers -> SUBSET Pulls] /\ watchers'[t] = watchers[t] \cup {p}
      /\ \A u \in Transfers : u # t => watchers'[u] = watchers[u]
  <2>1. watchers \in [Transfers -> SUBSET Pulls]
    BY <1>0 DEF TypeOK
  <2>2. watchers[t] \cup {p} \in SUBSET Pulls
    BY <1>2, <2>1
  <2> QED
    BY <1>2, <1>6, <2>1, <2>2
<1>9. TypeOK'
  BY <1>0, <1>6, <1>7, <1>8 DEF TypeOK, Calls
<1>10. Manager'
  <2>1. t \notin released
    BY <1>0, <1>2 DEF Manager
  <2>2. ASSUME NEW u \in Transfers
        PROVE  /\ phase'[u] = "free" => watchers'[u] = {} /\ work'[u].at = "none"
               /\ phase'[u] = "closed" /\ watchers'[u] = {} => u \in released'
               /\ u \in released' => phase'[u] = "closed" /\ watchers'[u] = {}
               /\ work'[u].at # "none" => key'[u] \in Layers
               /\ u \in done' <=> work'[u].at \in Ended
               /\ work'[u].at = "dropped" => u \in released'
    <3>1. CASE u = t
      <4>1. /\ phase'[t] = "tracked" /\ t \notin released'
            /\ work[t].at # "none" => key[t] \in Layers
            /\ t \in done <=> work[t].at \in Ended
            /\ work[t].at # "dropped"
        BY <1>0, <1>2, <1>6, <2>1 DEF Manager
      <4> QED
        BY <1>6, <3>1, <4>1
    <3>2. CASE u # t
      BY <1>0, <1>6, <1>8, <3>2, ManagerFrame
    <3> QED
      BY <3>1, <3>2
  <2>3. \A k \in Layers : transfers'[k] # None
            => phase'[transfers'[k]] = "tracked" /\ key'[transfers'[k]] = k
    BY <1>0, <1>6 DEF Manager
  <2> QED
    BY <2>2, <2>3 DEF Manager
<1>11. \A u : Kept(u)' <=> Kept(u)
  BY <1>6 DEF Kept
<1>12. Watching'
  <2> SUFFICES ASSUME NEW q \in Pulls, NEW u \in Transfers
               PROVE  q \in watchers'[u] <=> u \in Holds(call'[q])
    BY DEF Watching, Holds
  <2>1. q \in watchers[u] <=> u \in Holds(call[q])
    BY <1>0 DEF Watching
  <2>2. q = p => (u \in Holds(call'[q]) <=> u \in Holds(call[q]) \/ u = t)
    BY <1>5, <1>7 DEF Pushed
  <2> QED
    BY <1>7, <1>8, <2>1, <2>2
<1>13. ASSUME NEW q \in Pulls PROVE CallOK(q)'
  <2>1. CASE q = p
    <3>1. Successive(key, d, s)
      <4>1. Successive(key, c, s)
        BY <1>0 DEF CallOK, Keyed, Successive
      <4> QED
        BY <1>0, <1>2, <1>5, <4>1, PushKeyed
    <3>2. Keyed(d, s)'
      BY <1>6, <1>a, <3>1 DEF Keyed, Successive
    <3> QED
      BY <1>5, <1>6, <1>7, <2>1, <3>2 DEF CallOK
  <2>2. CASE q # p
    BY <1>0, <1>6, <1>7, <1>11, <2>2, CallFrame DEF IInv
  <2> QED
    BY <2>1, <2>2
<1>14. Onward(p)
  <2>1. \A m \in Nat : m <= m + 1
    BY SMT
  <2> QED
    BY <1>0, <1>5, <1>7, <2>1 DEF Onward, Pushed
<1>15. ASSUME NEW u \in Transfers PROVE Parentage(u)'
  <2>1. Parentage(u)
    BY DEF IInv
  <2>2. CASE work[u].at \notin Active
    BY <1>6, <2>2 DEF Parentage
  <2>3. CASE work[u].at \in Active
    <3>1. work[u].by \in Pulls
      BY <2>1, <2>3 DEF Parentage
    <3>2. Onward(work[u].by)
      BY <1>0, <1>7, <1>14, <3>1, OnwardFrame
    <3> QED
      BY <1>0, <1>6, <1>11, <2>1, <2>3, <3>2, ParentFrame
  <2> QED
    BY <2>2, <2>3
<1> QED
  BY <1>9, <1>10, <1>12, <1>13, <1>15 DEF IInv

\* A set of numbers has a least one.
LEMMA Least == ASSUME NEW S, S \subseteq Nat, S # {} PROVE Min(S) \in S
<1>1. PICK R : R = {ss \in Nat \X Nat : ss[1] < ss[2]}
  OBVIOUS
<1>2. IsWellFoundedOn(R, Nat)
  BY <1>1, NatLessThanWellFounded DEF OpToRel
<1>3. PICK x \in S : \A y \in S : ~(<<y, x>> \in R)
  BY <1>2, WFMin
<1>4. ASSUME NEW y \in S PROVE x =< y
  <2>1. x \in Nat /\ y \in Nat
    OBVIOUS
  <2>2. <<y, x>> \in Nat \X Nat /\ <<y, x>>[1] = y /\ <<y, x>>[2] = x
    BY <2>1, SMT
  <2>3. ~(y < x)
    BY <1>1, <1>3, <2>2
  <2> QED
    BY <2>1, <2>3, SMT
<1> QED
  BY <1>4 DEF Min

\* downloadsByKey has downloads of the call.
LEMMA ExistingIsTransfer ==
    ASSUME TypeOK, NEW p \in Pulls PROVE Existing(p) \in Transfers \cup {None}
<1> DEFINE x == call[p].xfers
           same == {i \in 1..Len(x) : Last(key[x[i]]) = Last(Layer(p))}
<1>1. x \in Seq(Transfers)
  BY Typed, SMT DEF Calls
<1>2. same \subseteq 1..Len(x)
  OBVIOUS
<1>3. 1..Len(x) \subseteq Nat
  BY <1>1, LenProperties, SMT
<1>4. Existing(p) = IF same = {} THEN None ELSE x[Min(same)]
  BY DEF Existing
<1> HIDE DEF same
<1>5. same # {} => Min(same) \in 1..Len(x)
  BY <1>2, <1>3, Least
<1> QED
  BY <1>1, <1>4, <1>5, ElementOfSeq

\* The goroutine of a new transfer of call p, with parent u and source v
NewWork(p, u, v) == [at |-> "queued", by |-> p, parent |-> u, source |-> v, retries |-> 0]

\* NewWork is of its type.
LEMMA WorkBegun ==
    ASSUME NEW p \in Pulls, NEW u \in Transfers \cup {None}, NEW v \in Transfers \cup {None}
    PROVE  NewWork(p, u, v) \in Works
<1>1. 0 \in 0..(MaxAttempts - 1)
  BY DownloadAssumption, SMT
<1> QED
  BY <1>1 DEF NewWork, Works

\* The call gets a new transfer, which nobody watched.
LEMMA BeginStep == ASSUME IInv, NEW p \in Pulls, NEW t \in Transfers, Begin(p, t) PROVE IInv'
<1> DEFINE c == call[p]  s == stack[p]  n == Len(c.xfers)
<1>0. /\ TypeOK /\ Manager /\ Watching /\ CallOK(p) /\ call \in [Pulls -> Calls]
      /\ c.at = "layers" /\ Layer(p) \in Layers
  <2>1. TypeOK /\ Manager /\ Watching /\ CallOK(p) /\ c.at = "layers"
    BY DEF IInv, Begin
  <2> QED
    BY <2>1, Typed, NextLayer
<1>1. /\ phase[t] \in {"free", "closed"} /\ (phase[t] = "closed" => t \in released)
      /\ \A u \in Transfers : work[u].parent # t
  BY DEF Begin, Unused
<1>2. watchers[t] = {}
  BY <1>0, <1>1 DEF Manager
<1>3. \A q \in Pulls : t \notin Holds(call[q])
  BY <1>0, <1>2 DEF Watching
<1>a. c.xfers \in Seq(Transfers) /\ n \in Nat /\ (c.xfers = <<>> <=> n = 0)
  <2>1. c.xfers \in Seq(Transfers)
    BY <1>0, SMT DEF Calls
  <2> QED
    BY <2>1, Tops
<1>4. \A i \in 1..n : c.xfers[i] # t
  <2>1. t \in Range(c.xfers) <=> \E i \in 1..Len(c.xfers) : c.xfers[i] = t
    BY <1>a, Ranges
  <2>2. t \notin Range(c.xfers)
    BY <1>3 DEF Holds
  <2> QED
    BY <2>1, <2>2
<1>5. PICK d : d = Advance(p, [call[p] EXCEPT !.xfers = Append(call[p].xfers, t)])
  OBVIOUS
<1>6. Pushed(c, d, t) /\ Shape(d, s)
  BY <1>0, <1>4, <1>5, Pushing
<1>b. d \in Calls /\ d.at \in {"layers", "waiting"} /\ d.held = None
  BY <1>6 DEF Pushed
<1>7. PICK v \in Transfers \cup {None} : v = Existing(p)
  BY <1>0, ExistingIsTransfer
<1>8. PICK f \in Transfers \cup {None} : f = IF c.xfers = <<>> THEN None ELSE Last(c.xfers)
  BY <1>a, Tops
<1>9. PICK w \in Works : w = NewWork(p, f, v)
  BY WorkBegun
<1>10. w.at = "queued" /\ w.by = p /\ w.parent = f
  BY <1>9 DEF NewWork
<1>11. /\ call' = [call EXCEPT ![p] = d] /\ stack' = stack /\ images' = images
       /\ work' = [work EXCEPT ![t] = w]
  <2>1. [NoWork EXCEPT !.at = "queued", !.by = p, !.source = v, !.parent = f] = NewWork(p, f, v)
    <3>1. PICK a : a = [NoWork EXCEPT !.at = "queued"]
      OBVIOUS
    <3>2. a = [at |-> "queued", by |-> None, parent |-> None, source |-> None, retries |-> 0]
      BY <3>1, SMT DEF NoWork
    <3>3. PICK b : b = [a EXCEPT !.by = p]
      OBVIOUS
    <3>4. b = [at |-> "queued", by |-> p, parent |-> None, source |-> None, retries |-> 0]
      BY <3>2, <3>3, SMT
    <3>5. PICK e : e = [b EXCEPT !.source = v]
      OBVIOUS
    <3>6. e = [at |-> "queued", by |-> p, parent |-> None, source |-> v, retries |-> 0]
      BY <3>4, <3>5, SMT
    <3>7. [e EXCEPT !.parent = f] = NewWork(p, f, v)
      BY <3>6, SMT DEF NewWork
    <3> QED
      BY <3>1, <3>3, <3>5, <3>7
  <2> QED
    BY <1>5, <1>7, <1>8, <1>9, <2>1 DEF Begin
<1>12. /\ transfers' = [transfers EXCEPT ![Layer(p)] = t]
       /\ phase' = [phase EXCEPT ![t] = "tracked"]
       /\ key' = [key EXCEPT ![t] = Layer(p)]
       /\ watchers' = [watchers EXCEPT ![t] = {p}]
       /\ cancelled' = cancelled \ {t} /\ done' = done \ {t} /\ released' = released \ {t}
  BY DEF Begin, tm!Begin
<1>13. call'[p] = d /\ call' \in [Pulls -> Calls] /\ \A q \in Pulls : q # p => call'[q] = call[q]
  BY <1>0, <1>11, <1>b
<1>14. /\ work'[t] = w /\ work' \in [Transfers -> Works]
       /\ \A u \in Transfers : u # t => work'[u] = work[u]
  BY <1>0, <1>11, Typed
<1>15. /\ phase'[t] = "tracked" /\ key'[t] = Layer(p) /\ watchers'[t] = {p}
       /\ \A u \in Transfers : u # t => /\ phase'[u] = phase[u] /\ key'[u] = key[u]
                                        /\ watchers'[u] = watchers[u]
  BY <1>0, <1>12 DEF TypeOK
<1>16. TypeOK'
  <2>1. transfers' \in [Layers -> Transfers \cup {None}]
    BY <1>0, <1>12 DEF TypeOK
  <2>2. phase' \in [Transfers -> {"free", "tracked", "removed", "closed"}]
    BY <1>0, <1>12 DEF TypeOK
  <2>3. key' \in [Transfers -> Layers \cup {None}]
    BY <1>0, <1>12 DEF TypeOK
  <2>4. watchers' \in [Transfers -> SUBSET Pulls]
    <3>1. {p} \in SUBSET Pulls /\ watchers \in [Transfers -> SUBSET Pulls]
      BY <1>0 DEF TypeOK
    <3> QED
      BY <1>12, <3>1
  <2>5. cancelled' \subseteq Transfers /\ done' \subseteq Transfers /\ released' \subseteq Transfers
    BY <1>0, <1>12 DEF TypeOK
  <2>6. stack' \in Stacks /\ images' \subseteq Layers
    BY <1>0, <1>11 DEF TypeOK
  <2> QED
    BY <1>13, <1>14, <2>1, <2>2, <2>3, <2>4, <2>5, <2>6 DEF TypeOK, Calls, Works
<1>17. Manager'
  <2>1. ASSUME NEW k \in Layers, transfers'[k] # None
        PROVE  phase'[transfers'[k]] = "tracked" /\ key'[transfers'[k]] = k
    <3>0. transfers \in [Layers -> Transfers \cup {None}]
      BY <1>0 DEF TypeOK
    <3>1. CASE k = Layer(p)
      <4>1. transfers'[k] = t
        BY <1>12, <3>0, <3>1
      <4> QED
        BY <1>15, <3>1, <4>1
    <3>2. CASE k # Layer(p)
      <4>1. transfers'[k] = transfers[k]
        BY <1>12, <3>0, <3>2
      <4>2. PICK u \in Transfers : u = transfers[k]
        BY <2>1, <3>0, <4>1
      <4>3. phase[u] = "tracked" /\ key[u] = k
        BY <1>0, <2>1, <4>1, <4>2 DEF Manager
      <4>4. u # t
        BY <1>1, <4>3
      <4> QED
        BY <1>15, <4>1, <4>2, <4>3, <4>4
    <3> QED
      BY <3>1, <3>2
  <2>2. ASSUME NEW u \in Transfers
        PROVE  /\ phase'[u] = "free" => watchers'[u] = {} /\ work'[u].at = "none"
               /\ phase'[u] = "closed" /\ watchers'[u] = {} => u \in released'
               /\ u \in released' => phase'[u] = "closed" /\ watchers'[u] = {}
               /\ work'[u].at # "none" => key'[u] \in Layers
               /\ u \in done' <=> work'[u].at \in Ended
               /\ work'[u].at = "dropped" => u \in released'
    <3>1. CASE u = t
      <4>1. u \notin released' /\ u \notin done'
        BY <1>12, <3>1
      <4>2. w.at \notin Ended
        BY <1>10 DEF Ended
      <4> QED
        BY <1>0, <1>10, <1>14, <1>15, <3>1, <4>1, <4>2
    <3>2. CASE u # t
      <4>1. (u \in released' <=> u \in released) /\ (u \in done' <=> u \in done)
        BY <1>12, <3>2
      <4> QED
        BY <1>0, <1>14, <1>15, <3>2, <4>1, ManagerFrame
    <3> QED
      BY <3>1, <3>2
  <2> QED
    BY <2>1, <2>2 DEF Manager
<1>18. \A u : u # t /\ Kept(u) => Kept(u)'
  <2>1. \A u : Kept(u) => u \in Transfers
    BY <1>0 DEF Kept, TypeOK
  <2> QED
    BY <1>12, <1>14, <2>1 DEF Kept
<1>19. Watching'
  <2> SUFFICES ASSUME NEW q \in Pulls, NEW u \in Transfers
               PROVE  q \in watchers'[u] <=> u \in Holds(call'[q])
    BY DEF Watching, Holds
  <2>1. q \in watchers[u] <=> u \in Holds(call[q])
    BY <1>0 DEF Watching
  <2>2. q = p => (u \in Holds(call'[q]) <=> u \in Holds(call[q]) \/ u = t)
    BY <1>6, <1>13 DEF Pushed
  <2> QED
    BY <1>3, <1>13, <1>15, <2>1, <2>2
<1>20. ASSUME NEW q \in Pulls PROVE CallOK(q)'
  <2>1. CASE q = p
    <3>1. PICK k : k = key'
      OBVIOUS
    <3>2. Successive(k, c, s)
      <4>1. \A i \in 1..n : key[c.xfers[i]] = SubSeq(s, 1, Len(c.top) + i)
        BY <1>0 DEF CallOK, Keyed
      <4>2. \A i \in 1..n : c.xfers[i] \in Transfers
        BY <1>a, ElementOfSeq
      <4> QED
        BY <1>4, <1>15, <3>1, <4>1, <4>2 DEF Successive
    <3>3. k[t] = Layer(p)
      BY <1>15, <3>1
    <3>4. Successive(k, d, s)
      BY <1>0, <1>6, <3>2, <3>3, PushKeyed
    <3>5. Keyed(d, s)'
      BY <1>11, <1>b, <3>1, <3>4 DEF Keyed, Successive
    <3> QED
      BY <1>6, <1>11, <1>13, <2>1, <3>5 DEF CallOK
  <2>2. CASE q # p
    <3>1. \A u \in Transfers : q \in watchers[u] => u # t
      BY <1>2
    <3> QED
      BY <1>0, <1>11, <1>13, <1>15, <1>18, <2>2, <3>1, CallFrame DEF IInv
  <2> QED
    BY <2>1, <2>2
<1>21. Onward(p)
  <2>1. \A m \in Nat : m <= m + 1
    BY SMT
  <2> QED
    BY <1>0, <1>6, <1>13, <2>1 DEF Onward, Pushed
<1>22. Parentage(t)'
  <2>1. n + 1 \in 1..(n + 1) /\ (n + 1) - 1 = n /\ (n + 1 = 1 <=> n = 0) /\ (n # 0 => n \in 1..n)
    BY <1>a, SMT
  <2>2. /\ Len(d.xfers) = n + 1 /\ d.xfers[n + 1] = t
        /\ \A i \in 1..n : d.xfers[i] = c.xfers[i]
    BY <1>6 DEF Pushed
  <2>3. n # 0 => f = d.xfers[n]
    BY <1>8, <1>a, <2>1, <2>2, Tops
  <2>4. n = 0 => f = None
    BY <1>8, <1>a
  <2>5. f = IF n + 1 = 1 THEN None ELSE d.xfers[(n + 1) - 1]
    BY <2>1, <2>3, <2>4
  <2> QED
    <3>1. \E j \in 1..Len(d.xfers) :
             d.xfers[j] = t /\ w.parent = (IF j = 1 THEN None ELSE d.xfers[j - 1])
      BY <1>10, <2>1, <2>2, <2>5
    <3>2. work'[t].at = "queued" /\ work'[t].by = p /\ work'[t].parent = w.parent
      BY <1>10, <1>14
    <3>3. call'[work'[t].by] = d /\ d.at # "new"
      BY <1>13, <1>b, <3>2
    <3> QED
      BY <3>1, <3>2, <3>3 DEF Parentage
<1>23. ASSUME NEW u \in Transfers, u # t PROVE Parentage(u)'
  <2>0. work'[u] = work[u]
    BY <1>14, <1>23
  <2>1. Parentage(u)
    BY DEF IInv
  <2>2. CASE work[u].at \notin Active
    BY <2>0, <2>2 DEF Parentage
  <2>3. CASE work[u].at \in Active
    <3>1. work[u].by \in Pulls
      BY <2>1, <2>3 DEF Parentage
    <3>2. Onward(work[u].by)
      BY <1>0, <1>13, <1>21, <3>1, OnwardFrame
    <3>3. Kept(work[u].parent) => Kept(work[u].parent)'
      <4>1. PICK g : g = work[u].parent
        OBVIOUS
      <4>2. Kept(g) => Kept(g)'
        BY <1>1, <1>18, <4>1
      <4> QED
        BY <2>0, <4>1, <4>2 DEF Kept
    <3> QED
      BY <1>0, <2>0, <2>1, <2>3, <3>2, <3>3, ParentFrame
  <2> QED
    BY <2>2, <2>3
<1> QED
  BY <1>16, <1>17, <1>19, <1>20, <1>22, <1>23 DEF IInv
-----------------------------------------------------------------------------
(* Steps of a transfer                                                      *)

\* The calls stay as they are when results stay and goroutines keep their places.
LEMMA TransferFrame ==
    ASSUME IInv, TypeOK', Manager', UNCHANGED <<key, watchers, stack, call>>,
           \A u \in Transfers : Kept(u) => Kept(u)',
           \A u \in Transfers :
              work'[u].at \in Active =>
                 /\ work[u].at \in Active
                 /\ work'[u].by = work[u].by /\ work'[u].parent = work[u].parent
                 /\ work'[u].at = "source" => work[u].at = "source" \/ Kept(work[u].parent)
    PROVE  IInv'
<1>0. TypeOK /\ Watching
  BY DEF IInv
<1>1. Watching'
  BY <1>0 DEF Watching
<1>2. ASSUME NEW q \in Pulls PROVE CallOK(q)'
  BY <1>0, CallFrame DEF IInv
<1>3. ASSUME NEW u \in Transfers PROVE Parentage(u)'
  <2>1. Parentage(u)
    BY DEF IInv
  <2>2. CASE work'[u].at \notin Active
    BY <2>2 DEF Parentage
  <2>3. CASE work'[u].at \in Active
    <3>0. /\ work[u].at \in Active
          /\ work'[u].by = work[u].by /\ work'[u].parent = work[u].parent
          /\ work'[u].at = "source" => work[u].at = "source" \/ Kept(work[u].parent)
      BY <2>3
    <3>1. work[u].by \in Pulls
      BY <2>1, <3>0 DEF Parentage
    <3>2. Onward(work[u].by)
      <4>1. Onward(work[u].by)
        <5>1. call'[work[u].by] = call[work[u].by]
          OBVIOUS
        <5>2. Len(call[work[u].by].xfers) <= Len(call[work[u].by].xfers)
          BY <1>0, <3>1, Typed, LenProperties, SMT DEF Calls
        <5> QED
          BY <5>1, <5>2 DEF Onward
      <4> QED
        BY <4>1
    <3>3. Kept(work[u].parent) => Kept(work[u].parent)'
      <4>1. PICK g : g = work[u].parent
        OBVIOUS
      <4>2. Kept(g) => g \in Transfers
        BY <1>0 DEF Kept, TypeOK
      <4>3. Kept(g) => Kept(g)'
        BY <4>2
      <4> QED
        BY <3>0, <4>1, <4>3 DEF Kept
    <3> QED
      BY <1>0, <2>1, <3>0, <3>2, <3>3, ParentFrame
  <2> QED
    BY <2>2, <2>3
<1> QED
  BY <1>1, <1>2, <1>3 DEF IInv

\* A goroutine goes on, or lets go of its layer.
LEMMA Working ==
    ASSUME IInv, NEW t \in Transfers, NEW w \in Works, work' = [work EXCEPT ![t] = w],
           UNCHANGED <<tmVars, stack, call, images>>,
           w.by = work[t].by, w.parent = work[t].parent,
           \/ /\ work[t].at \in Active /\ w.at \in Active
              /\ w.at = "source" => Kept(w.parent)
           \/ work[t].at = "registered" /\ w.at = "dropped" /\ t \in released
    PROVE  IInv'
<1>0. TypeOK /\ Manager /\ work \in [Transfers -> Works]
  BY Typed DEF IInv
<1>1. /\ UNCHANGED <<transfers, phase, key, watchers, cancelled, done, released>>
      /\ stack' = stack /\ call' = call /\ images' = images
  BY DEF tmVars
<1>2. /\ work'[t] = w /\ work' \in [Transfers -> Works]
      /\ \A u \in Transfers : u # t => work'[u] = work[u]
  BY <1>0
<1>3. TypeOK'
  <2>1. TypeOK /\ work' \in [Transfers -> Works]
    BY <1>0, <1>2
  <2> QED
    BY <1>1, <2>1, Typed, TypeStays
<1>4. /\ work[t].at # "none" /\ w.at # "none" /\ (w.at \in Ended <=> work[t].at \in Ended)
      /\ w.at = "dropped" => t \in released
  BY DEF Active, Ended
<1>5. Manager'
  <2>1. ASSUME NEW u \in Transfers
        PROVE  /\ phase'[u] = "free" => watchers'[u] = {} /\ work'[u].at = "none"
               /\ phase'[u] = "closed" /\ watchers'[u] = {} => u \in released'
               /\ u \in released' => phase'[u] = "closed" /\ watchers'[u] = {}
               /\ work'[u].at # "none" => key'[u] \in Layers
               /\ u \in done' <=> work'[u].at \in Ended
               /\ work'[u].at = "dropped" => u \in released'
    <3>1. CASE u = t
      BY <1>0, <1>1, <1>2, <1>4, <3>1 DEF Manager
    <3>2. CASE u # t
      BY <1>0, <1>1, <1>2, <3>2, ManagerFrame
    <3> QED
      BY <3>1, <3>2
  <2>2. \A k \in Layers : transfers'[k] # None
            => phase'[transfers'[k]] = "tracked" /\ key'[transfers'[k]] = k
    BY <1>0, <1>1 DEF Manager
  <2> QED
    BY <2>1, <2>2 DEF Manager
<1>6. ASSUME NEW u \in Transfers, Kept(u) PROVE Kept(u)'
  <2>1. CASE u = t
    <3>1. work[t].at \notin Active
      BY <1>6, <2>1 DEF Kept, Active
    <3> QED
      BY <1>1, <1>2, <1>6, <2>1, <3>1 DEF Kept
  <2>2. CASE u # t
    BY <1>1, <1>2, <1>6, <2>2 DEF Kept
  <2> QED
    BY <2>1, <2>2
<1>7. ASSUME NEW u \in Transfers, work'[u].at \in Active
      PROVE  /\ work[u].at \in Active
             /\ work'[u].by = work[u].by /\ work'[u].parent = work[u].parent
             /\ work'[u].at = "source" => work[u].at = "source" \/ Kept(work[u].parent)
  <2>1. CASE u = t
    <3>1. w.at \in Active
      BY <1>2, <1>7, <2>1
    <3>2. w.at # "dropped"
      BY <3>1 DEF Active
    <3> QED
      BY <1>2, <2>1, <3>2
  <2>2. CASE u # t
    BY <1>2, <1>7, <2>2
  <2> QED
    BY <2>1, <2>2
<1> QED
  BY <1>1, <1>3, <1>5, <1>6, <1>7, TransferFrame

\* A goroutine ends: it has registered its layer, or has not.
LEMMA Ending ==
    ASSUME IInv, NEW t \in Transfers, work[t].at \in Active,
           NEW a \in {"registered", "failed", "lost"}, End(t, a)
    PROVE  IInv'
<1>0. TypeOK /\ Manager /\ work \in [Transfers -> Works]
  BY Typed DEF IInv
<1>1. /\ UNCHANGED <<transfers, phase, key, watchers, cancelled, released>>
      /\ stack' = stack /\ call' = call /\ images' = images
      /\ phase[t] = "tracked" /\ t \notin done /\ done' = done \cup {t}
  BY DEF End, tm!Finish
<1>2. PICK w : w = [NoWork EXCEPT !.at = a]
  OBVIOUS
<1>3. w \in Works /\ w.at = a
  <2>1. 0 \in 0..(MaxAttempts - 1)
    BY DownloadAssumption, SMT
  <2>2. NoWork \in Works
    BY <2>1 DEF NoWork, Works
  <2> QED
    BY <1>2, <2>2, SMT DEF Works
<1>4. /\ work'[t] = w /\ work' \in [Transfers -> Works]
      /\ \A u \in Transfers : u # t => work'[u] = work[u]
  BY <1>0, <1>2, <1>3 DEF End
<1>5. TypeOK'
  <2>1. TypeOK /\ done' \subseteq Transfers
    BY <1>0, <1>1 DEF TypeOK
  <2>2. work' \in [Transfers -> Works]
    BY <1>4
  <2> QED
    BY <1>1, <2>1, <2>2 DEF TypeOK, Works
<1>6. Manager'
  <2>1. ASSUME NEW u \in Transfers
        PROVE  /\ phase'[u] = "free" => watchers'[u] = {} /\ work'[u].at = "none"
               /\ phase'[u] = "closed" /\ watchers'[u] = {} => u \in released'
               /\ u \in released' => phase'[u] = "closed" /\ watchers'[u] = {}
               /\ work'[u].at # "none" => key'[u] \in Layers
               /\ u \in done' <=> work'[u].at \in Ended
               /\ work'[u].at = "dropped" => u \in released'
    <3>1. CASE u = t
      <4>1. u \in done' /\ work'[u].at \in Ended /\ work'[u].at # "dropped"
        BY <1>1, <1>3, <1>4, <3>1 DEF Ended
      <4>2. key[t] \in Layers
        <5>1. work[t].at # "none"
          BY DEF Active
        <5> QED
          BY <1>0, <5>1 DEF Manager
      <4>3. phase[u] = "tracked"
        BY <1>1, <3>1
      <4> QED
        BY <1>0, <1>1, <3>1, <4>1, <4>2, <4>3 DEF Manager
    <3>2. CASE u # t
      <4>1. u \in done' <=> u \in done
        BY <1>1, <3>2
      <4> QED
        BY <1>0, <1>1, <1>4, <3>2, <4>1, ManagerFrame
    <3> QED
      BY <3>1, <3>2
  <2>2. \A k \in Layers : transfers'[k] # None
            => phase'[transfers'[k]] = "tracked" /\ key'[transfers'[k]] = k
    BY <1>0, <1>1 DEF Manager
  <2> QED
    BY <2>1, <2>2 DEF Manager
<1>7. ASSUME NEW u \in Transfers, Kept(u) PROVE Kept(u)'
  BY <1>1, <1>4, <1>7 DEF Kept
<1>8. ASSUME NEW u \in Transfers, work'[u].at \in Active
      PROVE  /\ work[u].at \in Active
             /\ work'[u].by = work[u].by /\ work'[u].parent = work[u].parent
             /\ work'[u].at = "source" => work[u].at = "source" \/ Kept(work[u].parent)
  <2>1. a \notin Active
    BY DEF Active
  <2> QED
    BY <1>3, <1>4, <1>8, <2>1
<1> QED
  BY <1>1, <1>5, <1>6, <1>7, <1>8, TransferFrame

\* A goroutine goes on, with its place unchanged.
LEMMA BecomeStep ==
    ASSUME IInv, NEW t \in Transfers, NEW a, Become(t, a),
           \/ work[t].at \in Active /\ a \in Active /\ (a = "source" => Kept(work[t].parent))
           \/ work[t].at = "registered" /\ a = "dropped" /\ t \in released
    PROVE  IInv'
<1>1. work \in [Transfers -> Works]
  BY Typed DEF IInv
<1>2. PICK w : w = [work[t] EXCEPT !.at = a]
  OBVIOUS
<1>3. a \in {"queued", "fetching", "delay", "parent", "source", "registering", "dropped"}
  BY DEF Active
<1>4. PICK v \in Works : v = work[t]
  BY <1>1
<1>5. w \in Works /\ w.at = a /\ w.by = v.by /\ w.parent = v.parent
  BY <1>2, <1>3, <1>4, SMT DEF Works
<1>6. work' = [work EXCEPT ![t] = w] /\ UNCHANGED <<tmVars, stack, call, images>>
  BY <1>2 DEF Become
<1>7. w.by = work[t].by /\ w.parent = work[t].parent
  BY <1>4, <1>5
<1> QED
  BY <1>5, <1>6, <1>7, Working

\* A step of the goroutine of the transfer manager.
LEMMA ForgetStep == ASSUME IInv, NEW t \in Transfers, Forget(t) PROVE IInv'
<1>0. TypeOK /\ Manager
  BY DEF IInv
<1>1. /\ UNCHANGED <<key, watchers, cancelled, done>>
      /\ work' = work /\ stack' = stack /\ call' = call /\ images' = images
  BY DEF Forget, tm!Remove, tm!Close
<1>2. \A u : Kept(u)' <=> Kept(u)
  BY <1>1 DEF Kept
<1>3. SUFFICES TypeOK' /\ Manager'
  BY <1>1, <1>2, TransferFrame
<1>4. CASE tm!Remove(t)
  <2>1. /\ phase[t] = "tracked" /\ t \in done /\ released' = released
        /\ transfers' = [transfers EXCEPT ![key[t]] = None]
        /\ phase' = [phase EXCEPT ![t] = "removed"]
    BY <1>4 DEF tm!Remove
  <2>2. key[t] \in Layers
    <3>1. work[t].at # "none"
      BY <1>0, <2>1 DEF Manager, Ended
    <3> QED
      BY <1>0, <3>1 DEF Manager
  <2>3. phase'[t] = "removed" /\ \A u \in Transfers : u # t => phase'[u] = phase[u]
    BY <1>0, <2>1 DEF TypeOK
  <2>4. transfers'[key[t]] = None /\ \A k \in Layers : k # key[t] => transfers'[k] = transfers[k]
    BY <1>0, <2>1, <2>2 DEF TypeOK
  <2>5. TypeOK'
    BY <1>0, <1>1, <2>1 DEF TypeOK
  <2>6. ASSUME NEW k \in Layers, transfers'[k] # None
        PROVE  phase'[transfers'[k]] = "tracked" /\ key'[transfers'[k]] = k
    <3>1. k # key[t] /\ transfers'[k] = transfers[k]
      BY <2>4, <2>6
    <3>2. phase[transfers[k]] = "tracked" /\ key[transfers[k]] = k
      BY <1>0, <2>6, <3>1 DEF Manager
    <3>3. transfers[k] \in Transfers /\ transfers[k] # t
      BY <1>0, <2>6, <3>1, <3>2 DEF TypeOK
    <3> QED
      BY <1>1, <2>3, <3>1, <3>2, <3>3
  <2>7. ASSUME NEW u \in Transfers
        PROVE  /\ phase'[u] = "free" => watchers'[u] = {} /\ work'[u].at = "none"
               /\ phase'[u] = "closed" /\ watchers'[u] = {} => u \in released'
               /\ u \in released' => phase'[u] = "closed" /\ watchers'[u] = {}
    <3>1. CASE u = t
      <4>1. u \notin released
        BY <1>0, <2>1, <3>1 DEF Manager
      <4> QED
        BY <2>1, <2>3, <3>1, <4>1
    <3>2. CASE u # t
      BY <1>0, <1>1, <2>1, <2>3, <3>2, ManagerFrame
    <3> QED
      BY <3>1, <3>2
  <2>8. \A u \in Transfers : /\ work'[u].at # "none" => key'[u] \in Layers
                             /\ u \in done' <=> work'[u].at \in Ended
                             /\ work'[u].at = "dropped" => u \in released'
    BY <1>0, <1>1, <2>1 DEF Manager
  <2> QED
    BY <2>5, <2>6, <2>7, <2>8 DEF Manager
<1>5. CASE tm!Close(t)
  <2>1. /\ phase[t] = "removed" /\ transfers' = transfers
        /\ phase' = [phase EXCEPT ![t] = "closed"]
        /\ released' = IF watchers[t] = {} THEN released \cup {t} ELSE released
    BY <1>5 DEF tm!Close
  <2>3. phase'[t] = "closed" /\ \A u \in Transfers : u # t => phase'[u] = phase[u]
    BY <1>0, <2>1 DEF TypeOK
  <2>5. TypeOK'
    <3>1. released' \subseteq Transfers
      BY <1>0, <2>1 DEF TypeOK
    <3>2. phase' \in [Transfers -> {"free", "tracked", "removed", "closed"}]
      BY <1>0, <2>1 DEF TypeOK
    <3> QED
      BY <1>0, <1>1, <2>1, <3>1, <3>2 DEF TypeOK
  <2>6. ASSUME NEW k \in Layers, transfers'[k] # None
        PROVE  phase'[transfers'[k]] = "tracked" /\ key'[transfers'[k]] = k
    <3>1. phase[transfers[k]] = "tracked" /\ key[transfers[k]] = k
      BY <1>0, <2>1, <2>6 DEF Manager
    <3>2. transfers[k] \in Transfers /\ transfers[k] # t
      BY <1>0, <2>1, <2>6, <3>1 DEF TypeOK
    <3> QED
      BY <1>1, <2>1, <2>3, <3>1, <3>2
  <2>7. ASSUME NEW u \in Transfers
        PROVE  /\ phase'[u] = "free" => watchers'[u] = {} /\ work'[u].at = "none"
               /\ phase'[u] = "closed" /\ watchers'[u] = {} => u \in released'
               /\ u \in released' => phase'[u] = "closed" /\ watchers'[u] = {}
    <3>1. CASE u = t
      <4>1. u \notin released
        BY <1>0, <2>1, <3>1 DEF Manager
      <4> QED
        BY <1>1, <2>1, <2>3, <3>1, <4>1
    <3>2. CASE u # t
      <4>1. u \in released' <=> u \in released
        BY <2>1, <3>2
      <4> QED
        BY <1>0, <1>1, <2>3, <3>2, <4>1, ManagerFrame
    <3> QED
      BY <3>1, <3>2
  <2>8. \A u \in Transfers : /\ work'[u].at # "none" => key'[u] \in Layers
                             /\ u \in done' <=> work'[u].at \in Ended
                             /\ work'[u].at = "dropped" => u \in released'
    <3>1. released \subseteq released'
      BY <2>1
    <3> QED
      BY <1>0, <1>1, <3>1 DEF Manager
  <2> QED
    BY <2>5, <2>6, <2>7, <2>8 DEF Manager
<1> QED
  BY <1>4, <1>5 DEF Forget

\* Register finds the layer below, or does not.
LEMMA RegisterStep ==
    ASSUME IInv, NEW t \in Transfers, work[t].at \in Active, Register(t) PROVE IInv'
<1>1. CASE Front(key[t]) = <<>> \/ Stored(Front(key[t]))
  <2>1. Become(t, "registering")
    BY <1>1 DEF Register
  <2>2. "registering" \in Active
    BY DEF Active
  <2> QED
    BY <2>1, <2>2, BecomeStep
<1>2. CASE ~(Front(key[t]) = <<>> \/ Stored(Front(key[t])))
  <2>1. PICK a \in {"registered", "failed", "lost"} :
              a = IF t \in cancelled THEN "failed" ELSE "lost"
    OBVIOUS
  <2>2. End(t, a)
    BY <1>2, <2>1 DEF Register
  <2> QED
    BY <2>2, Ending
<1> QED
  BY <1>1, <1>2

\* A download that is done without an error has a layer.
LEMMA DoneIsKept ==
    ASSUME IInv, NEW t, t \in done, ~Failed(t) PROVE Kept(t) /\ t \in Transfers
<1>1. t \in Transfers
  BY DEF IInv, TypeOK
<1>2. work[t].at \in Ended
  BY <1>1 DEF IInv, Manager
<1> QED
  BY <1>1, <1>2 DEF Kept, Failed, Ended

\* A fetch is tried again after a delay.
LEMMA RetryStep ==
    ASSUME IInv, NEW t \in Transfers, work[t].at = "fetching",
           work[t].retries + 1 < MaxAttempts,
           work' = [work EXCEPT ![t].at = "delay", ![t].retries = @ + 1],
           UNCHANGED <<tmVars, stack, call, images>>
    PROVE  IInv'
<1>1. PICK v \in Works : v = work[t]
  BY Typed DEF IInv
<1>2. PICK r : r = v.retries + 1
  OBVIOUS
<1>3. r \in 0..(MaxAttempts - 1)
  <2>1. v.retries \in 0..(MaxAttempts - 1)
    BY <1>1, SMT DEF Works
  <2>2. v.retries + 1 < MaxAttempts
    BY <1>1
  <2> QED
    BY <1>2, <2>1, <2>2, DownloadAssumption, SMT
<1>4. PICK f : f = [v EXCEPT !.at = "delay"]
  OBVIOUS
<1>5. f \in Works /\ f.at = "delay" /\ f.by = v.by /\ f.parent = v.parent
  BY <1>4, SMT DEF Works
<1>6. PICK w : w = [f EXCEPT !.retries = r]
  OBVIOUS
<1>7. w \in Works /\ w.at = "delay" /\ w.by = v.by /\ w.parent = v.parent
  BY <1>3, <1>5, <1>6, SMT DEF Works
<1>8. work' = [work EXCEPT ![t] = w]
  <2>1. work' = [work EXCEPT ![t].at = "delay", ![t].retries = work[t].retries + 1]
    OBVIOUS
  <2>2. work \in [Transfers -> Works]
    BY Typed DEF IInv
  <2> QED
    BY <1>1, <1>2, <1>4, <1>6, <2>1, <2>2
<1>9. w.by = work[t].by /\ w.parent = work[t].parent /\ work[t].at \in Active /\ w.at \in Active
  BY <1>1, <1>7 DEF Active
<1> QED
  BY <1>7, <1>8, <1>9, Working

\* Every step of a transfer preserves the invariant.
LEMMA TransferStepIInv == ASSUME IInv, NEW t \in Transfers, TransferStep(t) PROVE IInv'
<1>0. /\ {"queued", "fetching", "delay", "parent", "source", "registering"} \subseteq Active
      /\ "failed" \in {"registered", "failed", "lost"}
      /\ "registered" \in {"registered", "failed", "lost"}
  BY DEF Active
<1>1. CASE Start(t)
  <2>1. /\ work[t].at = "queued"
        /\ Become(t, "parent") \/ End(t, "failed") \/ Become(t, "fetching")
    BY <1>1 DEF Start
  <2> QED
    BY <1>0, <2>1, BecomeStep, Ending
<1>2. CASE Fetched(t)
  <2>1. work[t].at = "fetching" /\ (Register(t) \/ Become(t, "parent"))
    BY <1>2 DEF Fetched
  <2> QED
    BY <1>0, <2>1, BecomeStep, RegisterStep
<1>3. CASE FetchFails(t)
  <2>1. work[t].at = "fetching"
    BY <1>3 DEF FetchFails
  <2>2. CASE End(t, "failed")
    BY <1>0, <2>1, <2>2, Ending
  <2>3. CASE /\ work[t].retries + 1 < MaxAttempts
             /\ work' = [work EXCEPT ![t].at = "delay", ![t].retries = @ + 1]
             /\ UNCHANGED <<tmVars, stack, call, images>>
    BY <2>1, <2>3, RetryStep
  <2> QED
    BY <1>3, <2>2, <2>3 DEF FetchFails
<1>4. CASE Delay(t)
  <2>1. work[t].at = "delay" /\ (Become(t, "fetching") \/ End(t, "failed"))
    BY <1>4 DEF Delay
  <2> QED
    BY <1>0, <2>1, BecomeStep, Ending
<1>5. CASE AwaitParent(t)
  <2>1. /\ work[t].at = "parent"
        /\ \/ End(t, "failed") \/ Register(t)
           \/ /\ work[t].parent \in done /\ ~Failed(work[t].parent)
              /\ Become(t, "source")
    BY <1>5 DEF AwaitParent
  <2>2. CASE End(t, "failed")
    BY <1>0, <2>1, <2>2, Ending
  <2>3. CASE Register(t)
    BY <1>0, <2>1, <2>3, RegisterStep
  <2>4. CASE /\ work[t].parent \in done /\ ~Failed(work[t].parent)
             /\ Become(t, "source")
    <3>1. Kept(work[t].parent)
      BY <2>4, DoneIsKept
    <3> QED
      BY <1>0, <2>1, <2>4, <3>1, BecomeStep
  <2> QED
    BY <2>1, <2>2, <2>3, <2>4
<1>6. CASE AwaitSource(t)
  <2>1. work[t].at = "source" /\ (End(t, "failed") \/ Register(t))
    BY <1>6 DEF AwaitSource
  <2> QED
    BY <1>0, <2>1, Ending, RegisterStep
<1>7. CASE Registered(t) \/ RegisterFails(t)
  <2>1. work[t].at = "registering" /\ (End(t, "registered") \/ End(t, "failed"))
    BY <1>7 DEF Registered, RegisterFails
  <2> QED
    BY <1>0, <2>1, Ending
<1>8. CASE Drop(t)
  BY <1>8, BecomeStep DEF Drop
<1>9. CASE Forget(t)
  BY <1>9, ForgetStep
<1> QED
  BY <1>1, <1>2, <1>3, <1>4, <1>5, <1>6, <1>7, <1>8, <1>9 DEF TransferStep

-----------------------------------------------------------------------------
(* The invariant                                                            *)

\* The invariant holds at first.
LEMMA InitIInv == ASSUME Init PROVE IInv
<1>1. /\ transfers = [k \in Layers |-> None] /\ phase = [t \in Transfers |-> "free"]
      /\ key = [t \in Transfers |-> None] /\ watchers = [t \in Transfers |-> {}]
      /\ cancelled = {} /\ done = {} /\ released = {}
      /\ work = [t \in Transfers |-> NoWork] /\ call = [p \in Pulls |-> NewCall]
      /\ stack \in Stacks /\ images \subseteq Layers
  BY DEF Init, tm!Init
<1>2. NewCall \in Calls /\ NewCall.at = "new" /\ NewCall.xfers = <<>> /\ NewCall.held = None
  <2>1. <<>> \in Seq(Transfers) /\ 1 \in Nat
    BY EmptySeq, SMT
  <2> QED
    BY <2>1 DEF NewCall, Calls
<1>3. NoWork \in Works /\ NoWork.at = "none"
  <2>1. 0 \in 0..(MaxAttempts - 1)
    BY DownloadAssumption, SMT
  <2> QED
    BY <2>1 DEF NoWork, Works
<1>4. TypeOK
  <2>1. call \in [Pulls -> Calls] /\ work \in [Transfers -> Works]
    BY <1>1, <1>2, <1>3
  <2> HIDE <1>2, <1>3
  <2> QED
    BY <1>1, <2>1 DEF TypeOK, Calls, Works
<1>5. Manager
  BY <1>1, <1>3 DEF Manager, Ended
<1>6. Len(<<>>) = 0 /\ \A i \in 1..0 : FALSE
  BY SMT
<1>7. Watching
  <2>1. \A t : t \notin Range(<<>>)
    <3>1. <<>> \in Seq(Transfers)
      BY EmptySeq
    <3> QED
      BY <1>6, <3>1, Ranges
  <2>2. \A t \in Transfers : t \notin Holds(NewCall)
    BY <1>2, <2>1, DownloadAssumption DEF Holds
  <2> QED
    BY <1>1, <2>2 DEF Watching
<1>8. \A p \in Pulls : CallOK(p)
  <2>1. Distinct(NewCall)
    BY <1>2, <1>6 DEF Distinct
  <2> QED
    BY <1>1, <1>2, <2>1 DEF CallOK, Shape, Keyed
<1>9. \A t \in Transfers : Parentage(t)
  BY <1>1, <1>3 DEF Parentage, Active
<1> QED
  BY <1>4, <1>5, <1>7, <1>8, <1>9 DEF IInv

\* A step that changes nothing.
LEMMA StutterStep == ASSUME IInv, UNCHANGED vars PROVE IInv'
<1>1. /\ UNCHANGED <<transfers, phase, key, watchers, cancelled, done, released>>
      /\ work' = work /\ stack' = stack /\ call' = call /\ images' = images
  BY DEF vars, tmVars
<1>2. TypeOK /\ Manager
  BY DEF IInv
<1>3. TypeOK'
  BY <1>1, <1>2 DEF TypeOK
<1>4. Manager'
  BY <1>1, <1>2 DEF Manager
<1>5. \A u : Kept(u)' <=> Kept(u)
  BY <1>1 DEF Kept
<1> QED
  BY <1>1, <1>3, <1>4, <1>5, TransferFrame

\* Every step preserves the invariant.
LEMMA NextIInv == ASSUME IInv, [Next]_vars PROVE IInv'
<1>0. SUFFICES ASSUME Next PROVE IInv'
  BY StutterStep
<1>1. ASSUME NEW p \in Pulls, Begun(p) \/ PullStep(p) \/ Cancel(p) \/ Release(p) PROVE IInv'
  <2>1. CASE Begun(p) \/ Find(p) \/ Join(p) \/ Succeed(p) \/ ReleaseTopLayer(p) \/ Release(p)
    BY <2>1, BegunStep, FindStep, JoinStep, SucceedStep, ReleaseTopLayerStep, ReleaseStep
  <2>2. CASE \E t \in Transfers : Begin(p, t)
    BY <2>2, BeginStep
  <2>3. CASE Cancel(p) \/ Fail(p) \/ ReleaseParent(p)
    BY <2>3, LeaveStep DEF Cancel, Fail, ReleaseParent
  <2> QED
    BY <1>1, <2>1, <2>2, <2>3 DEF PullStep
<1>2. ASSUME NEW l \in Layers, DeleteImage(l) PROVE IInv'
  <2>1. /\ UNCHANGED <<transfers, phase, key, watchers, cancelled, done, released>>
        /\ work' = work /\ stack' = stack /\ call' = call /\ images' = images \ {l}
    BY <1>2 DEF DeleteImage, tmVars
  <2>2. TypeOK' /\ Manager'
    <3>1. TypeOK /\ Manager
      BY DEF IInv
    <3>2. images' \subseteq Layers
      BY <2>1, <3>1 DEF TypeOK
    <3>3. TypeOK'
      BY <2>1, <3>1, <3>2 DEF TypeOK
    <3> QED
      BY <2>1, <3>1, <3>3 DEF Manager
  <2>3. \A u : Kept(u)' <=> Kept(u)
    BY <2>1 DEF Kept
  <2> QED
    BY <2>1, <2>2, <2>3, TransferFrame
<1>3. ASSUME NEW t \in Transfers, TransferStep(t) PROVE IInv'
  BY <1>3, TransferStepIInv
<1>4. CASE UNCHANGED vars
  BY <1>4, StutterStep
<1> QED
  BY <1>0, <1>1, <1>2, <1>3, <1>4 DEF Next

\* The invariant holds always.
LEMMA AlwaysIInv == Spec => []IInv
<1>1. Init => IInv
  BY InitIInv
<1>2. IInv /\ [Next]_vars => IInv'
  BY NextIInv
<1> QED
  BY <1>1, <1>2, PTL DEF Spec

-----------------------------------------------------------------------------
(* Theorems                                                                 *)

\* What somebody watches and is kept is registered: it is dropped only when
\* nobody watches it any more.
LEMMA WatchedIsRegistered ==
    ASSUME IInv, NEW t \in Transfers, NEW p, p \in watchers[t], Kept(t)
    PROVE  work[t].at = "registered"
<1>1. t \notin released
  BY DEF IInv, Manager
<1>2. work[t].at # "dropped"
  BY <1>1 DEF IInv, Manager
<1> QED
  BY <1>2 DEF Kept

\* Every step of Download, of the goroutines of its transfers and of the transfer
\* manager under them leaves all variables in their types: a call watches only
\* transfers, has only layers of images, and nothing is tried more often than
\* maxDownloadAttempts.
THEOREM TypeCorrect == Spec => []TypeOK
<1>1. IInv => TypeOK
  BY DEF IInv
<1> QED
  BY <1>1, AlwaysIInv, PTL

\* What Download returned stays in the layer store until the caller releases it,
\* for any number of pulls, images, transfers and layers: the call holds the
\* topmost layer it found, or watches the transfer that has registered it.
THEOREM ReturnedStaysStored == Spec => []ReturnedIsStored
<1>1. ASSUME IInv PROVE ReturnedIsStored
  <2> SUFFICES ASSUME NEW p \in Pulls, call[p].at = "returned" PROVE Stored(stack[p])
    BY DEF ReturnedIsStored
  <2> DEFINE c == call[p]  s == stack[p]
  <2>1. TypeOK /\ Watching /\ Shape(c, s) /\ Keyed(c, s)
    BY <1>1 DEF IInv, CallOK
  <2>2. s \in Layers
    <3>1. Len(s) \in 1..Len(s)
      <4>1. Len(s) \in Nat \ {0}
        BY <2>1, Heights
      <4> QED
        BY <4>1, SMT
    <3> QED
      BY <2>1, <3>1, Heights
  <2>3. CASE c.held = None
    <3>1. c.top = s
      BY <2>1, <2>3 DEF Shape
    <3>2. Held(s)
      BY <3>1 DEF Held
    <3> QED
      BY <2>2, <3>2, HeldIsStored
  <2>4. CASE c.held # None
    <3>1. c.held \in Transfers /\ p \in watchers[c.held]
      BY <2>1, <2>4, HoldsWatched
    <3>2. Kept(c.held) /\ key[c.held] = s
      BY <2>1, <2>4 DEF Keyed
    <3>3. work[c.held].at = "registered"
      BY <1>1, <3>1, <3>2, WatchedIsRegistered
    <3>4. Held(s)
      BY <3>1, <3>2, <3>3 DEF Held
    <3> QED
      BY <2>2, <3>4, HeldIsStored
  <2> QED
    BY <2>3, <2>4
<1> QED
  BY <1>1, AlwaysIInv, PTL

\* No path through Download leaves a watcher behind, or a registered layer that
\* nobody releases: a transfer has exactly the watchers that the calls still
\* hold, and a closed one without watchers is released.
THEOREM NothingIsLeft == Spec => []NothingIsKept
<1>1. ASSUME IInv PROVE NothingIsKept
  <2> SUFFICES ASSUME Rest, NEW t \in Transfers
               PROVE  watchers[t] = {} /\ work[t].at # "registered"
    BY DEF NothingIsKept
  <2>0. TypeOK /\ Manager /\ Watching
    BY <1>1 DEF IInv
  <2>1. Over.xfers = <<>> /\ Over.held = None
    BY DEF Over, NewCall
  <2>2. t \notin Range(<<>>)
    <3>1. <<>> \in Seq(Transfers)
      BY EmptySeq
    <3>2. Len(<<>>) = 0 /\ \A i \in 1..0 : FALSE
      BY SMT
    <3> QED
      BY <3>1, <3>2, Ranges
  <2>3. t \notin Holds(Over)
    BY <2>1, <2>2, DownloadAssumption DEF Holds
  <2>4. \A p \in Pulls : call[p] = Over
    BY <1>1 DEF IInv, CallOK, Shape, Rest
  <2>5. watchers[t] = {}
    <3>1. \A p \in Pulls : p \notin watchers[t]
      BY <2>0, <2>3, <2>4 DEF Watching
    <3>2. watchers[t] \subseteq Pulls
      BY <2>0 DEF TypeOK
    <3> QED
      BY <3>1, <3>2
  <2>6. /\ phase[t] \in {"free", "closed"}
        /\ work[t].at = "registered" => t \notin released
    BY DEF Rest
  <2>7. /\ phase[t] = "free" => work[t].at = "none"
        /\ phase[t] = "closed" /\ watchers[t] = {} => t \in released
    BY <2>0 DEF Manager
  <2> QED
    BY <2>5, <2>6, <2>7
<1> QED
  BY <1>1, AlwaysIInv, PTL

\* The layers of the downloads of a call that goes on
LEMMA DownloadHeights ==
    ASSUME IInv, NEW p \in Pulls, call[p].at \in {"layers", "waiting"},
           NEW j \in 1..Len(call[p].xfers)
    PROVE  LET c == call[p]  s == stack[p]  k == Len(c.top)
           IN  /\ key[c.xfers[j]] = SubSeq(s, 1, k + j)
               /\ Front(key[c.xfers[j]]) = SubSeq(s, 1, k + (j - 1))
               /\ j = 1 => SubSeq(s, 1, k + (j - 1)) = c.top
               /\ j # 1 => /\ j - 1 \in 1..Len(c.xfers)
                           /\ SubSeq(s, 1, k + (j - 1)) \in Layers
<1> DEFINE c == call[p]  s == stack[p]  n == Len(c.xfers)  k == Len(c.top)
<1>1. TypeOK /\ c \in Calls /\ Shape(c, s) /\ Keyed(c, s)
  BY Typed DEF IInv, CallOK
<1>2. /\ IsLower(c.top, s) /\ c.next = Reached(c) + 1
      /\ c.next <= Len(s) \/ c.next = Len(s) + 1
      /\ \A i \in 1..n : key[c.xfers[i]] = SubSeq(s, 1, k + i)
  BY <1>1 DEF Shape, Keyed
<1>3. k \in Nat /\ n \in Nat /\ Len(s) \in Nat
  <2>1. c.xfers \in Seq(Transfers)
    BY <1>1, SMT DEF Calls
  <2> QED
    BY <1>1, <1>2, <2>1, Tops, Heights DEF IsLower
<1>4. c.next = (k + n) + 1
  BY <1>2 DEF Reached
<1>5. PICK a \in Nat : a = k
  BY <1>3
<1>6. PICK b \in Nat : b = n
  BY <1>3
<1>7. PICK m \in Nat : m = Len(s)
  BY <1>3
<1>8. (a + b) + 1 <= m \/ (a + b) + 1 = m + 1
  BY <1>2, <1>4, <1>5, <1>6, <1>7
<1>9. j \in 1..b
  BY <1>6
<1>10. /\ a + j \in 1..m /\ (a + j) - 1 = a + (j - 1)
       /\ j = 1 => a + (j - 1) = a
       /\ j # 1 => j - 1 \in 1..b /\ a + (j - 1) \in 1..m
  BY <1>8, <1>9, SMT
<1>11. key[c.xfers[j]] = SubSeq(s, 1, a + j)
  BY <1>2, <1>5
<1>12. Front(SubSeq(s, 1, a + j)) = SubSeq(s, 1, (a + j) - 1)
  BY <1>1, <1>7, <1>10, Heights
<1>13. j = 1 => SubSeq(s, 1, a + (j - 1)) = c.top
  BY <1>2, <1>5, <1>10 DEF IsLower
<1>14. j # 1 => SubSeq(s, 1, a + (j - 1)) \in Layers
  BY <1>1, <1>7, <1>10, Heights
<1> QED
  BY <1>5, <1>6, <1>10, <1>11, <1>12, <1>13, <1>14

\* A download is lost only by Register, once its parent has a layer or when it
\* has no parent, and only if the layer below is not stored.
LostHow(t) ==
    /\ work[t].at \in Active
    /\ Front(key[t]) # <<>> /\ ~Stored(Front(key[t]))
    /\ work[t].parent = None \/ Kept(work[t].parent) \/ work[t].at = "source"

\* Of all steps, only those of LostHow lose a download.
LEMMA LosingStep ==
    ASSUME IInv, Next, NEW t \in Transfers, work'[t].at = "lost", work[t].at # "lost"
    PROVE  LostHow(t)
<1>0. work \in [Transfers -> Works]
  BY Typed DEF IInv
<1>1. work' # work
  OBVIOUS
<1>2. ASSUME NEW p \in Pulls, Begun(p) \/ PullStep(p) \/ Cancel(p) \/ Release(p) PROVE FALSE
  <2>1. PICK u \in Transfers : Begin(p, u)
    BY <1>1, <1>2 DEF PullStep, Begun, Find, Join, Fail, Succeed, ReleaseTopLayer,
                      ReleaseParent, Leave, Cancel, Release
  <2>2. PICK w : /\ w = [NoWork EXCEPT !.at = "queued", !.by = p, !.source = Existing(p),
                           !.parent = IF call[p].xfers = <<>> THEN None ELSE Last(call[p].xfers)]
                 /\ work' = [work EXCEPT ![u] = w]
    BY <2>1 DEF Begin
  <2>3. w.at = "queued"
    BY <2>2, SMT DEF NoWork
  <2> QED
    BY <1>0, <2>2, <2>3
<1>3. ASSUME NEW l \in Layers, DeleteImage(l) PROVE FALSE
  BY <1>1, <1>3 DEF DeleteImage
<1>4. CASE UNCHANGED vars
  BY <1>1, <1>4 DEF vars
<1>5. ASSUME NEW u \in Transfers, NEW a, Become(u, a), a # "lost" PROVE FALSE
  <2>1. PICK w : w = [work[u] EXCEPT !.at = a]
    OBVIOUS
  <2>2. PICK v \in Works : v = work[u]
    BY <1>0
  <2>3. w.at = a
    BY <2>1, <2>2, SMT DEF Works
  <2>4. work' = [work EXCEPT ![u] = w]
    BY <1>5, <2>1 DEF Become
  <2> QED
    BY <1>0, <1>5, <2>3, <2>4
<1>6. ASSUME NEW u \in Transfers, NEW a, End(u, a) PROVE u = t /\ a = "lost"
  <2>1. PICK w : w = [NoWork EXCEPT !.at = a]
    OBVIOUS
  <2>2. w.at = a
    BY <2>1, SMT DEF NoWork
  <2>3. work' = [work EXCEPT ![u] = w]
    BY <1>6, <2>1 DEF End
  <2> QED
    BY <1>0, <2>2, <2>3
<1>7. ASSUME NEW u \in Transfers, Register(u)
      PROVE  u = t /\ Front(key[t]) # <<>> /\ ~Stored(Front(key[t]))
  <2>1. CASE Front(key[u]) = <<>> \/ Stored(Front(key[u]))
    <3>1. Become(u, "registering")
      BY <1>7, <2>1 DEF Register
    <3> QED
      BY <1>5, <3>1
  <2>2. CASE ~(Front(key[u]) = <<>> \/ Stored(Front(key[u])))
    <3>1. End(u, IF u \in cancelled THEN "failed" ELSE "lost")
      BY <1>7, <2>2 DEF Register
    <3> QED
      BY <1>6, <2>2, <3>1
  <2> QED
    BY <2>1, <2>2
<1>8. ASSUME NEW u \in Transfers, TransferStep(u) PROVE LostHow(t)
  <2>0. {"fetching", "parent", "source"} \subseteq Active
    BY DEF Active
  <2>a. ~End(u, "failed") /\ ~Become(u, "parent") /\ ~Become(u, "source")
    <3>1. "failed" # "lost" /\ "parent" # "lost" /\ "source" # "lost"
      OBVIOUS
    <3>2. ~End(u, "failed")
      BY <1>6, <3>1
    <3>3. ~Become(u, "parent")
      BY <1>5, <3>1
    <3>4. ~Become(u, "source")
      BY <1>5, <3>1
    <3> QED
      BY <3>2, <3>3, <3>4
  <2>1. CASE Start(u) \/ Delay(u) \/ Registered(u) \/ RegisterFails(u) \/ Drop(u) \/ Forget(u)
    <3>1. \/ \E a \in {"parent", "fetching", "dropped"} : Become(u, a)
          \/ \E a \in {"failed", "registered"} : End(u, a)
      BY <1>1, <2>1 DEF Start, Delay, Registered, RegisterFails, Drop, Forget
    <3> QED
      BY <1>5, <1>6, <3>1
  <2>2. CASE FetchFails(u)
    <3>1. /\ work[u].at = "fetching"
          /\ work' = [work EXCEPT ![u].at = "delay", ![u].retries = work[u].retries + 1]
      BY <2>2, <2>a DEF FetchFails
    <3>2. PICK v \in Works : v = work[u]
      BY <1>0
    <3>3. PICK f : f = [v EXCEPT !.at = "delay"]
      OBVIOUS
    <3>4. f.at = "delay" /\ f \in Works
      BY <3>2, <3>3, SMT DEF Works
    <3>5. PICK w : w = [f EXCEPT !.retries = v.retries + 1]
      OBVIOUS
    <3>6. w.at = "delay"
      BY <3>4, <3>5, SMT DEF Works
    <3>7. work' = [work EXCEPT ![u] = w]
      BY <1>0, <3>1, <3>2, <3>3, <3>5
    <3> QED
      BY <1>0, <3>6, <3>7
  <2>3. CASE Fetched(u)
    <3>1. work[u].at = "fetching" /\ work[u].parent = None /\ Register(u)
      BY <1>5, <2>3 DEF Fetched
    <3> QED
      BY <1>7, <2>0, <3>1 DEF LostHow
  <2>4. CASE AwaitParent(u)
    <3>1. /\ work[u].at = "parent" /\ work[u].parent \in done /\ ~Failed(work[u].parent)
          /\ Register(u)
      BY <2>4, <2>a DEF AwaitParent
    <3>2. Kept(work[u].parent)
      BY <3>1, DoneIsKept
    <3> QED
      BY <1>7, <2>0, <3>1, <3>2 DEF LostHow
  <2>5. CASE AwaitSource(u)
    <3>1. work[u].at = "source" /\ Register(u)
      BY <2>5, <2>a DEF AwaitSource
    <3> QED
      BY <1>7, <2>0, <3>1 DEF LostHow
  <2> QED
    BY <1>8, <2>1, <2>2, <2>3, <2>4, <2>5 DEF TransferStep
<1> QED
  BY <1>2, <1>3, <1>4, <1>8 DEF Next

\* A download loses the layer below it only when the call that created it has
\* given up: until then the call holds the layer it found last, and watches every
\* lower download, so that none of them drops what it has registered.
THEOREM LostOnlyForsaken == Spec => LostIsForsaken
<1> DEFINE A == \A t \in Transfers :
                  work'[t].at = "lost" /\ work[t].at # "lost"
                     => call[work[t].by].at \notin {"layers", "waiting"}
<1>1. ASSUME IInv, Next PROVE A
  <2> SUFFICES ASSUME NEW t \in Transfers, work'[t].at = "lost", work[t].at # "lost",
                      call[work[t].by].at \in {"layers", "waiting"}
               PROVE  FALSE
    OBVIOUS
  <2>1. LostHow(t)
    BY <1>1, LosingStep
  <2>2. PICK p : p = work[t].by
    OBVIOUS
  <2> DEFINE c == call[p]  s == stack[p]  k == Len(c.top)
  <2>3. /\ p \in Pulls /\ c.at \in {"layers", "waiting"}
        /\ \E j \in 1..Len(c.xfers) :
              c.xfers[j] = t /\ work[t].parent = (IF j = 1 THEN None ELSE c.xfers[j - 1])
        /\ work[t].at = "source" => Kept(work[t].parent)
    BY <1>1, <2>1, <2>2 DEF IInv, Parentage, LostHow
  <2>4. PICK j \in 1..Len(c.xfers) :
              c.xfers[j] = t /\ work[t].parent = (IF j = 1 THEN None ELSE c.xfers[j - 1])
    BY <2>3
  <2>5. PICK l : l = Front(key[t])
    OBVIOUS
  <2>6. l # <<>> /\ ~Stored(l)
    BY <2>1, <2>5 DEF LostHow
  <2>7. /\ l = SubSeq(s, 1, k + (j - 1)) /\ (j = 1 => l = c.top)
        /\ j # 1 => j - 1 \in 1..Len(c.xfers) /\ l \in Layers
    <3>1. /\ Front(key[c.xfers[j]]) = SubSeq(s, 1, k + (j - 1))
          /\ j = 1 => SubSeq(s, 1, k + (j - 1)) = c.top
          /\ j # 1 => /\ j - 1 \in 1..Len(c.xfers)
                      /\ SubSeq(s, 1, k + (j - 1)) \in Layers
      BY <1>1, <2>3, DownloadHeights
    <3> QED
      BY <2>4, <2>5, <3>1
  <2>8. TypeOK /\ Watching
    BY <1>1 DEF IInv
  <2>9. CASE j = 1
    <3>1. l \in Layers
      <4>1. c.top \in Layers \cup {<<>>}
        BY <2>3, <2>8, Typed, SMT DEF Calls
      <4> QED
        BY <2>6, <2>7, <2>9, <4>1
    <3>2. Held(l)
      BY <2>3, <2>7, <2>9 DEF Held
    <3> QED
      BY <2>6, <3>1, <3>2, HeldIsStored
  <2>10. CASE j # 1
    <3>1. PICK i \in 1..Len(c.xfers) : i = j - 1
      BY <2>7, <2>10
    <3>2. PICK u : u = c.xfers[i]
      OBVIOUS
    <3>3. u \in Transfers /\ p \in watchers[u]
      BY <2>3, <2>8, <3>2, HoldsWatched
    <3>4. work[t].parent = u /\ u # None
      BY <2>4, <2>10, <3>1, <3>2, <3>3, DownloadAssumption
    <3>5. Kept(u)
      BY <2>1, <2>3, <3>4 DEF LostHow
    <3>6. work[u].at = "registered"
      BY <1>1, <3>3, <3>5, WatchedIsRegistered
    <3>7. key[u] = l
      <4>1. key[c.xfers[i]] = SubSeq(s, 1, k + i)
        BY <1>1, <2>3, DownloadHeights
      <4> QED
        BY <2>7, <3>1, <3>2, <4>1
    <3>8. Held(l)
      BY <3>3, <3>6, <3>7 DEF Held
    <3> QED
      BY <2>6, <2>7, <2>10, <3>8, HeldIsStored
  <2> QED
    BY <2>9, <2>10
<1>2. IInv /\ [Next]_vars => [A]_vars
  BY <1>1
<1>3. [][A]_vars => LostIsForsaken
  BY PTL DEF LostIsForsaken
<1> QED
  BY <1>2, <1>3, AlwaysIInv, PTL DEF Spec
=============================================================================
