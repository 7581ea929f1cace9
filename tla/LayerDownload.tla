---------------------------- MODULE LayerDownload ----------------------------
(***************************************************************************)
(* Pulling the layers of images: distribution/xfer/download.go, over the   *)
(* transfer manager (SharedTransfers, which TransferManager implements)    *)
(* and the layer store.  Download walks up the layers of an image, takes a *)
(* reference on those it finds in the layer store, asks the manager for a  *)
(* transfer of each of the others, and waits for the topmost.  A transfer  *)
(* fetches its layer, waits for the transfer below it, registers what it   *)
(* has on top of that one's layer, and holds the layer until it is         *)
(* released.                                                               *)
(*                                                                         *)
(* A layer is the sequence of the blobs up to it, which stands for its     *)
(* chain ID and for its transfer key.  The layer store keeps a layer while *)
(* somebody has a reference on it or on a layer above it (LayerStore shows *)
(* so of its code); its contents are a definition here.                    *)
(***************************************************************************)
EXTENDS Naturals, Sequences, Functions, FiniteSetsExt

CONSTANTS Pulls,        \* goroutines that call Download, each once
          Stacks,       \* functions from Pulls to the blobs they pull, lowest first
          Transfers,    \* downloadTransfer objects, numbered
          MaxAttempts,  \* maxDownloadAttempts
          Faults,       \* "net": fetches fail, "disk": registrations do
          None          \* nil

\* As in SequencesExt.
Last(s)        == s[Len(s)]
Front(s)       == SubSeq(s, 1, Len(s) - 1)
Prefixes(s)    == {SubSeq(s, 1, n) : n \in 0..Len(s)}
IsPrefix(s, t) == Len(s) <= Len(t) /\ SubSeq(t, 1, Len(s)) = s

Blobs  == UNION {Range(f[p]) : f \in Stacks, p \in Pulls}
Layers == (UNION {Prefixes(f[p]) : f \in Stacks, p \in Pulls}) \ {<<>>}

\* An image has blobs: without any, Download returns at once.
ASSUME DownloadAssumption ==
    /\ Stacks \subseteq [Pulls -> Seq(Blobs) \ {<<>>}]
    /\ Transfers \subseteq Nat /\ MaxAttempts \in Nat \ {0}
    /\ None \notin Transfers \cup Pulls

VARIABLES
    \* the transfer manager
    transfers, phase, key, watchers, cancelled, done, released,
    work,    \* the goroutine and the result of each transfer
    stack,   \* the layers of each pull
    call,    \* the calls of Download
    images   \* the lowest layers that an image holds

tmVars == <<transfers, phase, key, watchers, cancelled, done, released>>
vars   == <<tmVars, work, stack, call, images>>

tm == INSTANCE SharedTransfers WITH Users <- Pulls, Keys <- Layers

\* by, the call that made the transfer, is only there for the properties.
NoWork  == [at |-> "none", by |-> None, parent |-> None, source |-> None, retries |-> 0]
NewCall == [at |-> "new", next |-> 1, top |-> <<>>, xfers |-> <<>>, held |-> None]
Over    == [NewCall EXCEPT !.at = "over"]

TypeOK ==
    /\ transfers \in [Layers -> Transfers \cup {None}]
    /\ phase \in [Transfers -> {"free", "tracked", "removed", "closed"}]
    /\ key \in [Transfers -> Layers \cup {None}]
    /\ watchers \in [Transfers -> SUBSET Pulls]
    /\ cancelled \subseteq Transfers /\ done \subseteq Transfers /\ released \subseteq Transfers
    /\ work \in [Transfers ->
          [at : {"none", "queued", "fetching", "delay", "parent", "source", "registering",
                 "registered", "dropped", "failed", "lost"},
           by : Pulls \cup {None}, parent : Transfers \cup {None},
           source : Transfers \cup {None}, retries : 0..(MaxAttempts - 1)]]
    /\ stack \in Stacks
    /\ call \in [Pulls ->
          [at : {"new", "layers", "waiting", "unwinding", "returned", "over"}, next : Nat,
           top : Layers \cup {<<>>}, xfers : Seq(Transfers), held : Transfers \cup {None}]]
    /\ images \subseteq Layers

Init ==
    /\ tm!Init
    /\ work = [t \in Transfers |-> NoWork]
    /\ stack \in Stacks
    /\ call = [p \in Pulls |-> NewCall]
    /\ images \in SUBSET {l \in Layers : Len(l) = 1}

-----------------------------------------------------------------------------
(* The layer store *)

\* References on l: of images, of calls that found it, of downloads that
\* registered it, and of registrations on top of it.
Held(l) ==
    \/ l \in images
    \/ \E p \in Pulls : call[p].top = l
    \/ \E t \in Transfers : \/ work[t].at = "registered" /\ key[t] = l
                            \/ work[t].at = "registering" /\ Front(key[t]) = l

Stored(l) == \E m \in Layers : IsPrefix(l, m) /\ Held(m)

\* An image is deleted.
DeleteImage(l) ==
    /\ l \in images
    /\ images' = images \ {l}
    /\ UNCHANGED <<tmVars, work, stack, call>>

-----------------------------------------------------------------------------
(* Download *)

Layer(p) == SubSeq(stack[p], 1, call[p].next)

Begun(p) ==
    /\ call[p].at = "new"
    /\ call' = [call EXCEPT ![p].at = "layers"]
    /\ UNCHANGED <<tmVars, work, stack, images>>

\* On to the next layer; after the last one, return what was found or wait for
\* the top download.
Advance(p, c) ==
    [c EXCEPT !.next = @ + 1,
              !.at = IF c.next < Len(stack[p]) THEN "layers"
                     ELSE IF c.xfers = <<>> THEN "returned" ELSE "waiting"]

\* No layer has been missing, and layerStore.Get finds this one, too.
Find(p) ==
    /\ call[p].at = "layers" /\ call[p].xfers = <<>>
    /\ Stored(Layer(p))
    /\ call' = [call EXCEPT ![p] = Advance(p, [call[p] EXCEPT !.top = Layer(p)])]
    /\ UNCHANGED <<tmVars, work, stack, images>>

(* Otherwise the layer is missing.  One that is in the store is missed if its
   DiffID is not known or if it came after the look-up.                     *)

\* tm.Transfer finds a transfer of the layer.
Join(p) ==
    /\ call[p].at = "layers"
    /\ tm!Join(p, Layer(p))
    /\ call' = [call EXCEPT ![p] =
                  Advance(p, [call[p] EXCEPT !.xfers = Append(@, transfers[Layer(p)])])]
    /\ UNCHANGED <<work, stack, images>>

\* Nothing in the program points to the object t.
Unused(t) ==
    /\ phase[t] \in {"free", "closed"}
    /\ work[t].at \in {"none", "dropped", "failed", "lost"}
    /\ phase[t] = "closed" => t \in released
    /\ \A u \in Transfers : t \notin {work[u].parent, work[u].source}

\* downloadsByKey: this call's first download of the blob, of which
\* makeDownloadFuncFromDownload makes another layer
Existing(p) ==
    LET x    == call[p].xfers
        same == {i \in 1..Len(x) : Last(key[x[i]]) = Last(Layer(p))}
    IN  IF same = {} THEN None ELSE x[Min(same)]

\* tm.Transfer creates one.
Begin(p, t) ==
    LET below == call[p].xfers
    IN  /\ call[p].at = "layers"
        /\ Unused(t) /\ \A u \in Transfers : u < t => ~Unused(u)
        /\ tm!Begin(p, Layer(p), t)
        /\ work' = [work EXCEPT ![t] =
              [NoWork EXCEPT !.at = "queued", !.by = p, !.source = Existing(p),
                             !.parent = IF below = <<>> THEN None ELSE Last(below)]]
        /\ call' = [call EXCEPT ![p] = Advance(p, [call[p] EXCEPT !.xfers = Append(@, t)])]
        /\ UNCHANGED <<stack, images>>

\* The call returns once its deferred calls are made.
Unwound(c) ==
    IF c.top # <<>> \/ c.xfers # <<>> THEN [c EXCEPT !.at = "unwinding"]
    ELSE IF c.held # None THEN [c EXCEPT !.at = "returned"]
    ELSE Over

\* Release of the highest download
Leave(p) ==
    /\ tm!Leave(p, Last(call[p].xfers))
    /\ call' = [call EXCEPT ![p] = Unwound([call[p] EXCEPT !.xfers = Front(@)])]
    /\ UNCHANGED <<work, stack, images>>

Top(p) == Last(call[p].xfers)
Failed(t) == t \in done /\ work[t].at \in {"failed", "lost"}

\* <-ctx.Done()
Cancel(p) == call[p].at = "waiting" /\ Leave(p)

\* Mutant of Fail: the download is not released.
FailKeeps(p) ==
    /\ call[p].at = "waiting" /\ Failed(Top(p))
    /\ call' = [call EXCEPT ![p] = Unwound([call[p] EXCEPT !.xfers = Front(@)])]
    /\ UNCHANGED <<tmVars, work, stack, images>>

\* <-topDownload.Done(), with an error
Fail(p) == call[p].at = "waiting" /\ Failed(Top(p)) /\ Leave(p)

\* <-topDownload.Done(): its release is left to the function that is returned.
Succeed(p) ==
    /\ call[p].at = "waiting" /\ Top(p) \in done /\ ~Failed(Top(p))
    /\ call' = [call EXCEPT ![p] =
                  Unwound([call[p] EXCEPT !.held = Top(p), !.xfers = Front(@)])]
    /\ UNCHANGED <<tmVars, work, stack, images>>

\* The deferred release of topLayer, then those of the lower downloads
ReleaseTopLayer(p) ==
    /\ call[p].at = "unwinding" /\ call[p].top # <<>>
    /\ call' = [call EXCEPT ![p] = Unwound([call[p] EXCEPT !.top = <<>>])]
    /\ UNCHANGED <<tmVars, work, stack, images>>

ReleaseParent(p) == call[p].at = "unwinding" /\ call[p].top = <<>> /\ Leave(p)

\* The function Download returned: release topLayer or the top download.
Release(p) ==
    /\ call[p].at = "returned"
    /\ call' = [call EXCEPT ![p] = Over]
    /\ IF call[p].held = None THEN UNCHANGED tmVars ELSE tm!Leave(p, call[p].held)
    /\ UNCHANGED <<work, stack, images>>

-----------------------------------------------------------------------------
(* The goroutine of a transfer: makeDownloadFunc, or, with a source,
   makeDownloadFuncFromDownload                                             *)

Become(t, at) ==
    /\ work' = [work EXCEPT ![t].at = at]
    /\ UNCHANGED <<tmVars, stack, call, images>>

\* d.err or d.layer is set, and the progress channel is closed.
End(t, at) ==
    /\ tm!Finish(t)
    /\ work' = [work EXCEPT ![t] = [NoWork EXCEPT !.at = at]]
    /\ UNCHANGED <<stack, call, images>>

\* <-start, and a first look at the parent
Start(t) ==
    LET w == work[t]
    IN  /\ w.at = "queued"
        /\ IF w.source # None THEN Become(t, "parent")
           ELSE IF w.parent # None /\ Failed(w.parent) THEN End(t, "failed")
           ELSE Become(t, "fetching")

\* Register takes a reference on the layer below, or does not find it.
Register(t) ==
    LET below == Front(key[t])
    IN  IF below = <<>> \/ Stored(below) THEN Become(t, "registering")
        ELSE End(t, IF t \in cancelled THEN "failed" ELSE "lost")

Fetched(t) ==
    /\ work[t].at = "fetching"
    /\ IF work[t].parent = None THEN Register(t) ELSE Become(t, "parent")

\* descriptor.Download fails; DoNotRetry errors end the download at once.
FetchFails(t) ==
    /\ work[t].at = "fetching"
    /\ \/ t \in cancelled /\ End(t, "failed")
       \/ "net" \in Faults /\ t \notin cancelled /\ End(t, "failed")
       \/ /\ "net" \in Faults /\ t \notin cancelled
          /\ work[t].retries + 1 < MaxAttempts
          /\ work' = [work EXCEPT ![t].at = "delay", ![t].retries = @ + 1]
          /\ UNCHANGED <<tmVars, stack, call, images>>

Delay(t) ==
    /\ work[t].at = "delay"
    /\ Become(t, "fetching") \/ (t \in cancelled /\ End(t, "failed"))

\* Mutant of AwaitParent: the parent need not be done.
AwaitNobody(t) == work[t].at = "parent" /\ Register(t)

AwaitParent(t) ==
    LET w == work[t]
    IN  /\ w.at = "parent"
        /\ \/ t \in cancelled /\ End(t, "failed")
           \/ Failed(w.parent) /\ End(t, "failed")
           \/ /\ w.parent \in done /\ ~Failed(w.parent)
              /\ IF w.source = None THEN Register(t) ELSE Become(t, "source")

\* The source lies below the parent: it has a TarStream while that is stored.
AwaitSource(t) ==
    LET w == work[t]
    IN  /\ w.at = "source"
        /\ \/ t \in cancelled /\ End(t, "failed")
           \/ Failed(w.source) /\ End(t, "failed")
           \/ w.source \in done /\ ~Failed(w.source) /\ Register(t)

Registered(t) == work[t].at = "registering" /\ End(t, "registered")

\* Only the reader of makeDownloadFunc ends with the context.
RegisterFails(t) ==
    /\ work[t].at = "registering"
    /\ "disk" \in Faults \/ (t \in cancelled /\ work[t].source = None)
    /\ End(t, "failed")

\* Mutant of Drop: nobody waits for Released.
DropAtOnce(t) == work[t].at = "registered" /\ Become(t, "dropped")

\* <-Released()
Drop(t) ==
    /\ work[t].at = "registered" /\ t \in released
    /\ Become(t, "dropped")

\* The goroutine of the transfer manager
Forget(t) ==
    /\ tm!Remove(t) \/ tm!Close(t)
    /\ UNCHANGED <<work, stack, call, images>>

-----------------------------------------------------------------------------
PullStep(p) ==
    \/ Find(p) \/ Join(p) \/ \E t \in Transfers : Begin(p, t)
    \/ Fail(p) \/ Succeed(p) \/ ReleaseTopLayer(p) \/ ReleaseParent(p)

TransferStep(t) ==
    \/ Start(t) \/ Fetched(t) \/ FetchFails(t) \/ Delay(t) \/ AwaitParent(t)
    \/ AwaitSource(t) \/ Registered(t) \/ RegisterFails(t) \/ Drop(t) \/ Forget(t)

\* All calls are over and no transfer can go on.
Rest ==
    /\ \A p \in Pulls : call[p].at = "over"
    /\ \A t \in Transfers : /\ phase[t] \in {"free", "closed"}
                            /\ work[t].at = "registered" => t \notin released

Next ==
    \/ \E p \in Pulls : Begun(p) \/ PullStep(p) \/ Cancel(p) \/ Release(p)
    \/ \E l \in Layers : DeleteImage(l)
    \/ \E t \in Transfers : TransferStep(t)
    \/ Rest /\ UNCHANGED vars

Spec == Init /\ [][Next]_vars

(* Fairness.  Goroutines run, fetches end, and every transfer starts, which
   QueuedStarts of TransferManager promises of transfers that, like these, go
   inactive before they wait for others.  Nobody has to call Download, cancel
   it or release what it returned.                                          *)
FairSpec ==
    /\ Spec
    /\ \A p \in Pulls : WF_vars(PullStep(p))
    /\ \A t \in Transfers : WF_vars(TransferStep(t))
-----------------------------------------------------------------------------
(* Properties                                                               *)

\* "Download is a blocking function which ensures the requested layers are
\* present in the layer store": what it returned stays there until the caller
\* calls the release function, although the calls that made the transfers may
\* be cancelled, and images deleted, at any moment.
ReturnedIsStored == \A p \in Pulls : call[p].at = "returned" => Stored(stack[p])

\* When all calls are over and all transfers at rest, only images hold layers:
\* no path through Download, successful, failed or cancelled at whatever
\* point, leaves a watcher behind, or a layer nobody can delete.
NothingIsKept ==
    Rest => \A t \in Transfers : watchers[t] = {} /\ work[t].at # "registered"

\* A download that is not cancelled finds the layer below it when it registers
\* its own, as long as the call that created it goes on: the references that
\* call holds on lower layers keep them, whichever transfers it has joined.
LostIsForsaken ==
    [][\A t \in Transfers :
         work'[t].at = "lost" /\ work[t].at # "lost"
            => call[work[t].by].at \notin {"layers", "waiting"}]_vars

\* "so that a transfer won't be cancelled automatically if the client which
\* requested it is ^C'd (there could be other viewers)" (transfer.go): a
\* download that others watch does not suffer from the cancelled call, either.
ForsakenGoesOn == \A t \in Transfers : work[t].at # "lost"

\* Once transfers are not cancelled any more, every call returns: no chain of
\* downloads waits for one that never ends.
DownloadReturns ==
    <>[][cancelled' \subseteq cancelled]_vars
        => \A p \in Pulls : (call[p].at = "layers") ~> (call[p].at \in {"returned", "over"})
=============================================================================
