--------------------------- MODULE TransferProgress ---------------------------
(***************************************************************************)
(* How one transfer of distribution/xfer/transfer.go fans its progress out *)
(* to its watchers: the transfer function sends on an unbuffered master    *)
(* channel, Broadcast keeps the latest item and pokes the watchers without *)
(* waiting for them, each watcher goroutine copies the latest item to its  *)
(* client, and Release returns when that goroutine has ended.              *)
(*                                                                         *)
(* Progress items are numbered in the order they are sent; 0 is "none      *)
(* yet".  Every section under t.mu is one step.  A send on an unbuffered   *)
(* channel happens in one step with its receive.                           *)
(***************************************************************************)
EXTENDS Naturals

CONSTANTS Watchers, MaxProgress

VARIABLES
    offering,       \* the transfer function is blocked in a send
    sent,           \* items received by Broadcast so far
    masterClosed,   \* masterProgressChan is closed
    bpc, item,      \* Broadcast: where it is, and the item it has received
    lastProgress, broadcastDone,
    running,        \* t.running is still open
    watchers,       \* t.watchers
    wpc, finishing, snapshot, lastWritten,  \* watcher goroutines and their locals
    client,         \* the caller of Watch and Release
    sentBefore      \* history: items sent when Release closed releaseChan

prodVars  == <<offering, sent, masterClosed>>
bcastVars == <<bpc, item, lastProgress, broadcastDone, running>>
watchVars == <<wpc, finishing, snapshot, lastWritten>>
vars == <<prodVars, bcastVars, watchers, watchVars, client, sentBefore>>

Items == 0..MaxProgress

TypeOK ==
    /\ offering \in BOOLEAN /\ masterClosed \in BOOLEAN
    /\ sent \in Items /\ item \in Items /\ lastProgress \in Items
    /\ bpc \in {"poll", "block", "store", "finish", "close", "returned"}
    /\ broadcastDone \in BOOLEAN /\ running \in BOOLEAN
    /\ watchers \subseteq Watchers
    /\ wpc \in [Watchers -> {"none", "read", "write", "select", "sync", "ended", "never"}]
    /\ finishing \in [Watchers -> BOOLEAN]
    /\ snapshot \in [Watchers -> Items] /\ lastWritten \in [Watchers -> Items]
    /\ client \in [Watchers -> {"out", "watching", "unlocked", "releasing", "returned"}]
    /\ sentBefore \in [Watchers -> Items]

Init ==
    /\ offering = FALSE /\ sent = 0 /\ masterClosed = FALSE
    /\ bpc = "poll" /\ item = 0 /\ lastProgress = 0
    /\ broadcastDone = FALSE /\ running = TRUE
    /\ watchers = {}
    /\ wpc = [w \in Watchers |-> "none"]
    /\ finishing = [w \in Watchers |-> FALSE]
    /\ snapshot = [w \in Watchers |-> 0]
    /\ lastWritten = [w \in Watchers |-> 0]
    /\ client = [w \in Watchers |-> "out"]
    /\ sentBefore = [w \in Watchers |-> 0]

-----------------------------------------------------------------------------
(* The transfer function.                                                   *)

Send ==
    /\ ~offering /\ ~masterClosed /\ sent < MaxProgress
    /\ offering' = TRUE
    /\ UNCHANGED <<sent, masterClosed, bcastVars, watchers, watchVars, client, sentBefore>>

CloseMaster ==
    /\ ~offering /\ ~masterClosed
    /\ masterClosed' = TRUE
    /\ UNCHANGED <<offering, sent, bcastVars, watchers, watchVars, client, sentBefore>>

-----------------------------------------------------------------------------
(* Broadcast.                                                               *)

\* p, ok = <-masterProgressChan, in either select.
Receive ==
    /\ bpc \in {"poll", "block"}
    /\ \/ /\ offering
          /\ offering' = FALSE /\ sent' = sent + 1
          /\ item' = sent + 1 /\ bpc' = "store"
       \/ /\ masterClosed /\ ~offering
          /\ bpc' = "finish"
          /\ UNCHANGED <<offering, sent, item>>
    /\ UNCHANGED <<masterClosed, lastProgress, broadcastDone, running,
                   watchers, watchVars, client, sentBefore>>

\* default: the channel is depleted.
Depleted ==
    /\ bpc = "poll" /\ ~offering /\ ~masterClosed
    /\ bpc' = "block"
    /\ UNCHANGED <<prodVars, item, lastProgress, broadcastDone, running,
                   watchers, watchVars, client, sentBefore>>

\* Mutant of Sync: Broadcast answers before it has stored what it received.
SyncEarly(w) ==
    /\ bpc \in {"block", "store"} /\ wpc[w] = "sync"
    /\ wpc' = [wpc EXCEPT ![w] = "read"]
    /\ UNCHANGED <<prodVars, bcastVars, watchers, finishing, snapshot, lastWritten,
                   client, sentBefore>>

\* case <-t.broadcastSyncChan: a detaching watcher is told that Broadcast has
\* caught up.
Sync(w) ==
    /\ bpc = "block" /\ wpc[w] = "sync"
    /\ bpc' = "poll"
    /\ wpc' = [wpc EXCEPT ![w] = "read"]
    /\ UNCHANGED <<prodVars, item, lastProgress, broadcastDone, running,
                   watchers, finishing, snapshot, lastWritten, client, sentBefore>>

\* Mutant of Store: the watchers are woken before the item is kept, so that one may
\* show the old item once more.
StoreWakesFirst ==
    /\ bpc = "store"
    /\ wpc' = [w \in Watchers |->
                 IF w \in watchers /\ wpc[w] = "select" THEN "read" ELSE wpc[w]]
    /\ bpc' \in {"store", "poll"}
    /\ lastProgress' = IF bpc' = "poll" THEN item ELSE lastProgress
    /\ UNCHANGED <<prodVars, item, broadcastDone, running, watchers,
                   finishing, snapshot, lastWritten, client, sentBefore>>

\* Keep the item and poke the watchers that are waiting in their select; the
\* others miss the signal.
Store ==
    /\ bpc = "store"
    /\ lastProgress' = item
    /\ wpc' = [w \in Watchers |->
                 IF w \in watchers /\ wpc[w] = "select" THEN "read" ELSE wpc[w]]
    /\ bpc' = "poll"
    /\ UNCHANGED <<prodVars, item, broadcastDone, running, watchers,
                   finishing, snapshot, lastWritten, client, sentBefore>>

\* The master channel is closed: note it under t.mu ...
Finish ==
    /\ bpc = "finish"
    /\ broadcastDone' = TRUE /\ bpc' = "close"
    /\ UNCHANGED <<prodVars, item, lastProgress, running, watchers, watchVars,
                   client, sentBefore>>

\* ... and then close t.running.
CloseRunning ==
    /\ bpc = "close"
    /\ running' = FALSE /\ bpc' = "returned"
    /\ UNCHANGED <<prodVars, item, lastProgress, broadcastDone, watchers, watchVars,
                   client, sentBefore>>

-----------------------------------------------------------------------------
(* Watch and Release, as called by clients, and the watcher goroutine.      *)

Watch(w) ==
    /\ client[w] = "out"
    /\ client' = [client EXCEPT ![w] = "watching"]
    /\ watchers' = watchers \cup {w}
    /\ wpc' = [wpc EXCEPT ![w] = IF broadcastDone THEN "never" ELSE "read"]
    /\ UNCHANGED <<prodVars, bcastVars, finishing, snapshot, lastWritten, sentBefore>>

\* Release under t.mu
Unwatch(w) ==
    /\ client[w] = "watching"
    /\ client' = [client EXCEPT ![w] = "unlocked"]
    /\ watchers' = watchers \ {w}
    /\ UNCHANGED <<prodVars, bcastVars, watchVars, sentBefore>>

\* close(watcher.releaseChan)
CloseRelease(w) ==
    /\ client[w] = "unlocked"
    /\ client' = [client EXCEPT ![w] = "releasing"]
    /\ sentBefore' = [sentBefore EXCEPT ![w] = sent]
    /\ UNCHANGED <<prodVars, bcastVars, watchers, watchVars>>

\* <-watcher.running
ReleaseReturn(w) ==
    /\ client[w] = "releasing" /\ wpc[w] \in {"ended", "never"}
    /\ client' = [client EXCEPT ![w] = "returned"]
    /\ UNCHANGED <<prodVars, bcastVars, watchers, watchVars, sentBefore>>

Read(w) ==
    /\ wpc[w] = "read"
    /\ snapshot' = [snapshot EXCEPT ![w] = lastProgress]
    /\ wpc' = [wpc EXCEPT ![w] = "write"]
    /\ UNCHANGED <<prodVars, bcastVars, watchers, finishing, lastWritten, client, sentBefore>>

\* WriteProgress, unless the last item has been written already; then return
\* or go back to the select.
Write(w) ==
    LET fresh == snapshot[w] # 0 /\ (~finishing[w] \/ snapshot[w] # lastWritten[w])
    IN  /\ wpc[w] = "write"
        /\ lastWritten' = IF fresh THEN [lastWritten EXCEPT ![w] = snapshot[w]]
                          ELSE lastWritten
        /\ wpc' = [wpc EXCEPT ![w] = IF finishing[w] THEN "ended" ELSE "select"]
        /\ UNCHANGED <<prodVars, bcastVars, watchers, finishing, snapshot, client, sentBefore>>

\* case <-w.releaseChan
SelectRelease(w) ==
    /\ wpc[w] = "select" /\ client[w] = "releasing"
    /\ finishing' = [finishing EXCEPT ![w] = TRUE]
    /\ wpc' = [wpc EXCEPT ![w] = "sync"]
    /\ UNCHANGED <<prodVars, bcastVars, watchers, snapshot, lastWritten, client, sentBefore>>

\* Mutant of SelectDone: a detaching watcher waits for the sync only.
SelectDoneOnce(w) ==
    /\ wpc[w] = "select" /\ ~running
    /\ finishing' = [finishing EXCEPT ![w] = TRUE]
    /\ wpc' = [wpc EXCEPT ![w] = "read"]
    /\ UNCHANGED <<prodVars, bcastVars, watchers, snapshot, lastWritten, client, sentBefore>>

\* case <-t.running, in the outer select or while detaching
SelectDone(w) ==
    /\ wpc[w] \in {"select", "sync"} /\ ~running
    /\ finishing' = [finishing EXCEPT ![w] = TRUE]
    /\ wpc' = [wpc EXCEPT ![w] = "read"]
    /\ UNCHANGED <<prodVars, bcastVars, watchers, snapshot, lastWritten, client, sentBefore>>

-----------------------------------------------------------------------------
Broadcast == Receive \/ Depleted \/ (\E w \in Watchers : Sync(w)) \/ Store
             \/ Finish \/ CloseRunning

WatcherStep(w) == Read(w) \/ Write(w) \/ SelectRelease(w) \/ SelectDone(w)

ClientStep(w) == Watch(w) \/ Unwatch(w) \/ CloseRelease(w) \/ ReleaseReturn(w)

Finished ==  \* everything has returned
    /\ bpc = "returned" /\ \A w \in Watchers : client[w] = "returned"
    /\ UNCHANGED vars

Next ==
    \/ Send \/ CloseMaster \/ Broadcast
    \/ \E w \in Watchers : WatcherStep(w) \/ ClientStep(w)
    \/ Finished

Spec == Init /\ [][Next]_vars

(* The goroutines run; a client that has begun to Release goes on.  The
   transfer function may stop sending for ever without closing the channel. *)
FairSpec ==
    /\ Spec /\ WF_vars(Broadcast)
    /\ \A w \in Watchers :
          /\ SF_vars(Sync(w)) /\ WF_vars(WatcherStep(w))
          /\ WF_vars(CloseRelease(w) \/ ReleaseReturn(w))
-----------------------------------------------------------------------------
(* Properties                                                               *)

\* A detaching watcher does not miss an event that was sent before it started
\* detaching (the purpose of broadcastSyncChan), and one that outlives the
\* transfer has shown the last item.
EndedIsCaughtUp ==
    \A w \in Watchers : wpc[w] = "ended" =>
        /\ client[w] \in {"releasing", "returned"} => lastWritten[w] >= sentBefore[w]
        /\ client[w] \notin {"releasing", "returned"} => lastWritten[w] = lastProgress

\* A watcher shows newer and newer items: never an older one after a newer one,
\* although signals get lost, and never the last item twice.
WritesAreFresh ==
    [][ \A w \in Watchers :
          (wpc[w] = "write" /\ wpc'[w] # "write" /\ snapshot[w] # 0)
             => \/ snapshot[w] > lastWritten[w]
                \/ finishing[w] /\ UNCHANGED lastWritten ]_vars

\* Release returns although the transfer function may have stopped sending:
\* Transfer calls it with tm.mu held.
ReleaseEnds ==
    \A w \in Watchers : (client[w] = "releasing") ~> (client[w] = "returned")
=============================================================================
