------------------------- MODULE HealthMonitorProofs -------------------------
(***************************************************************************)
(* OneMonitor, NoMonitorAtRest and ResultsOfThisRun, for any number of     *)
(* stoppers, monitors, runs and probes.                                    *)
(*                                                                         *)
(* OneMonitor alone is not inductive: CloseMonitorChannel sends on the     *)
(* channel, and only later writes nil to Health.stop.  IInv says that in   *)
(* between the caller about to write is alone, and that Health.stop still  *)
(* holds the channel of the monitor it has stopped.  The other two rest on *)
(* it.  AtRest says at which point of StateChanged the monitor of a        *)
(* container at rest is gone.  RunInv says that from the moment            *)
(* initHealthMonitor has closed the channel every probe under way was      *)
(* begun since that start, so that none from before can reach the state    *)
(* that is reset afterwards.                                               *)
(***************************************************************************)
EXTENDS HealthMonitor, TLAPS

\* Zenon unless a leaf says SMT: most steps are first-order.
USE Zenon

MonStates == {"unborn", "idle", "probing", "passed", "failed", "expired", "draining", "gone"}
Labels == {"idle", "check", "load", "send", "clear", "reset", "update", "signal",
           "deliver", "wait", "end"}

Typed ==
    /\ stop \in Monitors \cup {None}
    /\ mon \in [Monitors -> MonStates]
    /\ pc \in [Actors -> Labels]
    /\ cont \in [Actors -> {"end", "reset", "signal"}]
    /\ ch \in [Actors -> Monitors \cup {None}]

\* Whoever is about to clear Health.stop finds there the channel it has sent on.
ClearsItsOwn ==
    \A a \in Actors : pc[a] = "clear" => ch[a] # None /\ stop = ch[a] /\ mon[ch[a]] = "gone"

OneClears == \A a, b \in Actors : pc[a] = "clear" /\ pc[b] = "clear" => a = b

IInv == Typed /\ OneMonitor /\ ClearsItsOwn /\ OneClears

-----------------------------------------------------------------------------
\* The invariant holds before the first start.
LEMMA InitIInv == Init => IInv
BY SMT, ConstantsAssumption
DEF Init, IInv, Typed, OneMonitor, Live, ClearsItsOwn, OneClears, MonStates, Labels, Actors

(* A step that touches neither the channel nor the monitors, and brings nobody
   to the point of clearing the channel.                                     *)
LEMMA QuietStep ==
    ASSUME IInv, Typed', UNCHANGED <<stop, mon>>,
           \A a \in Actors : pc'[a] = "clear" => pc[a] = "clear" /\ ch'[a] = ch[a]
    PROVE  IInv'
BY DEF IInv, Typed, OneMonitor, Live, ClearsItsOwn, OneClears

(* A step of a monitor that goes on running.                                 *)
LEMMA MonitorStep ==
    ASSUME IInv, NEW k \in Monitors, Monitor(k)
    PROVE  IInv'
<1>1. CASE UNCHANGED mon
  <2>1. UNCHANGED <<stop, pc, ch, cont>>
    BY DEF Monitor, Tick, ProbeLookup, ProbeRuns, Receive, handleProbeResult, callers, monitors
  <2>2. Typed'
    BY <1>1, <2>1 DEF IInv, Typed
  <2> QED BY <1>1, <2>1, <2>2, QuietStep
<1>2. CASE ~UNCHANGED mon
  <2>1. /\ UNCHANGED <<stop, pc, ch, cont>>
        /\ Live(k)
        /\ \E s \in MonStates \ {"unborn", "gone"} : mon' = [mon EXCEPT ![k] = s]
    <3>1. CASE Tick(k)
      BY <3>1 DEF Tick, Live, callers, MonStates
    <3>2. CASE Receive(k)
      BY <3>2 DEF Receive, Live, callers, MonStates
    <3>3. CASE handleProbeResult(k)
      BY <3>3 DEF handleProbeResult, Live, callers, MonStates
    <3>4. CASE ProbeLookup(k) \/ ProbeRuns(k)
      BY <3>4, <1>2 DEF ProbeLookup, ProbeRuns
    <3> QED BY <3>1, <3>2, <3>3, <3>4 DEF Monitor
  <2>2. PICK s \in MonStates \ {"unborn", "gone"} : mon' = [mon EXCEPT ![k] = s]
    BY <2>1
  <2>3. Typed'
    BY <2>1, <2>2 DEF IInv, Typed
  <2>4. OneMonitor'
    BY <2>1, <2>2 DEF IInv, Typed, OneMonitor, Live
  <2>5. ClearsItsOwn' /\ OneClears'
    BY <2>1, <2>2 DEF IInv, Typed, ClearsItsOwn, OneClears, Live
  <2> QED BY <2>3, <2>4, <2>5 DEF IInv
<1> QED BY <1>1, <1>2

\* CloseMonitorChannel
LEMMA CloseStep ==
    ASSUME IInv, NEW a \in Actors, CloseMonitorChannel(a)
    PROVE  IInv'
<1>1. CASE CheckStop(a)
  <2>1. Typed'
    BY <1>1 DEF CheckStop, Goto, monitors, IInv, Typed, Labels
  <2> QED BY <1>1, <2>1, QuietStep DEF CheckStop, Goto, monitors, IInv, Typed
<1>2. CASE LoadStop(a)
  <2>1. Typed'
    BY <1>2 DEF LoadStop, Goto, monitors, IInv, Typed, Labels
  <2> QED BY <1>2, <2>1, QuietStep DEF LoadStop, Goto, monitors, IInv, Typed
<1>3. CASE SendStop(a)
  <2>1. ch[a] \in Monitors /\ Live(ch[a]) /\ stop = ch[a]
    BY <1>3 DEF SendStop, IInv, Typed, OneMonitor, Live
  <2>2. \A b \in Actors : pc[b] # "clear"
    BY <2>1 DEF IInv, ClearsItsOwn, Live
  <2>3. Typed'
    BY <1>3, <2>1 DEF SendStop, Goto, IInv, Typed, Labels, MonStates
  <2>4. OneMonitor'
    BY <1>3, <2>1 DEF SendStop, IInv, Typed, OneMonitor, Live
  <2>5. ClearsItsOwn' /\ OneClears'
    BY <1>3, <2>1, <2>2, ConstantsAssumption DEF SendStop, Goto, IInv, Typed, ClearsItsOwn, OneClears
  <2> QED BY <2>3, <2>4, <2>5 DEF IInv
<1>4. CASE ClearStop(a)
  <2>1. \A k \in Monitors : ~Live(k)
    BY <1>4 DEF ClearStop, IInv, OneMonitor, ClearsItsOwn, Live
  <2>2. \A b \in Actors : pc'[b] # "clear"
    BY <1>4 DEF ClearStop, Goto, IInv, Typed, OneClears
  <2>3. Typed'
    BY <1>4 DEF ClearStop, Goto, IInv, Typed, Labels
  <2>4. OneMonitor'
    BY <1>4, <2>1 DEF ClearStop, OneMonitor, Live
  <2> QED BY <2>2, <2>3, <2>4 DEF IInv, ClearsItsOwn, OneClears
<1> QED BY <1>1, <1>2, <1>3, <1>4 DEF CloseMonitorChannel

\* updateHealthMonitor and its callers
LEMMA UpdateStep ==
    ASSUME IInv, NEW a \in Actors, NEW c, updateHealthMonitor(a, c), UNCHANGED ch,
           pc[a] # "clear"
    PROVE  IInv'
<1>1. /\ pc' \in [Actors -> Labels]
      /\ cont' \in [Actors -> {"end", "reset", "signal"}]
      /\ \A b \in Actors : pc'[b] = "clear" => pc[b] = "clear"
  BY DEF updateHealthMonitor, Goto, IInv, Typed, Labels
<1>2. CASE UNCHANGED <<stop, mon>>
  <2>1. Typed'
    BY <1>1, <1>2 DEF IInv, Typed
  <2> QED BY <1>1, <1>2, <2>1, QuietStep
<1>3. CASE ~UNCHANGED <<stop, mon>>
  <2>1. stop = None
    BY <1>3 DEF updateHealthMonitor, OpenMonitorChannel
  <2>2. PICK k \in Monitors : stop' = k /\ mon' = [mon EXCEPT ![k] = "idle"]
    BY <1>3 DEF updateHealthMonitor, OpenMonitorChannel
  <2>3. \A b \in Actors : pc'[b] # "clear"
    BY <1>1, <2>1 DEF IInv, ClearsItsOwn
  <2>4. Typed'
    BY <1>1, <2>2 DEF IInv, Typed, MonStates
  <2>5. OneMonitor'
    BY <2>1, <2>2, ConstantsAssumption DEF IInv, Typed, OneMonitor, Live
  <2> QED BY <2>3, <2>4, <2>5 DEF IInv, ClearsItsOwn, OneClears
<1> QED BY <1>2, <1>3

\* StateChanged
LEMMA StateChangedStep ==
    ASSUME IInv, StateChanged
    PROVE  IInv'
<1> USE DEF Actors
<1>1. CASE StateDone
  <2>1. Typed'
    BY <1>1 DEF StateDone, Goto, monitors, IInv, Typed, Labels
  <2> QED BY <1>1, <2>1, QuietStep DEF StateDone, Goto, monitors, IInv, Typed
<1>2. CASE StateExit
  BY <1>2, UpdateStep DEF StateExit, Deliver
<1>3. CASE StateRestart
  BY <1>3, UpdateStep DEF StateRestart, Deliver
<1>4. CASE StateOOM
  BY <1>4, UpdateStep DEF StateOOM, Deliver
<1>5. CASE StatePause
  BY <1>5, UpdateStep DEF StatePause, Deliver
<1>6. CASE StateResume
  BY <1>6, UpdateStep DEF StateResume, Deliver
<1> QED BY <1>1, <1>2, <1>3, <1>4, <1>5, <1>6 DEF StateChanged

\* What the process, containerd and a start that fails do around the monitors.
Around == ProcessExits \/ OutOfMemory \/ StartUnsaved \/ StartFails \/ RestartFails

LEMMA ProcessStep ==
    ASSUME IInv, Around
    PROVE  IInv'
<1>1. UNCHANGED <<stop, mon, pc, cont, ch>>
  BY DEF Around, ProcessExits, OutOfMemory, StartUnsaved, StartFails, RestartFails, monitors, callers
<1>2. Typed'
  BY <1>1 DEF IInv, Typed
<1> QED BY <1>1, <1>2, QuietStep

\* containerStart
LEMMA StartStep ==
    ASSUME IInv, ContainerStart \/ AutoRestart
    PROVE  IInv'
<1> USE DEF Actors
<1>1. PICK a \in {"start", "restart"} : StateStart(a) /\ UNCHANGED <<monitors, ch>>
  BY DEF ContainerStart, AutoRestart
<1>2. Typed'
  BY <1>1 DEF StateStart, Goto, monitors, IInv, Typed, Labels
<1> QED BY <1>1, <1>2, QuietStep DEF StateStart, Goto, monitors, IInv, Typed

\* initHealthMonitor
LEMMA InitHealthStep ==
    ASSUME IInv, NEW a \in {"start", "restart"}, initHealthMonitor(a)
    PROVE  IInv'
<1> USE DEF Actors
<1>1. CASE ResetHealth(a)
  <2>1. Typed'
    BY <1>1 DEF ResetHealth, Goto, monitors, IInv, Typed, Labels
  <2> QED BY <1>1, <2>1, QuietStep DEF ResetHealth, Goto, monitors, IInv, Typed
<1>2. CASE InitUpdate(a)
  BY <1>2, UpdateStep DEF InitUpdate
<1>3. CASE StartDone(a)
  <2>1. Typed'
    BY <1>3 DEF StartDone, Goto, monitors, IInv, Typed, Labels
  <2> QED BY <1>3, <2>1, QuietStep DEF StartDone, Goto, monitors, IInv, Typed
<1> QED BY <1>1, <1>2, <1>3 DEF initHealthMonitor

\* A pause
LEMMA PauseStep ==
    ASSUME IInv, containerPause \/ PauseDone
    PROVE  IInv'
<1> USE DEF Actors
<1>1. /\ UNCHANGED <<stop, mon, cont, ch>>
      /\ \E l \in Labels \ {"clear"} : pc' = [pc EXCEPT !["pause"] = l]
  BY DEF containerPause, PauseDone, Goto, monitors, Labels
<1>2. Typed'
  BY SMT, <1>1 DEF IInv, Typed
<1> QED BY <1>1, <1>2, QuietStep DEF IInv, Typed

\* A stop
LEMMA StopStep ==
    ASSUME IInv, NEW p \in Stoppers,
           containerStop(p) \/ killWithSignal(p) \/ DeliverSignal(p) \/ StopDone(p)
    PROVE  IInv'
<1> USE DEF Actors
<1>1. /\ UNCHANGED <<stop, mon, ch>>
      /\ cont' \in [Actors -> {"end", "reset", "signal"}]
      /\ \E l \in Labels \ {"clear"} : pc' = [pc EXCEPT ![p] = l]
  BY DEF containerStop, killWithSignal, DeliverSignal, StopDone, Goto, monitors, Labels, IInv, Typed
<1>2. Typed'
  BY SMT, <1>1 DEF IInv, Typed
<1> QED BY <1>1, <1>2, QuietStep DEF IInv, Typed

\* Every step keeps the invariant.
LEMMA NextIInv == IInv /\ [Next]_vars => IInv'
<1> SUFFICES ASSUME IInv, [Next]_vars PROVE IInv'
  OBVIOUS
<1>1. CASE UNCHANGED vars
  BY <1>1 DEF vars, monitors, callers, IInv, Typed, OneMonitor, Live, ClearsItsOwn, OneClears
<1>2. CASE Next
  BY <1>2, MonitorStep, CloseStep, StateChangedStep, ProcessStep, StartStep, InitHealthStep,
     PauseStep, StopStep DEF Next, Around
<1> QED BY <1>1, <1>2

\* There is never more than one health monitor per container, and the one there
\* is can be reached through Health.stop, whoever opens and closes monitors with
\* or without the container's lock.
THEOREM MonitorIsUnique == Spec => []OneMonitor
<1>1. IInv => OneMonitor
  BY DEF IInv
<1> QED BY <1>1, InitIInv, NextIInv, PTL DEF Spec

-----------------------------------------------------------------------------
(* A container at rest is not probed                                        *)

\* In a paused or stopped container only a monitor that StateChanged is about to
\* stop is left.
AtRest ==
    cstate \in {"stopped", "paused"} /\ pc["queue"] \notin {"check", "load", "send"}
        => \A k \in Monitors : ~Live(k)

(* A step that neither starts a monitor nor puts the container to rest, and
   in which StateChanged does not return.                                    *)
LEMMA RestKept ==
    ASSUME AtRest, cstate' \in {"stopped", "paused"} => cstate' = cstate,
           pc'["queue"] \in {"check", "load", "send"} \/ pc'["queue"] = pc["queue"],
           \A k \in Monitors : Live(k)' => Live(k),
           pc["queue"] \in {"check", "load", "send"} => pc'["queue"] = pc["queue"]
    PROVE  AtRest'
BY DEF AtRest

\* updateHealthMonitor, called with the state the container is in.
LEMMA UpdateRest ==
    ASSUME IInv, AtRest, NEW a \in Actors, updateHealthMonitor(a, cstate'),
           a = "queue" \/ cstate' = cstate
    PROVE  AtRest'
<1>0. pc \in [Actors -> Labels]
  BY DEF IInv, Typed
<1>1. CASE cstate' \in {"running", "restarting"}
  BY <1>1 DEF AtRest
<1>2. CASE cstate' \notin {"running", "restarting"}
  <2>1. UNCHANGED <<stop, mon>> /\ pc' = [pc EXCEPT ![a] = "check"]
    BY <1>2 DEF updateHealthMonitor, Goto
  <2>2. CASE a = "queue"
    BY <1>0, <2>1, <2>2 DEF AtRest, Actors
  <2>3. CASE a # "queue"
    BY <1>0, <2>1, <2>3, RestKept DEF Live, Actors
  <2> QED BY <2>2, <2>3
<1> QED BY <1>1, <1>2

\* CloseMonitorChannel: once it has sent, or found no channel, no monitor is left.
LEMMA CloseRest ==
    ASSUME IInv, AtRest, NEW a \in Actors, CloseMonitorChannel(a)
    PROVE  AtRest'
<1>0. pc \in [Actors -> Labels] /\ mon \in [Monitors -> MonStates]
  BY DEF IInv, Typed
<1>1. UNCHANGED cstate
  BY DEF CloseMonitorChannel, CheckStop, LoadStop, SendStop, ClearStop, container
<1>2. \A k \in Monitors : Live(k)' => Live(k)
  BY <1>0 DEF CloseMonitorChannel, CheckStop, LoadStop, SendStop, ClearStop, monitors, Live
<1>3. CASE a # "queue"
  <2>1. UNCHANGED pc["queue"]
    BY <1>0, <1>3 DEF CloseMonitorChannel, CheckStop, LoadStop, SendStop, ClearStop, Goto, Actors
  <2> QED BY <1>1, <1>2, <2>1, RestKept
<1>4. CASE a = "queue" /\ CheckStop(a)
  <2>1. CASE stop = None
    <3>1. \A k \in Monitors : ~Live(k)
      BY <2>1, ConstantsAssumption DEF IInv, OneMonitor
    <3> QED BY <1>2, <3>1 DEF AtRest
  <2>2. CASE stop # None
    BY <1>0, <1>4, <2>2 DEF CheckStop, Goto, AtRest
  <2> QED BY <2>1, <2>2
<1>5. CASE a = "queue" /\ LoadStop(a)
  BY <1>0, <1>5 DEF LoadStop, Goto, AtRest
<1>6. CASE a = "queue" /\ SendStop(a)
  <2>1. ch[a] \in Monitors /\ Live(ch[a])
    BY <1>6 DEF SendStop, IInv, Typed, Live
  <2>2. \A k \in Monitors : Live(k) => k = ch[a]
    BY <2>1 DEF IInv, OneMonitor
  <2>3. ~Live(ch[a])'
    BY <1>0, <1>6, <2>1 DEF SendStop, Live
  <2>4. UNCHANGED ch
    BY <1>6 DEF SendStop
  <2> QED BY <1>2, <2>2, <2>3, <2>4 DEF AtRest
<1>7. CASE a = "queue" /\ ClearStop(a)
  <2>1. \A k \in Monitors : ~Live(k)
    BY <1>7 DEF ClearStop, IInv, OneMonitor, ClearsItsOwn, Live
  <2> QED BY <1>2, <2>1 DEF AtRest
<1> QED BY <1>3, <1>4, <1>5, <1>6, <1>7 DEF CloseMonitorChannel

\* Every step keeps AtRest.
LEMMA NextRest == IInv /\ AtRest /\ [Next]_vars => AtRest'
<1> SUFFICES ASSUME IInv, AtRest, [Next]_vars PROVE AtRest'
  OBVIOUS
<1>0. pc \in [Actors -> Labels] /\ mon \in [Monitors -> MonStates]
  BY DEF IInv, Typed
<1>1. ASSUME NEW k \in Monitors, Monitor(k) PROVE AtRest'
  <2>1. UNCHANGED <<cstate, pc>>
    BY <1>1 DEF Monitor, Tick, ProbeLookup, ProbeRuns, Receive, handleProbeResult, callers, container
  <2>2. \A j \in Monitors : Live(j)' => Live(j)
    BY <1>0, <1>1 DEF Monitor, Tick, ProbeLookup, ProbeRuns, Receive, handleProbeResult, Live
  <2> QED BY <2>1, <2>2, RestKept
<1>2. ASSUME NEW a \in Actors, CloseMonitorChannel(a) PROVE AtRest'
  BY <1>2, CloseRest
<1>3. CASE StateChanged
  <2> USE DEF Actors
  <2>1. CASE StateExit \/ StateRestart \/ StatePause \/ StateResume
    <3>1. updateHealthMonitor("queue", cstate')
      BY <2>1 DEF StateExit, StateRestart, StatePause, StateResume
    <3> QED BY <3>1, UpdateRest
  <2>2. CASE StateOOM
    <3>1. UNCHANGED cstate /\ updateHealthMonitor("queue", cstate)
      BY <2>2 DEF StateOOM, container
    <3>2. updateHealthMonitor("queue", cstate')
      BY <3>1
    <3> QED BY <3>2, UpdateRest
  <2>3. CASE StateDone
    <3>1. UNCHANGED <<cstate, mon>> /\ pc["queue"] = "end"
      BY <2>3 DEF StateDone, monitors
    <3> QED BY <3>1 DEF AtRest, Live
  <2> QED BY <1>3, <2>1, <2>2, <2>3 DEF StateChanged
<1>4. CASE Around
  <2>1. UNCHANGED <<mon, pc>> /\ cstate' \in {cstate, "running"}
    BY <1>4 DEF Around, ProcessExits, OutOfMemory, StartUnsaved, StartFails, RestartFails,
       SetRunning, monitors, callers
  <2> QED BY <2>1 DEF AtRest, Live
<1>5. CASE ContainerStart \/ AutoRestart
  <2>1. cstate' = "running"
    BY <1>5 DEF ContainerStart, AutoRestart, StateStart, SetRunning
  <2> QED BY <2>1 DEF AtRest
<1>6. ASSUME NEW a \in {"start", "restart"}, initHealthMonitor(a) PROVE AtRest'
  <2> USE DEF Actors
  <2>1. CASE InitUpdate(a)
    <3>1. UNCHANGED cstate /\ updateHealthMonitor(a, cstate)
      BY <2>1 DEF InitUpdate, container
    <3>2. updateHealthMonitor(a, cstate')
      BY <3>1
    <3> QED BY <3>1, <3>2, UpdateRest
  <2>2. CASE ResetHealth(a) \/ StartDone(a)
    <3>1. UNCHANGED <<cstate, mon, pc["queue"]>>
      BY <1>0, <2>2 DEF ResetHealth, StartDone, Goto, monitors, container
    <3> QED BY <3>1 DEF AtRest, Live
  <2> QED BY <1>6, <2>1, <2>2 DEF initHealthMonitor
<1>7. CASE containerPause \/ PauseDone
  <2>1. UNCHANGED <<cstate, mon, pc["queue"]>>
    BY <1>0, <1>7 DEF containerPause, PauseDone, Goto, monitors, Actors
  <2> QED BY <2>1 DEF AtRest, Live
<1>8. ASSUME NEW p \in Stoppers,
             containerStop(p) \/ killWithSignal(p) \/ DeliverSignal(p) \/ StopDone(p)
      PROVE  AtRest'
  <2>1. p \in Actors /\ p # "queue"
    BY ConstantsAssumption DEF Actors
  <2>2. UNCHANGED <<cstate, mon, pc["queue"]>>
    BY <1>0, <1>8, <2>1 DEF containerStop, killWithSignal, DeliverSignal, StopDone, Goto, monitors,
       container, Actors
  <2> QED BY <2>2 DEF AtRest, Live
<1>9. CASE UNCHANGED vars
  BY <1>9 DEF vars, container, monitors, callers, AtRest, Live
<1> QED BY <1>1, <1>2, <1>3, <1>4, <1>5, <1>6, <1>7, <1>8, <1>9 DEF Next, Around

\* A paused or stopped container has no health monitor once StateChanged has
\* returned, whoever was starting one when it was paused or stopped.
THEOREM RestIsUnprobed == Spec => []NoMonitorAtRest
<1>1. Init => AtRest
  BY DEF Init, AtRest, Live
<1>2. AtRest => NoMonitorAtRest
  BY DEF AtRest, NoMonitorAtRest
<1> QED BY <1>1, <1>2, InitIInv, NextIInv, NextRest, PTL DEF Spec

-----------------------------------------------------------------------------
(* The health state is that of this run                                     *)

Starters == {"start", "restart"}

\* initHealthMonitor has not yet stopped the monitor of the last run ...
Closing ==
    \E a \in Starters : cont[a] = "reset" /\ pc[a] \in {"check", "load", "send"}

\* ... or has not yet reset the state.
Resetting ==
    \E a \in Starters :
        cont[a] = "reset" /\ pc[a] \in {"check", "load", "send", "clear", "reset"}

\* A monitor in these states has a probe whose result will be counted.
Counted(k) == mon[k] \in {"probing", "passed", "failed", "expired"}

RunInv ==
    /\ run \in Nat /\ since \in 0..run /\ probeRun \in [Monitors -> Nat]
    /\ Closing \/ \A k \in Monitors : Counted(k) => probeRun[k] \in since..run
    /\ Resetting \/ evidence \subseteq since..run

\* A step after which whoever was closing or resetting is still doing so.
LEMMA RunKept ==
    ASSUME RunInv, UNCHANGED <<runs, probeRun, evidence>>,
           \A k \in Monitors : Counted(k)' => Counted(k),
           Closing => Closing', Resetting => Resetting'
    PROVE  RunInv'
BY DEF RunInv, runs

\* What someone else does at its own label and return address does not matter.
LEMMA OthersMove ==
    ASSUME IInv, NEW a \in Actors \ Starters,
           \A b \in Actors \ {a} : pc'[b] = pc[b] /\ cont'[b] = cont[b]
    PROVE  (Closing => Closing') /\ (Resetting => Resetting')
<1>1. \A b \in Starters : b \in Actors \ {a}
  BY DEF Starters, Actors
<1> QED BY <1>1 DEF Closing, Resetting

\* A step of a monitor: it counts a result only of a probe it began in this run.
LEMMA MonitorRun ==
    ASSUME IInv, RunInv, NEW k \in Monitors, Monitor(k)
    PROVE  RunInv'
<1>0. mon \in [Monitors -> MonStates] /\ probeRun \in [Monitors -> Nat] /\ run \in Nat
  BY DEF IInv, Typed, RunInv
<1>1. UNCHANGED <<runs, pc, cont>>
  BY DEF Monitor, Tick, ProbeLookup, ProbeRuns, Receive, handleProbeResult, callers, container
<1>2. (Closing' <=> Closing) /\ (Resetting' <=> Resetting)
  BY <1>1 DEF Closing, Resetting
<1>3. CASE Tick(k)
  <2>1. /\ probeRun' = [probeRun EXCEPT ![k] = run]
        /\ mon' = [mon EXCEPT ![k] = "probing"]
        /\ UNCHANGED evidence
    BY <1>3 DEF Tick, health
  <2>2. probeRun' \in [Monitors -> Nat] /\ probeRun'[k] = run
    BY <1>0, <2>1
  <2>4. run \in since..run
    BY SMT DEF RunInv
  <2>3. \A j \in Monitors \ {k} : probeRun'[j] = probeRun[j] /\ mon'[j] = mon[j]
    BY <1>0, <2>1
  <2> QED BY <1>0, <1>1, <1>2, <2>1, <2>2, <2>3, <2>4 DEF RunInv, Counted, runs
<1>4. CASE ProbeLookup(k) \/ ProbeRuns(k) \/ Receive(k)
  <2>1. UNCHANGED <<probeRun, evidence>>
    BY <1>4 DEF ProbeLookup, ProbeRuns, Receive, health
  <2>2. \A j \in Monitors : Counted(j)' => Counted(j)
    BY <1>0, <1>4 DEF ProbeLookup, ProbeRuns, Receive, Counted
  <2> QED BY <1>1, <1>2, <2>1, <2>2, RunKept
<1>5. CASE handleProbeResult(k)
  <2>1. UNCHANGED probeRun /\ evidence' = evidence \cup {probeRun[k]} /\ Counted(k)
    BY <1>5 DEF handleProbeResult, Counted
  <2>2. \A j \in Monitors : Counted(j)' => Counted(j)
    BY <1>0, <1>5 DEF handleProbeResult, Counted
  <2>3. Closing => Resetting
    BY DEF Closing, Resetting
  <2>4. Resetting \/ evidence' \subseteq since..run
    BY <2>1, <2>3 DEF RunInv
  <2> QED BY <1>0, <1>1, <1>2, <2>1, <2>2, <2>4 DEF RunInv, runs
<1> QED BY <1>3, <1>4, <1>5 DEF Monitor

\* CloseMonitorChannel: where initHealthMonitor goes on to the reset, no monitor
\* of the last run is left.
LEMMA CloseRun ==
    ASSUME IInv, RunInv, NEW a \in Actors, CloseMonitorChannel(a)
    PROVE  RunInv'
<1>0. /\ pc \in [Actors -> Labels] /\ mon \in [Monitors -> MonStates]
      /\ cont \in [Actors -> {"end", "reset", "signal"}]
  BY DEF IInv, Typed
<1>1. UNCHANGED <<runs, probeRun, evidence, cont>>
  BY DEF CloseMonitorChannel, CheckStop, LoadStop, SendStop, ClearStop, container, monitors, health
<1>2. \A k \in Monitors : Counted(k)' => Counted(k)
  BY <1>0 DEF CloseMonitorChannel, CheckStop, LoadStop, SendStop, ClearStop, monitors, Counted
<1>3. \A b \in Actors \ {a} : pc'[b] = pc[b]
  BY <1>0 DEF CloseMonitorChannel, CheckStop, LoadStop, SendStop, ClearStop, Goto
<1>4. \/ pc[a] \in {"check", "load", "send"} /\ pc'[a] \in {"load", "send", "clear", cont[a]}
      \/ pc[a] = "clear" /\ pc'[a] = cont[a]
  BY <1>0 DEF CloseMonitorChannel, CheckStop, LoadStop, SendStop, ClearStop, Goto
<1>5. Resetting => Resetting'
  <2> SUFFICES ASSUME NEW b \in Starters, cont[b] = "reset",
                      pc[b] \in {"check", "load", "send", "clear", "reset"}
               PROVE  pc'[b] \in {"check", "load", "send", "clear", "reset"}
    BY <1>1 DEF Resetting
  <2>1. b \in Actors
    BY DEF Starters, Actors
  <2> QED BY <1>3, <1>4, <2>1
<1>6. CASE \A k \in Monitors : ~Live(k)'
  <2>1. \A k \in Monitors : ~Counted(k)'
    BY <1>6 DEF Live, Counted
  <2> QED BY <1>1, <1>5, <2>1 DEF RunInv, runs
<1>7. CASE (Closing => Closing')
  BY <1>1, <1>2, <1>5, <1>7, RunKept
<1>8. CASE Closing /\ ~Closing' /\ ~(\A k \in Monitors : ~Live(k)')
  <2>1. pc[a] \in {"check", "load", "send"} /\ pc'[a] \notin {"check", "load", "send"}
    <3>1. PICK b \in Starters : cont[b] = "reset" /\ pc[b] \in {"check", "load", "send"}
      BY <1>8 DEF Closing
    <3>2. pc'[b] \notin {"check", "load", "send"} /\ b \in Actors
      BY <1>1, <1>8, <3>1 DEF Closing, Starters, Actors
    <3> QED BY <1>3, <3>1, <3>2
  <2>2. CASE CheckStop(a)
    <3>1. stop = None /\ UNCHANGED mon
      BY <1>0, <2>1, <2>2 DEF CheckStop, Goto, monitors
    <3> QED BY <1>8, <3>1, ConstantsAssumption DEF IInv, OneMonitor, Live
  <2>3. CASE LoadStop(a)
    BY <1>0, <2>1, <2>3 DEF LoadStop, Goto
  <2>4. CASE SendStop(a)
    <3>1. ch[a] \in Monitors /\ Live(ch[a])
      BY <2>4 DEF SendStop, IInv, Typed, Live
    <3>2. \A k \in Monitors : Live(k) => k = ch[a]
      BY <3>1 DEF IInv, OneMonitor
    <3> QED BY <1>0, <1>8, <2>4, <3>1, <3>2 DEF SendStop, Live
  <2>5. CASE ClearStop(a)
    BY <2>1, <2>5 DEF ClearStop
  <2> QED BY <2>2, <2>3, <2>4, <2>5 DEF CloseMonitorChannel
<1> QED BY <1>6, <1>7, <1>8

\* updateHealthMonitor starts a monitor that has not probed yet.
LEMMA UpdateRun ==
    ASSUME IInv, RunInv, NEW a \in Actors, NEW c, updateHealthMonitor(a, c),
           UNCHANGED <<runs, probeRun, evidence>>,
           pc[a] \notin {"check", "load", "send", "clear", "reset"}
    PROVE  RunInv'
<1>0. /\ pc \in [Actors -> Labels] /\ mon \in [Monitors -> MonStates]
      /\ cont \in [Actors -> {"end", "reset", "signal"}]
  BY DEF IInv, Typed
<1>1. \A b \in Actors \ {a} : pc'[b] = pc[b] /\ cont'[b] = cont[b]
  BY <1>0 DEF updateHealthMonitor, Goto
<1>2. (Closing => Closing') /\ (Resetting => Resetting')
  <2>1. \A b \in Starters : b \in Actors
    BY DEF Starters, Actors
  <2> QED BY <1>1, <2>1 DEF Closing, Resetting
<1>3. \A k \in Monitors : Counted(k)' => Counted(k)
  BY <1>0 DEF updateHealthMonitor, OpenMonitorChannel, Counted
<1> QED BY <1>2, <1>3, RunKept

\* Every step keeps RunInv.
LEMMA NextRun == IInv /\ RunInv /\ [Next]_vars => RunInv'
<1> SUFFICES ASSUME IInv, RunInv, [Next]_vars PROVE RunInv'
  OBVIOUS
<1>0. /\ pc \in [Actors -> Labels] /\ mon \in [Monitors -> MonStates]
      /\ cont \in [Actors -> {"end", "reset", "signal"}]
  BY DEF IInv, Typed
<1>1. ASSUME NEW k \in Monitors, Monitor(k) PROVE RunInv'
  BY <1>1, MonitorRun
<1>2. ASSUME NEW a \in Actors, CloseMonitorChannel(a) PROVE RunInv'
  BY <1>2, CloseRun
<1>3. CASE StateChanged
  <2> USE DEF Actors
  <2>1. CASE StateExit \/ StateRestart \/ StatePause \/ StateResume \/ StateOOM
    <3>1. /\ \E c : updateHealthMonitor("queue", c)
          /\ pc["queue"] = "idle"
          /\ UNCHANGED <<runs, probeRun, evidence>>
      BY <2>1 DEF StateExit, StateRestart, StatePause, StateResume, StateOOM, Deliver, health,
         container
    <3> QED BY <3>1, UpdateRun
  <2>2. CASE StateDone
    <3>1. UNCHANGED <<runs, probeRun, evidence, mon, cont>>
      BY <2>2 DEF StateDone, monitors, health
    <3>2. UNCHANGED <<pc["start"], pc["restart"]>>
      BY <1>0, <2>2 DEF StateDone, Goto
    <3>3. Closing' = Closing /\ Resetting' = Resetting
      BY <3>1, <3>2 DEF Closing, Resetting, Starters
    <3> QED BY <3>1, <3>3, RunKept DEF Counted
  <2> QED BY <1>3, <2>1, <2>2 DEF StateChanged
<1>4. CASE Around
  <2>1. UNCHANGED <<since, probeRun, evidence, mon, pc, cont>> /\ run' \in {run, run + 1}
    BY <1>4 DEF Around, ProcessExits, OutOfMemory, StartUnsaved, StartFails, RestartFails,
       SetRunning, monitors, callers, health, runs
  <2>2. run' \in Nat /\ since \in 0..run' /\ since..run \subseteq since..run'
    BY SMT, <2>1 DEF RunInv
  <2>3. Closing' = Closing /\ Resetting' = Resetting /\ \A k \in Monitors : Counted(k)' = Counted(k)
    BY <2>1 DEF Counted, Closing, Resetting
  <2> QED BY <2>1, <2>2, <2>3 DEF RunInv
<1>5. CASE ContainerStart \/ AutoRestart
  <2>1. PICK a \in Starters : StateStart(a) /\ UNCHANGED <<monitors, health>>
    BY <1>5 DEF ContainerStart, AutoRestart, Starters
  <2>2. Closing' /\ Resetting'
    BY <1>0, <2>1 DEF StateStart, Goto, Closing, Resetting, Starters, Actors
  <2>3. run' = run + 1 /\ since' = run + 1 /\ UNCHANGED probeRun
    BY <2>1 DEF StateStart, SetRunning, monitors
  <2> QED BY SMT, <2>2, <2>3 DEF RunInv
<1>6. ASSUME NEW a \in {"start", "restart"}, initHealthMonitor(a) PROVE RunInv'
  <2>0. a \in Actors /\ a \in Starters /\ Starters \subseteq Actors
    BY DEF Actors, Starters
  <2>1. CASE ResetHealth(a)
    <3>1. /\ UNCHANGED <<runs, probeRun, mon, cont>> /\ evidence' = {}
          /\ pc[a] = "reset" /\ \A b \in Actors \ {a} : pc'[b] = pc[b]
      BY <1>0, <2>1 DEF ResetHealth, Goto, monitors, container
    <3>2. Closing => Closing'
      BY <2>0, <3>1 DEF Closing
    <3> QED BY <3>1, <3>2 DEF RunInv, Counted, runs
  <2>2. CASE InitUpdate(a)
    <3>1. /\ updateHealthMonitor(a, cstate) /\ pc[a] = "update"
          /\ UNCHANGED <<runs, probeRun, evidence>>
      BY <2>2 DEF InitUpdate, container, health
    <3> QED BY <2>0, <3>1, UpdateRun
  <2>3. CASE StartDone(a)
    <3>1. /\ UNCHANGED <<runs, probeRun, evidence, mon, cont>>
          /\ pc[a] = "end" /\ \A b \in Actors \ {a} : pc'[b] = pc[b]
      BY <1>0, <2>3 DEF StartDone, Goto, monitors, health
    <3>2. (Closing => Closing') /\ (Resetting => Resetting')
      BY <2>0, <3>1 DEF Closing, Resetting
    <3> QED BY <3>1, <3>2, RunKept DEF Counted
  <2> QED BY <1>6, <2>1, <2>2, <2>3 DEF initHealthMonitor
<1>7. CASE containerPause \/ PauseDone
  <2>1. UNCHANGED <<runs, probeRun, evidence, mon, cont>>
    BY <1>7 DEF containerPause, PauseDone, monitors, health
  <2>2. \A b \in Actors \ {"pause"} : pc'[b] = pc[b]
    BY <1>0, <1>7 DEF containerPause, PauseDone, Goto
  <2>3. (Closing => Closing') /\ (Resetting => Resetting')
    <3>1. "pause" \in Actors \ Starters
      BY DEF Actors, Starters
    <3>2. \A b \in Actors \ {"pause"} : pc'[b] = pc[b] /\ cont'[b] = cont[b]
      BY <2>1, <2>2
    <3> QED BY <3>1, <3>2, OthersMove
  <2> QED BY <2>1, <2>3, RunKept DEF Counted
<1>8. ASSUME NEW p \in Stoppers,
             containerStop(p) \/ killWithSignal(p) \/ DeliverSignal(p) \/ StopDone(p)
      PROVE  RunInv'
  <2>1. p \in Actors \ Starters
    BY ConstantsAssumption DEF Actors, Starters
  <2>2. UNCHANGED <<runs, probeRun, evidence, mon>>
    BY <1>8 DEF containerStop, killWithSignal, DeliverSignal, StopDone, monitors, health, container
  <2>3. \A b \in Actors \ {p} : pc'[b] = pc[b] /\ cont'[b] = cont[b]
    BY <1>0, <1>8 DEF containerStop, killWithSignal, DeliverSignal, StopDone, Goto
  <2>4. (Closing => Closing') /\ (Resetting => Resetting')
    BY <2>1, <2>3, OthersMove
  <2> QED BY <2>2, <2>4, RunKept DEF Counted
<1>9. CASE UNCHANGED vars
  BY <1>9 DEF vars, container, monitors, callers, health, runs, RunInv, Counted, Closing, Resetting
<1> QED BY <1>1, <1>2, <1>3, <1>4, <1>5, <1>6, <1>7, <1>8, <1>9 DEF Next, Around

\* Once initHealthMonitor has reset it, the health state of a container counts
\* only probes begun since that start, whatever was on its way from an earlier run
\* and whichever starts in between failed.
THEOREM HealthIsCurrent == Spec => []ResultsOfThisRun
<1>1. Init => RunInv
  BY SMT DEF Init, RunInv, Counted
<1>2. RunInv => ResultsOfThisRun
  BY DEF RunInv, Resetting, Starters, ResultsOfThisRun
<1> QED BY <1>1, <1>2, InitIInv, NextIInv, NextRun, PTL DEF Spec
=============================================================================
