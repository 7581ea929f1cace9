---------------------------- MODULE HealthMonitor ----------------------------
(***************************************************************************)
(* The health check of one container: the monitor goroutine and its probe  *)
(* (daemon/health.go), the channel that stops it (container/health.go),    *)
(* and everyone who starts or stops monitors: libcontainerd's event queue, *)
(* ContainerStart, the automatic restart, ContainerPause and containerStop.*)
(*                                                                         *)
(* cLock is the container's mutex, client the per-container lock of the    *)
(* libcontainerd client.  A section that takes a lock and calls nothing    *)
(* that can block is one step.  The stop channel is unbuffered: a send is  *)
(* a step of the sender and of the monitor together.  Health.stop has no   *)
(* lock of its own and is read twice by CloseMonitorChannel.               *)
(***************************************************************************)
EXTENDS Integers, Sequences

CONSTANTS Stoppers,   \* callers of containerStop
          Monitors,   \* monitor goroutines (numbers), each with its stop channel
          Retries,    \* Healthcheck.Retries
          Faults,     \* errors that may happen: "create", "todisk"
          MaxRuns,    \* bound: process starts
          MaxProbes,  \* bound: probes begun
          MaxNotes,   \* bound: OOM and pause notifications
          None

ASSUME ConstantsAssumption ==
    /\ Monitors \subseteq Nat /\ None \notin Monitors
    /\ None \notin Stoppers \cup {"queue", "start", "restart", "pause"}
    /\ Stoppers \cap {"queue", "start", "restart", "pause"} = {}

VARIABLES
    cstate,         \* c.State: stopped, running, paused or restarting (and Running)
    cLock, client,  \* holders of the container's and of the client's lock
    proc,           \* the container's process and whether libcontainerd lists it:
                    \* up or frozen, down, up but not listed (stray), or listed
                    \* without a process (ghost)
    canceled,       \* libcontainerd's restart manager: ExitOnNext was called
    adrift,         \* ... and the container has another one by now
    timer,          \* automatic restarts that wait for their back-off
    queue,          \* notifications on their way to StateChanged
    stop,           \* Health.stop
    mon, probe,     \* the monitors and their probe goroutines
    probeRun,       \* history: the run of the container a probe was begun in
    status, streak, \* Health.Status and Health.FailingStreak
    evidence,       \* history: the runs whose probes are counted in them
    pc, cont, ch,   \* callers: where they are, where CloseMonitorChannel
                    \* returns to, and the channel it is about to send on
    run, probes, notes,  \* what the bounds count
    since           \* history: the last run whose start went through

Actors == {"queue", "start", "restart", "pause"} \cup Stoppers

health == <<status, streak, evidence>>
manager == <<canceled, adrift>>
runs == <<run, since>>
container == <<cstate, cLock, client, proc, manager, timer, queue, runs, notes>>
monitors == <<stop, mon, probe, probeRun, probes>>
callers == <<pc, cont, ch>>
vars == <<container, monitors, health, callers>>

TypeOK ==
    /\ cstate \in {"stopped", "running", "paused", "restarting"}
    /\ cLock \in Actors \cup {None} /\ client \in Actors \cup {None}
    /\ proc \in {"down", "up", "frozen", "stray", "ghost"}
    /\ {canceled, adrift} \subseteq BOOLEAN /\ timer \in 0..MaxRuns
    /\ queue \in Seq({"exit", "restart", "oom", "pause", "resume"})
    /\ stop \in Monitors \cup {None}
    /\ mon \in [Monitors -> {"unborn", "idle", "probing", "passed", "failed",
                             "expired", "draining", "gone"}]
    /\ probe \in [Monitors -> {"none", "lookup", "adding", "running", "offering"}]
    /\ status \in {"none", "starting", "healthy", "unhealthy"}
    /\ streak \in 0..MaxProbes
    /\ evidence \subseteq 0..MaxRuns /\ probeRun \in [Monitors -> 0..MaxRuns]
    /\ pc \in [Actors -> {"idle", "check", "load", "send", "clear", "reset", "update",
                          "signal", "deliver", "wait", "end"}]
    /\ cont \in [Actors -> {"end", "reset", "signal"}]
    /\ ch \in [Actors -> Monitors \cup {None}]
    /\ run \in 0..MaxRuns /\ since \in 0..run
    /\ probes \in 0..MaxProbes /\ notes \in 0..MaxNotes

\* A created container with a health check.
Init ==
    /\ cstate = "stopped" /\ cLock = None /\ client = None
    /\ proc = "down" /\ canceled = FALSE /\ adrift = FALSE /\ timer = 0 /\ queue = << >>
    /\ stop = None
    /\ mon = [k \in Monitors |-> "unborn"]
    /\ probe = [k \in Monitors |-> "none"]
    /\ probeRun = [k \in Monitors |-> 0]
    /\ status = "none" /\ streak = 0 /\ evidence = {}
    /\ pc = [a \in Actors |-> "idle"]
    /\ cont = [a \in Actors |-> "end"]
    /\ ch = [a \in Actors |-> None]
    /\ run = 0 /\ since = 0 /\ probes = 0 /\ notes = 0

-----------------------------------------------------------------------------
(* The monitor goroutine and its probe                                      *)

Live(k) == mon[k] \notin {"unborn", "gone"}

\* time.After(probeInterval): a probe goroutine is started.
Tick(k) ==
    /\ mon[k] = "idle" /\ probes < MaxProbes
    /\ mon' = [mon EXCEPT ![k] = "probing"]
    /\ probe' = [probe EXCEPT ![k] = "lookup"]
    /\ probeRun' = [probeRun EXCEPT ![k] = run]
    /\ probes' = probes + 1
    /\ UNCHANGED <<container, stop, health, callers>>

\* probe.run -> ContainerExecStart -> getExecConfig looks at the container's
\* state under its lock; an error is a result too.
ProbeLookup(k) ==
    /\ probe[k] = "lookup" /\ cLock = None
    /\ probe' = [probe EXCEPT ![k] = IF cstate = "running" THEN "adding" ELSE "offering"]
    /\ UNCHANGED <<container, stop, mon, probeRun, probes, health, callers>>

\* AddProcess, under the client's lock, and then the end of the probe process.
ProbeRuns(k) ==
    /\ \/ probe[k] = "adding" /\ client = None /\ probe' = [probe EXCEPT ![k] = "running"]
       \/ probe[k] = "running" /\ probe' = [probe EXCEPT ![k] = "offering"]
    /\ UNCHANGED <<container, stop, mon, probeRun, probes, health, callers>>

\* case result := <-results, case <-ctx.Done(), and the <-results after it.
Receive(k) ==
    /\ \/ /\ mon[k] = "probing" /\ probe[k] = "offering"
          /\ \E r \in {"passed", "failed"} : mon' = [mon EXCEPT ![k] = r]
          /\ probe' = [probe EXCEPT ![k] = "none"]
       \/ /\ mon[k] = "probing"
          /\ mon' = [mon EXCEPT ![k] = "expired"]
          /\ UNCHANGED probe
       \/ /\ mon[k] = "draining" /\ probe[k] = "offering"
          /\ mon' = [mon EXCEPT ![k] = "idle"]
          /\ probe' = [probe EXCEPT ![k] = "none"]
    /\ UNCHANGED <<container, stop, probeRun, probes, health, callers>>

\* handleProbeResult, under the container's lock.
handleProbeResult(k) ==
    /\ mon[k] \in {"passed", "failed", "expired"} /\ cLock = None
    /\ evidence' = evidence \cup {probeRun[k]}
    /\ streak' = IF mon[k] = "passed" THEN 0 ELSE streak + 1
    /\ status' = IF mon[k] = "passed" THEN "healthy"
                 ELSE IF streak + 1 >= Retries THEN "unhealthy" ELSE status
    /\ mon' = [mon EXCEPT ![k] = IF mon[k] = "expired" THEN "draining" ELSE "idle"]
    /\ UNCHANGED <<container, stop, probe, probeRun, probes, callers>>

-----------------------------------------------------------------------------
(* CloseMonitorChannel and OpenMonitorChannel, for any caller               *)

Goto(a, l) == pc' = [pc EXCEPT ![a] = l]

\* if s.stop != nil
CheckStop(a) ==
    /\ pc[a] = "check"
    /\ Goto(a, IF stop = None THEN cont[a] ELSE "load")
    /\ UNCHANGED <<container, monitors, health, cont, ch>>

\* s.stop is read again for the send; if it is nil by now the send blocks
\* for ever.
LoadStop(a) ==
    /\ pc[a] = "load"
    /\ ch' = [ch EXCEPT ![a] = stop]
    /\ Goto(a, "send")
    /\ UNCHANGED <<container, monitors, health, cont>>

\* s.stop <- struct{}{}: the monitor listens while idle and while probing.
SendStop(a) ==
    /\ pc[a] = "send" /\ ch[a] # None /\ mon[ch[a]] \in {"idle", "probing"}
    /\ mon' = [mon EXCEPT ![ch[a]] = "gone"]
    /\ Goto(a, "clear")
    /\ UNCHANGED <<container, stop, probe, probeRun, probes, health, cont, ch>>

\* s.stop = nil
ClearStop(a) ==
    /\ pc[a] = "clear"
    /\ stop' = None
    /\ ch' = [ch EXCEPT ![a] = None]
    /\ Goto(a, cont[a])
    /\ UNCHANGED <<container, mon, probe, probeRun, probes, health, cont>>

\* Mutant of CloseMonitorChannel: the channel is forgotten, as a close(s.stop)
\* that does not wait for the monitor would.
CloseNoWait(a) ==
    \/ CheckStop(a) \/ LoadStop(a) \/ ClearStop(a)
    \/ /\ pc[a] = "send"
       /\ Goto(a, "clear")
       /\ UNCHANGED <<container, monitors, health, cont, ch>>

CloseMonitorChannel(a) == CheckStop(a) \/ LoadStop(a) \/ SendStop(a) \/ ClearStop(a)

\* The next goroutine to be started.
Fresh(k) == mon[k] = "unborn" /\ \A j \in Monitors : mon[j] = "unborn" => k <= j

\* Mutant of OpenMonitorChannel: an existing channel is replaced.
OpenAnyway ==
    \E k \in Monitors : Fresh(k) /\ stop' = k /\ mon' = [mon EXCEPT ![k] = "idle"]

\* OpenMonitorChannel, and go monitor(...) if it made a channel.
OpenMonitorChannel ==
    \/ stop # None /\ UNCHANGED <<stop, mon>>
    \/ /\ stop = None
       /\ \E k \in Monitors :
            Fresh(k) /\ stop' = k /\ mon' = [mon EXCEPT ![k] = "idle"]

\* updateHealthMonitor in container state c: open and be done, or close.
updateHealthMonitor(a, c) ==
    IF c \in {"running", "restarting"}
    THEN /\ OpenMonitorChannel
         /\ Goto(a, "end") /\ UNCHANGED cont
    ELSE /\ Goto(a, "check") /\ cont' = [cont EXCEPT ![a] = "end"]
         /\ UNCHANGED <<stop, mon>>

-----------------------------------------------------------------------------
(* StateChanged, called by the event queue one notification at a time       *)

Deliver(e) == pc["queue"] = "idle" /\ queue # << >> /\ Head(queue) = e

\* StateExit: the lock is kept until the monitor is stopped.
StateExit ==
    /\ Deliver("exit") /\ cLock = None
    /\ cLock' = "queue" /\ cstate' = "stopped"
    /\ updateHealthMonitor("queue", "stopped")
    /\ UNCHANGED <<client, proc, manager, timer, queue, runs, notes, probe, probeRun, probes, health, ch>>

\* StateRestart: the container is Restarting and Running, so the monitor stays.
StateRestart ==
    /\ Deliver("restart") /\ cLock = None
    /\ cLock' = "queue" /\ cstate' = "restarting"
    /\ updateHealthMonitor("queue", "restarting")
    /\ UNCHANGED <<client, proc, manager, timer, queue, runs, notes, probe, probeRun, probes, health, ch>>

\* StateOOM: without the container's lock.
StateOOM ==
    /\ Deliver("oom")
    /\ updateHealthMonitor("queue", cstate)
    /\ UNCHANGED <<container, probe, probeRun, probes, health, ch>>

\* StatePause and StateResume: ContainerPause holds the lock for them.
StatePause ==
    /\ Deliver("pause")
    /\ cstate' = "paused"
    /\ updateHealthMonitor("queue", "paused")
    /\ UNCHANGED <<cLock, client, proc, manager, timer, queue, runs, notes, probe, probeRun, probes, health, ch>>

StateResume ==
    /\ Deliver("resume")
    /\ cstate' = "running"
    /\ updateHealthMonitor("queue", "running")
    /\ UNCHANGED <<cLock, client, proc, manager, timer, queue, runs, notes, probe, probeRun, probes, health, ch>>

\* StateChanged returns.  The queue goes on: a restart waits for its back-off, and
\* whoever asked for a pause or resume is told.
StateDone ==
    /\ pc["queue"] = "end"
    /\ queue' = Tail(queue)
    /\ IF Head(queue) \in {"pause", "resume"}
       THEN pc' = [pc EXCEPT !["queue"] = "idle", !["pause"] = "end"]
       ELSE Goto("queue", "idle")
    /\ timer' = IF Head(queue) = "restart" THEN timer + 1 ELSE timer
    /\ cLock' = IF cLock = "queue" THEN None ELSE cLock
    /\ UNCHANGED <<cstate, client, proc, manager, runs, notes, monitors, health, cont, ch>>

StateChanged == StateExit \/ StateRestart \/ StateOOM \/ StatePause \/ StateResume \/ StateDone

-----------------------------------------------------------------------------
(* The process, as containerd reports it (handleEvent)                      *)

Report(e) == queue' = Append(queue, e)

\* The process ends.  Unless it was canceled the restart policy may want it back.
\* An event of a container that is not listed is dropped.
ProcessExits ==
    /\ proc' = "down"
    /\ \/ proc = "up" /\ client = None /\ Report("exit")
       \/ proc = "up" /\ client = None /\ ~canceled /\ run < MaxRuns /\ Report("restart")
       \/ proc = "stray" /\ UNCHANGED queue
    /\ UNCHANGED <<cstate, cLock, client, manager, timer, runs, notes, monitors, health, callers>>

OutOfMemory ==
    /\ proc = "up" /\ client = None /\ notes < MaxNotes
    /\ Report("oom") /\ notes' = notes + 1
    /\ UNCHANGED <<cstate, cLock, client, proc, manager, timer, runs, monitors, health, callers>>

-----------------------------------------------------------------------------
(* Starting: StateStart and initHealthMonitor                               *)

\* A process is created and SetRunning called ...
SetRunning ==
    /\ proc' = "up" /\ run' = run + 1 /\ cstate' = "running"

\* ... and, if ToDisk succeeds, initHealthMonitor comes next.
StateStart(a) ==
    /\ SetRunning /\ since' = run + 1
    /\ client = None /\ client' = a
    /\ Goto(a, "check") /\ cont' = [cont EXCEPT ![a] = "reset"]

\* ContainerStart, holding the container's lock, with a new restart manager.
ContainerStart ==
    /\ pc["start"] = "idle" /\ cLock = None /\ cstate = "stopped"
    /\ proc = "down" /\ run < MaxRuns
    /\ cLock' = "start" /\ canceled' = FALSE /\ adrift' = FALSE
    /\ StateStart("start")
    /\ UNCHANGED <<timer, queue, notes, monitors, health, ch>>

\* ToDisk fails: the process runs, but Create takes the container off its list,
\* and the health check is left as the last run left it.
StartUnsaved ==
    /\ "todisk" \in Faults
    /\ pc["start"] = "idle" /\ cLock = None /\ client = None /\ cstate = "stopped"
    /\ proc = "down" /\ run < MaxRuns
    /\ proc' = "stray" /\ run' = run + 1 /\ cstate' = "running"
    /\ canceled' = FALSE /\ adrift' = FALSE
    /\ UNCHANGED <<cLock, client, since, timer, queue, notes, monitors, health, callers>>

\* Create fails, always so for a container that libcontainerd lists or containerd
\* runs; the new restart manager is not the one of the process that runs.
StartFails ==
    /\ "create" \in Faults \/ proc # "down"
    /\ pc["start"] = "idle" /\ cLock = None /\ client = None /\ cstate = "stopped"
    /\ adrift' = TRUE
    /\ UNCHANGED <<cstate, cLock, client, proc, canceled, timer, queue, runs, notes,
                   monitors, health, callers>>

\* The goroutine of handleEvent after the back-off: without that lock.
AutoRestart ==
    /\ timer > 0 /\ pc["restart"] = "idle"
    /\ proc = "down" /\ run < MaxRuns
    /\ timer' = timer - 1
    /\ StateStart("restart")
    /\ UNCHANGED <<cLock, manager, queue, notes, monitors, health, ch>>

\* ctr.start lists the container first; an error after that leaves it listed.
List == CASE proc = "down" -> "ghost" [] proc = "stray" -> "up" [] OTHER -> proc

\* An error of the restart is reported as an exit: the back-off was canceled,
\* ctr.start fails before there is a process, or ToDisk fails when it runs.  A
\* bundle that cannot be read is no error: nothing starts, nothing is reported.
RestartFails ==
    /\ timer > 0 /\ client = None
    /\ timer' = timer - 1
    /\ \/ canceled /\ Report("exit") /\ UNCHANGED <<proc, cstate, run>>
       \/ /\ "create" \in Faults \/ proc # "down"
          /\ proc' \in {proc, List} /\ Report("exit") /\ UNCHANGED <<cstate, run>>
       \/ /\ "todisk" \in Faults /\ proc = "down" /\ run < MaxRuns
          /\ SetRunning /\ Report("exit")
       \/ "create" \in Faults /\ UNCHANGED <<queue, proc, cstate, run>>
    /\ UNCHANGED <<cLock, client, manager, since, notes, monitors, health, callers>>

\* Mutant of ResetHealth: the state of the last run is kept.
ResetNothing(a) ==
    /\ pc[a] = "reset" /\ Goto(a, "update")
    /\ UNCHANGED <<container, monitors, health, cont, ch>>

\* initHealthMonitor: the state is reset ...
ResetHealth(a) ==
    /\ pc[a] = "reset" /\ Goto(a, "update")
    /\ status' = "starting" /\ streak' = 0 /\ evidence' = {}
    /\ UNCHANGED <<container, monitors, cont, ch>>

\* ... and updateHealthMonitor opens a monitor.
InitUpdate(a) ==
    /\ pc[a] = "update"
    /\ updateHealthMonitor(a, cstate)
    /\ UNCHANGED <<container, probe, probeRun, probes, health, ch>>

\* The start returns and releases what it holds.
StartDone(a) ==
    /\ pc[a] = "end" /\ Goto(a, "idle")
    /\ client' = None
    /\ cLock' = IF cLock = a THEN None ELSE cLock
    /\ UNCHANGED <<cstate, proc, manager, timer, queue, runs, notes, monitors, health, cont, ch>>

-----------------------------------------------------------------------------
(* Pausing: the lock is held until the notification has been handled        *)

containerPause ==
    /\ pc["pause"] = "idle" /\ cLock = None /\ client = None
    /\ \/ /\ cstate = "running" /\ proc = "up" /\ notes < MaxNotes
          /\ proc' = "frozen" /\ Report("pause") /\ notes' = notes + 1
       \/ /\ cstate = "paused" /\ proc = "frozen"
          /\ proc' = "up" /\ Report("resume") /\ UNCHANGED notes
    /\ cLock' = "pause" /\ Goto("pause", "wait")
    /\ UNCHANGED <<cstate, client, manager, timer, runs, monitors, health, cont, ch>>

PauseDone ==
    /\ pc["pause"] = "end"
    /\ cLock' = None /\ Goto("pause", "idle")
    /\ UNCHANGED <<cstate, client, proc, manager, timer, queue, runs, notes, monitors, health, cont, ch>>

-----------------------------------------------------------------------------
(* containerStop                                                            *)

\* IsRunning, and stopHealthchecks without the lock.
containerStop(p) ==
    /\ pc[p] = "idle" /\ cLock = None /\ cstate # "stopped"
    /\ Goto(p, "check") /\ cont' = [cont EXCEPT ![p] = "signal"]
    /\ UNCHANGED <<container, monitors, health, ch>>

\* killWithSignal under the lock: for a container that is paused, or not running
\* any more, the stop fails; one that restarts is only kept from doing so again.
killWithSignal(p) ==
    /\ pc[p] = "signal" /\ cLock = None
    /\ canceled' = (canceled \/ (~adrift /\ cstate \in {"running", "restarting"}))
    /\ IF cstate = "running"
       THEN cLock' = p /\ Goto(p, "deliver")
       ELSE Goto(p, IF cstate = "restarting" THEN "wait" ELSE "idle") /\ UNCHANGED cLock
    /\ UNCHANGED <<cstate, client, proc, adrift, timer, queue, runs, notes, monitors, health, cont, ch>>

\* The signal is sent under the client's lock.
DeliverSignal(p) ==
    /\ pc[p] = "deliver" /\ client = None
    /\ cLock' = None /\ Goto(p, "wait")
    /\ UNCHANGED <<cstate, client, proc, manager, timer, queue, runs, notes, monitors, health, cont, ch>>

\* WaitStop; after its timeout SIGKILL ends a process started in between.
StopDone(p) ==
    /\ pc[p] = "wait" /\ cstate = "stopped"
    /\ Goto(p, "idle")
    /\ UNCHANGED <<container, monitors, health, cont, ch>>

-----------------------------------------------------------------------------
Monitor(k) ==
    Tick(k) \/ ProbeLookup(k) \/ ProbeRuns(k) \/ Receive(k) \/ handleProbeResult(k)

initHealthMonitor(a) == ResetHealth(a) \/ InitUpdate(a) \/ StartDone(a)

Next ==
    \/ \E k \in Monitors : Monitor(k)
    \/ \E a \in Actors : CloseMonitorChannel(a)
    \/ StateChanged
    \/ ProcessExits \/ OutOfMemory
    \/ ContainerStart \/ StartUnsaved \/ StartFails \/ AutoRestart \/ RestartFails
    \/ \E a \in {"start", "restart"} : initHealthMonitor(a)
    \/ containerPause \/ PauseDone
    \/ \E p \in Stoppers : containerStop(p) \/ killWithSignal(p) \/ DeliverSignal(p) \/ StopDone(p)

Spec == Init /\ [][Next]_vars

(* Every goroutine that can go on does; probes end and time out; a process whose
   container is being stopped ends, at the latest by SIGKILL.  Nobody has to
   start, pause or stop a container.                                          *)
FairSpec ==
    /\ Spec
    /\ \A k \in Monitors :
          /\ SF_vars(ProbeLookup(k)) /\ SF_vars(ProbeRuns(k))
          /\ WF_vars(Receive(k)) /\ SF_vars(handleProbeResult(k))
    /\ \A a \in Actors : SF_vars(CloseMonitorChannel(a))
    /\ SF_vars(StateChanged)
    /\ SF_vars(AutoRestart \/ RestartFails)
    /\ \A a \in {"start", "restart"} : WF_vars(initHealthMonitor(a))
    /\ WF_vars(PauseDone)
    /\ SF_vars(canceled /\ ProcessExits)
    /\ \A p \in Stoppers :
          SF_vars(killWithSignal(p)) /\ SF_vars(DeliverSignal(p)) /\ WF_vars(StopDone(p))

-----------------------------------------------------------------------------
(* Properties                                                               *)

\* "There is never more than one monitor thread running per container at a
\* time" (daemon/health.go): a monitor that runs is the one whose channel is in
\* Health.stop, although Health.stop is written with and without the
\* container's lock.
OneMonitor == \A k \in Monitors : Live(k) => stop = k

\* The status and failing streak count only probes begun since the last start that
\* went through: a result of an earlier run, still on its way when the container
\* was restarted, is never added to them.  Only a start whose ToDisk fails leaves
\* the state, and on a restart the monitor too, as the run before left them.
ResultsOfThisRun ==
    (\A a \in {"start", "restart"} : pc[a] \notin {"check", "load", "send", "clear", "reset"})
        => evidence \subseteq since..run

\* A container that is paused or stopped is not probed, once StateChanged has
\* returned.
NoMonitorAtRest ==
    pc["queue"] = "idle" /\ cstate \in {"stopped", "paused"} => \A k \in Monitors : ~Live(k)

\* "If the container is not running Stop returns immediately", and otherwise
\* after the process has exited (daemon/stop.go): a stop returns.
StopReturns == \A p \in Stoppers : (pc[p] = "check") ~> (pc[p] = "idle")

\* "Called with c locked" (initHealthMonitor) and "Container is already locked
\* in this case" (StateChanged): whoever resets the health state holds the lock.
InitIsLocked == \A a \in {"start", "restart"} : pc[a] \in {"reset", "update"} => cLock = a
=============================================================================
