-------------------------- MODULE ContainerLifecycle --------------------------
(***************************************************************************)
(* One container from start to removal: its State (container/state.go),    *)
(* the API calls on it (daemon/start.go, stop.go, kill.go, restart.go,     *)
(* pause.go, unpause.go, delete.go, wait.go), its restart manager          *)
(* (restartmanager), and the way of containerd's events through            *)
(* libcontainerd's handleEvent and queue to StateChanged                   *)
(* (daemon/monitor.go).                                                    *)
(*                                                                         *)
(* A section that holds the container's lock and waits for nothing is one  *)
(* step; only a pause keeps the lock (cLock) over several steps.           *)
(*                                                                         *)
(* The container has no health check (Config.Healthcheck is nil), so that  *)
(* initHealthMonitor and updateHealthMonitor return at once                *)
(* (daemon/health.go).  With one, every StateChanged can block for ever on *)
(* the monitor's stop channel: that is HealthMonitor's subject.            *)
(***************************************************************************)
EXTENDS Integers, Sequences

CONSTANTS Callers,   \* API clients
          Ops,       \* the calls they make
          Policy,    \* restart policy: "no", "always" or "on-failure"
          Codes,     \* exit codes of the process
          MaxRetry,  \* MaximumRetryCount, 0 for no limit
          Faults,    \* errors that may happen: "create", "spec", "todisk", "remove"
          Prompt,    \* whether notifications are handled within two seconds
          MaxRuns,   \* bound: processes started
          None

AllOps ==
    {"start", "stop", "stopneg", "restart", "kill", "rm", "rmf", "wait", "pause", "unpause"}

ASSUME ConstantsAssumption ==
    /\ Ops \subseteq AllOps
    /\ Policy \in {"no", "always", "on-failure"} /\ MaxRetry \in Nat
    /\ Prompt \in BOOLEAN /\ 0 \in Codes /\ Codes \subseteq Nat
    /\ None \notin Callers

VARIABLES
    running, paused, restarting, removing, dead, exitCode,   \* State
    waitChan,       \* State.waitChan: the number of channels closed so far
    cLock,          \* a caller that keeps the container locked, or None
    registered,     \* the container is in daemon.containers
    listed,         \* the container is in the libcontainerd client's map
    proc,           \* the process: none, up or frozen
    killed,         \* SIGKILL is on its way to it
    events,         \* events of containerd, not handled yet
    queue,          \* notifications on their way to StateChanged
    count, canceled,     \* restartManager
    timer,          \* its back-off: none, armed, fired or canceled
    lastExit,       \* the exit code that led to the restart
    call,           \* the callers' activations
    runs,
    closedWith,     \* history: the exit code each waitChan was closed with
    stopped         \* history: a stop of the present run has returned

State == <<running, paused, restarting, removing, dead, exitCode, waitChan, closedWith>>
containerd == <<proc, killed, events, runs>>
manager == <<count, canceled, timer, lastExit>>
client == <<containerd, listed, queue, manager>>
vars == <<State, cLock, registered, client, call, stopped>>

FailCode == 128

Idle == [op |-> "none", at |-> "idle", w |-> "none", gen |-> 0, first |-> FALSE]

Notes == [kind : {"exit", "restart", "pause", "resume"}, code : Codes]

TypeOK ==
    /\ {running, paused, restarting, removing, dead, registered, listed, killed,
        canceled, stopped} \subseteq BOOLEAN
    /\ exitCode \in Codes \cup {FailCode}
    /\ waitChan \in Nat /\ closedWith \in Seq(Codes) /\ Len(closedWith) = waitChan
    /\ cLock \in Callers \cup {None}
    /\ proc \in {"none", "up", "frozen"}
    /\ events \in Seq(Notes) /\ queue \in Seq(Notes)
    /\ count \in 0..MaxRuns /\ runs \in 0..MaxRuns
    /\ timer \in {"none", "armed", "fired", "canceled"} /\ lastExit \in Codes
    /\ call \in [Callers -> [op : AllOps \cup {"none"},
                             at : {"idle", "start", "stop", "term", "force", "kill",
                                   "sigkill", "unsent", "still", "direct", "enter",
                                   "in", "pausing", "paused", "check", "cleanup",
                                   "dead", "delete", "failed"},
                             w : {"none", "stop", "two", "ten", "ever"},
                             gen : 0..waitChan, first : BOOLEAN]]
    /\ paused => running

\* A created container.
Init ==
    /\ running = FALSE /\ paused = FALSE /\ restarting = FALSE
    /\ removing = FALSE /\ dead = FALSE
    /\ exitCode = 0 /\ waitChan = 0 /\ closedWith = << >>
    /\ cLock = None /\ registered = TRUE /\ listed = FALSE
    /\ proc = "none" /\ killed = FALSE /\ events = << >> /\ queue = << >>
    /\ count = 0 /\ canceled = FALSE /\ timer = "none" /\ lastExit = 0 /\ runs = 0
    /\ call = [p \in Callers |-> Idle]
    /\ stopped = FALSE

-----------------------------------------------------------------------------
(* State                                                                    *)

\* SetRunning
SetRunning ==
    /\ running' = TRUE /\ paused' = FALSE /\ restarting' = FALSE /\ exitCode' = 0
    /\ UNCHANGED <<removing, dead, waitChan, closedWith>>

\* Mutant of FireWaiters: the waiters are not woken.
FireNobody(code) == UNCHANGED <<waitChan, closedWith>>

\* close(s.waitChan); s.waitChan = make(chan struct{})
FireWaiters(code) ==
    /\ waitChan' = waitChan + 1
    /\ closedWith' = Append(closedWith, code)

\* SetStopped
SetStopped(code) ==
    /\ running' = FALSE /\ paused' = FALSE /\ restarting' = FALSE /\ exitCode' = code
    /\ FireWaiters(code)
    /\ UNCHANGED <<removing, dead>>

\* Mutant of SetRestarting: the container does not count as running.
SetNotRunning(code) ==
    /\ running' = FALSE /\ restarting' = TRUE /\ exitCode' = code
    /\ FireWaiters(code)
    /\ UNCHANGED <<paused, removing, dead>>

\* SetRestarting: the container still counts as running.
SetRestarting(code) ==
    /\ running' = TRUE /\ restarting' = TRUE /\ exitCode' = code
    /\ FireWaiters(code)
    /\ UNCHANGED <<paused, removing, dead>>

-----------------------------------------------------------------------------
(* containerd                                                               *)

\* The process ends, by itself or by a signal, and containerd says so.
ProcessEnds ==
    /\ proc = "up"
    /\ proc' = "none" /\ killed' = FALSE
    /\ \E code \in Codes : events' = Append(events, [kind |-> "exit", code |-> code])
    /\ UNCHANGED <<State, cLock, registered, runs, listed, queue, manager, call,
                   stopped>>

-----------------------------------------------------------------------------
(* libcontainerd and the restart manager                                    *)

\* ShouldRestart, after its error returns.  The bound on runs cuts the loop of
\* an "always" policy.
ShouldRestart(code) ==
    /\ ~canceled /\ runs < MaxRuns
    /\ \/ Policy = "always"
       \/ Policy = "on-failure" /\ code # 0 /\ (MaxRetry = 0 \/ count < MaxRetry)

\* handleEventStream and handleEvent: an event of a container the client does
\* not list is dropped; an exit is turned into a restart if the manager says so.
handleEvent ==
    LET e == Head(events)
        again == e.kind = "exit" /\ ShouldRestart(e.code)
    IN  /\ events # << >>
        /\ events' = Tail(events)
        /\ IF listed
           THEN /\ queue' = Append(queue, IF again THEN [e EXCEPT !.kind = "restart"] ELSE e)
                /\ listed' = (e.kind # "exit")
                /\ count' = IF again THEN count + 1 ELSE count
                /\ timer' = IF again THEN "armed" ELSE timer
                /\ lastExit' = IF again THEN e.code ELSE lastExit
           ELSE UNCHANGED <<listed, queue, count, timer, lastExit>>
        /\ UNCHANGED <<State, cLock, registered, proc, killed, runs, canceled, call,
                       stopped>>

\* The goroutine of ShouldRestart: select on the cancel channel and the back-off.
Elapses ==
    \/ timer' = IF timer = "armed" THEN "fired" ELSE timer
    \/ timer = "armed" /\ canceled /\ timer' = "canceled"

BackOff ==
    /\ timer = "armed" /\ Elapses
    /\ UNCHANGED <<State, cLock, registered, containerd, listed, queue, count, canceled,
                   lastExit, call, stopped>>

\* The goroutine of handleEvent, once StateChanged(StateRestart) has returned.
Restarter == \A i \in 1..Len(queue) : queue[i].kind # "restart"

\* st, the notification of the exit that led to the restart, as an exit.
Exited == [kind |-> "exit", code |-> lastExit]

\* Mutant of AutoRestart: a failed restart is not reported.
RestartSilently ==
    /\ timer = "fired" /\ Restarter
    /\ timer' = "none"
    /\ listed' = TRUE
    /\ \/ /\ SetRunning
          /\ proc' = "up" /\ runs' = runs + 1 /\ UNCHANGED queue
       \/ /\ "create" \in Faults
          /\ UNCHANGED <<State, proc, runs, queue>>
    /\ UNCHANGED <<cLock, registered, killed, events, count, canceled, lastExit, call,
                   stopped>>

\* ctr.start: list the container, create the process, StateChanged(StateStart)
\* without the container's lock.  An error of either is reported as an exit; that
\* of reading the bundle's configuration ("spec") is dropped.
AutoRestart ==
    /\ timer = "fired" /\ Restarter
    /\ timer' = "none"
    /\ \/ /\ listed' = TRUE /\ proc' = "up" /\ runs' = runs + 1
          /\ \/ registered /\ SetRunning /\ UNCHANGED queue
             \/ /\ registered /\ "todisk" \in Faults
                /\ SetRunning /\ queue' = Append(queue, Exited)
             \/ ~registered /\ queue' = Append(queue, Exited) /\ UNCHANGED State
       \/ /\ "create" \in Faults
          /\ listed' = TRUE
          /\ queue' = Append(queue, Exited)
          /\ UNCHANGED <<State, proc, runs>>
       \/ "spec" \in Faults /\ UNCHANGED <<State, proc, runs, listed, queue>>
    /\ UNCHANGED <<cLock, registered, killed, events, count, canceled, lastExit, call,
                   stopped>>

\* The back-off was canceled: the exit is reported after all.
RestartCanceled ==
    /\ timer = "canceled" /\ Restarter
    /\ timer' = "none"
    /\ queue' = Append(queue, Exited)
    /\ UNCHANGED <<State, cLock, registered, containerd, listed, count, canceled,
                   lastExit, call, stopped>>

-----------------------------------------------------------------------------
(* StateChanged, called for one notification of the queue after the other   *)

\* An exit or a restart, under the container's lock.
StateExit ==
    LET n == Head(queue)
    IN  /\ queue # << >> /\ n.kind \in {"exit", "restart"}
        /\ ~registered \/ cLock = None
        /\ queue' = Tail(queue)
        /\ IF ~registered THEN UNCHANGED State
           ELSE IF n.kind = "exit" THEN SetStopped(n.code) ELSE SetRestarting(n.code)
        /\ UNCHANGED <<cLock, registered, containerd, listed, manager, call, stopped>>

\* Mutant of StatePause: the lock is taken, as for an exit.
PauseLocks ==
    LET n == Head(queue)
    IN  /\ queue # << >> /\ n.kind \in {"pause", "resume"}
        /\ cLock = None
        /\ queue' = Tail(queue)
        /\ paused' = (n.kind = "pause")
        /\ UNCHANGED <<running, restarting, removing, dead, exitCode, waitChan,
                       closedWith, cLock, registered, containerd, listed, manager, call,
                       stopped>>

\* A pause or resume: the caller that waits for it has the lock, is told by
\* pauseMonitor.handle and returns.  (updateHealthMonitor: no health check.)
StatePause ==
    LET n == Head(queue)
    IN  /\ queue # << >> /\ n.kind \in {"pause", "resume"}
        /\ queue' = Tail(queue)
        /\ paused' = (n.kind = "pause")
        /\ cLock' = None /\ call' = [call EXCEPT ![cLock] = Idle]
        /\ UNCHANGED <<running, restarting, removing, dead, exitCode, waitChan,
                       closedWith, registered, containerd, listed, manager, stopped>>

-----------------------------------------------------------------------------
(* Where a caller goes on: functions from its activation to the next one     *)

To(c, l) == [c EXCEPT !.at = l, !.w = "none", !.gen = 0]
WaitFor(c, w) == [c EXCEPT !.at = "enter", !.w = w, !.gen = 0]

\* containerStop has succeeded, or failed.
StopOk(c) ==
    CASE c.op = "restart" -> To(c, "start")
      [] c.op \in {"rm", "rmf"} -> To(c, "dead")
      [] OTHER -> Idle

\* Kill has succeeded, or failed; containerStop waits if its Kill fails.
KillOk(c) ==
    CASE c.op \in {"kill", "wait"} -> Idle
      [] c.first -> To([c EXCEPT !.first = FALSE], "stop")
      [] OTHER -> StopOk(c)

KillFails(c) ==
    CASE c.op = "kill" -> Idle
      [] c.first -> To(c, "failed")
      [] OTHER -> WaitFor(c, "ever")

\* A removal that fails has to take back RemovalInProgress.
StopFails(c) == IF c.op \in {"rm", "rmf"} THEN To(c, "failed") ELSE Idle

\* What follows a wait that was woken, and one that timed out.
Woken(c) ==
    CASE c.w = "stop" -> StopOk(c)
      [] c.w = "two" -> To(c, "still")
      [] c.w = "ten" -> WaitFor(c, "ever")
      [] c.w = "ever" -> KillOk(c)

TimedOut(c) ==
    CASE c.w = "stop" -> To(c, "kill")
      [] c.w = "two" -> To(c, "still")
      [] c.w = "ten" -> To(c, "direct")

\* p goes on as c; a successful stop of the present run is remembered.
Goto(p, c) ==
    /\ call' = [call EXCEPT ![p] = c]
    /\ stopped' = (stopped \/ (canceled /\ c = Idle /\ call[p].op \in {"stop", "stopneg"}
                                /\ call[p].at \in {"enter", "in"}))

-----------------------------------------------------------------------------
(* The API calls                                                            *)

At(p, l) == call[p].at = l /\ cLock = None

\* GetContainer
Begin(p, o) ==
    /\ call[p] = Idle /\ registered
    /\ LET c == [Idle EXCEPT !.op = o]
       IN  Goto(p, CASE o \in {"start", "kill"} -> To(c, o)
                     [] o \in {"stop", "stopneg", "restart"} -> To(c, "stop")
                     [] o = "wait" -> WaitFor(c, "ever")
                     [] o \in {"rm", "rmf"} -> To(c, "check")
                     [] o \in {"pause", "unpause"} -> To(c, "pausing"))
    /\ UNCHANGED <<State, cLock, registered, client>>

\* Mutant of containerStart: a container being removed is started.
StartRemoved(p) ==
    /\ At(p, "start")
    /\ ~running /\ ~listed /\ runs < MaxRuns
    /\ SetRunning /\ proc' = "up" /\ runs' = runs + 1 /\ listed' = TRUE
    /\ canceled' = FALSE /\ count' = 0 /\ stopped' = FALSE
    /\ call' = [call EXCEPT ![p] = Idle]
    /\ UNCHANGED <<cLock, registered, killed, events, queue, timer, lastExit>>

\* containerStart: nothing to do, or not allowed.
StartRefused(p) ==
    /\ At(p, "start") /\ (running \/ removing \/ dead \/ runs = MaxRuns)
    /\ Goto(p, Idle)
    /\ UNCHANGED <<State, cLock, registered, client>>

\* containerStart with a new restart manager (the back-off of an earlier one can
\* no longer be canceled), libcontainerd's Create and StateChanged(StateStart); an
\* error of Create takes the container off the list, unless it is that the
\* container is listed already.  A listed container keeps its old manager; it has
\* a process, to which that matters, only after a failed save.
containerStart(p) ==
    /\ At(p, "start") /\ ~running /\ ~removing /\ ~dead /\ runs < MaxRuns
    /\ canceled' = FALSE /\ count' = 0 /\ Elapses
    /\ \/ /\ ~listed
          /\ SetRunning /\ proc' = "up" /\ runs' = runs + 1 /\ listed' = TRUE
          /\ call' = [call EXCEPT ![p] = Idle] /\ stopped' = FALSE
       \/ /\ ~listed /\ "todisk" \in Faults
          /\ running' = TRUE /\ paused' = FALSE /\ restarting' = FALSE /\ exitCode' = FailCode
          /\ proc' = "up" /\ runs' = runs + 1 /\ listed' = FALSE
          /\ call' = [call EXCEPT ![p] = Idle] /\ stopped' = FALSE
          /\ UNCHANGED <<removing, dead, waitChan, closedWith>>
       \/ /\ ~listed /\ "spec" \in Faults
          /\ call' = [call EXCEPT ![p] = Idle]
          /\ UNCHANGED <<State, proc, runs, listed, stopped>>
       \/ /\ listed \/ "create" \in Faults
          /\ exitCode' = IF exitCode = 0 THEN FailCode ELSE exitCode
          /\ call' = [call EXCEPT ![p] = Idle]
          /\ UNCHANGED <<running, paused, restarting, removing, dead, waitChan,
                         closedWith, proc, runs, listed, stopped>>
    /\ UNCHANGED <<cLock, registered, killed, events, queue, lastExit>>

\* IsRunning at the top of containerStop and Kill, after Kill's signal failed,
\* and two seconds later.
IsRunning(p) ==
    LET c == call[p]
    IN  /\ cLock = None
        /\ \/ /\ c.at = "stop"
              /\ Goto(p, IF running THEN To(c, "term") ELSE StopOk(c))
           \/ /\ c.at = "kill"
              /\ Goto(p, IF running THEN To(c, "sigkill") ELSE KillFails(c))
           \/ /\ c.at = "unsent"
              /\ Goto(p, WaitFor(c, IF running THEN "two" ELSE "ten"))
           \/ /\ c.at = "still"
              /\ Goto(p, IF running THEN KillFails(c) ELSE WaitFor(c, "ten"))
        /\ UNCHANGED <<State, cLock, registered, client>>

\* killWithSignal: an error if the container is paused or not running; otherwise
\* it will not be restarted, and unless it is just restarting the signal is sent.
killWithSignal(p) ==
    LET c == call[p]
        ok == running /\ ~paused
    IN  /\ c.at \in {"term", "force", "sigkill"} /\ cLock = None
        /\ canceled' = (canceled \/ ok)
        /\ killed' = (killed \/ (ok /\ ~restarting /\ proc = "up" /\ c.at # "term"))
        /\ Goto(p, CASE c.at = "term" -> IF ok THEN WaitFor(c, "stop") ELSE To(c, "force")
                     [] c.at = "force" -> IF ok THEN WaitFor(c, "stop") ELSE StopFails(c)
                     [] c.at = "sigkill" -> IF ok THEN WaitFor(c, "ten") ELSE To(c, "unsent"))
        /\ UNCHANGED <<State, cLock, registered, proc, events, runs, listed, queue,
                       count, timer, lastExit>>

\* WaitStop: return at once, or take the channel and wait.
WaitStop(p) ==
    /\ At(p, "enter")
    /\ IF running
       THEN /\ call' = [call EXCEPT ![p].at = "in", ![p].gen = waitChan]
            /\ UNCHANGED stopped
       ELSE Goto(p, Woken(call[p]))
    /\ UNCHANGED <<State, cLock, registered, client>>

\* The channel was closed; the exit code is read under the lock, taken anew.
Wake(p) ==
    /\ At(p, "in") /\ call[p].gen < waitChan
    /\ Goto(p, Woken(call[p]))
    /\ UNCHANGED <<State, cLock, registered, client>>

\* A stop may be given no time at all; the daemon's own timeouts are seconds, and
\* Prompt says whether they can elapse before the queue has been served.
TimeOut(p) ==
    /\ call[p].at = "in" /\ call[p].w # "ever" /\ call[p].op # "stopneg"
    /\ Prompt => (call[p].w = "stop" /\ call[p].op \notin {"rm", "rmf"})
                 \/ (queue = << >> /\ events = << >>)
    /\ Goto(p, TimedOut(call[p]))
    /\ UNCHANGED <<State, cLock, registered, client>>

\* killProcessDirectly after ten seconds: SIGKILL to the pid, if there is one.
killProcessDirectly(p) ==
    LET pid == running /\ ~restarting
    IN  /\ At(p, "direct")
        /\ killed' = (killed \/ (pid /\ proc # "none"))
        /\ Goto(p, IF pid /\ proc = "none" THEN KillOk(call[p]) ELSE WaitFor(call[p], "ever"))
        /\ UNCHANGED <<State, cLock, registered, proc, events, runs, listed, queue,
                       manager>>

\* containerPause and containerUnpause: the lock is kept until containerd's
\* event has been handled.
containerPause(p) ==
    LET pause == call[p].op = "pause"
        ok == /\ running /\ ~restarting /\ listed
              /\ IF pause THEN ~paused /\ proc = "up" ELSE paused /\ proc = "frozen"
    IN  /\ At(p, "pausing")
        /\ IF ok
           THEN /\ proc' = IF pause THEN "frozen" ELSE "up"
                /\ events' = Append(events, [kind |-> IF pause THEN "pause" ELSE "resume", code |-> 0])
                /\ cLock' = p /\ Goto(p, To(call[p], "paused"))
           ELSE Goto(p, Idle) /\ UNCHANGED <<cLock, proc, events>>
        /\ UNCHANGED <<State, registered, killed, runs, listed, queue, manager>>

\* Mutant of ContainerRm: RemovalInProgress is not set.
RmUnmarked(p) ==
    /\ At(p, "check")
    /\ Goto(p, IF removing \/ ~registered THEN Idle ELSE To(call[p], "cleanup"))
    /\ UNCHANGED <<State, cLock, registered, client>>

\* ContainerRm: SetRemovalInProgress, and is the container still there?
ContainerRm(p) ==
    /\ At(p, "check")
    /\ removing' = (removing \/ registered)
    /\ Goto(p, IF removing \/ ~registered THEN Idle ELSE To(call[p], "cleanup"))
    /\ UNCHANGED <<running, paused, restarting, dead, exitCode, waitChan, closedWith,
                   cLock, registered, client>>

\* cleanupContainer: a running container is killed if the removal is forced.
cleanupContainer(p) ==
    LET c == call[p]
    IN  /\ At(p, "cleanup")
        /\ Goto(p, IF ~running THEN To(c, "stop")
                   ELSE IF c.op = "rmf" THEN To([c EXCEPT !.first = TRUE], "kill")
                   ELSE To(c, "failed"))
        /\ UNCHANGED <<State, cLock, registered, client>>

SetDead(p) ==
    /\ At(p, "dead")
    /\ dead' = TRUE
    /\ Goto(p, To(call[p], "delete"))
    /\ UNCHANGED <<running, paused, restarting, removing, exitCode, waitChan,
                   closedWith, cLock, registered, client>>

\* Its files are removed and the container forgotten, even after an error if
\* the removal is forced; a removal that failed earlier comes here, too.
ResetRemovalInProgress(p) ==
    /\ \/ /\ At(p, "delete")
          /\ \/ registered' = FALSE
             \/ "remove" \in Faults /\ registered' = (call[p].op = "rm")
       \/ At(p, "failed") /\ UNCHANGED registered
    /\ removing' = FALSE
    /\ Goto(p, Idle)
    /\ UNCHANGED <<running, paused, restarting, dead, exitCode, waitChan, closedWith,
                   cLock, client>>

-----------------------------------------------------------------------------
CallerStep(p) ==
    \/ StartRefused(p) \/ containerStart(p)
    \/ IsRunning(p) \/ killWithSignal(p) \/ WaitStop(p) \/ Wake(p) \/ TimeOut(p)
    \/ killProcessDirectly(p)
    \/ containerPause(p)
    \/ ContainerRm(p) \/ cleanupContainer(p) \/ SetDead(p) \/ ResetRemovalInProgress(p)

DaemonStep ==
    handleEvent \/ StateExit \/ StatePause \/ BackOff \/ AutoRestart \/ RestartCanceled

Next ==
    \/ \E p \in Callers, o \in Ops : Begin(p, o)
    \/ \E p \in Callers : CallerStep(p)
    \/ DaemonStep
    \/ ProcessEnds

Spec == Init /\ [][Next]_vars

(* Goroutines that can go on do, locks are fair, timeouts elapse, and SIGKILL
   ends a process.  Nobody has to call anything.                             *)
FairSpec ==
    /\ Spec
    /\ \A p \in Callers : SF_vars(CallerStep(p))
    /\ WF_vars(handleEvent) /\ SF_vars(StateExit) /\ WF_vars(StatePause)
    /\ WF_vars(BackOff) /\ WF_vars(AutoRestart) /\ WF_vars(RestartCanceled)
    /\ WF_vars(killed /\ ProcessEnds)

-----------------------------------------------------------------------------
(* Properties                                                               *)

\* A container that has been removed has no process, and none on its way: no
\* restart, start or event that was under way when it was removed brings one back.
RemovedIsGone ==
    ~registered => proc = "none" /\ timer = "none" /\ queue = << >> /\ events = << >>

\* A container's process is created only when it has none: the automatic restart
\* and ContainerStart never both start one.
OneProcess == [][runs' # runs => proc = "none"]_vars

\* "Mark container dead. We don't want anybody to be restarting it"
\* (cleanupContainer): a dead container never gets a process.
DeadStaysDead == [][dead => runs' = runs]_vars

Quiet == events = << >> /\ queue = << >> /\ timer = "none"

\* When all events have been handled, the container's State says what its
\* process does.
StateIsTrue ==
    Quiet => /\ running = (proc # "none")
             /\ paused = (proc = "frozen")
             /\ ~restarting

\* Nobody sleeps on while the container is stopped: whoever waits in WaitStop and
\* finds the container stopped has a channel that was closed.
NoLostWakeup == \A p \in Callers : call[p].at = "in" /\ ~running => call[p].gen < waitChan

\* A process that ended is noticed: the container stops, or it gets a new one.
ExitIsNoticed == (running /\ proc = "none") ~> (~running \/ proc # "none")

\* A pause or unpause returns, and so the container's lock is released: the
\* notification ContainerPause waits for, holding the lock, never has one ahead of
\* it in the queue whose handler needs the lock.  (Of a container without a health
\* check whose State can be saved.)
PauseReturns == \A p \in Callers : (call[p].at = "paused") ~> (call[p].at # "paused")

\* WaitStop "Returns exit code, that was passed to SetStoppedLocking"
\* (container/state.go): the code of the stop that woke it.
WaitReturnsCode ==
    [][\A p \in Callers :
         call[p].op = "wait" /\ call[p].at = "in" /\ call'[p] = Idle
            => exitCode = closedWith[call[p].gen + 1]]_vars

\* "if the container is currently restarting we do not need to send the signal
\* to the process. Telling the monitor that it should exit on its next event
\* loop is enough" (killWithSignal): once a stop has returned, the run it stopped
\* is not followed by an automatic restart.
StoppedStaysStopped == [][stopped /\ stopped' => runs' = runs]_vars

\* ContainerKill: "Kill with SIGKILL and wait for the container to exit": a kill
\* returns.
KillReturns == \A p \in Callers : (call[p].op = "kill") ~> (call[p].op # "kill")

\* handleEvent: "Remove process from list if we have exited": a container that
\* has stopped is not listed, so it can be started again.
ExitedIsUnlisted == Quiet /\ ~running => ~listed

\* containerStart: "if we encounter an error during start we need to ensure that
\* any other setup has been cleaned up properly": a start that fails leaves no
\* process behind.
FailedStartIsClean ==
    [][\A p \in Callers : call[p].at = "start" /\ exitCode' = FailCode => proc' = "none"]_vars
=============================================================================
