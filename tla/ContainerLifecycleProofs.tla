------------------------ MODULE ContainerLifecycleProofs ------------------------
(***************************************************************************)
(* Proofs about one container's life, for any number of callers, any       *)
(* calls, any restart policy and any number of runs.                       *)
(*                                                                         *)
(* Without further assumptions: nobody in WaitStop sleeps on while the     *)
(* container is stopped.                                                   *)
(*                                                                         *)
(* If notifications are handled before the daemon's own timeouts elapse,   *)
(* the container's state can be written to disk and its bundle read, also: *)
(* a container never gets a second process, a dead one never gets any, a   *)
(* removed one has none, and the State is true when all events have been   *)
(* handled.                                                                *)
(* The argument is in two parts.  Flow lists the six situations in which   *)
(* the process, the event queues, the back-off and the State can be        *)
(* together.  Removal says, for each place of a ContainerRm in progress,   *)
(* what it has made sure of: that no restart can come any more, and at     *)
(* last that the container is at rest.                                     *)
(***************************************************************************)
EXTENDS ContainerLifecycle, TLAPS

\* Zenon unless a leaf says SMT: most steps are first-order.
USE Zenon

RmOps == {"rm", "rmf"}

RmLabels == {"check", "cleanup", "dead", "delete", "failed"}
PlainLabels == {"idle", "start", "pausing", "paused"}
StopLabels == {"stop", "term", "force", "kill", "sigkill", "unsent", "still", "direct",
               "enter", "in"}
Labels == RmLabels \cup PlainLabels \cup StopLabels

Activations == [op : AllOps \cup {"none"}, at : Labels,
                w : {"none", "stop", "two", "ten", "ever"}, gen : Nat, first : BOOLEAN]

\* A removal is at its own labels or at those of stop and kill; no other call is
\* at a label of a removal.
WellFormed(c) ==
    /\ c \in Activations
    /\ c.at \in StopLabels \cup (IF c.op \in RmOps THEN RmLabels ELSE PlainLabels)
    /\ c.at \in {"enter", "in"} => c.w # "none"
    /\ c.op \notin RmOps => ~c.first

Flags == /\ running \in BOOLEAN /\ paused \in BOOLEAN /\ restarting \in BOOLEAN
         /\ removing \in BOOLEAN /\ dead \in BOOLEAN /\ registered \in BOOLEAN
         /\ listed \in BOOLEAN /\ canceled \in BOOLEAN

Sound == /\ waitChan \in Nat /\ DOMAIN call = Callers
         /\ \A p \in Callers : WellFormed(call[p])
         /\ \A p \in Callers : call[p].at = "in" => \/ call[p].gen < waitChan
                                                    \/ call[p].gen = waitChan /\ running

-----------------------------------------------------------------------------
(* Where a caller goes on                                                   *)

LEMMA ToIs ==
    ASSUME NEW c \in Activations, NEW l \in Labels
    PROVE  /\ To(c, l) \in Activations
           /\ To(c, l).op = c.op /\ To(c, l).at = l /\ To(c, l).w = "none"
           /\ To(c, l).gen = 0 /\ To(c, l).first = c.first
BY DEF To, Activations

LEMMA WaitForIs ==
    ASSUME NEW c \in Activations, NEW w \in {"stop", "two", "ten", "ever"}
    PROVE  /\ WaitFor(c, w) \in Activations
           /\ WaitFor(c, w).op = c.op /\ WaitFor(c, w).at = "enter" /\ WaitFor(c, w).w = w
           /\ WaitFor(c, w).gen = 0 /\ WaitFor(c, w).first = c.first
BY DEF WaitFor, Activations, Labels, StopLabels

LEMMA FirstIs ==
    ASSUME NEW c \in Activations, NEW b \in BOOLEAN
    PROVE  LET d == [c EXCEPT !.first = b]
           IN  d \in Activations /\ d.op = c.op /\ d.at = c.at /\ d.first = b
BY DEF Activations

LEMMA IdleIs ==
    WellFormed(Idle) /\ Idle.op = "none" /\ Idle.at = "idle" /\ Idle.first = FALSE
BY DEF Idle, WellFormed, Activations, Labels, PlainLabels, RmOps

\* What To and WaitFor lead to is well formed.
LEMMA ToOK ==
    ASSUME NEW c, WellFormed(c),
           NEW l \in (StopLabels \ {"enter", "in"}) \cup (IF c.op \in RmOps THEN RmLabels ELSE PlainLabels)
    PROVE  WellFormed(To(c, l))
<1>1. c \in Activations /\ l \in Labels
  BY DEF WellFormed, Labels
<1>2. /\ To(c, l) \in Activations /\ To(c, l).op = c.op /\ To(c, l).at = l
      /\ To(c, l).first = c.first
  BY <1>1, ToIs
<1>3. l \notin {"enter", "in"}
  BY DEF StopLabels, RmLabels, PlainLabels
<1> QED BY <1>2, <1>3 DEF WellFormed

LEMMA WaitForOK ==
    ASSUME NEW c, WellFormed(c), NEW w \in {"stop", "two", "ten", "ever"}
    PROVE  WellFormed(WaitFor(c, w))
<1>1. c \in Activations
  BY DEF WellFormed
<1>2. /\ WaitFor(c, w) \in Activations /\ WaitFor(c, w).op = c.op /\ WaitFor(c, w).at = "enter"
      /\ WaitFor(c, w).w = w /\ WaitFor(c, w).first = c.first
  BY SMT, <1>1, WaitForIs
<1> QED BY <1>2 DEF WellFormed, StopLabels

\* d is a way for c to go on: it is well formed, and not yet in WaitStop's select.
Leads(c, d) == WellFormed(d) /\ d.at # "in" /\ d.op \in {c.op, "none"}

LEMMA LeadsTo ==
    ASSUME NEW c, WellFormed(c)
    PROVE  /\ Leads(c, Idle)
           /\ \A l \in (StopLabels \ {"enter", "in"}) \cup (IF c.op \in RmOps THEN RmLabels ELSE PlainLabels) :
                 Leads(c, To(c, l))
           /\ \A w \in {"stop", "two", "ten", "ever"} : Leads(c, WaitFor(c, w))
<1>1. c \in Activations
  BY DEF WellFormed
<1>2. Leads(c, Idle)
  BY IdleIs DEF Leads
<1>3. ASSUME NEW l \in (StopLabels \ {"enter", "in"}) \cup (IF c.op \in RmOps THEN RmLabels ELSE PlainLabels)
      PROVE  Leads(c, To(c, l))
  <2>1. l \in Labels /\ l # "in"
    BY DEF Labels, StopLabels, RmLabels, PlainLabels
  <2> QED BY SMT, <1>1, <2>1, ToOK, ToIs DEF Leads
<1>4. ASSUME NEW w \in {"stop", "two", "ten", "ever"} PROVE Leads(c, WaitFor(c, w))
  BY <1>1, WaitForOK, WaitForIs DEF Leads
<1> QED BY <1>2, <1>3, <1>4

\* The labels every call may go to, and those of a removal only
LEMMA LeadsStop ==
    ASSUME NEW c, WellFormed(c)
    PROVE  /\ \A l \in {"stop", "term", "force", "kill", "sigkill", "unsent", "still", "direct"} :
                 Leads(c, To(c, l))
           /\ c.op \in RmOps => \A l \in RmLabels : Leads(c, To(c, l))
           /\ c.op \notin RmOps => \A l \in PlainLabels : Leads(c, To(c, l))
BY LeadsTo DEF StopLabels

\* The outcomes of stop and kill, case by case.  Only a removal is ever first.
LEMMA StopOkIs ==
    ASSUME NEW c
    PROVE  /\ c.op = "restart" => StopOk(c) = To(c, "start")
           /\ c.op \in RmOps => StopOk(c) = To(c, "dead")
           /\ c.op \notin {"restart", "rm", "rmf"} => StopOk(c) = Idle
BY DEF StopOk, RmOps

LEMMA KillOkIs ==
    ASSUME NEW c, WellFormed(c)
    PROVE  /\ c.op \in {"kill", "wait"} => KillOk(c) = Idle
           /\ c.first => KillOk(c) = To([c EXCEPT !.first = FALSE], "stop")
           /\ c.op \notin {"kill", "wait"} /\ ~c.first => KillOk(c) = StopOk(c)
<1>1. c.op \in {"kill", "wait"} => ~c.first
  BY DEF WellFormed, RmOps
<1> QED BY <1>1 DEF KillOk

LEMMA KillFailsIs ==
    ASSUME NEW c, WellFormed(c)
    PROVE  /\ c.op = "kill" => KillFails(c) = Idle
           /\ c.first => KillFails(c) = To(c, "failed")
           /\ c.op # "kill" /\ ~c.first => KillFails(c) = WaitFor(c, "ever")
<1>1. c.op = "kill" => ~c.first
  BY DEF WellFormed, RmOps
<1> QED BY <1>1 DEF KillFails

LEMMA OutcomesOK ==
    ASSUME NEW c, WellFormed(c)
    PROVE  Leads(c, StopOk(c)) /\ Leads(c, KillOk(c)) /\ Leads(c, KillFails(c)) /\ Leads(c, StopFails(c))
<1>1. Leads(c, StopOk(c))
  <2>1. CASE c.op = "restart"
    BY <2>1, StopOkIs, LeadsStop DEF RmOps, PlainLabels
  <2>2. CASE c.op \in RmOps
    BY <2>2, StopOkIs, LeadsStop DEF RmLabels
  <2>3. CASE c.op \notin {"restart", "rm", "rmf"}
    BY <2>3, StopOkIs, LeadsTo
  <2> QED BY <2>1, <2>2, <2>3 DEF RmOps
<1>2. Leads(c, KillOk(c))
  <2>1. CASE c.op \in {"kill", "wait"}
    BY <2>1, KillOkIs, LeadsTo
  <2>2. CASE c.first
    <3> DEFINE d == [c EXCEPT !.first = FALSE]
    <3>1. d \in Activations /\ d.op = c.op /\ d.first = FALSE /\ d.at = c.at /\ d.w = c.w
      BY FirstIs DEF WellFormed, Activations
    <3>2. WellFormed(d)
      BY <3>1 DEF WellFormed
    <3>3. KillOk(c) = To(d, "stop")
      BY <2>2, KillOkIs
    <3> HIDE DEF d
    <3>4. Leads(d, To(d, "stop"))
      BY <3>2, LeadsStop
    <3> QED BY <3>1, <3>3, <3>4 DEF Leads
  <2>3. CASE c.op \notin {"kill", "wait"} /\ ~c.first
    BY <1>1, <2>3, KillOkIs
  <2> QED BY <2>1, <2>2, <2>3
<1>3. Leads(c, KillFails(c))
  <2>1. CASE c.op = "kill"
    BY <2>1, KillFailsIs, LeadsTo
  <2>2. CASE c.first
    <3>1. c.op \in RmOps
      BY <2>2 DEF WellFormed
    <3> QED BY <2>2, <3>1, KillFailsIs, LeadsStop DEF RmLabels
  <2>3. CASE c.op # "kill" /\ ~c.first
    BY <2>3, KillFailsIs, LeadsTo
  <2> QED BY <2>1, <2>2, <2>3
<1>4. Leads(c, StopFails(c))
  <2>1. CASE c.op \in RmOps
    BY <2>1, LeadsStop DEF StopFails, RmOps, RmLabels
  <2>2. CASE c.op \notin RmOps
    BY <2>2, LeadsTo DEF StopFails, RmOps
  <2> QED BY <2>1, <2>2
<1> QED BY <1>1, <1>2, <1>3, <1>4

\* The outcomes of a wait
LEMMA WokenIs ==
    ASSUME NEW c
    PROVE  /\ c.w = "stop" => Woken(c) = StopOk(c) /\ TimedOut(c) = To(c, "kill")
           /\ c.w = "two" => Woken(c) = To(c, "still") /\ TimedOut(c) = To(c, "still")
           /\ c.w = "ten" => Woken(c) = WaitFor(c, "ever") /\ TimedOut(c) = To(c, "direct")
           /\ c.w = "ever" => Woken(c) = KillOk(c)
BY DEF Woken, TimedOut

LEMMA WaitOutcomesOK ==
    ASSUME NEW c, WellFormed(c), c.at \in {"enter", "in"}
    PROVE  Leads(c, Woken(c)) /\ (c.w # "ever" => Leads(c, TimedOut(c)))
<1>1. c.w \in {"stop", "two", "ten", "ever"}
  BY DEF WellFormed, Activations
<1>2. CASE c.w = "stop"
  BY <1>2, OutcomesOK, LeadsStop, WokenIs
<1>3. CASE c.w = "two"
  BY <1>3, LeadsStop, WokenIs
<1>4. CASE c.w = "ten"
  BY <1>4, LeadsStop, LeadsTo, WokenIs
<1>5. CASE c.w = "ever"
  BY <1>5, OutcomesOK, WokenIs
<1> QED BY <1>1, <1>2, <1>3, <1>4, <1>5

-----------------------------------------------------------------------------
(* Nobody sleeps on                                                         *)

\* The step is p's, and p goes on as d.
GoesOn(p, d) == /\ DOMAIN call' = Callers /\ call'[p] = d
                /\ \A q \in Callers \ {p} : call'[q] = call[q]

LEMMA GotoIs ==
    ASSUME Sound, NEW p \in Callers, NEW d, Goto(p, d) \/ call' = [call EXCEPT ![p] = d]
    PROVE  GoesOn(p, d)
BY DEF Sound, Goto, GoesOn

\* p's step leads to a well-formed activation; it enters the select of WaitStop
\* only with the channel of a running container.
Enters(p) == /\ GoesOn(p, call'[p]) /\ WellFormed(call'[p])
             /\ call'[p].at = "in" => running /\ call'[p].gen = waitChan

LEMMA EntersBy ==
    ASSUME Sound, NEW p \in Callers, NEW d, Goto(p, d) \/ call' = [call EXCEPT ![p] = d],
           Leads(call[p], d)
    PROVE  Enters(p) /\ call'[p].op \in {call[p].op, "none"}
BY GotoIs DEF Enters, Leads, GoesOn

LEMMA BeginEnters ==
    ASSUME Sound, NEW p \in Callers, NEW o \in Ops, Begin(p, o)
    PROVE  Enters(p) /\ UNCHANGED State
<1> DEFINE c == [Idle EXCEPT !.op = o]
<1>1. c \in Activations /\ c.op = o /\ c.first = FALSE /\ o \in AllOps
  BY ConstantsAssumption DEF Idle, Activations, Labels, PlainLabels
<1> HIDE DEF c
<1>2. ASSUME NEW l \in Labels \ {"enter", "in"}, Goto(p, To(c, l)),
             l \in StopLabels \cup (IF o \in RmOps THEN RmLabels ELSE PlainLabels)
      PROVE  Enters(p)
  <2>1. WellFormed(To(c, l)) /\ To(c, l).at # "in"
    BY <1>1, <1>2, ToIs DEF WellFormed
  <2> QED BY <1>2, <2>1, GotoIs DEF Enters, GoesOn
<1>3. ASSUME Goto(p, WaitFor(c, "ever")) PROVE Enters(p)
  <2>1. WellFormed(WaitFor(c, "ever")) /\ WaitFor(c, "ever").at = "enter"
    BY <1>1, WaitForIs DEF WellFormed, StopLabels
  <2> QED BY <1>3, <2>1, GotoIs DEF Enters, GoesOn
<1>4. /\ UNCHANGED State
      /\ Goto(p, CASE o \in {"start", "kill"} -> To(c, o)
                   [] o \in {"stop", "stopneg", "restart"} -> To(c, "stop")
                   [] o = "wait" -> WaitFor(c, "ever")
                   [] o \in {"rm", "rmf"} -> To(c, "check")
                   [] o \in {"pause", "unpause"} -> To(c, "pausing"))
  BY DEF Begin, c
<1>5. CASE o \in {"start", "kill"}
  <2>1. Goto(p, To(c, o))
    BY <1>4, <1>5
  <2> QED BY <1>2, <1>4, <1>5, <2>1 DEF Labels, StopLabels, PlainLabels, RmOps
<1>6. CASE o \in {"stop", "stopneg", "restart"}
  <2>1. Goto(p, To(c, "stop"))
    BY <1>4, <1>6
  <2> QED BY <1>2, <1>4, <1>6, <2>1 DEF Labels, StopLabels
<1>7. CASE o = "wait"
  <2>1. Goto(p, WaitFor(c, "ever"))
    BY <1>4, <1>7
  <2> QED BY <1>3, <1>4, <2>1
<1>8. CASE o \in {"rm", "rmf"}
  <2>1. Goto(p, To(c, "check"))
    BY <1>4, <1>8
  <2> QED BY <1>2, <1>4, <1>8, <2>1 DEF Labels, RmLabels, RmOps
<1>9. CASE o \in {"pause", "unpause"}
  <2>1. Goto(p, To(c, "pausing"))
    BY <1>4, <1>9
  <2> QED BY <1>2, <1>4, <1>9, <2>1 DEF Labels, PlainLabels, RmOps
<1> QED BY <1>1, <1>5, <1>6, <1>7, <1>8, <1>9 DEF AllOps

LEMMA CallerEnters ==
    ASSUME Sound, NEW p \in Callers, CallerStep(p)
    PROVE  /\ Enters(p) /\ call'[p].op \in {call[p].op, "none"}
           /\ waitChan' = waitChan /\ (running => running')
<1> DEFINE c == call[p]
<1>1. WellFormed(c) /\ Leads(c, Idle)
  BY LeadsTo DEF Sound
<1> HIDE DEF c
<1>2. ASSUME UNCHANGED State \/ UNCHANGED <<running, waitChan>> PROVE waitChan' = waitChan /\ (running => running')
  BY SMT, <1>2 DEF State
<1>3. CASE StartRefused(p) \/ ResetRemovalInProgress(p)
  BY <1>1, <1>2, <1>3, EntersBy DEF StartRefused, ResetRemovalInProgress, c
<1>4. CASE containerStart(p)
  <2>1. call' = [call EXCEPT ![p] = Idle]
    BY <1>4 DEF containerStart
  <2>2. waitChan' = waitChan /\ (running => running')
    BY <1>4 DEF containerStart, SetRunning, State
  <2> QED BY <1>1, <2>1, <2>2, EntersBy DEF c
<1>5. CASE IsRunning(p)
  <2>1. PICK d : Goto(p, d) /\ Leads(c, d) /\ UNCHANGED State
    <3>1. /\ Leads(c, StopOk(c)) /\ Leads(c, KillFails(c)) /\ Leads(c, To(c, "term"))
          /\ Leads(c, To(c, "sigkill")) /\ Leads(c, WaitFor(c, "two")) /\ Leads(c, WaitFor(c, "ten"))
      BY <1>1, OutcomesOK, LeadsTo, LeadsStop
    <3> QED BY <1>5, <3>1 DEF IsRunning, c
  <2> QED BY <1>2, <2>1, EntersBy DEF c
<1>6. CASE killWithSignal(p)
  <2>1. /\ Leads(c, WaitFor(c, "stop")) /\ Leads(c, To(c, "force")) /\ Leads(c, StopFails(c))
        /\ Leads(c, WaitFor(c, "ten")) /\ Leads(c, To(c, "unsent"))
    BY <1>1, OutcomesOK, LeadsTo, LeadsStop
  <2>2. c.at \in {"term", "force", "sigkill"} /\ UNCHANGED State
    BY <1>6 DEF killWithSignal, c
  <2>3. CASE c.at = "term"
    <3>1. Goto(p, IF running /\ ~paused THEN WaitFor(c, "stop") ELSE To(c, "force"))
      BY <1>6, <2>3 DEF killWithSignal, c
    <3> QED BY <1>2, <2>1, <2>2, <3>1, EntersBy DEF c
  <2>4. CASE c.at = "force"
    <3>1. Goto(p, IF running /\ ~paused THEN WaitFor(c, "stop") ELSE StopFails(c))
      BY <1>6, <2>4 DEF killWithSignal, c
    <3> QED BY <1>2, <2>1, <2>2, <3>1, EntersBy DEF c
  <2>5. CASE c.at = "sigkill"
    <3>1. Goto(p, IF running /\ ~paused THEN WaitFor(c, "ten") ELSE To(c, "unsent"))
      BY <1>6, <2>5 DEF killWithSignal, c
    <3> QED BY <1>2, <2>1, <2>2, <3>1, EntersBy DEF c
  <2> QED BY <2>2, <2>3, <2>4, <2>5
<1>7. CASE WaitStop(p)
  <2>1. c.at = "enter" /\ UNCHANGED State
    BY <1>7 DEF WaitStop, At, c
  <2>2. CASE running
    <3> DEFINE d == [c EXCEPT !.at = "in", !.gen = waitChan]
    <3>1. call' = [call EXCEPT ![p].at = "in", ![p].gen = waitChan]
      BY <1>7, <2>2 DEF WaitStop
    <3>2. call'[p] = d /\ GoesOn(p, call'[p])
      BY <1>1, <3>1 DEF Sound, GoesOn, c, WellFormed, Activations
    <3>3. d \in Activations /\ d.at = "in" /\ d.op = c.op /\ d.w = c.w /\ d.first = c.first /\ d.gen = waitChan
      BY <1>1 DEF Sound, WellFormed, Activations, Labels, StopLabels
    <3> HIDE DEF d
    <3>4. WellFormed(d)
      BY <1>1, <2>1, <3>3 DEF WellFormed, StopLabels
    <3> QED BY <1>2, <2>1, <2>2, <3>2, <3>3, <3>4 DEF Enters, c
  <2>3. CASE ~running
    <3>1. Goto(p, Woken(c))
      BY <1>7, <2>3 DEF WaitStop, c
    <3> QED BY <1>1, <1>2, <2>1, <3>1, WaitOutcomesOK, EntersBy DEF c
  <2> QED BY <2>2, <2>3
<1>8. CASE Wake(p)
  <2>1. c.at = "in" /\ UNCHANGED State /\ Goto(p, Woken(c))
    BY <1>8 DEF Wake, At, c
  <2> QED BY <1>1, <1>2, <2>1, WaitOutcomesOK, EntersBy DEF c
<1>9. CASE TimeOut(p)
  <2>1. c.at = "in" /\ c.w # "ever" /\ UNCHANGED State /\ Goto(p, TimedOut(c))
    BY <1>9 DEF TimeOut, c
  <2> QED BY <1>1, <1>2, <2>1, WaitOutcomesOK, EntersBy DEF c
<1>10. CASE killProcessDirectly(p)
  <2>1. PICK d : Goto(p, d) /\ Leads(c, d) /\ UNCHANGED State
    <3>1. Leads(c, KillOk(c)) /\ Leads(c, WaitFor(c, "ever"))
      BY <1>1, OutcomesOK, LeadsTo
    <3> QED BY <1>10, <3>1 DEF killProcessDirectly, c
  <2> QED BY <1>2, <2>1, EntersBy DEF c
<1>11. CASE containerPause(p)
  <2>1. PICK d : Goto(p, d) /\ d \in {Idle, To(c, "paused")} /\ UNCHANGED State /\ c.at = "pausing"
    BY <1>11 DEF containerPause, At, c
  <2>2. c.op \notin RmOps
    BY <1>1, <2>1 DEF WellFormed, StopLabels, RmLabels
  <2>3. Leads(c, d)
    BY <1>1, <2>1, <2>2, LeadsStop DEF PlainLabels
  <2> QED BY <1>2, <2>1, <2>3, EntersBy DEF c
<1>12. CASE ContainerRm(p) \/ cleanupContainer(p) \/ SetDead(p)
  <2>1. /\ UNCHANGED State \/ UNCHANGED <<running, waitChan>>
        /\ c.at \in {"check", "cleanup", "dead"}
    BY <1>12 DEF ContainerRm, cleanupContainer, SetDead, At, c
  <2>2. c.op \in RmOps
    BY <1>1, <2>1 DEF WellFormed, StopLabels, PlainLabels
  <2>3. /\ \A l \in {"cleanup", "stop", "failed", "delete"} : Leads(c, To(c, l))
        /\ Leads(c, To([c EXCEPT !.first = TRUE], "kill"))
    <3> DEFINE d == [c EXCEPT !.first = TRUE]
    <3>1. d \in Activations /\ d.op = c.op /\ d.first = TRUE /\ d.at = c.at /\ d.w = c.w
      BY <1>1, FirstIs DEF WellFormed, Activations
    <3> HIDE DEF d
    <3>2. WellFormed(d)
      BY <1>1, <2>2, <3>1 DEF WellFormed
    <3>3. Leads(d, To(d, "kill"))
      BY <3>2, LeadsStop
    <3>4. \A l \in {"cleanup", "stop", "failed", "delete"} : Leads(c, To(c, l))
      BY <1>1, <2>2, LeadsStop DEF RmLabels
    <3> QED BY <3>1, <3>3, <3>4 DEF Leads, d
  <2>4. PICK d : Goto(p, d) /\ Leads(c, d)
    BY <1>1, <1>12, <2>3 DEF ContainerRm, cleanupContainer, SetDead, c
  <2> QED BY <1>2, <2>1, <2>4, EntersBy DEF c
<1> QED BY <1>3, <1>4, <1>5, <1>6, <1>7, <1>8, <1>9, <1>10, <1>11, <1>12 DEF CallerStep

\* The daemon and containerd leave the callers alone, but for the caller of a
\* pause; only SetStopped ends running, and it closes the channel.
LEMMA DaemonSound ==
    ASSUME Sound, DaemonStep \/ ProcessEnds
    PROVE  /\ DOMAIN call' = Callers
           /\ \A q \in Callers : call'[q] \in {call[q], Idle}
           /\ (waitChan' = waitChan /\ (running => running')) \/ waitChan' = waitChan + 1
<1>1. CASE ProcessEnds \/ handleEvent \/ BackOff \/ RestartCanceled
  BY SMT, <1>1 DEF ProcessEnds, handleEvent, BackOff, RestartCanceled, State, Sound
<1>2. CASE AutoRestart
  BY SMT, <1>2 DEF AutoRestart, SetRunning, State, Sound
<1>3. CASE StateExit
  BY <1>3 DEF StateExit, SetStopped, SetRestarting, FireWaiters, State, Sound
<1>4. CASE StatePause
  BY <1>4 DEF StatePause, Sound
<1> QED BY <1>1, <1>2, <1>3, <1>4 DEF DaemonStep

LEMMA InitSound == Init => Sound
BY SMT, IdleIs DEF Init, Sound

LEMMA NextSound == Sound /\ [Next]_vars => Sound'
<1> SUFFICES ASSUME Sound, [Next]_vars PROVE Sound'
  OBVIOUS
<1>1. CASE UNCHANGED vars
  BY <1>1 DEF vars, State, Sound
<1>2. ASSUME NEW p \in Callers, Enters(p), waitChan' = waitChan, running => running'
      PROVE  Sound'
  BY SMT, <1>2 DEF Enters, GoesOn, Sound
<1>3. ASSUME NEW p \in Callers, NEW o \in Ops, Begin(p, o) PROVE Sound'
  BY SMT, <1>2, <1>3, BeginEnters DEF State
<1>4. ASSUME NEW p \in Callers, CallerStep(p) PROVE Sound'
  BY <1>2, <1>4, CallerEnters
<1>5. CASE DaemonStep \/ ProcessEnds
  <2>1. /\ DOMAIN call' = Callers
        /\ \A q \in Callers : call'[q] \in {call[q], Idle}
        /\ (waitChan' = waitChan /\ (running => running')) \/ waitChan' = waitChan + 1
    BY <1>5, DaemonSound
  <2>2. \A q \in Callers : WellFormed(call'[q])
    BY <2>1, IdleIs DEF Sound
  <2>3. ASSUME NEW q \in Callers, call'[q].at = "in"
        PROVE  call'[q].gen < waitChan' \/ (call'[q].gen = waitChan' /\ running')
    <3>1. call'[q] = call[q]
      BY <2>1, <2>3, IdleIs
    <3>2. call[q].gen \in Nat
      BY DEF Sound, WellFormed, Activations
    <3> QED BY SMT, <2>1, <2>3, <3>1, <3>2 DEF Sound
  <2> QED BY SMT, <2>1, <2>2, <2>3 DEF Sound
<1> QED BY <1>1, <1>3, <1>4, <1>5 DEF Next

\* Whoever is in WaitStop's select while the container is stopped has a channel
\* that was closed: SetStopped closes it in the section that ends running, and
\* WaitStop takes it in the section that finds the container running.
THEOREM SleepersWake == Spec => []NoLostWakeup
<1>1. Sound => NoLostWakeup
  BY DEF Sound, NoLostWakeup
<1> QED BY <1>1, InitSound, NextSound, PTL DEF Spec

-----------------------------------------------------------------------------
(* The six situations                                                       *)

Mark(k) == [kind |-> k, code |-> 0]
BackingOff == timer \in {"armed", "fired", "canceled"}

\* No process, and none to come
Rest ==
    /\ proc = "none" /\ ~running /\ ~paused /\ ~restarting /\ timer = "none"
    /\ cLock = None /\ queue = << >> /\ events = << >>

\* A process, perhaps one whose pause or resume is on its way
Up ==
    /\ proc \in {"up", "frozen"} /\ running /\ ~restarting /\ listed /\ timer = "none"
    /\ \/ cLock = None /\ queue = << >> /\ events = << >> /\ (paused <=> proc = "frozen")
       \/ \E k \in {"pause", "resume"} :
             /\ cLock # None /\ (paused <=> k = "resume") /\ (proc = "frozen" <=> k = "pause")
             /\ \/ queue = << >> /\ events = <<Mark(k)>>
                \/ queue = <<Mark(k)>> /\ events = << >>

\* The process has ended, and containerd's event has not been handled.
Ended ==
    /\ proc = "none" /\ running /\ ~restarting /\ listed /\ timer = "none"
    /\ \E e \in Notes :
          /\ e.kind = "exit"
          /\ \/ cLock = None /\ ~paused /\ queue = << >> /\ events = <<e>>
             \/ cLock # None /\ paused /\ queue = << >> /\ events = <<Mark("resume"), e>>
             \/ cLock # None /\ paused /\ queue = <<Mark("resume")>> /\ events = <<e>>

\* An exit, or a restart, is on its way to StateChanged.
Reported(k) ==
    /\ proc = "none" /\ running /\ events = << >>
    /\ \E e \in Notes :
          /\ e.kind = k
          /\ \/ cLock = None /\ ~paused /\ queue = <<e>>
             \/ cLock # None /\ paused /\ ~restarting /\ queue = <<Mark("resume"), e>>
ExitReported == Reported("exit") /\ timer = "none"
RestartReported == Reported("restart") /\ BackingOff

\* The State says restarting, and the back-off has not been followed yet.
Waiting ==
    /\ proc = "none" /\ running /\ restarting /\ ~paused /\ BackingOff
    /\ cLock = None /\ queue = << >> /\ events = << >>

Situation == Rest \/ Up \/ Ended \/ ExitReported \/ RestartReported \/ Waiting
Ending == Ended \/ ExitReported

Flow ==
    /\ Situation /\ lastExit \in Codes /\ Flags
    /\ cLock # None => cLock \in Callers /\ call[cLock].at = "paused"
    /\ ~registered => dead
    /\ dead => Rest

\* The time the daemon gives itself is enough, the State can be saved, and the
\* bundle's configuration can be read.
Orderly == Prompt /\ {"spec", "todisk"} \cap Faults = {}

LEMMA Tuples ==
    ASSUME NEW a, NEW b
    PROVE  /\ Head(<<a>>) = a /\ Tail(<<a>>) = << >> /\ Append(<< >>, a) = <<a>>
           /\ Head(<<a, b>>) = a /\ Tail(<<a, b>>) = <<b>> /\ Append(<<a>>, b) = <<a, b>>
           /\ <<a>> # << >> /\ <<a, b>> # << >>
<1>1. Head(<<a>>) = a /\ Head(<<a, b>>) = a
  BY SMT
<1>2. Tail(<<a>>) = << >>
  BY SMT
<1>3. Tail(<<a, b>>) = <<b>>
  BY SMT
<1>4. Append(<< >>, a) = <<a>>
  BY SMT
<1>5. Append(<<a>>, b) = <<a, b>>
  <2> DEFINE S == {a, b}
  <2>1. <<a>> \in Seq(S) /\ <<a, b>> \in Seq(S) /\ Len(<<a>>) = 1 /\ Len(<<a, b>>) = 2
    BY SMT
  <2>2. Append(<<a>>, b) \in Seq(S) /\ Len(Append(<<a>>, b)) = 2
    BY SMT, <2>1
  <2>3. Append(<<a>>, b)[1] = a /\ Append(<<a>>, b)[2] = b
    BY SMT, <2>1
  <2> HIDE DEF S
  <2>4. PICK s \in Seq(S) : s = Append(<<a>>, b)
    BY <2>2
  <2>5. PICK t \in Seq(S) : t = <<a, b>>
    BY <2>1
  <2>6. s = [i \in 1..2 |-> s[i]] /\ t = [i \in 1..2 |-> t[i]]
    BY SMT, <2>1, <2>2, <2>4, <2>5
  <2>7. \A i \in 1..2 : s[i] = t[i]
    BY SMT, <2>3, <2>4, <2>5
  <2>8. s = t
    BY <2>6, <2>7
  <2> QED BY <2>4, <2>5, <2>8
<1>6. <<a>> # << >> /\ <<a, b>> # << >>
  OBVIOUS
<1> QED BY <1>1, <1>2, <1>3, <1>4, <1>5, <1>6

LEMMA ExitNote ==
    ASSUME NEW c \in Codes
    PROVE  \E e \in Notes : e = [kind |-> "exit", code |-> c] /\ e.kind = "exit"
<1>1. [kind |-> "exit", code |-> c] \in Notes
  BY DEF Notes
<1>2. [kind |-> "exit", code |-> c].kind = "exit"
  OBVIOUS
<1> QED BY <1>1, <1>2

LEMMA MarkIs ==
    ASSUME NEW k
    PROVE  Mark(k).kind = k
BY DEF Mark

\* A restart is on its way only if the last notification is one.
LEMMA RestarterIs ==
    /\ queue = << >> => Restarter
    /\ \A a : queue = <<a>> => (Restarter <=> a.kind # "restart")
    /\ \A a, b : queue = <<a, b>> => (Restarter <=> a.kind # "restart" /\ b.kind # "restart")
BY SMT DEF Restarter

LEMMA SituationRestarter ==
    /\ Rest \/ Up \/ Ending \/ Waiting => Restarter
    /\ RestartReported => ~Restarter
<1>1. Rest \/ Waiting => Restarter
  BY RestarterIs DEF Rest, Waiting
<1>2. Up => Restarter
  BY RestarterIs, MarkIs DEF Up
<1>3. Ended => Restarter
  BY RestarterIs, MarkIs DEF Ended
<1>4. ExitReported => Restarter
  BY RestarterIs, MarkIs DEF ExitReported, Reported
<1>5. RestartReported => ~Restarter
  BY RestarterIs, MarkIs DEF RestartReported, Reported
<1> QED BY <1>1, <1>2, <1>3, <1>4, <1>5 DEF Ending

\* The situations are told apart by the process, running, timer and the queues.
LEMMA Apart ==
    /\ Up => ~Rest /\ ~Ending
    /\ RestartReported => ~Rest /\ ~Ending
    /\ Waiting => ~Rest /\ ~Ending
    /\ Ending => ~Rest
<1>1. Rest => proc = "none" /\ ~running
  BY DEF Rest
<1>2. Ending => proc = "none" /\ running /\ timer = "none"
  BY DEF Ending, Ended, ExitReported, Reported
<1>3. Up => proc # "none" /\ running
  BY DEF Up
<1>4. RestartReported \/ Waiting => running /\ timer # "none"
  BY DEF RestartReported, Reported, Waiting, BackingOff
<1> QED BY <1>1, <1>2, <1>3, <1>4

LEMMA UpHasProcess == Situation /\ proc # "none" => Up
<1>1. Rest => proc = "none"
  BY DEF Rest
<1>2. Ended => proc = "none"
  BY DEF Ended
<1>3. ExitReported \/ RestartReported => proc = "none"
  BY DEF ExitReported, RestartReported, Reported
<1>4. Waiting => proc = "none"
  BY DEF Waiting
<1> QED BY <1>1, <1>2, <1>3, <1>4 DEF Situation

-----------------------------------------------------------------------------
(* How the daemon and containerd go from one situation to the next          *)

Advances ==
    /\ ~Rest /\ Situation'
    /\ Ending /\ canceled => Ending' \/ Rest'
    /\ canceled /\ Restarter => Restarter'
    /\ \/ waitChan' = waitChan
       \/ waitChan' = waitChan + 1 /\ (Rest' \/ (~Restarter /\ Restarter'))

\* The step leaves the queue, the restart manager and the waiters alone.
LEMMA QueueKept ==
    ASSUME UNCHANGED <<queue, waitChan>>, ~Rest, Situation', Ending => Ending'
    PROVE  Advances
BY DEF Advances, Restarter

LEMMA ProcessEndsFlow ==
    ASSUME Flow, ProcessEnds
    PROVE  Advances
<1>1. PICK code \in Codes : events' = Append(events, [kind |-> "exit", code |-> code])
  BY DEF ProcessEnds
<1>2. PICK e \in Notes : e = [kind |-> "exit", code |-> code] /\ e.kind = "exit"
  BY ExitNote
<1>3. /\ proc = "up" /\ proc' = "none" /\ UNCHANGED <<running, paused, restarting, waitChan, cLock>>
      /\ UNCHANGED <<listed, queue, timer>> /\ events' = Append(events, e)
  BY <1>1, <1>2 DEF ProcessEnds, State, manager
<1>4. Up
  <2>1. Situation
    BY DEF Flow
  <2>2. proc # "none"
    BY <1>3
  <2> QED BY <2>1, <2>2, UpHasProcess
<1>5. running /\ ~restarting /\ listed /\ timer = "none" /\ ~Rest /\ ~Ending
  BY <1>4, Apart DEF Up
<1>6. Ended'
  <2>1. CASE cLock = None /\ queue = << >> /\ events = << >> /\ (paused <=> proc = "frozen")
    <3>1. events' = <<e>>
      BY <1>3, <2>1, Tuples
    <3> QED BY <1>2, <1>3, <1>5, <2>1, <3>1 DEF Ended
  <2>2. ASSUME NEW k \in {"pause", "resume"}, cLock # None,
               paused <=> k = "resume", proc = "frozen" <=> k = "pause",
               \/ queue = << >> /\ events = <<Mark(k)>>
               \/ queue = <<Mark(k)>> /\ events = << >>
        PROVE  Ended'
    <3>1. k = "resume" /\ paused
      BY <1>3, <2>2
    <3>2. CASE queue = << >> /\ events = <<Mark(k)>>
      <4>1. events' = <<Mark("resume"), e>>
        BY <1>3, <3>1, <3>2, Tuples
      <4> QED BY <1>2, <1>3, <1>5, <2>2, <3>1, <3>2, <4>1 DEF Ended
    <3>3. CASE queue = <<Mark(k)>> /\ events = << >>
      <4>1. events' = <<e>>
        BY <1>3, <3>3, Tuples
      <4> QED BY <1>2, <1>3, <1>5, <2>2, <3>1, <3>3, <4>1 DEF Ended
    <3> QED BY <2>2, <3>2, <3>3
  <2> QED BY <1>4, <2>1, <2>2 DEF Up
<1> QED BY <1>3, <1>5, <1>6, QueueKept DEF Situation

LEMMA BackOffFlow ==
    ASSUME Flow, BackOff
    PROVE  Advances
<1>1. /\ timer = "armed" /\ timer' \in {"fired", "canceled"}
      /\ UNCHANGED <<running, paused, restarting, waitChan, cLock>>
      /\ UNCHANGED <<proc, events, listed, queue>>
  BY DEF BackOff, Elapses, State, containerd
<1>2. RestartReported \/ Waiting
  BY <1>1 DEF Flow, Situation, Rest, Up, Ended, ExitReported
<1>3. ~Rest /\ ~Ending
  BY <1>2, Apart
<1>4. RestartReported' \/ Waiting'
  BY <1>1, <1>2 DEF RestartReported, Reported, Waiting, BackingOff
<1> QED BY <1>1, <1>3, <1>4, QueueKept DEF Situation

LEMMA handleEventFlow ==
    ASSUME Flow, handleEvent
    PROVE  Advances /\ lastExit' \in Codes
<1>1. /\ events # << >> /\ events' = Tail(events)
      /\ UNCHANGED <<running, paused, restarting, waitChan, cLock, proc, canceled>>
  BY DEF handleEvent, State
<1>2. Up \/ Ended
  BY <1>1 DEF Flow, Situation, Rest, ExitReported, RestartReported, Reported, Waiting
<1>3. listed /\ timer = "none" /\ ~Rest
  BY <1>2, Apart DEF Up, Ended, Ending
<1>4. ASSUME NEW k \in {"pause", "resume"}, Head(events) = Mark(k)
      PROVE  /\ queue' = Append(queue, Mark(k)) /\ UNCHANGED <<timer, lastExit>> /\ listed' = TRUE
  BY <1>3, <1>4, MarkIs DEF handleEvent
<1>5. CASE Up
  <2>1. PICK k \in {"pause", "resume"} :
             /\ cLock # None /\ (paused <=> k = "resume") /\ (proc = "frozen" <=> k = "pause")
             /\ queue = << >> /\ events = <<Mark(k)>>
    BY <1>1, <1>5 DEF Up
  <2>2. /\ events' = << >> /\ queue' = <<Mark(k)>> /\ UNCHANGED <<timer, lastExit>> /\ listed' = TRUE
    BY <1>1, <1>4, <2>1, Tuples
  <2>3. Up'
    BY <1>1, <1>5, <2>1, <2>2 DEF Up
  <2>4. ~Ending /\ Restarter'
    BY SMT, <1>5, <2>2, Apart, RestarterIs, MarkIs DEF Restarter
  <2> QED BY <1>1, <1>3, <2>2, <2>3, <2>4 DEF Flow, Advances, Situation
<1>6. CASE Ended
  <2>1. PICK e \in Notes :
             /\ e.kind = "exit"
             /\ \/ cLock = None /\ ~paused /\ queue = << >> /\ events = <<e>>
                \/ cLock # None /\ paused /\ queue = << >> /\ events = <<Mark("resume"), e>>
                \/ cLock # None /\ paused /\ queue = <<Mark("resume")>> /\ events = <<e>>
    BY <1>6 DEF Ended
  <2>2. CASE cLock # None /\ paused /\ queue = << >> /\ events = <<Mark("resume"), e>>
    <3>1. /\ events' = <<e>> /\ queue' = <<Mark("resume")>> /\ UNCHANGED <<timer, lastExit>>
          /\ listed' = TRUE
      BY <1>1, <1>4, <2>2, Tuples
    <3>2. Ended'
      BY <1>1, <1>6, <2>1, <2>2, <3>1 DEF Ended
    <3>3. Restarter'
      BY SMT, <3>2, SituationRestarter DEF Ending, Restarter, Ended, Mark, Notes
    <3> QED BY <1>1, <1>3, <3>1, <3>2, <3>3 DEF Flow, Advances, Situation, Ending
  <2>3. CASE \/ cLock = None /\ ~paused /\ queue = << >> /\ events = <<e>>
             \/ cLock # None /\ paused /\ queue = <<Mark("resume")>> /\ events = <<e>>
    <3>1. Head(events) = e /\ events' = << >>
      BY <1>1, <2>3, Tuples
    <3>2. PICK x \in Notes : /\ queue' = Append(queue, x)
                             /\ \/ x.kind = "restart" /\ timer' = "armed" /\ lastExit' = e.code /\ ~canceled
                                \/ x.kind = "exit" /\ UNCHANGED <<timer, lastExit>>
      <4> DEFINE y == [e EXCEPT !.kind = "restart"]
      <4>1. y \in Notes /\ y.kind = "restart"
        BY DEF Notes
      <4> HIDE DEF y
      <4>2. CASE ShouldRestart(e.code)
        <5>1. queue' = Append(queue, y) /\ timer' = "armed" /\ lastExit' = e.code
          BY <1>3, <2>1, <3>1, <4>2 DEF handleEvent, y
        <5>2. ~canceled
          BY <4>2 DEF ShouldRestart
        <5> QED BY <4>1, <5>1, <5>2
      <4>3. CASE ~ShouldRestart(e.code)
        <5>1. queue' = Append(queue, e) /\ UNCHANGED <<timer, lastExit>>
          BY <1>3, <2>1, <3>1, <4>3 DEF handleEvent
        <5> QED BY <2>1, <5>1
      <4> QED BY <4>2, <4>3
    <3>3. lastExit' \in Codes
      BY <3>2 DEF Flow, Notes
    <3>4. \/ cLock = None /\ ~paused /\ queue' = <<x>>
          \/ cLock # None /\ paused /\ ~restarting /\ queue' = <<Mark("resume"), x>>
      <4>1. ~restarting
        BY <1>6 DEF Ended
      <4>2. CASE cLock = None /\ ~paused /\ queue = << >>
        BY <3>2, <4>2, Tuples
      <4>3. CASE cLock # None /\ paused /\ queue = <<Mark("resume")>>
        <5>1. queue' = <<Mark("resume"), x>>
          BY <3>2, <4>3, Tuples
        <5> QED BY <4>1, <4>3, <5>1
      <4> QED BY <2>3, <4>2, <4>3
    <3>5. Reported(x.kind)'
      BY <1>1, <1>6, <3>1, <3>4 DEF Reported, Ended
    <3>6. CASE x.kind = "exit"
      <4>1. ExitReported'
        BY <1>3, <3>2, <3>5, <3>6 DEF ExitReported
      <4>2. Restarter'
        BY SMT, <3>4, <3>6, MarkIs DEF Restarter
      <4> QED BY <1>1, <1>3, <3>3, <4>1, <4>2 DEF Advances, Situation, Ending
    <3>7. CASE x.kind = "restart"
      <4>1. RestartReported' /\ ~canceled
        BY <3>2, <3>5, <3>7 DEF RestartReported, BackingOff
      <4> QED BY <1>1, <1>3, <3>3, <4>1 DEF Advances, Situation
    <3> QED BY <3>2, <3>6, <3>7
  <2> QED BY <2>1, <2>2, <2>3
<1> QED BY <1>2, <1>5, <1>6

\* Unless the container is gone, it is in some situation other than Rest only
\* while it is registered.
LEMMA Registered ==
    ASSUME Flow, ~Rest
    PROVE  registered /\ ~dead
BY DEF Flow

LEMMA AutoRestartFlow ==
    ASSUME Flow, Orderly, AutoRestart
    PROVE  Advances /\ Flags'
<1>1. /\ timer = "fired" /\ Restarter /\ timer' = "none" /\ listed' = TRUE
      /\ UNCHANGED <<cLock, registered, events, canceled>>
  BY DEF AutoRestart, Orderly
<1>2. RestartReported \/ Waiting
  BY <1>1 DEF Flow, Situation, Rest, Up, Ended, ExitReported
<1>3. Waiting
  BY <1>1, <1>2, SituationRestarter
<1>4. ~Rest /\ ~Ending /\ registered
  BY <1>3, Apart, Registered
<1>5. CASE proc' = "up" /\ SetRunning /\ UNCHANGED queue
  <2>1. /\ running' = TRUE /\ paused' = FALSE /\ restarting' = FALSE /\ UNCHANGED <<removing, dead, waitChan>>
    BY <1>5 DEF SetRunning
  <2>2. Up'
    BY <1>1, <1>3, <1>5, <2>1 DEF Waiting, Up
  <2>3. Flags'
    BY <1>1, <2>1 DEF Flow, Flags
  <2> QED BY <1>4, <1>5, <2>1, <2>2, <2>3, QueueKept DEF Situation
<1>6. CASE queue' = Append(queue, Exited) /\ UNCHANGED State /\ UNCHANGED proc
  <2>1. PICK e \in Notes : e = Exited /\ e.kind = "exit"
    BY ExitNote DEF Exited, Flow
  <2>2. queue' = <<e>>
    BY <1>3, <1>6, <2>1, Tuples DEF Waiting
  <2>3. UNCHANGED <<running, paused, restarting, removing, dead, waitChan>>
    BY <1>6 DEF State
  <2>4. ExitReported'
    BY <1>1, <1>3, <1>6, <2>1, <2>2, <2>3 DEF Waiting, ExitReported, Reported
  <2>5. Restarter'
    BY SMT, <2>1, <2>2 DEF Restarter
  <2>6. Flags'
    BY <1>1, <2>3 DEF Flow, Flags
  <2> QED BY <1>4, <2>3, <2>4, <2>5, <2>6 DEF Advances, Situation
<1>7. \/ proc' = "up" /\ SetRunning /\ UNCHANGED queue
      \/ queue' = Append(queue, Exited) /\ UNCHANGED State /\ UNCHANGED proc
  BY <1>4 DEF AutoRestart, Orderly
<1> QED BY <1>5, <1>6, <1>7

LEMMA RestartCanceledFlow ==
    ASSUME Flow, RestartCanceled
    PROVE  Advances
<1>1. /\ timer = "canceled" /\ Restarter /\ timer' = "none" /\ queue' = Append(queue, Exited)
      /\ UNCHANGED <<running, paused, restarting, waitChan, cLock, proc, events>>
  BY DEF RestartCanceled, State, containerd
<1>2. RestartReported \/ Waiting
  BY <1>1 DEF Flow, Situation, Rest, Up, Ended, ExitReported
<1>3. Waiting
  BY <1>1, <1>2, SituationRestarter
<1>4. PICK e \in Notes : e = Exited /\ e.kind = "exit"
  BY ExitNote DEF Exited, Flow
<1>5. queue' = <<e>>
  BY <1>1, <1>3, <1>4, Tuples DEF Waiting
<1>6. ExitReported'
  BY <1>1, <1>3, <1>4, <1>5 DEF Waiting, ExitReported, Reported
<1>7. Restarter'
  BY SMT, <1>4, <1>5 DEF Restarter
<1>8. ~Rest /\ ~Ending
  BY <1>3, Apart
<1> QED BY <1>1, <1>6, <1>7, <1>8 DEF Advances, Situation

LEMMA StateExitFlow ==
    ASSUME Flow, StateExit
    PROVE  Advances /\ Flags'
<1>1. /\ queue # << >> /\ Head(queue).kind \in {"exit", "restart"} /\ queue' = Tail(queue)
      /\ UNCHANGED <<proc, events, listed, timer, cLock, registered, canceled>>
  BY DEF StateExit, containerd, manager
<1>2. \A k \in {"pause", "resume"} : Head(queue) # Mark(k)
  BY <1>1, MarkIs
<1>3. ~Up /\ ~Ended
  BY <1>1, <1>2, Tuples DEF Up, Ended
<1>4. ~Rest /\ ~Waiting
  BY <1>1 DEF Rest, Waiting
<1>5. PICK k \in {"exit", "restart"} : Reported(k) /\ (k = "exit" <=> ExitReported) /\ (k = "restart" <=> RestartReported)
  <2>1. ExitReported \/ RestartReported
    BY <1>3, <1>4 DEF Flow, Situation
  <2>2. ~(ExitReported /\ RestartReported)
    BY DEF ExitReported, RestartReported, BackingOff
  <2> QED BY <2>1, <2>2 DEF ExitReported, RestartReported
<1>6. PICK e \in Notes : e.kind = k /\ cLock = None /\ ~paused /\ queue = <<e>>
  BY SMT, <1>2, <1>5, Tuples DEF Reported
<1>7. queue' = << >> /\ Head(queue) = e
  BY <1>1, <1>6, Tuples
<1>8. registered
  BY <1>4, Registered
<1>9. Restarter'
  BY SMT, <1>7 DEF Restarter
<1>10. CASE k = "exit"
  <2>1. SetStopped(e.code)
    BY <1>6, <1>7, <1>8, <1>10 DEF StateExit
  <2>2. /\ running' = FALSE /\ paused' = FALSE /\ restarting' = FALSE
        /\ waitChan' = waitChan + 1 /\ UNCHANGED <<removing, dead>>
    BY <2>1 DEF SetStopped, FireWaiters
  <2>3. proc = "none" /\ events = << >> /\ timer = "none"
    BY <1>5, <1>10 DEF ExitReported, Reported
  <2>4. Rest'
    BY <1>1, <1>6, <1>7, <2>2, <2>3 DEF Rest
  <2>5. Flags'
    BY <1>1, <2>2 DEF Flow, Flags
  <2> QED BY <1>4, <1>9, <2>2, <2>4, <2>5 DEF Advances, Situation
<1>11. CASE k = "restart"
  <2>1. SetRestarting(e.code)
    BY <1>6, <1>7, <1>8, <1>11 DEF StateExit
  <2>2. /\ running' = TRUE /\ restarting' = TRUE
        /\ waitChan' = waitChan + 1 /\ UNCHANGED <<paused, removing, dead>>
    BY <2>1 DEF SetRestarting, FireWaiters
  <2>3. RestartReported /\ proc = "none" /\ events = << >> /\ BackingOff
    BY <1>5, <1>11 DEF RestartReported, Reported
  <2>4. Waiting'
    BY <1>1, <1>6, <1>7, <2>2, <2>3 DEF Waiting, BackingOff
  <2>5. ~Restarter /\ ~Ending
    BY <2>3, SituationRestarter, Apart
  <2>6. Flags'
    BY <1>1, <2>2 DEF Flow, Flags
  <2> QED BY <1>4, <1>9, <2>2, <2>4, <2>5, <2>6 DEF Advances, Situation
<1> QED BY <1>5, <1>10, <1>11

LEMMA StatePauseFlow ==
    ASSUME Flow, StatePause
    PROVE  Advances /\ Flags' /\ cLock # None
<1>1. /\ queue # << >> /\ Head(queue).kind \in {"pause", "resume"} /\ queue' = Tail(queue)
      /\ paused' = (Head(queue).kind = "pause") /\ cLock' = None
      /\ UNCHANGED <<running, restarting, removing, dead, waitChan>>
      /\ UNCHANGED <<proc, events, listed, timer, registered, canceled>>
  BY DEF StatePause, containerd, manager
<1>2. ~Rest /\ ~Waiting
  BY <1>1 DEF Rest, Waiting
<1>3. Flags'
  BY <1>1 DEF Flow, Flags
<1>4. CASE Up
  <2>1. PICK k \in {"pause", "resume"} :
             /\ cLock # None /\ (proc = "frozen" <=> k = "pause") /\ queue = <<Mark(k)>> /\ events = << >>
    BY <1>1, <1>4 DEF Up
  <2>2. queue' = << >> /\ Head(queue).kind = k
    BY <1>1, <2>1, Tuples, MarkIs
  <2>3. Up'
    BY <1>1, <1>4, <2>1, <2>2 DEF Up
  <2>4. Restarter' /\ ~Ending
    BY SMT, <1>4, <2>2, Apart DEF Restarter
  <2> QED BY <1>1, <1>2, <1>3, <2>1, <2>3, <2>4 DEF Advances, Situation
<1>5. CASE Ended
  <2>1. PICK e \in Notes : e.kind = "exit" /\ cLock # None /\ queue = <<Mark("resume")>> /\ events = <<e>>
    BY <1>1, <1>5 DEF Ended
  <2>2. queue' = << >> /\ Head(queue).kind = "resume"
    BY <1>1, <2>1, Tuples, MarkIs
  <2>3. Ended'
    BY <1>1, <1>5, <2>1, <2>2 DEF Ended
  <2>4. Restarter'
    BY SMT, <2>2 DEF Restarter
  <2> QED BY <1>1, <1>2, <1>3, <2>1, <2>3, <2>4 DEF Advances, Situation, Ending
<1>6. ASSUME NEW k \in {"exit", "restart"}, Reported(k)
      PROVE  Reported(k)' /\ cLock # None /\ (Restarter' <=> Restarter)
  <2>1. PICK e \in Notes : /\ e.kind = k
                           /\ \/ queue = <<e>>
                              \/ cLock # None /\ queue = <<Mark("resume"), e>>
    BY <1>6 DEF Reported
  <2>2. queue # <<e>>
    <3>1. queue = <<e>> => Head(queue) = e
      BY Tuples
    <3>2. e.kind \notin {"pause", "resume"}
      BY <1>6, <2>1
    <3> QED BY <1>1, <3>1, <3>2
  <2>3. queue' = <<e>> /\ Head(queue).kind = "resume"
    <3>1. Tail(<<Mark("resume"), e>>) = <<e>> /\ Head(<<Mark("resume"), e>>) = Mark("resume")
      BY Tuples
    <3>2. Mark("resume").kind = "resume"
      BY MarkIs
    <3> QED BY <1>1, <2>1, <2>2, <3>1, <3>2
  <2>4. Reported(k)'
    BY <1>1, <1>6, <2>1, <2>3 DEF Reported
  <2>5. Restarter <=> k # "restart"
    BY <2>1, <2>2, RestarterIs, MarkIs
  <2>6. Restarter' <=> k # "restart"
    BY SMT, <2>1, <2>3 DEF Restarter
  <2> QED BY <2>1, <2>2, <2>4, <2>5, <2>6
<1>7. CASE ExitReported
  <2>1. ExitReported' /\ cLock # None /\ (Restarter' <=> Restarter)
    BY <1>1, <1>6, <1>7 DEF ExitReported
  <2> QED BY <1>1, <1>2, <1>3, <2>1 DEF Advances, Situation, Ending
<1>8. CASE RestartReported
  <2>1. RestartReported' /\ cLock # None /\ (Restarter' <=> Restarter) /\ ~Ending
    BY <1>1, <1>6, <1>8, Apart DEF RestartReported, BackingOff
  <2> QED BY <1>1, <1>2, <1>3, <2>1 DEF Advances, Situation
<1> QED BY <1>2, <1>4, <1>5, <1>7, <1>8 DEF Flow, Situation

\* All steps of the daemon and of containerd.  They leave the callers alone but
\* for the one whose pause is done.
LEMMA DaemonFlow ==
    ASSUME Sound, Flow, Orderly, DaemonStep \/ ProcessEnds
    PROVE  /\ Advances /\ Flow' /\ UNCHANGED <<canceled, removing, dead>> /\ DOMAIN call' = Callers
           /\ \A q \in Callers : call'[q] = call[q] \/ (call[q].at = "paused" /\ call'[q] = Idle)
<1>1. ASSUME Advances, Flags', lastExit' \in Codes, UNCHANGED <<dead, registered>>,
             cLock' = None \/ (cLock' = cLock /\ call' = call)
      PROVE  Flow'
  <2>1. Situation' /\ ~dead
    BY <1>1 DEF Advances, Flow
  <2> QED BY <1>1, <2>1 DEF Flow
<1>2. DOMAIN call = Callers
  BY DEF Sound
<1>3. CASE ProcessEnds \/ BackOff \/ RestartCanceled
  <2>1. Advances
    BY <1>3, ProcessEndsFlow, BackOffFlow, RestartCanceledFlow
  <2>2. /\ UNCHANGED <<running, paused, restarting, removing, dead>>
        /\ UNCHANGED <<registered, listed, canceled, lastExit, cLock, call>>
    BY <1>3 DEF ProcessEnds, BackOff, RestartCanceled, State, manager
  <2>3. Flags' /\ lastExit' \in Codes
    BY <2>2 DEF Flow, Flags
  <2> QED BY <1>1, <1>2, <2>1, <2>2, <2>3
<1>4. CASE handleEvent
  <2>1. Advances /\ lastExit' \in Codes
    BY <1>4, handleEventFlow
  <2>2. /\ UNCHANGED <<running, paused, restarting, removing, dead, registered, canceled, cLock, call>>
        /\ listed' \in {listed, TRUE, FALSE}
    BY <1>4 DEF handleEvent, State
  <2>3. Flags'
    BY <2>2 DEF Flow, Flags
  <2> QED BY <1>1, <1>2, <2>1, <2>2, <2>3
<1>5. CASE AutoRestart
  <2>1. Advances /\ Flags'
    BY <1>5, AutoRestartFlow
  <2>2. UNCHANGED <<registered, canceled, lastExit, cLock, call, removing, dead>>
    BY <1>5 DEF AutoRestart, SetRunning, State
  <2>3. lastExit' \in Codes
    BY <2>2 DEF Flow
  <2> QED BY <1>1, <1>2, <2>1, <2>2, <2>3
<1>6. CASE StateExit
  <2>1. Advances /\ Flags'
    BY <1>6, StateExitFlow
  <2>2. /\ UNCHANGED <<registered, cLock, call, removing, dead>> /\ UNCHANGED <<canceled, lastExit>>
    BY <1>6 DEF StateExit, SetStopped, SetRestarting, State, manager
  <2>3. lastExit' \in Codes
    BY <2>2 DEF Flow
  <2> QED BY <1>1, <1>2, <2>1, <2>2, <2>3
<1>7. CASE StatePause
  <2>1. Advances /\ Flags' /\ cLock # None
    BY <1>7, StatePauseFlow
  <2>2. /\ UNCHANGED <<registered, removing, dead>> /\ UNCHANGED <<canceled, lastExit>>
        /\ cLock' = None /\ call' = [call EXCEPT ![cLock] = Idle]
    BY <1>7 DEF StatePause, manager
  <2>3. lastExit' \in Codes /\ call[cLock].at = "paused"
    BY <2>1, <2>2 DEF Flow
  <2>4. DOMAIN call' = Callers /\ \A q \in Callers : call'[q] = call[q] \/ (q = cLock /\ call'[q] = Idle)
    BY <1>2, <2>2
  <2> QED BY <1>1, <2>1, <2>2, <2>3, <2>4
<1> QED BY <1>3, <1>4, <1>5, <1>6, <1>7 DEF DaemonStep

-----------------------------------------------------------------------------
(* What a removal has made sure of                                          *)

Waits(c, w) == c.at \in {"enter", "in"} /\ c.w = w
Closed(c) == c.at = "in" /\ c.gen < waitChan

\* No restart can come any more.
Settled == Rest \/ (Ending /\ canceled)
\* None but one whose back-off is already running
Committed == Rest \/ (canceled /\ Restarter)

\* In the Kill of a forced removal
Killing(c) ==
    /\ c.op = "rmf" /\ c.at \in {"kill", "sigkill", "unsent", "still", "direct", "enter", "in", "failed"}
    /\ ~Waits(c, "stop")
    /\ Waits(c, "ten") => Rest \/ canceled
    /\ Waits(c, "ten") /\ Closed(c) => Committed
    /\ c.at = "direct" \/ Waits(c, "ever") => Committed
    /\ Waits(c, "ever") /\ Closed(c) => Rest

\* Before it, or in the containerStop after it
Stopping(c) ==
    /\ c.at \in {"stop", "term", "force"} \/ Waits(c, "stop") => Settled
    /\ Waits(c, "stop") /\ Closed(c) => Rest
    /\ \/ c.at \in {"kill", "sigkill", "unsent", "still", "direct", "dead", "delete"}
       \/ c.at \in {"enter", "in"} /\ c.w # "stop"
       => Rest
    /\ c.at = "delete" => dead

Secured(c) == IF c.first THEN Killing(c) ELSE Stopping(c)

\* p has set RemovalInProgress.
Remover(p) == call[p].op \in RmOps /\ call[p].at # "check"

Removal ==
    /\ \A p, q \in Callers : Remover(p) /\ Remover(q) => p = q
    /\ \A p \in Callers : Remover(p) => removing /\ Secured(call[p])
    /\ \A p \in Callers : call[p].at = "check" => ~call[p].first

\* The daemon's steps keep what a removal has made sure of.
LEMMA AdvancesSecured ==
    ASSUME Advances, UNCHANGED <<canceled, dead>>, NEW c, Secured(c)
    PROVE  Secured(c)'
<1>1. Ending => Restarter
  BY SituationRestarter
<1>2. Settled => Settled' /\ (waitChan' # waitChan => Rest')
  BY <1>1 DEF Settled, Advances
<1>3. Committed => Committed' /\ (waitChan' # waitChan => Rest')
  BY DEF Committed, Advances
<1>4. /\ canceled => canceled' /\ (waitChan' # waitChan => Committed')
      /\ ~Rest
  BY DEF Advances, Committed
<1>5. waitChan' = waitChan => (Closed(c)' <=> Closed(c))
  BY DEF Closed
<1>6. CASE c.first
  <2>1. Killing(c)'
    BY <1>3, <1>4, <1>5, <1>6 DEF Secured, Killing, Waits
  <2> QED BY <1>6, <2>1 DEF Secured
<1>7. CASE ~c.first
  <2>1. Stopping(c)'
    BY <1>2, <1>4, <1>5, <1>7 DEF Secured, Stopping, Waits
  <2> QED BY <1>7, <2>1 DEF Secured
<1> QED BY <1>6, <1>7

-----------------------------------------------------------------------------
(* What the callers' steps leave as it is                                   *)

Permits ==
    /\ Situation' /\ UNCHANGED <<queue, waitChan>>
    /\ (removing \/ dead) /\ Rest => Rest'
    /\ removing /\ canceled => canceled'
    /\ Ending => Ending'

flowVars == <<proc, running, paused, restarting, listed, timer, cLock, queue, events>>

LEMMA KeptPermits ==
    ASSUME Situation, UNCHANGED flowVars, UNCHANGED waitChan, removing /\ canceled => canceled'
    PROVE  Permits
<1>1. /\ UNCHANGED <<proc, running, paused, restarting, listed>>
      /\ UNCHANGED <<timer, cLock, queue, events>>
  BY DEF flowVars
<1>2. Rest => Rest'
  BY <1>1 DEF Rest
<1>3. Up => Up'
  BY <1>1 DEF Up
<1>4. Ended => Ended'
  BY <1>1 DEF Ended
<1>5. \A k : Reported(k) => Reported(k)'
  BY <1>1 DEF Reported
<1>6. ExitReported => ExitReported'
  BY <1>1, <1>5 DEF ExitReported
<1>7. RestartReported => RestartReported'
  BY <1>1, <1>5 DEF RestartReported, BackingOff
<1>8. Waiting => Waiting'
  BY <1>1 DEF Waiting, BackingOff
<1> QED BY <1>1, <1>2, <1>3, <1>4, <1>6, <1>7, <1>8 DEF Permits, Situation, Ending

\* Only a container at rest does not count as running.
LEMMA NotRunning == Situation /\ ~running => Rest
BY DEF Situation, Up, Ended, ExitReported, RestartReported, Reported, Waiting

\* A start: the container is at rest, and gets a process or stays as it is.
LEMMA StartPermits ==
    ASSUME Flow, Orderly, NEW p \in Callers, containerStart(p)
    PROVE  Permits /\ Flags' /\ ~removing /\ UNCHANGED <<removing, dead, registered, cLock, lastExit>>
<1>1. /\ ~running /\ ~removing /\ ~dead /\ Elapses /\ canceled' = FALSE
      /\ UNCHANGED <<cLock, registered, events, queue, lastExit>>
  BY DEF containerStart, At
<1>2. Rest /\ ~Ending
  BY <1>1, NotRunning, Apart DEF Flow
<1>3. timer' = timer
  BY <1>1, <1>2 DEF Rest, Elapses
<1>4. CASE SetRunning /\ proc' = "up" /\ listed' = TRUE
  <2>1. running' = TRUE /\ paused' = FALSE /\ restarting' = FALSE /\ UNCHANGED <<removing, dead, waitChan>>
    BY <1>4 DEF SetRunning
  <2>2. Up'
    BY <1>1, <1>2, <1>3, <1>4, <2>1 DEF Rest, Up
  <2>3. Flags'
    BY <1>1, <1>4, <2>1 DEF Flow, Flags
  <2> QED BY <1>1, <1>2, <2>1, <2>2, <2>3 DEF Permits, Situation
<1>5. CASE UNCHANGED <<running, paused, restarting, removing, dead, waitChan, closedWith, proc, runs, listed, stopped>>
  <2>1. UNCHANGED flowVars
    BY <1>1, <1>3, <1>5 DEF flowVars
  <2>2. Flags'
    BY <1>1, <1>5 DEF Flow, Flags
  <2> QED BY <1>1, <1>5, <2>1, <2>2, KeptPermits DEF Flow
<1>6. \/ SetRunning /\ proc' = "up" /\ listed' = TRUE
      \/ UNCHANGED <<running, paused, restarting, removing, dead, waitChan, closedWith, proc, runs, listed, stopped>>
  BY DEF containerStart, Orderly
<1> QED BY <1>4, <1>5, <1>6

\* A pause or resume goes out: the container has a process.
LEMMA PausePermits ==
    ASSUME Sound, Flow, NEW p \in Callers, containerPause(p)
    PROVE  /\ Permits /\ Flags' /\ UNCHANGED <<removing, dead, registered, lastExit, canceled>>
           /\ cLock' = cLock \/ (cLock' = p /\ call'[p].at = "paused")
<1>1. /\ call[p].at = "pausing" /\ cLock = None
      /\ UNCHANGED <<running, paused, restarting, removing, dead, waitChan>>
      /\ UNCHANGED <<registered, listed, queue, canceled, timer, lastExit>>
  BY DEF containerPause, At, State, manager
<1>2. Flags'
  BY <1>1 DEF Flow, Flags
<1>3. CASE UNCHANGED <<cLock, proc, events>>
  <2>1. UNCHANGED flowVars
    BY <1>1, <1>3 DEF flowVars
  <2> QED BY <1>1, <1>2, <1>3, <2>1, KeptPermits DEF Flow
<1>4. ASSUME NEW k \in {"pause", "resume"}, proc' = (IF k = "pause" THEN "frozen" ELSE "up"),
             events' = Append(events, Mark(k)), cLock' = p, Goto(p, To(call[p], "paused")),
             running, ~restarting, listed, IF k = "pause" THEN ~paused /\ proc = "up" ELSE paused /\ proc = "frozen"
      PROVE  Permits /\ cLock' = p /\ call'[p].at = "paused"
  <2>1. Up
    <3>1. Situation /\ proc # "none"
      BY <1>4 DEF Flow
    <3> QED BY <3>1, UpHasProcess
  <2>2. queue = << >> /\ events = << >> /\ ~Rest /\ ~Ending /\ timer = "none"
    BY <1>1, <2>1, Apart DEF Up
  <2>3. events' = <<Mark(k)>>
    BY <1>4, <2>2, Tuples
  <2>4. p # None
    BY ConstantsAssumption
  <2>5. Up'
    BY <1>1, <1>4, <2>2, <2>3, <2>4 DEF Up
  <2>6. call'[p].at = "paused"
    <3>1. call[p] \in Activations
      BY DEF Sound, WellFormed
    <3>2. To(call[p], "paused").at = "paused"
      BY <3>1, ToIs DEF Labels, PlainLabels
    <3> QED BY <1>4, <3>2 DEF Goto, Sound
  <2> QED BY <1>1, <1>4, <2>2, <2>5, <2>6 DEF Permits, Situation
<1>5. \/ UNCHANGED <<cLock, proc, events>>
      \/ \E k \in {"pause", "resume"} :
            /\ proc' = (IF k = "pause" THEN "frozen" ELSE "up")
            /\ events' = Append(events, Mark(k)) /\ cLock' = p /\ Goto(p, To(call[p], "paused"))
            /\ running /\ ~restarting /\ listed
            /\ IF k = "pause" THEN ~paused /\ proc = "up" ELSE paused /\ proc = "frozen"
  <2>1. CASE call[p].op = "pause"
    BY <2>1 DEF containerPause, Mark
  <2>2. CASE call[p].op # "pause"
    BY <2>2 DEF containerPause, Mark
  <2> QED BY <2>1, <2>2
<1> QED BY <1>1, <1>2, <1>3, <1>4, <1>5

\* All other steps of a caller touch at most the restart manager's cancel flag and
\* the marks of the removal.
Plain(p) ==
    \/ StartRefused(p)
    \/ IsRunning(p) \/ killWithSignal(p) \/ WaitStop(p) \/ Wake(p) \/ TimeOut(p)
    \/ killProcessDirectly(p)
    \/ ContainerRm(p) \/ cleanupContainer(p) \/ SetDead(p) \/ ResetRemovalInProgress(p)

LEMMA PlainPermits ==
    ASSUME Flow, NEW p \in Callers, Plain(p)
    PROVE  /\ Permits /\ Flags' /\ UNCHANGED <<lastExit, cLock>>
           /\ canceled => canceled' 
<1>1. UNCHANGED flowVars /\ UNCHANGED <<waitChan, lastExit>>
  <2>1. CASE \/ StartRefused(p) \/ IsRunning(p) \/ WaitStop(p) \/ Wake(p) \/ TimeOut(p) \/ cleanupContainer(p)
    BY <2>1 DEF StartRefused, IsRunning, WaitStop, Wake, TimeOut, cleanupContainer, flowVars, State,
                client, containerd, manager
  <2>2. CASE killWithSignal(p) \/ killProcessDirectly(p)
    BY <2>2 DEF killWithSignal, killProcessDirectly, flowVars, State, manager
  <2>3. CASE ContainerRm(p) \/ SetDead(p) \/ ResetRemovalInProgress(p)
    BY <2>3 DEF ContainerRm, SetDead, ResetRemovalInProgress, flowVars, client, containerd, manager
  <2> QED BY <2>1, <2>2, <2>3 DEF Plain
<1>2. /\ canceled' \in BOOLEAN /\ (canceled => canceled')
      /\ removing' \in BOOLEAN /\ dead' \in BOOLEAN /\ registered' \in BOOLEAN
  <2>0. canceled \in BOOLEAN /\ removing \in BOOLEAN /\ dead \in BOOLEAN /\ registered \in BOOLEAN
    BY DEF Flow, Flags
  <2>1. CASE \/ StartRefused(p) \/ IsRunning(p) \/ WaitStop(p) \/ Wake(p) \/ TimeOut(p) \/ cleanupContainer(p)
    BY <2>0, <2>1 DEF StartRefused, IsRunning, WaitStop, Wake, TimeOut, cleanupContainer, State,
                client, manager
  <2>2. CASE killWithSignal(p) \/ killProcessDirectly(p)
    <3>1. canceled' \in BOOLEAN /\ (canceled => canceled')
      BY <2>0, <2>2 DEF killWithSignal, killProcessDirectly, manager
    <3> QED BY <2>0, <2>2, <3>1 DEF killWithSignal, killProcessDirectly, State
  <2>3. CASE ContainerRm(p) \/ SetDead(p)
    BY <2>0, <2>3 DEF ContainerRm, SetDead, client, manager
  <2>4. CASE ResetRemovalInProgress(p)
    BY <2>0, <2>4 DEF ResetRemovalInProgress, client, manager
  <2> QED BY <2>1, <2>2, <2>3, <2>4 DEF Plain
<1>3. Flags'
  BY <1>1, <1>2 DEF Flow, Flags, flowVars
<1>4. Permits
  BY <1>1, <1>2, KeptPermits DEF Flow
<1> QED BY <1>1, <1>2, <1>3, <1>4 DEF flowVars

-----------------------------------------------------------------------------
(* What a removal has made sure of stays so                                 *)

Kept == /\ Rest => Rest'
        /\ canceled => canceled'
        /\ Settled => Settled'
        /\ Committed => Committed'
        /\ waitChan' = waitChan
        /\ dead => dead'

LEMMA PermitsKept ==
    ASSUME Permits, removing, dead => dead'
    PROVE  Kept
<1>1. Restarter => Restarter'
  BY DEF Permits, Restarter
<1> QED BY <1>1 DEF Permits, Kept, Settled, Committed

LEMMA KeptSecured ==
    ASSUME Kept, NEW c, Secured(c)
    PROVE  Secured(c)'
<1>1. Closed(c)' <=> Closed(c)
  BY DEF Closed, Kept
<1>2. CASE c.first
  <2>1. Killing(c)'
    BY <1>1, <1>2 DEF Secured, Killing, Waits, Kept
  <2> QED BY <1>2, <2>1 DEF Secured
<1>3. CASE ~c.first
  <2>1. Stopping(c)'
    BY <1>1, <1>3 DEF Secured, Stopping, Waits, Kept
  <2> QED BY <1>3, <2>1 DEF Secured
<1> QED BY <1>2, <1>3

\* Where the removal itself goes on.
KillLabels == {"kill", "sigkill", "unsent", "still", "direct"}

LEMMA ToSecured ==
    ASSUME NEW c \in Activations, NEW l \in Labels \ {"enter", "in"},
           c.first => /\ c.op = "rmf" /\ l \in KillLabels \cup {"failed"}
                      /\ l = "direct" => Committed',
           ~c.first => /\ l \in {"stop", "term", "force"} => Settled'
                       /\ l \in KillLabels \cup {"dead", "delete"} => Rest'
                       /\ l = "delete" => dead'
    PROVE  Secured(To(c, l))'
<1>1. PICK d : d = To(c, l)
  OBVIOUS
<1>2. d.op = c.op /\ d.at = l /\ d.first = c.first
  BY <1>1, ToIs
<1>3. ~Waits(d, "stop")' /\ ~Waits(d, "ten")' /\ ~Waits(d, "ever")' /\ l \notin {"enter", "in"}
  BY <1>2 DEF Waits
<1>4. CASE c.first
  <2>1. Killing(d)'
    BY <1>2, <1>3, <1>4 DEF Killing, KillLabels
  <2> QED BY <1>1, <1>2, <1>4, <2>1 DEF Secured
<1>5. CASE ~c.first
  <2>1. Stopping(d)'
    BY <1>2, <1>3, <1>5 DEF Stopping, KillLabels
  <2> QED BY <1>1, <1>2, <1>5, <2>1 DEF Secured
<1> QED BY <1>4, <1>5

LEMMA WaitForSecured ==
    ASSUME NEW c \in Activations, NEW w \in {"stop", "two", "ten", "ever"},
           c.first => /\ c.op = "rmf" /\ w # "stop"
                      /\ w = "ten" => Rest' \/ canceled'
                      /\ w = "ever" => Committed',
           ~c.first => IF w = "stop" THEN Settled' ELSE Rest'
    PROVE  Secured(WaitFor(c, w))'
<1>1. PICK d : d = WaitFor(c, w)
  OBVIOUS
<1>2. d.op = c.op /\ d.at = "enter" /\ d.first = c.first /\ d.w = w
  BY <1>1, WaitForIs
<1>3. ~Closed(d)'
  BY <1>2 DEF Closed
<1>4. CASE c.first
  <2>1. Killing(d)'
    BY <1>2, <1>3, <1>4 DEF Killing, Waits
  <2> QED BY <1>1, <1>2, <1>4, <2>1 DEF Secured
<1>5. CASE ~c.first
  <2>1. Stopping(d)'
    BY <1>2, <1>3, <1>5 DEF Stopping, Waits
  <2> QED BY <1>1, <1>2, <1>5, <2>1 DEF Secured
<1> QED BY <1>4, <1>5

\* At rest, the outcome of a Kill or a containerStop is secured.
LEMMA OutcomesSecured ==
    ASSUME NEW c, WellFormed(c), c.op \in RmOps, c.first => c.op = "rmf", Rest'
    PROVE  /\ ~c.first => Secured(StopOk(c))'
           /\ Secured(KillOk(c))'
<1>1. c \in Activations /\ Settled'
  BY DEF WellFormed, Settled
<1>2. CASE ~c.first
  <2>1. StopOk(c) = To(c, "dead") /\ KillOk(c) = StopOk(c)
    BY <1>2, StopOkIs, KillOkIs DEF RmOps
  <2>2. Secured(To(c, "dead"))'
    BY <1>1, <1>2, ToSecured DEF Labels, RmLabels, KillLabels
  <2> QED BY <1>2, <2>1, <2>2
<1>3. CASE c.first
  <2>1. PICK d \in Activations : d = [c EXCEPT !.first = FALSE] /\ d.first = FALSE
    BY <1>1, FirstIs
  <2>2. KillOk(c) = To(d, "stop")
    BY <1>3, <2>1, KillOkIs
  <2>3. Secured(To(d, "stop"))'
    BY <1>1, <2>1, ToSecured DEF Labels, StopLabels, KillLabels
  <2> QED BY <1>3, <2>2, <2>3
<1> QED BY <1>2, <1>3

-----------------------------------------------------------------------------
(* The steps of a removal                                                   *)

\* c is p's removal, and what it has made sure of.
Removing(p, c) ==
    /\ c = call[p] /\ WellFormed(c) /\ c.op \in RmOps
    /\ Secured(c) /\ Situation /\ DOMAIN call = Callers

Reaches(p) == \E d : call'[p] = d /\ Secured(d)'

LEMMA GoSecured ==
    ASSUME NEW p \in Callers, NEW c, Removing(p, c), NEW d, Goto(p, d), Secured(d)'
    PROVE  Reaches(p)
BY DEF Removing, Goto, Reaches

LEMMA FirstIsForced ==
    ASSUME NEW p, NEW c, Removing(p, c)
    PROVE  /\ c \in Activations /\ c.first \in BOOLEAN
           /\ c.first => c.op = "rmf" /\ Killing(c)
           /\ ~c.first => Stopping(c)
BY DEF Removing, Secured, Killing, WellFormed, Activations

LEMMA IsRunningSecured ==
    ASSUME NEW p \in Callers, NEW c, Removing(p, c), Kept, IsRunning(p)
    PROVE  Reaches(p)
<1> USE FirstIsForced
<1>1. c.op # "kill" /\ WellFormed(c) /\ (~running => Rest)
  BY NotRunning DEF Removing, RmOps
<1>2. CASE c.at = "stop" /\ running
  <2>1. Goto(p, To(c, "term"))
    BY <1>2 DEF IsRunning, Removing
  <2>2. ~c.first /\ Settled'
    BY <1>2 DEF Killing, Stopping, Kept
  <2>3. Secured(To(c, "term"))'
    BY <2>2, ToSecured DEF Labels, StopLabels, KillLabels
  <2> QED BY <2>1, <2>3, GoSecured
<1>3. CASE c.at = "stop" /\ ~running
  <2>1. Goto(p, StopOk(c))
    BY <1>3 DEF IsRunning, Removing
  <2>2. ~c.first /\ Rest' /\ c.op \in RmOps
    BY <1>1, <1>3 DEF Killing, Kept, Removing
  <2>3. Secured(StopOk(c))'
    BY <1>1, <2>2, OutcomesSecured
  <2> QED BY <2>1, <2>3, GoSecured
<1>4. CASE c.at = "kill" /\ running
  <2>1. Goto(p, To(c, "sigkill"))
    BY <1>4 DEF IsRunning, Removing
  <2>2. ~c.first => Rest'
    BY <1>4 DEF Stopping, Kept
  <2>3. Secured(To(c, "sigkill"))'
    BY <2>2, ToSecured DEF Labels, StopLabels, KillLabels
  <2> QED BY <2>1, <2>3, GoSecured
<1>5. ASSUME c.at = "kill" \/ c.at = "still", Goto(p, KillFails(c)) PROVE Reaches(p)
  <2>1. CASE c.first
    <3>1. KillFails(c) = To(c, "failed")
      BY <1>1, <2>1, KillFailsIs
    <3>2. Secured(To(c, "failed"))'
      BY <2>1, ToSecured DEF Labels, RmLabels, KillLabels
    <3> QED BY <1>5, <3>1, <3>2, GoSecured
  <2>2. CASE ~c.first
    <3>1. KillFails(c) = WaitFor(c, "ever")
      BY <1>1, <2>2, KillFailsIs
    <3>2. Rest'
      BY <1>5, <2>2 DEF Stopping, Kept
    <3>3. Secured(WaitFor(c, "ever"))'
      BY <2>2, <3>2, WaitForSecured
    <3> QED BY <1>5, <3>1, <3>3, GoSecured
  <2> QED BY <2>1, <2>2
<1>6. CASE c.at = "kill" /\ ~running
  <2>1. Goto(p, KillFails(c))
    BY <1>6 DEF IsRunning, Removing
  <2> QED BY <1>5, <1>6, <2>1
<1>7. CASE c.at = "still" /\ running
  <2>1. Goto(p, KillFails(c))
    BY <1>7 DEF IsRunning, Removing
  <2> QED BY <1>5, <1>7, <2>1
<1>8. CASE c.at = "unsent" /\ running
  <2>1. Goto(p, WaitFor(c, "two"))
    BY <1>8 DEF IsRunning, Removing
  <2>2. ~c.first => Rest'
    BY <1>8 DEF Stopping, Kept
  <2>3. Secured(WaitFor(c, "two"))'
    BY <2>2, WaitForSecured
  <2> QED BY <2>1, <2>3, GoSecured
<1>9. CASE (c.at = "unsent" \/ c.at = "still") /\ ~running
  <2>1. Goto(p, WaitFor(c, "ten"))
    BY <1>9 DEF IsRunning, Removing
  <2>2. Rest'
    BY <1>1, <1>9 DEF Kept
  <2>3. Secured(WaitFor(c, "ten"))'
    BY <2>2, WaitForSecured
  <2> QED BY <2>1, <2>3, GoSecured
<1>10. c.at \in {"stop", "kill", "unsent", "still"}
  BY DEF IsRunning, Removing
<1> QED BY <1>2, <1>3, <1>4, <1>6, <1>7, <1>8, <1>9, <1>10

LEMMA killWithSignalSecured ==
    ASSUME NEW p \in Callers, NEW c, Removing(p, c), Kept, killWithSignal(p)
    PROVE  Reaches(p)
<1> USE FirstIsForced
<1> DEFINE ok == running /\ ~paused
<1>1. /\ c.at \in {"term", "force", "sigkill"} /\ canceled' = (canceled \/ ok)
      /\ c.op \in RmOps
  BY DEF killWithSignal, Removing
<1>2. CASE c.at = "term" \/ c.at = "force"
  <2>1. ~c.first /\ Settled'
    BY <1>2 DEF Killing, Stopping, Kept
  <2>2. /\ Secured(WaitFor(c, "stop"))'
        /\ Secured(To(c, "force"))'
        /\ Secured(To(c, "failed"))'
    <3>1. Secured(WaitFor(c, "stop"))'
      BY <2>1, WaitForSecured
    <3>2. Secured(To(c, "force"))'
      BY <2>1, ToSecured DEF Labels, StopLabels, KillLabels
    <3>3. Secured(To(c, "failed"))'
      BY <2>1, ToSecured DEF Labels, RmLabels, KillLabels
    <3> QED BY <3>1, <3>2, <3>3
  <2>3. CASE c.at = "term"
    <3>1. Goto(p, IF ok THEN WaitFor(c, "stop") ELSE To(c, "force"))
      BY <2>3 DEF killWithSignal, Removing
    <3> HIDE DEF ok
    <3>2. CASE ok
      BY <2>2, <3>1, <3>2, GoSecured
    <3>3. CASE ~ok
      BY <2>2, <3>1, <3>3, GoSecured
    <3> QED BY <3>2, <3>3
  <2>4. CASE c.at = "force"
    <3>1. Goto(p, IF ok THEN WaitFor(c, "stop") ELSE StopFails(c))
      BY <2>4 DEF killWithSignal, Removing
    <3>2. StopFails(c) = To(c, "failed")
      BY <1>1 DEF StopFails, RmOps
    <3> HIDE DEF ok
    <3>3. CASE ok
      BY <2>2, <3>1, <3>3, GoSecured
    <3>4. CASE ~ok
      BY <2>2, <3>1, <3>2, <3>4, GoSecured
    <3> QED BY <3>3, <3>4
  <2> QED BY <1>2, <2>3, <2>4
<1>3. CASE c.at = "sigkill"
  <2>1. ~c.first => Rest'
    BY <1>3 DEF Stopping, Kept
  <2>2. Goto(p, IF ok THEN WaitFor(c, "ten") ELSE To(c, "unsent"))
    BY <1>3 DEF killWithSignal, Removing
  <2>3. CASE ok
    <3>1. canceled'
      BY <1>1, <2>3
    <3>2. Secured(WaitFor(c, "ten"))'
      BY <2>1, <3>1, WaitForSecured
    <3> QED BY <2>2, <2>3, <3>2, GoSecured
  <2>4. CASE ~ok
    <3>1. Secured(To(c, "unsent"))'
      BY <2>1, ToSecured DEF Labels, StopLabels, KillLabels
    <3> HIDE DEF ok
    <3> QED BY <2>2, <2>4, <3>1, GoSecured
  <2> QED BY <2>3, <2>4
<1> QED BY <1>1, <1>2, <1>3

\* The end of a wait: at rest, or after the channel was closed.
LEMMA WokenSecured ==
    ASSUME NEW p \in Callers, NEW c, Removing(p, c), Kept, Goto(p, Woken(c)),
           c.at \in {"enter", "in"}, Rest \/ Closed(c)
    PROVE  Reaches(p)
<1> USE FirstIsForced
<1>1. /\ c.w \in {"stop", "two", "ten", "ever"} /\ WellFormed(c) /\ c.op \in RmOps
  BY DEF Removing, WellFormed, Activations
<1>2. CASE c.w = "stop"
  <2>1. ~c.first /\ Rest'
    BY <1>2 DEF Killing, Stopping, Waits, Kept
  <2>2. Secured(StopOk(c))'
    BY <1>1, <2>1, OutcomesSecured
  <2> QED BY <1>2, <2>2, WokenIs, GoSecured
<1>3. CASE c.w = "two"
  <2>1. ~c.first => Rest'
    BY <1>3 DEF Stopping, Kept
  <2>2. Secured(To(c, "still"))'
    BY <2>1, ToSecured DEF Labels, StopLabels, KillLabels
  <2> QED BY <1>3, <2>2, WokenIs, GoSecured
<1>4. CASE c.w = "ten"
  <2>1. ~c.first => Rest'
    BY <1>4 DEF Stopping, Kept
  <2>2. c.first => Committed'
    <3>1. Rest => Committed
      BY DEF Committed
    <3> QED BY <1>4, <3>1 DEF Killing, Waits, Kept
  <2>3. Secured(WaitFor(c, "ever"))'
    BY <2>1, <2>2, WaitForSecured
  <2> QED BY <1>4, <2>3, WokenIs, GoSecured
<1>5. CASE c.w = "ever"
  <2>1. Rest'
    BY <1>5 DEF Killing, Stopping, Waits, Kept
  <2>2. Secured(KillOk(c))'
    BY <1>1, <2>1, OutcomesSecured
  <2> QED BY <1>5, <2>2, WokenIs, GoSecured
<1> QED BY <1>1, <1>2, <1>3, <1>4, <1>5

LEMMA WaitStopSecured ==
    ASSUME NEW p \in Callers, NEW c, Removing(p, c), Kept, WaitStop(p), waitChan \in Nat
    PROVE  Reaches(p)
<1> USE FirstIsForced
<1>1. c.at = "enter" /\ (~running => Rest)
  BY NotRunning DEF WaitStop, At, Removing
<1>2. CASE ~running
  <2>1. Goto(p, Woken(c))
    BY <1>2 DEF WaitStop, Removing
  <2> QED BY <1>1, <1>2, <2>1, WokenSecured
<1>3. CASE running
  <2>1. PICK d : d = [c EXCEPT !.at = "in", !.gen = waitChan]
    OBVIOUS
  <2>2. call'[p] = d
    <3>1. call' = [call EXCEPT ![p].at = "in", ![p].gen = waitChan]
      BY <1>3 DEF WaitStop
    <3> QED BY <2>1, <3>1 DEF Removing, Activations
  <2>3. d.at = "in" /\ d.gen = waitChan /\ d.op = c.op /\ d.w = c.w /\ d.first = c.first
    BY SMT, <2>1 DEF Activations
  <2>4. ~Closed(d)'
    BY SMT, <2>3 DEF Closed, Kept
  <2>5. CASE c.first
    <3>1. Killing(d)'
      BY <1>1, <2>3, <2>4, <2>5 DEF Killing, Waits, Kept
    <3> QED BY <2>2, <2>3, <2>5, <3>1 DEF Secured, Reaches
  <2>6. CASE ~c.first
    <3>1. Stopping(d)'
      BY <1>1, <2>3, <2>4, <2>6 DEF Stopping, Waits, Kept
    <3> QED BY <2>2, <2>3, <2>6, <3>1 DEF Secured, Reaches
  <2> QED BY <2>5, <2>6
<1> QED BY <1>2, <1>3

LEMMA WakeSecured ==
    ASSUME NEW p \in Callers, NEW c, Removing(p, c), Kept, Wake(p)
    PROVE  Reaches(p)
<1>1. c.at = "in" /\ Closed(c) /\ Goto(p, Woken(c))
  BY DEF Wake, At, Removing, Closed
<1> QED BY <1>1, WokenSecured

\* The daemon's own timeouts elapse only when all notifications have been handled.
LEMMA TimeOutSecured ==
    ASSUME NEW p \in Callers, NEW c, Removing(p, c), Kept, TimeOut(p), Orderly
    PROVE  Reaches(p)
<1> USE FirstIsForced
<1>1. /\ c.at = "in" /\ c.w \in {"stop", "two", "ten"} /\ Goto(p, TimedOut(c))
      /\ queue = << >> /\ events = << >>
  BY DEF TimeOut, Removing, RmOps, Orderly, WellFormed, Activations
<1>2. ~Ending
  <2>1. ~Ended
    BY <1>1, Tuples DEF Ended
  <2>2. ~ExitReported
    BY <1>1, Tuples DEF ExitReported, Reported
  <2> QED BY <2>1, <2>2 DEF Ending
<1>3. CASE c.w = "stop"
  <2>1. ~c.first /\ Rest'
    BY <1>1, <1>2, <1>3 DEF Killing, Stopping, Waits, Settled, Kept
  <2>2. Secured(To(c, "kill"))'
    BY <2>1, ToSecured DEF Labels, StopLabels, KillLabels
  <2> QED BY <1>1, <1>3, <2>2, WokenIs, GoSecured
<1>4. CASE c.w = "two"
  <2>1. ~c.first => Rest'
    BY <1>1, <1>4 DEF Stopping, Kept
  <2>2. Secured(To(c, "still"))'
    BY <2>1, ToSecured DEF Labels, StopLabels, KillLabels
  <2> QED BY <1>1, <1>4, <2>2, WokenIs, GoSecured
<1>5. CASE c.w = "ten"
  <2>1. ~c.first => Rest'
    BY <1>1, <1>5 DEF Stopping, Kept
  <2>2. c.first => Committed'
    <3>1. Restarter
      BY <1>1, RestarterIs
    <3> QED BY <1>1, <1>5, <3>1 DEF Killing, Waits, Committed, Kept
  <2>3. Secured(To(c, "direct"))'
    BY <2>1, <2>2, ToSecured DEF Labels, StopLabels, KillLabels
  <2> QED BY <1>1, <1>5, <2>3, WokenIs, GoSecured
<1> QED BY <1>1, <1>3, <1>4, <1>5

\* There is no process to kill: its exit has not been noticed, and it will not be
\* followed by a restart.
LEMMA killProcessDirectlySecured ==
    ASSUME NEW p \in Callers, NEW c, Removing(p, c), Kept, killProcessDirectly(p)
    PROVE  Reaches(p)
<1> USE FirstIsForced
<1> DEFINE gone == running /\ ~restarting /\ proc = "none"
<1>1. /\ c.at = "direct" /\ WellFormed(c) /\ c.op \in RmOps /\ Situation
      /\ Goto(p, IF gone THEN KillOk(c) ELSE WaitFor(c, "ever"))
  BY DEF killProcessDirectly, At, Removing
<1>2. (c.first => Committed) /\ (~c.first => Rest)
  BY <1>1 DEF Killing, Stopping
<1>3. CASE gone /\ c.first
  <2>1. Settled'
    <3>1. ~Rest /\ ~Up /\ ~Waiting
      BY <1>3 DEF Rest, Up, Waiting
    <3>2. canceled /\ Restarter
      BY <1>2, <1>3, <3>1 DEF Committed
    <3>3. Ending
      BY <1>1, <3>1, <3>2, SituationRestarter DEF Situation, Ending
    <3> QED BY <3>2, <3>3 DEF Settled, Kept
  <2>2. PICK d \in Activations : d = [c EXCEPT !.first = FALSE] /\ d.first = FALSE
    BY FirstIs
  <2>3. KillOk(c) = To(d, "stop")
    BY <1>1, <1>3, <2>2, KillOkIs
  <2>4. Secured(To(d, "stop"))'
    BY <2>1, <2>2, ToSecured DEF Labels, StopLabels, KillLabels
  <2> HIDE DEF gone
  <2> QED BY <1>1, <1>3, <2>3, <2>4, GoSecured
<1>4. CASE gone /\ ~c.first
  <2>1. Rest'
    BY <1>2, <1>4 DEF Kept
  <2>2. Secured(KillOk(c))'
    BY <1>1, <2>1, OutcomesSecured
  <2> HIDE DEF gone
  <2> QED BY <1>1, <1>4, <2>2, GoSecured
<1>5. CASE ~gone
  <2>1. (c.first => Committed') /\ (~c.first => Rest')
    BY <1>2 DEF Kept
  <2>2. Secured(WaitFor(c, "ever"))'
    BY <2>1, WaitForSecured
  <2> HIDE DEF gone
  <2> QED BY <1>1, <1>5, <2>2, GoSecured
<1> QED BY <1>3, <1>4, <1>5

LEMMA cleanupContainerSecured ==
    ASSUME NEW p \in Callers, NEW c, Removing(p, c), Kept, cleanupContainer(p)
    PROVE  Reaches(p)
<1> USE FirstIsForced
<1>1. c.at = "cleanup" /\ (~running => Rest)
  BY NotRunning DEF cleanupContainer, At, Removing
<1>2. ~c.first
  BY <1>1 DEF Killing
<1>3. CASE ~running
  <2>1. Goto(p, To(c, "stop"))
    BY <1>3 DEF cleanupContainer, Removing
  <2>2. Settled'
    BY <1>1, <1>3 DEF Kept, Settled
  <2>3. Secured(To(c, "stop"))'
    BY <1>2, <2>2, ToSecured DEF Labels, StopLabels, KillLabels
  <2> QED BY <2>1, <2>3, GoSecured
<1>4. CASE running /\ c.op = "rmf"
  <2>1. PICK d \in Activations : d = [c EXCEPT !.first = TRUE] /\ d.first = TRUE /\ d.op = c.op
    BY FirstIs
  <2>2. Goto(p, To(d, "kill"))
    BY <1>4, <2>1 DEF cleanupContainer, Removing
  <2>3. Secured(To(d, "kill"))'
    BY <1>4, <2>1, ToSecured DEF Labels, StopLabels, KillLabels
  <2> QED BY <2>2, <2>3, GoSecured
<1>5. CASE running /\ c.op # "rmf"
  <2>1. Goto(p, To(c, "failed"))
    BY <1>5 DEF cleanupContainer, Removing
  <2>2. Secured(To(c, "failed"))'
    BY <1>2, ToSecured DEF Labels, RmLabels, KillLabels
  <2> QED BY <2>1, <2>2, GoSecured
<1> QED BY <1>3, <1>4, <1>5

LEMMA SetDeadSecured ==
    ASSUME NEW p \in Callers, NEW c, Removing(p, c), Kept, SetDead(p)
    PROVE  Reaches(p) /\ Rest
<1> USE FirstIsForced
<1>1. c.at = "dead" /\ dead' /\ Goto(p, To(c, "delete"))
  BY DEF SetDead, At, Removing
<1>2. ~c.first /\ Rest /\ Rest'
  BY <1>1 DEF Killing, Stopping, Kept
<1>3. Secured(To(c, "delete"))'
  BY <1>1, <1>2, ToSecured DEF Labels, RmLabels, KillLabels
<1> QED BY <1>1, <1>2, <1>3, GoSecured

-----------------------------------------------------------------------------
(* The caller's steps                                                       *)

LEMMA CallerPermits ==
    ASSUME Sound, Flow, Orderly, NEW p \in Callers, CallerStep(p)
    PROVE  /\ Permits /\ Flags' /\ lastExit' = lastExit
           /\ cLock' = cLock \/ (cLock' = p /\ call'[p].at = "paused")
           /\ cLock # p
<1>1. Plain(p) \/ containerStart(p) \/ containerPause(p)
  BY DEF CallerStep, Plain
<1>2. cLock # p
  <2>1. cLock # None => call[p].at = "in"
    BY DEF CallerStep, StartRefused, containerStart, IsRunning, killWithSignal, WaitStop, Wake, TimeOut,
           killProcessDirectly, containerPause, ContainerRm, cleanupContainer, SetDead,
           ResetRemovalInProgress, At
  <2> QED BY <2>1, ConstantsAssumption DEF Flow
<1> QED BY <1>1, <1>2, PlainPermits, StartPermits, PausePermits

\* Who changes the marks of a removal.
LEMMA CallerMarks ==
    ASSUME NEW p \in Callers, CallerStep(p)
    PROVE  /\ dead' = dead \/ SetDead(p)
           /\ registered' = registered \/ ResetRemovalInProgress(p)
           /\ removing' = removing \/ ContainerRm(p) \/ ResetRemovalInProgress(p)
<1>1. CASE \/ StartRefused(p) \/ IsRunning(p) \/ killWithSignal(p) \/ WaitStop(p) \/ Wake(p) \/ TimeOut(p)
           \/ killProcessDirectly(p) \/ cleanupContainer(p) \/ containerPause(p)
  BY <1>1 DEF StartRefused, IsRunning, killWithSignal, WaitStop, Wake, TimeOut, cleanupContainer,
              killProcessDirectly, containerPause, State
<1>2. CASE containerStart(p)
  BY <1>2 DEF containerStart, SetRunning, State
<1>3. CASE ContainerRm(p) \/ SetDead(p) \/ ResetRemovalInProgress(p)
  BY <1>3 DEF ContainerRm, SetDead, ResetRemovalInProgress
<1> QED BY <1>1, <1>2, <1>3 DEF CallerStep

\* At its labels, a removal takes only these steps.
RmStep(p) ==
    \/ IsRunning(p) \/ killWithSignal(p) \/ WaitStop(p) \/ Wake(p) \/ TimeOut(p)
    \/ killProcessDirectly(p) \/ cleanupContainer(p) \/ SetDead(p)

LEMMA RmLabelled ==
    ASSUME Sound, NEW p \in Callers, CallerStep(p)
    PROVE  /\ Remover(p) => RmStep(p) \/ ResetRemovalInProgress(p)
           /\ call[p].op \in RmOps /\ ~Remover(p) => ContainerRm(p)
           /\ SetDead(p) \/ ResetRemovalInProgress(p) => Remover(p)
           /\ ContainerRm(p) => call[p].op \in RmOps /\ ~Remover(p)
<1>1. WellFormed(call[p])
  BY DEF Sound
<1>2. StartRefused(p) \/ containerStart(p) \/ containerPause(p) => call[p].op \notin RmOps
  <2>1. StartRefused(p) \/ containerStart(p) \/ containerPause(p) => call[p].at \in {"start", "pausing"}
    BY DEF StartRefused, containerStart, containerPause, At
  <2> QED BY <1>1, <2>1 DEF WellFormed, StopLabels, RmLabels
<1>3. ContainerRm(p) => call[p].at = "check" /\ call[p].op \in RmOps
  <2>1. ContainerRm(p) => call[p].at = "check"
    BY DEF ContainerRm, At
  <2> QED BY <1>1, <2>1 DEF WellFormed, StopLabels, PlainLabels
<1>4. SetDead(p) \/ ResetRemovalInProgress(p) => call[p].at # "check" /\ call[p].op \in RmOps
  <2>1. SetDead(p) \/ ResetRemovalInProgress(p) => call[p].at \in {"dead", "delete", "failed"}
    BY DEF SetDead, ResetRemovalInProgress, At
  <2> QED BY <1>1, <2>1 DEF WellFormed, StopLabels, PlainLabels
<1>5. RmStep(p) => call[p].at # "check"
  BY DEF RmStep, IsRunning, killWithSignal, WaitStop, Wake, TimeOut, killProcessDirectly, cleanupContainer,
         SetDead, At
<1> QED BY <1>2, <1>3, <1>4, <1>5 DEF CallerStep, RmStep, Remover

LEMMA RmStepReaches ==
    ASSUME Sound, NEW p \in Callers, NEW c, Removing(p, c), Kept, Orderly, RmStep(p)
    PROVE  Reaches(p)
<1>1. waitChan \in Nat
  BY DEF Sound
<1> QED BY <1>1, IsRunningSecured, killWithSignalSecured, WaitStopSecured, WakeSecured, TimeOutSecured,
           killProcessDirectlySecured, cleanupContainerSecured, SetDeadSecured DEF RmStep

LEMMA SecuredNow ==
    ASSUME NEW q, NEW d, call'[q] = d, Secured(d)'
    PROVE  Secured(call[q])' /\ (d.first => d.at # "check")
BY DEF Secured, Killing, Stopping, Waits, Closed

LEMMA CallerDead ==
    ASSUME Sound, Flow, Removal, Orderly, NEW p \in Callers, CallerStep(p)
    PROVE  /\ dead => dead'
           /\ removing => Kept
           /\ Remover(p) => \E c : Removing(p, c) /\ c = call[p]
           /\ dead' => dead \/ (Rest /\ removing)
           /\ ~registered' => dead'
<1>1. dead => dead'
  BY CallerMarks DEF SetDead
<1>2. removing => Kept
  BY <1>1, CallerPermits, PermitsKept
<1>3. Remover(p) => \E c : Removing(p, c) /\ c = call[p]
  BY DEF Removing, Removal, Remover, Sound, Flow
<1>4. dead' => dead \/ (Rest /\ removing)
  <2>1. CASE SetDead(p)
    <3>1. Remover(p) /\ removing
      BY <2>1, RmLabelled DEF Removal
    <3>2. PICK c : Removing(p, c)
      BY <1>3, <3>1
    <3> QED BY <1>2, <2>1, <3>1, <3>2, SetDeadSecured
  <2> QED BY <2>1, CallerMarks
<1>5. ~registered' => dead'
  <2>1. CASE registered' = registered
    BY <1>1, <2>1 DEF Flow
  <2>2. CASE registered' # registered
    <3>1. ResetRemovalInProgress(p)
      BY <2>2, CallerMarks
    <3>2. call[p].at = "delete"
      BY <2>2, <3>1 DEF ResetRemovalInProgress, At
    <3>3. Remover(p)
      BY <3>1, RmLabelled
    <3>4. PICK c : Removing(p, c) /\ c = call[p]
      BY <1>3, <3>3
    <3>5. ~c.first => dead
      BY <3>2, <3>4, FirstIsForced DEF Stopping
    <3>6. ~c.first
      BY <3>2, <3>4, FirstIsForced DEF Killing
    <3> QED BY <1>1, <3>5, <3>6
  <2> QED BY <2>1, <2>2
<1> QED BY <1>1, <1>2, <1>3, <1>4, <1>5

LEMMA CallerFlow ==
    ASSUME Sound, Flow, Removal, Orderly, NEW p \in Callers, CallerStep(p)
    PROVE  Flow'
<1>1. Situation' /\ Flags' /\ lastExit' \in Codes
  BY CallerPermits DEF Permits, Flow
<1>2. cLock' # None => cLock' \in Callers /\ call'[cLock'].at = "paused"
  <2>1. GoesOn(p, call'[p])
    BY CallerEnters DEF Enters
  <2>2. cLock' = cLock \/ (cLock' = p /\ call'[p].at = "paused")
    BY CallerPermits
  <2>3. cLock # p
    BY CallerPermits
  <2> QED BY <2>1, <2>2, <2>3 DEF GoesOn, Flow
<1>3. dead' => Rest'
  <2>1. dead \/ removing => (Rest => Rest')
    BY CallerPermits DEF Permits
  <2> QED BY <2>1, CallerDead DEF Flow
<1> QED BY <1>1, <1>2, <1>3, CallerDead DEF Flow

LEMMA CallerRemoval ==
    ASSUME Sound, Flow, Removal, Orderly, NEW p \in Callers, CallerStep(p)
    PROVE  Removal'
<1>1. /\ \A q \in Callers \ {p} : call'[q] = call[q]
      /\ WellFormed(call'[p]) /\ call'[p].op \in {call[p].op, "none"}
  BY CallerEnters DEF Enters, GoesOn
<1>2. \A q \in Callers \ {p} : Remover(q)' <=> Remover(q)
  BY <1>1 DEF Remover
<1>3. ASSUME NEW q \in Callers \ {p}, Remover(q) PROVE Secured(call[q])'
  <2>1. PICK d : d = call[q]
    OBVIOUS
  <2>2. Kept /\ Secured(d)
    BY <1>3, <2>1, CallerDead DEF Removal
  <2>3. Secured(d)' /\ call'[q] = d
    BY <1>1, <2>1, <2>2, KeptSecured
  <2> QED BY <2>3, SecuredNow
<1>4. ASSUME ~Remover(p)', ~call'[p].first,
             \A q \in Callers \ {p} : Remover(q) => removing'
      PROVE  Removal'
  <2>1. \A x, y \in Callers : Remover(x)' /\ Remover(y)' => x = y
    BY <1>2, <1>4 DEF Removal
  <2>2. \A x \in Callers : Remover(x)' => removing' /\ Secured(call[x])'
    BY <1>2, <1>3, <1>4
  <2>3. \A x \in Callers : call'[x].at = "check" => ~call'[x].first
    BY <1>1, <1>4 DEF Removal
  <2> QED BY <2>1, <2>2, <2>3 DEF Removal
<1>5. ASSUME \A q \in Callers \ {p} : ~Remover(q), removing', Reaches(p)
      PROVE  Removal'
  <2>1. PICK d : call'[p] = d /\ Secured(d)'
    BY <1>5 DEF Reaches
  <2>2. Secured(call[p])' /\ (d.first => d.at # "check")
    BY <2>1, SecuredNow
  <2>3. \A x, y \in Callers : Remover(x)' /\ Remover(y)' => x = y
    BY <1>2, <1>5
  <2>4. \A x \in Callers : Remover(x)' => removing' /\ Secured(call[x])'
    BY <1>2, <1>5, <2>2
  <2>5. \A x \in Callers : call'[x].at = "check" => ~call'[x].first
    BY <1>1, <2>1, <2>2 DEF Removal
  <2> QED BY <2>3, <2>4, <2>5 DEF Removal
<1>6. CASE Remover(p)
  <2>1. removing /\ \A q \in Callers \ {p} : ~Remover(q)
    BY <1>6 DEF Removal
  <2>2. CASE ResetRemovalInProgress(p)
    <3>1. call'[p] = Idle
      BY <2>2 DEF ResetRemovalInProgress, Goto, Sound
    <3>2. ~Remover(p)' /\ ~call'[p].first
      BY <3>1, IdleIs DEF Remover, RmOps
    <3> QED BY <1>4, <2>1, <3>2
  <2>3. CASE ~ResetRemovalInProgress(p)
    <3>1. RmStep(p)
      BY <1>6, <2>3, RmLabelled
    <3>2. PICK c : Removing(p, c)
      BY <1>6, CallerDead
    <3>3. Reaches(p)
      BY <2>1, <3>1, <3>2, CallerDead, RmStepReaches
    <3>4. ~ContainerRm(p)
      BY <1>6, RmLabelled
    <3>5. removing'
      BY <2>1, <2>3, <3>4, CallerMarks
    <3> QED BY <1>5, <2>1, <3>3, <3>5
  <2> QED BY <2>2, <2>3
<1>7. CASE call[p].op \notin RmOps
  <2>1. ~Remover(p)' /\ ~call'[p].first
    BY <1>1, <1>7 DEF Remover, WellFormed, RmOps
  <2>2. ~Remover(p)
    BY <1>7 DEF Remover
  <2>3. removing' = removing
    BY <1>7, <2>2, CallerMarks, RmLabelled
  <2> QED BY <1>4, <2>1, <2>3 DEF Removal
<1>8. CASE call[p].op \in RmOps /\ ~Remover(p)
  <2>1. ContainerRm(p) /\ ~call[p].first /\ WellFormed(call[p])
    BY <1>8, RmLabelled DEF Removal, Remover, Sound
  <2>2. CASE removing \/ ~registered
    <3>1. call'[p] = Idle /\ (removing => removing')
      BY <2>1, <2>2 DEF ContainerRm, Goto, Sound
    <3>2. ~Remover(p)' /\ ~call'[p].first
      BY <3>1, IdleIs DEF Remover, RmOps
    <3> QED BY <1>4, <3>1, <3>2 DEF Removal
  <2>3. CASE ~removing /\ registered
    <3>1. PICK c : c = call[p]
      OBVIOUS
    <3>2. call'[p] = To(c, "cleanup") /\ removing'
      BY <2>1, <2>3, <3>1 DEF ContainerRm, Goto, Sound
    <3>3. Secured(To(c, "cleanup"))'
      BY <2>1, <3>1, ToSecured DEF Labels, RmLabels, KillLabels, WellFormed
    <3>4. \A q \in Callers \ {p} : ~Remover(q)
      BY <2>3 DEF Removal
    <3>5. Reaches(p)
      BY <3>2, <3>3 DEF Reaches
    <3> QED BY <1>5, <3>2, <3>4, <3>5
  <2> QED BY <2>2, <2>3
<1> QED BY <1>6, <1>7, <1>8

-----------------------------------------------------------------------------
(* The invariant                                                            *)

\* A new call has not made sure of anything yet.
LEMMA BeginIs ==
    ASSUME Sound, NEW p \in Callers, NEW o \in Ops, Begin(p, o)
    PROVE  ~Remover(p)' /\ call'[p].first = FALSE
<1>1. PICK c : c = [Idle EXCEPT !.op = o]
  OBVIOUS
<1>2. c \in Activations /\ c.op = o /\ c.first = FALSE /\ o \in AllOps
  BY <1>1, ConstantsAssumption DEF Idle, Activations, Labels, PlainLabels
<1>3. Goto(p, CASE o \in {"start", "kill"} -> To(c, o)
                [] o \in {"stop", "stopneg", "restart"} -> To(c, "stop")
                [] o = "wait" -> WaitFor(c, "ever")
                [] o \in {"rm", "rmf"} -> To(c, "check")
                [] o \in {"pause", "unpause"} -> To(c, "pausing"))
  BY <1>1 DEF Begin
<1>4. CASE o \in RmOps
  <2>1. Goto(p, To(c, "check"))
    BY <1>3, <1>4 DEF RmOps
  <2>2. call'[p] = To(c, "check")
    BY <2>1 DEF Goto, Sound
  <2>3. call'[p].at = "check" /\ call'[p].first = FALSE
    BY SMT, <1>2, <2>2, ToIs DEF Labels, RmLabels
  <2> QED BY <2>3 DEF Remover
<1>5. CASE o = "wait"
  <2>1. Goto(p, WaitFor(c, "ever"))
    BY <1>3, <1>5
  <2>2. call'[p] = WaitFor(c, "ever")
    BY <2>1 DEF Goto, Sound
  <2>3. call'[p].op = "wait" /\ call'[p].first = FALSE
    BY SMT, <1>2, <1>5, <2>2, WaitForIs
  <2> QED BY <2>3 DEF Remover, RmOps
<1>6. CASE o \notin RmOps /\ o # "wait"
  <2>1. \E l \in Labels : Goto(p, To(c, l))
    <3>1. CASE o \in {"start", "kill"}
      BY <1>3, <3>1 DEF Labels, StopLabels, PlainLabels
    <3>2. CASE o \in {"stop", "stopneg", "restart"}
      BY <1>3, <3>2 DEF Labels, StopLabels
    <3>3. CASE o \in {"pause", "unpause"}
      BY <1>3, <3>3 DEF Labels, PlainLabels
    <3> QED BY <1>2, <1>6, <3>1, <3>2, <3>3 DEF AllOps, RmOps
  <2>2. PICK l \in Labels : call'[p] = To(c, l)
    BY <2>1 DEF Goto, Sound
  <2>3. call'[p].op = o /\ call'[p].first = FALSE
    BY SMT, <1>2, <2>2, ToIs
  <2> QED BY <1>6, <2>3 DEF Remover
<1> QED BY <1>4, <1>5, <1>6

\* A step that leaves all but one caller's activation alone, and that one without
\* anything to keep.
LEMMA QuietFlow ==
    ASSUME Sound, Flow, Removal, NEW P \in SUBSET Callers, UNCHANGED <<State, cLock, registered, client>>,
           \A q \in Callers \ P : call'[q] = call[q],
           \A q \in P : ~Remover(q)' /\ call'[q].first = FALSE /\ cLock # q
    PROVE  Flow' /\ Removal'
<1>1. /\ UNCHANGED flowVars /\ UNCHANGED <<waitChan, removing, dead, registered, canceled, lastExit>>
  BY DEF State, client, containerd, manager, flowVars
<1>2. Permits
  BY <1>1, KeptPermits DEF Flow
<1>3. Flags' /\ Situation' /\ (dead' => Rest') /\ (~registered' => dead')
  BY SMT, <1>1, <1>2 DEF Flow, Flags, Permits, flowVars
<1>4. cLock' # None => cLock' \in Callers /\ call'[cLock'].at = "paused"
  BY <1>1 DEF Flow, flowVars
<1>5. Flow'
  BY <1>1, <1>3, <1>4 DEF Flow
<1>6. ASSUME NEW q \in Callers, Remover(q)' PROVE Remover(q) /\ removing' /\ Secured(call[q])'
  <2>1. call'[q] = call[q] /\ Remover(q)
    BY <1>6 DEF Remover
  <2>2. PICK d : d = call[q]
    OBVIOUS
  <2>3. removing /\ Secured(d)
    BY <2>1, <2>2 DEF Removal
  <2>4. Secured(d)'
    BY <1>1, <1>2, <2>3, PermitsKept, KeptSecured
  <2> QED BY <1>1, <2>1, <2>2, <2>3, <2>4, SecuredNow
<1>7. \A x, y \in Callers : Remover(x)' /\ Remover(y)' => x = y
  BY <1>6 DEF Removal
<1>8. \A x \in Callers : call'[x].at = "check" => ~call'[x].first
  BY DEF Removal
<1> QED BY <1>5, <1>6, <1>7, <1>8 DEF Removal

LEMMA DaemonRemoval ==
    ASSUME Sound, Flow, Removal, Orderly, DaemonStep \/ ProcessEnds
    PROVE  Removal'
<1>1. /\ Advances /\ UNCHANGED <<canceled, removing, dead>>
      /\ \A q \in Callers : call'[q] = call[q] \/ (call[q].at = "paused" /\ call'[q] = Idle)
  BY DaemonFlow
<1>2. ASSUME NEW q \in Callers, Remover(q)' PROVE Remover(q) /\ removing' /\ Secured(call[q])'
  <2>1. call'[q] = call[q] /\ Remover(q)
    BY <1>1, <1>2, IdleIs DEF Remover, RmOps
  <2>2. PICK d : d = call[q]
    OBVIOUS
  <2>3. removing /\ Secured(d)
    BY <2>1, <2>2 DEF Removal
  <2>4. Secured(d)'
    BY <1>1, <2>3, AdvancesSecured
  <2> QED BY <1>1, <2>1, <2>2, <2>3, <2>4, SecuredNow
<1>3. \A x, y \in Callers : Remover(x)' /\ Remover(y)' => x = y
  BY <1>2 DEF Removal
<1>4. \A x \in Callers : call'[x].at = "check" => ~call'[x].first
  BY <1>1, IdleIs DEF Removal
<1> QED BY <1>2, <1>3, <1>4 DEF Removal

IInv == Sound /\ Flow /\ Removal /\ Orderly

LEMMA InitIInv == Init /\ Orderly => IInv
<1> SUFFICES ASSUME Init PROVE Flow /\ Removal
  BY InitSound DEF IInv
<1>1. Rest
  BY DEF Init, Rest
<1>2. lastExit \in Codes /\ Flags
  BY ConstantsAssumption DEF Init, Flags
<1>3. cLock = None /\ registered
  BY DEF Init
<1>4. \A p \in Callers : call[p].at # "check" /\ ~Remover(p)
  BY IdleIs DEF Init, Remover, RmOps
<1> QED BY <1>1, <1>2, <1>3, <1>4 DEF Flow, Situation, Removal

LEMMA NextIInv == IInv /\ [Next]_vars => IInv'
<1> SUFFICES ASSUME Sound, Flow, Removal, Orderly, [Next]_vars PROVE Flow' /\ Removal'
  BY NextSound DEF IInv, Orderly
<1>1. CASE UNCHANGED vars
  <2>1. UNCHANGED <<State, cLock, registered, client>> /\ call' = call
    BY <1>1 DEF vars
  <2>2. PICK P \in SUBSET Callers : P = {}
    OBVIOUS
  <2> QED BY <2>1, <2>2, QuietFlow
<1>2. ASSUME NEW p \in Callers, NEW o \in Ops, Begin(p, o) PROVE Flow' /\ Removal'
  <2>1. UNCHANGED <<State, cLock, registered, client>> /\ \A q \in Callers \ {p} : call'[q] = call[q]
    BY <1>2 DEF Begin, Goto, Sound
  <2>2. cLock # p
    BY <1>2, IdleIs, ConstantsAssumption DEF Begin, Flow
  <2>3. ~Remover(p)' /\ call'[p].first = FALSE
    BY <1>2, BeginIs
  <2>4. PICK P \in SUBSET Callers : P = {p}
    OBVIOUS
  <2>5. /\ \A q \in Callers \ P : call'[q] = call[q]
        /\ \A q \in P : ~Remover(q)' /\ call'[q].first = FALSE /\ cLock # q
    BY <2>1, <2>2, <2>3, <2>4
  <2> QED BY <2>1, <2>5, QuietFlow
<1>3. ASSUME NEW p \in Callers, CallerStep(p) PROVE Flow' /\ Removal'
  BY <1>3, CallerFlow, CallerRemoval
<1>4. CASE DaemonStep \/ ProcessEnds
  BY <1>4, DaemonFlow, DaemonRemoval
<1> QED BY <1>1, <1>2, <1>3, <1>4 DEF Next

LEMMA Invariant == Orderly => (Spec => []IInv)
BY InitIInv, NextIInv, PTL DEF Spec

-----------------------------------------------------------------------------
(* The theorems                                                             *)

\* A removed container has no process and none on its way, whatever restart, start
\* or event was under way when ContainerRm forgot it: SetDead is reached only at
\* rest, and nothing but a start brings a container out of rest.
THEOREM NothingComesBack == Orderly => (Spec => []RemovedIsGone)
<1>1. IInv => RemovedIsGone
  BY DEF IInv, Flow, Rest, RemovedIsGone
<1> QED BY <1>1, Invariant, PTL

\* When libcontainerd has handled all events and the restart manager is not
\* backing off, Running, Paused and Restarting say what the process does.
THEOREM StateFollowsProcess == Orderly => (Spec => []StateIsTrue)
<1>1. IInv => StateIsTrue
  <2> SUFFICES ASSUME Flow, Quiet
               PROVE  running = (proc # "none") /\ paused = (proc = "frozen") /\ ~restarting
    BY DEF IInv, StateIsTrue
  <2>1. /\ events = << >> /\ queue = << >> /\ timer = "none"
        /\ running \in BOOLEAN /\ paused \in BOOLEAN
    BY DEF Quiet, Flow, Flags
  <2>2. ~Ended /\ ~ExitReported /\ ~RestartReported /\ ~Waiting
    BY <2>1, Tuples DEF Ended, ExitReported, RestartReported, Reported, Waiting, BackingOff
  <2>3. Rest \/ Up
    BY <2>2 DEF Flow, Situation
  <2>4. CASE Rest
    BY <2>1, <2>4 DEF Rest
  <2>5. CASE Up
    <3>1. \A k : events # <<Mark(k)>> /\ queue # <<Mark(k)>>
      BY <2>1, Tuples
    <3>2. paused <=> proc = "frozen"
      BY <2>5, <3>1 DEF Up
    <3> QED BY <2>1, <2>5, <3>2 DEF Up
  <2> QED BY <2>3, <2>4, <2>5
<1> QED BY <1>1, Invariant, PTL

\* Who creates a process: ContainerStart at rest, and the restart after a back-off.
LEMMA Creates ==
    ASSUME Sound, Flow, Orderly, Next, runs' # runs
    PROVE  proc = "none" /\ ~dead
<1>1. (\E p \in Callers : containerStart(p)) \/ AutoRestart
  <2>1. ASSUME NEW p \in Callers, CallerStep(p) PROVE containerStart(p)
    <3>1. ~(StartRefused(p) \/ IsRunning(p) \/ WaitStop(p) \/ Wake(p) \/ TimeOut(p) \/ cleanupContainer(p))
      BY DEF StartRefused, IsRunning, WaitStop, Wake, TimeOut, cleanupContainer, client, containerd
    <3>2. ~(killWithSignal(p) \/ killProcessDirectly(p) \/ containerPause(p))
      BY DEF killWithSignal, killProcessDirectly, containerPause
    <3>3. ~(ContainerRm(p) \/ SetDead(p) \/ ResetRemovalInProgress(p))
      BY DEF ContainerRm, SetDead, ResetRemovalInProgress, client, containerd
    <3> QED BY <2>1, <3>1, <3>2, <3>3 DEF CallerStep
  <2>2. ~DaemonStep \/ AutoRestart
    BY DEF DaemonStep, handleEvent, StateExit, StatePause, BackOff, RestartCanceled, containerd
  <2>3. ~ProcessEnds /\ \A p \in Callers, o \in Ops : ~Begin(p, o)
    BY DEF ProcessEnds, Begin, client, containerd
  <2> QED BY <2>1, <2>2, <2>3 DEF Next
<1>2. ASSUME NEW p \in Callers, containerStart(p) PROVE proc = "none" /\ ~dead
  <2>1. ~running /\ ~dead
    BY <1>2 DEF containerStart
  <2> QED BY <2>1, NotRunning DEF Flow, Rest
<1>3. CASE AutoRestart
  <2>1. timer = "fired"
    BY <1>3 DEF AutoRestart
  <2>2. ~Rest /\ proc = "none"
    BY <2>1 DEF Flow, Situation, Rest, Up, Ended, ExitReported, RestartReported, Reported, Waiting
  <2> QED BY <2>2, Registered
<1> QED BY <1>1, <1>2, <1>3

\* ContainerStart and the automatic restart never both start a process: one is
\* created only when the container has none.
THEOREM NeverTwoProcesses == Orderly => (Spec => OneProcess)
<1>1. IInv /\ [Next]_vars => [runs' # runs => proc = "none"]_vars
  BY Creates DEF IInv
<1> QED BY <1>1, Invariant, PTL DEF Spec, OneProcess

\* A container that SetDead has marked never gets a process again.
THEOREM DeadIsFinal == Orderly => (Spec => DeadStaysDead)
<1>1. IInv /\ [Next]_vars => [dead => runs' = runs]_vars
  BY Creates DEF IInv
<1> QED BY <1>1, Invariant, PTL DEF Spec, DeadStaysDead
=============================================================================
