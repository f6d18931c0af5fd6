----------------------- MODULE FFmpegPublisherProofs -----------------------
(***************************************************************************)
(* The manager and main are clients of the workers: every behaviour of     *)
(* FFmpegPublisher is one of FFmpegWorker, for any targets, commands and   *)
(* number of readers.  What FFmpegWorkerProofs proves carries over.        *)
(***************************************************************************)
EXTENDS FFmpegPublisher, FFmpegWorkerProofs

\* The loops of a call visit workers of the manager's map and no others.
VisitsWorkers ==
  /\ known \subseteq Workers
  /\ todo \in [Callers -> SUBSET Workers]

\* Every step of the publisher is a step of the workers or leaves them alone.
LEMMA StepIsWorkerStep == VisitsWorkers /\ [Next]_vars => [WorkerNext]_workerVars
<1> SUFFICES ASSUME VisitsWorkers, [Next]_vars
             PROVE  [WorkerNext]_workerVars
  OBVIOUS
<1>1. ASSUME NEW c \in Callers, Receive(c) \/ Reply(c) \/ BeginStop(c) \/ StopEnds(c)
      PROVE  UNCHANGED workerVars
  BY <1>1 DEF Receive, ReceiveStartStop, ReceiveDown, ReceiveUp, ReceiveUnmatched, Reply,
    BeginStop, StopEnds
<1>2. ASSUME NEW urls \in SUBSET Targets, Retarget(SharedKey, urls), Shared
      PROVE  WorkerNext
  <2>1. SharedKey \in Workers
    BY <1>2, PublisherAssumption
  <2> QED
    BY <1>2, <2>1 DEF WorkerNext
<1>3. ASSUME NEW c \in Callers, BeginStart(c)
      PROVE  [WorkerNext]_workerVars
  BY <1>2, <1>3 DEF BeginStart, StartRejected, StartNothing, StartShared, StartPerTarget,
    ActiveTargets
<1>4. ASSUME NEW c \in Callers, StartOne(c) \/ ResumeOne(c)
      PROVE  WorkerNext
  <2>1. PICK w \in todo[c] : StartLocked(w)
    BY <1>4 DEF StartOne, ResumeOne
  <2> QED
    BY <2>1 DEF VisitsWorkers, WorkerNext
<1>5. ASSUME NEW c \in Callers, StopOne(c)
      PROVE  WorkerNext
  <2>1. PICK w \in todo[c] : StopLocked(c, w)
    BY <1>5 DEF StopOne
  <2> QED
    BY <2>1 DEF VisitsWorkers, WorkerNext
<1>6. ASSUME NEW c \in Callers, StopProceeds(c) \/ PausePanics(c) \/ PauseAborts(c)
      PROVE  WorkerNext
  BY <1>6 DEF StopProceeds, PausePanics, PauseAborts, WorkerNext, StopStep
<1>7. ASSUME MainStep \/ Signal
      PROVE  [WorkerNext]_workerVars
  BY <1>2, <1>7 DEF MainStep, Boot, Ready, Exit, Signal
<1>8. ASSUME NEW r \in Runs, Loop(r)
      PROVE  WorkerNext
  <2>1. LoopStep(r)
    <3>1. IsPaused(r) \in BOOLEAN
      BY DEF IsPaused
    <3>2. CASE LoopTop(r, IsPaused(r)) \/ LoopPost(r, IsPaused(r))
      BY <3>1, <3>2, Zenon DEF LoopStep
    <3> QED
      BY <1>8, <3>2 DEF Loop, LoopStep
  <2> QED
    BY <2>1 DEF WorkerNext
<1>9. ASSUME NEW r \in Runs, Process(r)
      PROVE  WorkerNext
  BY <1>9 DEF Process, WorkerNext
<1>10. CASE UNCHANGED vars
  BY <1>10 DEF vars, workerVars
<1> QED
  BY <1>1, <1>3, <1>4, <1>5, <1>6, <1>7, <1>8, <1>9, <1>10 DEF Next, CallStep, Terminated

\* The initial states satisfy the invariant, and every step keeps it.
LEMMA InitVisits == Init => VisitsWorkers
BY DEF Init, VisitsWorkers

\* Every step preserves it.
LEMMA StepVisits == VisitsWorkers /\ [Next]_vars => VisitsWorkers'
<1> SUFFICES ASSUME VisitsWorkers, [Next]_vars
             PROVE  VisitsWorkers'
  OBVIOUS
<1> USE PublisherAssumption DEF VisitsWorkers, mgrVars
<1>1. ASSUME NEW c \in Callers, Receive(c)
      PROVE  VisitsWorkers'
  BY <1>1 DEF Receive, ReceiveStartStop, ReceiveDown, ReceiveUp, ReceiveUnmatched
<1>2. ASSUME NEW c \in Callers, BeginStart(c)
      PROVE  VisitsWorkers'
  BY <1>2 DEF BeginStart, StartRejected, StartNothing, StartShared, StartPerTarget,
    ActiveTargets
<1>3. ASSUME NEW c \in Callers, StartOne(c) \/ ResumeOne(c) \/ StopOne(c)
      PROVE  VisitsWorkers'
  BY <1>3 DEF StartOne, ResumeOne, StopOne
<1>4. ASSUME NEW c \in Callers,
             \/ BeginStop(c) \/ StopProceeds(c) \/ PausePanics(c) \/ PauseAborts(c)
             \/ StopEnds(c) \/ Reply(c)
      PROVE  VisitsWorkers'
  BY <1>4 DEF BeginStop, StopProceeds, PausePanics, PauseAborts, StopEnds, Reply, Finish, callerVars
<1>5. ASSUME MainStep \/ Signal
      PROVE  VisitsWorkers'
  BY <1>5 DEF MainStep, Boot, Ready, Exit, Signal, Finish
<1>6. ASSUME NEW r \in Runs, Loop(r) \/ Process(r)
      PROVE  VisitsWorkers'
  BY <1>6 DEF Loop, Process, callerVars
<1>7. CASE UNCHANGED vars
  BY <1>7 DEF vars
<1> QED
  BY <1>1, <1>2, <1>3, <1>4, <1>5, <1>6, <1>7 DEF Next, CallStep, Terminated

\* FFmpegPublisher implements FFmpegWorker.
THEOREM Refinement == Spec => PublisherIsAClient
<1>1. Init => WorkerInit
  BY DEF Init
<1> QED
  BY <1>1, InitVisits, StepVisits, StepIsWorkerStep, PTL
  DEF Spec, PublisherIsAClient, WorkerSpec

\* So no worker of the publisher ever has two run loops, whatever commands the
\* readers receive and however many readers there are.
THEOREM PublisherNeverTwoLoops == Spec => []OneRunLoop
BY Refinement, NeverTwoLoops, PTL DEF PublisherIsAClient

\* So a process is gone once doneCh is closed or running is false.
THEOREM PublisherDoneIsGone == Spec => []DoneMeansGone
BY Refinement, DoneIsGone, PTL DEF PublisherIsAClient

\* So the workers implement Supervision under the manager's commands.
THEOREM PublisherKeepsPromises == Spec => WorkersKeepPromises
BY Refinement, PromisesAreKept, PTL DEF PublisherIsAClient

-----------------------------------------------------------------------------
(* The types of the manager, its callers and main *)

PublisherTypes ==
  /\ mgrMu \in Callers \cup {None}
  /\ inited \in BOOLEAN
  /\ known \subseteq Workers
  /\ paused \subseteq Targets
  /\ mainPc \in {"boot", "starting", "serving", "stopping", "exited"}
  /\ phase \in [Callers -> Phases]
  /\ command \in [Callers -> Commands \cup {"none", "STOP"}]
  /\ matched \in [Callers -> SUBSET Targets]
  /\ todo \in [Callers -> SUBSET Workers]
  /\ code \in [Callers -> {0, 500}]
  /\ launches \in [Targets -> 0 .. 2]
  /\ skipped \subseteq Targets

\* The initial states have the types of the publisher's own variables.
LEMMA InitTypes == Init => PublisherTypes
<1> SUFFICES ASSUME Init
             PROVE  PublisherTypes
  OBVIOUS
<1>1. /\ mgrMu \in Callers \cup {None} /\ inited \in BOOLEAN /\ known \subseteq Workers
      /\ paused \subseteq Targets /\ skipped \subseteq Targets /\ mainPc = "boot"
  BY DEF Init
<1>2. /\ phase \in [Callers -> Phases] /\ matched \in [Callers -> SUBSET Targets]
      /\ command \in [Callers -> Commands \cup {"none", "STOP"}]
  BY DEF Init, Phases
<1>3. /\ todo \in [Callers -> SUBSET Workers] /\ code \in [Callers -> {0, 500}]
      /\ launches \in [Targets -> 0 .. 2]
  BY DEF Init
<1> QED
  BY <1>1, <1>2, <1>3 DEF PublisherTypes

\* Whatever the step counts or forgets, the counters keep their types.
LEMMA RecountTypes ==
  ASSUME PublisherTypes, Recount
  PROVE  launches' \in [Targets -> 0 .. 2]
BY DEF PublisherTypes, Recount

\* A launch keeps the types of the counters.
LEMMA CountTypes ==
  ASSUME PublisherTypes, NEW t \in Targets, CountLaunch(t)
  PROVE  launches' \in [Targets -> 0 .. 2]
BY DEF PublisherTypes, CountLaunch

\* Every step keeps them.
LEMMA StepTypes == PublisherTypes /\ [Next]_vars => PublisherTypes'
<1> SUFFICES ASSUME PublisherTypes, [Next]_vars
             PROVE  PublisherTypes'
  OBVIOUS
<1> USE PublisherAssumption
<1>1. ASSUME NEW c \in Callers, Receive(c)
      PROVE  PublisherTypes'
  <2>1. CASE ReceiveStartStop(c)
    BY <1>1, <2>1 DEF PublisherTypes, Phases, Receive, ReceiveStartStop, Enter, mgrVars, historyVars
  <2>2. CASE ReceiveDown(c)
    <3>1. launches' \in [Targets -> 0 .. 2]
      BY <2>2, RecountTypes DEF ReceiveDown
    <3> QED
      BY <1>1, <2>2, <3>1 DEF PublisherTypes, Phases, Receive, ReceiveDown, Enter
  <2>3. CASE ReceiveUp(c)
    <3>1. launches' \in [Targets -> 0 .. 2]
      BY <2>3, RecountTypes DEF ReceiveUp
    <3> QED
      BY <1>1, <2>3, <3>1 DEF PublisherTypes, Phases, Receive, ReceiveUp, Enter
  <2>4. CASE ReceiveUnmatched(c)
    BY <1>1, <2>4 DEF PublisherTypes, Phases, Receive, ReceiveUnmatched, Enter, mgrVars, historyVars
  <2> QED
    BY <1>1, <2>1, <2>2, <2>3, <2>4 DEF Receive
<1>2. ASSUME NEW c \in Callers, BeginStart(c)
      PROVE  PublisherTypes'
  BY <1>2 DEF PublisherTypes, Phases, BeginStart, StartRejected, StartNothing, StartShared,
    StartPerTarget, ActiveTargets, Enter, historyVars
<1>3. ASSUME NEW c \in Callers, StartOne(c) \/ ResumeOne(c) \/ StopOne(c)
      PROVE  PublisherTypes'
  BY <1>3 DEF PublisherTypes, Phases, StartOne, ResumeOne, StopOne, Enter, mgrVars, historyVars
<1>4. ASSUME NEW c \in Callers,
             BeginStop(c) \/ StopProceeds(c) \/ PausePanics(c) \/ PauseAborts(c) \/ StopEnds(c)
      PROVE  PublisherTypes'
  <2>1. CASE BeginStop(c) \/ StopEnds(c)
    BY <2>1 DEF PublisherTypes, Phases, BeginStop, StopEnds, Enter, mgrVars, historyVars
  <2>2. CASE StopProceeds(c)
    BY <2>2 DEF PublisherTypes, StopProceeds, mgrVars, historyVars, callerVars
  <2>3. CASE PauseAborts(c)
    BY <2>3 DEF PublisherTypes, Phases, PauseAborts, PausesByURL, Enter, mgrVars
  <2>4. CASE PausePanics(c)
    BY <2>4 DEF PublisherTypes, PausePanics, PausesByURL, mgrVars, callerVars
  <2> QED
    BY <1>4, <2>1, <2>2, <2>3, <2>4
<1>5. ASSUME NEW c \in Callers, Finish(c)
      PROVE  /\ phase' \in [Callers -> Phases]
             /\ command' \in [Callers -> Commands \cup {"none", "STOP"}]
             /\ matched' \in [Callers -> SUBSET Targets]
             /\ todo' \in [Callers -> SUBSET Workers]
             /\ code' \in [Callers -> {0, 500}]
  BY <1>5 DEF PublisherTypes, Phases, Finish, Enter
<1>6. ASSUME NEW c \in Callers, Reply(c)
      PROVE  PublisherTypes'
  BY <1>5, <1>6 DEF PublisherTypes, Reply, mgrVars, historyVars
<1>7. ASSUME MainStep \/ Signal
      PROVE  PublisherTypes'
  <2>1. CASE Boot
    BY <2>1 DEF PublisherTypes, Phases, Boot, Enter, historyVars
  <2>2. CASE Signal
    BY <2>2 DEF PublisherTypes, Phases, Signal, Enter, mgrVars, historyVars
  <2>3. CASE Ready \/ Exit
    BY <1>5, <2>3 DEF PublisherTypes, Ready, Exit, mgrVars, historyVars
  <2> QED
    BY <1>7, <2>1, <2>2, <2>3 DEF MainStep
<1>8. ASSUME NEW r \in Runs, Loop(r)
      PROVE  PublisherTypes'
  <2>1. launches' \in [Targets -> 0 .. 2]
    BY <1>8, CountTypes DEF Loop, PublisherTypes
  <2> QED
    BY <1>8, <2>1 DEF PublisherTypes, Loop, callerVars, mgrVars
<1>9. ASSUME NEW r \in Runs, Process(r)
      PROVE  PublisherTypes'
  BY <1>9 DEF PublisherTypes, Process, callerVars, mgrVars, historyVars
<1>10. CASE UNCHANGED vars
  BY <1>10 DEF PublisherTypes, vars
<1> QED
  BY <1>1, <1>2, <1>3, <1>4, <1>6, <1>7, <1>8, <1>9, <1>10 DEF Next, CallStep, Terminated

\* What the workers keep and the publisher's types, together.
LEMMA BaseInductive == Spec => [](IInv /\ PublisherTypes)
<1>1. WorkerSpec => []IInv
  BY Inductive
<1>2. Spec => []IInv
  BY <1>1, Refinement, PTL DEF PublisherIsAClient
<1> QED
  BY <1>2, InitTypes, StepTypes, PTL DEF Spec

\* Every variable of the publisher keeps to its type.
THEOREM PublisherTypeCorrect == Spec => []TypeOK
<1>1. IInv /\ PublisherTypes => TypeOK
  BY DEF IInv, PublisherTypes, TypeOK
<1> QED
  BY <1>1, BaseInductive, PTL

-----------------------------------------------------------------------------
(* The launch that a pause comes too late for *)

\* Launches are counted of paused targets only, and a run loop that has passed
\* the isPaused test before a pause is on the way to the first of them.
LateLaunches ==
  \A t \in Targets :
    /\ launches[t] <= 1
    /\ t \notin paused => launches[t] = 0
    /\ \A r \in Runs : owner[r] = t /\ loopPc[r] \in {"select", "launch"} => launches[t] = 0

\* Every step preserves the bound on the late launches.
LEMMA StepLate ==
  ASSUME IInv, PublisherTypes, LateLaunches, [Next]_vars
  PROVE  LateLaunches'
<1>1. ASSUME UNCHANGED <<loopPc, owner, launches, paused>>
      PROVE  LateLaunches'
  BY <1>1 DEF LateLaunches
<1>2. ASSUME UNCHANGED <<loopPc, owner>>, Recount,
             \/ \E m \in SUBSET Targets : paused' = paused \cup m
             \/ \E m \in SUBSET Targets : paused' = paused \ m
      PROVE  LateLaunches'
  BY <1>2 DEF LateLaunches, Recount, PublisherTypes
<1>3. ASSUME NEW c \in Callers, Receive(c)
      PROVE  LateLaunches'
  BY PublisherAssumption, <1>1, <1>2, <1>3 DEF Receive, ReceiveStartStop, ReceiveDown, ReceiveUp,
    ReceiveUnmatched, workerVars, mgrVars, historyVars
<1>4. ASSUME NEW w \in Workers, StartLocked(w), UNCHANGED <<launches, paused>>
      PROVE  LateLaunches'
  BY <1>1, <1>4 DEF StartLocked, StartRun, StartIgnored, LateLaunches, IInv, WorkerTypeOK,
    workerVars
<1>5. ASSUME NEW c \in Callers, StartOne(c) \/ ResumeOne(c)
      PROVE  LateLaunches'
  BY <1>4, <1>5 DEF StartOne, ResumeOne, PublisherTypes, mgrVars
<1>6. ASSUME NEW c \in Callers,
             \/ BeginStart(c) \/ BeginStop(c) \/ StopOne(c) \/ StopProceeds(c)
             \/ PausePanics(c) \/ PauseAborts(c) \/ StopEnds(c) \/ Reply(c)
      PROVE  UNCHANGED <<loopPc, owner, launches, paused>>
  BY <1>6 DEF BeginStart, StartRejected, StartNothing, StartShared, StartPerTarget, Retarget,
    BeginStop, StopOne, StopLocked, StopNothing, StopReads, StopProceeds, CloseStop, KillSkipped,
    KillSucceeds, KillHitsOther, KillFails, KillErrorIgnored, DoneReceived, StopTimesOut,
    PausePanics, PauseAborts, KillErrorReturned, StopEnds, Reply, workerVars, loopVars, mgrVars,
    historyVars
<1>7. ASSUME MainStep \/ Signal
      PROVE  UNCHANGED <<loopPc, owner, launches, paused>>
  BY <1>7 DEF MainStep, Boot, Ready, Exit, Signal, Retarget, workerVars, loopVars, mgrVars,
    historyVars
<1>8. ASSUME NEW r \in Runs, Process(r)
      PROVE  UNCHANGED <<loopPc, owner, launches, paused>>
  BY <1>8 DEF Process, ProcessStep, FFmpegExits, FFmpegHangs, MonitorKills, MonitorQuits,
    MonitorHitsOther, ChildBecomes, mgrVars, historyVars
<1>9. ASSUME NEW r \in Runs, Loop(r)
      PROVE  LateLaunches'
  <2>1. UNCHANGED <<owner, paused>>
    BY <1>9 DEF Loop, LoopTop, LoopPost, LaunchSucceeds, LaunchFails, LoopSelect, Publish,
      WaitReturns, LoopPostSelect, RetryStopped, RetryTimer, LoopExit, mgrVars
  <2>2. CASE LaunchSucceeds(r) /\ (IF owner[r] \in Targets THEN CountLaunch(owner[r]) ELSE UNCHANGED launches)
    <3>1. loopPc' = [loopPc EXCEPT ![r] = "publish"]
      BY <2>2 DEF LaunchSucceeds, Goto
    <3>2. \A s \in Runs : owner[s] = owner[r] /\ loopPc[s] \in {"select", "launch"} => s = r
      BY <2>2 DEF LaunchSucceeds, IInv, LoopHasWorker, Active
    <3>3. owner[r] \in Targets => launches[owner[r]] = 0
      BY <2>2 DEF LateLaunches, LaunchSucceeds
    <3> QED
      BY <2>1, <2>2, <3>1, <3>2, <3>3 DEF LateLaunches, CountLaunch, IInv, WorkerTypeOK,
        PublisherTypes
  <2>3. CASE UNCHANGED launches
    <3>1. ASSUME NEW s \in Runs, loopPc'[s] \in {"select", "launch"},
                 loopPc[s] \notin {"select", "launch"}
          PROVE  owner[s] \notin paused
      BY <1>9, <3>1 DEF Loop, LoopTop, LoopPost, IsPaused, LaunchSucceeds, LaunchFails,
        LoopSelect, Publish, WaitReturns, LoopPostSelect, RetryStopped, RetryTimer, LoopExit,
        Goto, IInv, WorkerTypeOK
    <3> QED
      BY <2>1, <2>3, <3>1 DEF LateLaunches
  <2> QED
    BY <1>9, <2>2, <2>3 DEF Loop
<1>10. CASE UNCHANGED vars
  BY <1>1, <1>10 DEF vars, workerVars
<1> QED
  BY <1>1, <1>3, <1>5, <1>6, <1>7, <1>8, <1>9, <1>10 DEF Next, CallStep, Terminated

\* A pause lets at most one more process of its target start, for any number of
\* commands and readers in any order (ffmpeg_worker.go:476, 559).
THEOREM OneLateLaunch == Spec => []AtMostOneLatePausedLaunch
<1>1. Init => LateLaunches
  BY DEF Init, WorkerInit, LateLaunches
<1>2. LateLaunches => AtMostOneLatePausedLaunch
  BY DEF LateLaunches, AtMostOneLatePausedLaunch
<1> QED
  BY <1>1, <1>2, BaseInductive, StepLate, PTL DEF Spec
=============================================================================
