------------------------ MODULE PublisherPauseProofs ------------------------
(***************************************************************************)
(* Between calls no process sends to a paused target: the proof, for any    *)
(* targets, any commands and any number of readers, in both modes.         *)
(*                                                                         *)
(* The property speaks of the moments when nobody is inside a call; the    *)
(* invariant says what holds at all others.  A run that sends to a paused  *)
(* target, or is about to, is one that some pause is on its way to stop    *)
(* (PausesFollowed), or the pause returned or panicked before it came to   *)
(* the target (skipped).  The other conjuncts say why a pause does not     *)
(* lose its way: where main and the stop sequence are, who holds           *)
(* publisherMgr.mu, and what runs may send to.                             *)
(***************************************************************************)
EXTENDS FFmpegPublisherProofs

\* The stop sequence runs inside the stop loops only.
StopInPhase == \A c \in Callers : stopPc[c] # "idle" => phase[c] = "stopping"

\* Before InitFFmpegPublisher the manager is empty and nothing runs; after it the map
\* holds every worker.
Booted ==
  /\ inited <=> mainPc # "boot"
  /\ inited => known = Workers
  /\ ~inited => /\ known = {} /\ paused = {}
                /\ \A c \in Callers : todo[c] = {}
                /\ \A r \in Runs : ~Active(r)

\* StartFFmpegPublisher starts the workers under publisherMgr.mu.
StartHoldsMutex == \A c \in Callers : phase[c] = "starting" => mgrMu = c

\* The shared worker is started with targets that nobody has paused, and only by
\* StartFFmpegPublisher.
StartFiltersPaused ==
  Shared => \A c \in Callers :
    /\ phase[c] # "resuming"
    /\ phase[c] = "starting" => targetURLs[SharedKey] \cap paused = {}

\* A run has targets from the building of the command to the end of its process,
\* and in per-target mode only the one of its worker.
OutputOfRun ==
  /\ \A r \in Runs : output[r] # {} => loopPc[r] \in {"launch", "publish", "wait"}
  /\ ~Shared => /\ \A w \in Workers : targetURLs[w] = {}
                /\ \A r \in Runs : output[r] \subseteq {owner[r]}

\* What the process of a run sends to, now or after its next launch without another
\* test of isPaused.  The shared worker's test never hits.
WillSend(r) ==
  output[r] \cup targetURLs[owner[r]] \cup {t \in {owner[r]} : loopPc[r] = "select"}

\* A pause that will close the stopCh of run r.  A STOP is none: it may panic first.
WillStop(c, r) ==
  /\ command[c] = "DOWN" /\ stopPc[c] # "panicked"
  /\ \/ phase[c] = "stopAll"
     \/ phase[c] = "stopping" /\ owner[r] \in todo[c]
     \/ stopPc[c] = "close" /\ heldRun[c] = r

\* main() is inside a publisher call while it starts and while it stops.
MainInPhase ==
  /\ mainPc \in {"boot", "serving", "exited"} => phase[Main] = "idle"
  /\ mainPc = "starting" => phase[Main] \in {"startAll", "starting", "reply"}
  /\ mainPc = "stopping" => phase[Main] \in {"stopAll", "stopping", "reply"} /\ command[Main] = "STOP"

\* In shared mode nothing is left to visit once a stop sequence runs.
SharedStopLast == Shared => \A c \in Callers : stopPc[c] # "idle" => todo[c] = {}

Control == StopInPhase /\ MainInPhase /\ StartHoldsMutex /\ SharedStopLast

\* A run that sends to a paused target is about to be stopped.
PausesFollowed ==
  \A r \in Runs : Active(r) /\ r \notin stopClosed /\ WillSend(r) \cap (paused \ skipped) # {}
    => \E c \in Callers : WillStop(c, r)

PauseInv ==
  /\ Control
  /\ Booted
  /\ StartFiltersPaused
  /\ OutputOfRun
  /\ PausesFollowed

\* The initial states satisfy the invariant.
LEMMA InitPause == Init => PauseInv
<1> SUFFICES ASSUME Init
             PROVE  PauseInv
  OBVIOUS
<1> USE DEF Init, WorkerInit
<1>1. Control
  BY PublisherAssumption DEF Control, MainInPhase, StopInPhase, StartHoldsMutex, SharedStopLast
<1>2. Booted /\ StartFiltersPaused
  BY DEF Booted, StartFiltersPaused, Active
<1>3. OutputOfRun /\ PausesFollowed
  BY DEF OutputOfRun, PausesFollowed, Active
<1> QED
  BY <1>1, <1>2, <1>3 DEF PauseInv


\* The steps of a run loop, and those of a process, concern no caller.
LEMMA LoopLeavesCalls ==
  ASSUME NEW r \in Runs, Loop(r) \/ Process(r)
  PROVE  UNCHANGED <<mgrMu, inited, known, paused, mainPc, phase, command, todo, skipped, stopPc,
                     heldRun, run, stopClosed, targetURLs, owner>>
BY DEF Loop, LoopTop, LoopPost, LaunchSucceeds, LaunchFails, LoopSelect, Publish, WaitReturns,
  LoopPostSelect, RetryStopped, RetryTimer, LoopExit, Process, ProcessStep, FFmpegExits,
  FFmpegHangs, MonitorKills, MonitorQuits, MonitorHitsOther, ChildBecomes, fieldVars, chanVars,
  callVars, mgrVars, callerVars, historyVars

-----------------------------------------------------------------------------
(* Every step keeps each part of it *)

\* Who is where in a call.
LEMMA StepControl ==
  ASSUME IInv, PublisherTypes, Control, [Next]_vars
  PROVE  Control'
<1> USE PublisherAssumption DEF IInv, WorkerTypeOK, PublisherTypes, Control, StopInPhase,
  MainInPhase, StartHoldsMutex, SharedStopLast
<1>1. ASSUME NEW c \in Callers, Receive(c)
      PROVE  Control'
  BY <1>1 DEF Receive, Readers, ReceiveStartStop, ReceiveDown, ReceiveUp, ReceiveUnmatched, Enter,
    workerVars
<1>2. ASSUME NEW c \in Callers, BeginStart(c)
      PROVE  Control'
  BY <1>2 DEF BeginStart, StartRejected, StartNothing, StartShared, StartPerTarget, Retarget,
    Enter, workerVars, callVars
<1>3. ASSUME NEW c \in Callers, StartOne(c)
      PROVE  Control'
  BY <1>3 DEF StartOne, StartLocked, StartRun, StartIgnored, Enter, workerVars
<1>4. ASSUME NEW c \in Callers, ResumeOne(c)
      PROVE  Control'
  BY <1>4 DEF ResumeOne, StartLocked, StartRun, StartIgnored, Enter, workerVars
<1>5. ASSUME NEW c \in Callers, BeginStop(c) \/ StopEnds(c)
      PROVE  Control'
  BY <1>5 DEF BeginStop, StopEnds, Enter, workerVars
<1>6. ASSUME NEW c \in Callers, StopOne(c)
      PROVE  Control'
  BY <1>6 DEF StopOne, StopLocked, StopNothing, StopReads, workerVars
<1>7. ASSUME NEW c \in Callers, StopProceeds(c)
      PROVE  Control'
  BY <1>7 DEF StopProceeds, CloseStop, KillSkipped, KillSucceeds, KillHitsOther, KillFails,
    KillErrorIgnored, DoneReceived, StopTimesOut, Return, callerVars
<1>8. ASSUME NEW c \in Callers, PausePanics(c) \/ PauseAborts(c)
      PROVE  Control'
  BY <1>8 DEF PausePanics, PauseAborts, CloseStop, KillErrorReturned, KillFails, Return, Enter,
    callerVars
<1>9. ASSUME NEW c \in Callers, Reply(c)
      PROVE  Control'
  BY <1>9 DEF Reply, Readers, Finish, Enter, workerVars
<1>10. ASSUME MainStep \/ Signal
       PROVE  Control'
  BY <1>10 DEF MainStep, Boot, Ready, Exit, Signal, Finish, Enter, Retarget, callVars, workerVars
<1>11. ASSUME NEW r \in Runs, Loop(r) \/ Process(r)
       PROVE  Control'
  BY <1>11, LoopLeavesCalls
<1>12. CASE UNCHANGED vars
  BY <1>12 DEF vars, workerVars
<1> QED
  BY <1>1, <1>2, <1>3, <1>4, <1>5, <1>6, <1>7, <1>8, <1>9, <1>10, <1>11, <1>12
  DEF Next, CallStep, Terminated

\* Commands, stops and the steps of main start no run loop.
LEMMA CallsLeaveLoops ==
  ASSUME NEW c \in Callers,
         \/ Receive(c) \/ BeginStart(c) \/ BeginStop(c) \/ StopOne(c) \/ StopProceeds(c)
         \/ PausePanics(c) \/ PauseAborts(c) \/ StopEnds(c) \/ Reply(c) \/ MainStep \/ Signal
  PROVE  UNCHANGED <<running, run, loopPc, owner, output>>
BY DEF Receive, ReceiveStartStop, ReceiveDown, ReceiveUp, ReceiveUnmatched, BeginStart,
  StartRejected, StartNothing, StartShared, StartPerTarget, Retarget, BeginStop, StopOne,
  StopLocked, StopNothing, StopReads, StopProceeds, CloseStop, KillSkipped, KillSucceeds,
  KillHitsOther, KillFails, KillErrorIgnored, DoneReceived, StopTimesOut, PausePanics,
  PauseAborts, KillErrorReturned, StopEnds, Reply, MainStep, Boot, Ready, Exit, Signal,
  workerVars, fieldVars, loopVars

\* A step of a run loop is one of an active loop.
LEMMA LoopIsActive ==
  ASSUME NEW r \in Runs, Loop(r)
  PROVE  Active(r) /\ \A s \in Runs \ {r} : IInv => loopPc'[s] = loopPc[s]
BY DEF Loop, LoopTop, LoopPost, LaunchSucceeds, LaunchFails, LoopSelect, Publish, WaitReturns,
  LoopPostSelect, RetryStopped, RetryTimer, LoopExit, Goto, Active, IInv, WorkerTypeOK

\* What is there before the manager is initialised, and after.
LEMMA StepBooted ==
  ASSUME IInv, PublisherTypes, Booted, [Next]_vars
  PROVE  Booted'
<1>1. CASE mainPc = "boot"
  <2> USE DEF Booted
  <2>1. ASSUME NEW c \in Callers, Receive(c)
        PROVE  Booted'
    BY <1>1, <2>1 DEF Receive, ReceiveStartStop, ReceiveDown, ReceiveUp, ReceiveUnmatched,
      workerVars, mgrVars, Active
  <2>2. ASSUME NEW c \in Callers, StartOne(c) \/ ResumeOne(c) \/ StopOne(c)
        PROVE  FALSE
    BY <1>1, <2>2 DEF StartOne, ResumeOne, StopOne
  <2>3. ASSUME NEW c \in Callers, BeginStart(c) \/ BeginStop(c) \/ StopEnds(c) \/ Reply(c)
        PROVE  Booted'
    BY <1>1, <2>3 DEF PublisherTypes, BeginStart, StartRejected, StartNothing, StartShared,
      StartPerTarget, BeginStop, StopEnds, Reply, Finish, workerVars, mgrVars, Active
  <2>4. ASSUME NEW c \in Callers, StopProceeds(c) \/ PausePanics(c) \/ PauseAborts(c)
        PROVE  Booted'
    BY <1>1, <2>4, CallsLeaveLoops DEF PublisherTypes, StopProceeds, PausePanics, PauseAborts,
      mgrVars, callerVars, Active
  <2>5. ASSUME MainStep \/ Signal
        PROVE  Booted'
    BY <1>1, <2>5 DEF MainStep, Boot, Ready, Exit, Signal
  <2>6. ASSUME NEW r \in Runs, Loop(r) \/ Process(r)
        PROVE  Booted'
    <3>1. ~Loop(r)
      BY <1>1, LoopIsActive
    <3>2. UNCHANGED loopPc
      BY <2>6, <3>1 DEF Process, ProcessStep, FFmpegExits, FFmpegHangs, MonitorKills,
        MonitorQuits, MonitorHitsOther, ChildBecomes
    <3> QED
      BY <2>6, <3>2, LoopLeavesCalls DEF Active
  <2>7. CASE UNCHANGED vars
    BY <2>7 DEF vars, workerVars, Active
  <2> QED
    BY <2>1, <2>2, <2>3, <2>4, <2>5, <2>6, <2>7 DEF Next, CallStep, Terminated
<1>2. CASE mainPc # "boot"
  <2>1. inited /\ known = Workers
    BY <1>2 DEF Booted
  <2>2. inited' = inited /\ mainPc' # "boot"
    BY <1>2, LoopLeavesCalls DEF Next, CallStep, Receive, ReceiveStartStop, ReceiveDown,
      ReceiveUp, ReceiveUnmatched, BeginStart, StartOne, ResumeOne, BeginStop, StopOne,
      StopProceeds, PausePanics, PauseAborts, StopEnds, Reply, MainStep, Boot, Ready, Exit,
      Signal, Terminated, mgrVars, vars
  <2>3. known \subseteq known'
    BY <1>2, LoopLeavesCalls DEF Next, CallStep, Receive, ReceiveStartStop, ReceiveDown,
      ReceiveUp, ReceiveUnmatched, BeginStart, StartRejected, StartNothing, StartShared,
      StartPerTarget, StartOne, ResumeOne, BeginStop, StopOne, StopProceeds, PausePanics,
      PauseAborts, StopEnds, Reply, MainStep, Boot, Ready, Exit, Signal, Terminated, mgrVars, vars
  <2>4. known' \subseteq Workers
    BY StepTypes DEF PublisherTypes
  <2>5. inited' /\ known' = Workers
    BY <2>1, <2>2, <2>3, <2>4
  <2> QED
    BY <2>2, <2>5 DEF Booted
<1> QED
  BY <1>1, <1>2

\* What the shared worker is started with.
LEMMA StepFilters ==
  ASSUME IInv, PublisherTypes, Control, Booted, StartFiltersPaused, [Next]_vars
  PROVE  StartFiltersPaused'
<1> SUFFICES ASSUME Shared
             PROVE  StartFiltersPaused'
  BY DEF StartFiltersPaused
<1> USE PublisherAssumption DEF PublisherTypes, StartFiltersPaused
<1>1. ASSUME NEW c \in Callers, Receive(c)
      PROVE  StartFiltersPaused'
  BY <1>1 DEF Receive, ReceiveStartStop, ReceiveDown, ReceiveUp, ReceiveUnmatched, Enter, Control,
    StartHoldsMutex, workerVars, mgrVars
<1>2. ASSUME NEW c \in Callers, BeginStart(c)
      PROVE  StartFiltersPaused'
  BY <1>2 DEF BeginStart, StartRejected, StartNothing, StartShared, StartPerTarget, Retarget,
    ActiveTargets, Enter, IInv, WorkerTypeOK, workerVars
<1>3. ASSUME NEW c \in Callers, StartOne(c) \/ ResumeOne(c)
      PROVE  StartFiltersPaused'
  BY <1>3 DEF StartOne, ResumeOne, StartLocked, StartRun, StartIgnored, Enter, workerVars, mgrVars
<1>4. ASSUME NEW c \in Callers,
             BeginStop(c) \/ StopOne(c) \/ StopEnds(c) \/ PausePanics(c) \/ PauseAborts(c)
      PROVE  StartFiltersPaused'
  BY <1>4 DEF BeginStop, StopOne, StopLocked, StopNothing, StopReads, StopEnds, PausePanics,
    PauseAborts, CloseStop, KillErrorReturned, Enter, workerVars, mgrVars, callerVars
<1>5. ASSUME NEW c \in Callers, StopProceeds(c) \/ Reply(c)
      PROVE  StartFiltersPaused'
  BY <1>5 DEF StopProceeds, CloseStop, KillSkipped, KillSucceeds, KillHitsOther, KillFails,
    KillErrorIgnored, DoneReceived, StopTimesOut, Reply, Finish, Enter, workerVars, mgrVars,
    callerVars
<1>6. ASSUME MainStep \/ Signal
      PROVE  StartFiltersPaused'
  <2>1. CASE Boot
    BY <2>1 DEF Boot, Retarget, Enter, Booted, IInv, WorkerTypeOK
  <2>2. CASE Ready \/ Exit \/ Signal
    BY <2>2 DEF Ready, Exit, Signal, Finish, Enter, workerVars, mgrVars
  <2> QED
    BY <1>6, <2>1, <2>2 DEF MainStep
<1>7. ASSUME NEW r \in Runs, Loop(r) \/ Process(r)
      PROVE  StartFiltersPaused'
  BY <1>7, LoopLeavesCalls
<1>8. CASE UNCHANGED vars
  BY <1>8 DEF vars, workerVars
<1> QED
  BY <1>1, <1>2, <1>3, <1>4, <1>5, <1>6, <1>7, <1>8 DEF Next, CallStep, Terminated

\* What a run has for targets.
LEMMA StepOutput ==
  ASSUME IInv, PublisherTypes, OutputOfRun, [Next]_vars
  PROVE  OutputOfRun'
<1>1. ASSUME UNCHANGED <<loopPc, owner, output>>, ~Shared => UNCHANGED targetURLs
      PROVE  OutputOfRun'
  BY <1>1 DEF OutputOfRun
<1>2. ASSUME NEW c \in Callers,
             \/ Receive(c) \/ BeginStart(c) \/ BeginStop(c) \/ StopOne(c) \/ StopProceeds(c)
             \/ PausePanics(c) \/ PauseAborts(c) \/ StopEnds(c) \/ Reply(c) \/ MainStep \/ Signal
      PROVE  ~Shared => UNCHANGED targetURLs
  BY <1>2 DEF Receive, ReceiveStartStop, ReceiveDown, ReceiveUp, ReceiveUnmatched, BeginStart,
    StartRejected, StartNothing, StartShared, StartPerTarget, BeginStop, StopOne, StopLocked,
    StopNothing, StopReads, StopProceeds, CloseStop, KillSkipped, KillSucceeds, KillHitsOther,
    KillFails, KillErrorIgnored, DoneReceived, StopTimesOut, PausePanics, PauseAborts,
    KillErrorReturned, StopEnds, Reply, MainStep, Boot, Ready, Exit, Signal, workerVars
<1>3. ASSUME NEW c \in Callers,
             \/ Receive(c) \/ BeginStart(c) \/ BeginStop(c) \/ StopOne(c) \/ StopProceeds(c)
             \/ PausePanics(c) \/ PauseAborts(c) \/ StopEnds(c) \/ Reply(c) \/ MainStep \/ Signal
      PROVE  OutputOfRun'
  BY <1>1, <1>2, <1>3, CallsLeaveLoops
<1>4. ASSUME NEW c \in Callers, StartOne(c) \/ ResumeOne(c)
      PROVE  OutputOfRun'
  <2>1. PICK w \in Workers : StartLocked(w)
    BY <1>4 DEF StartOne, ResumeOne, PublisherTypes
  <2> QED
    BY <1>1, <2>1 DEF StartLocked, StartRun, StartIgnored, Fresh, OutputOfRun, IInv, WorkerTypeOK,
      workerVars
<1>5. ASSUME NEW r \in Runs, Loop(r)
      PROVE  OutputOfRun'
  <2>1. owner[r] \in Workers
    BY <1>5, LoopIsActive DEF IInv, LoopHasWorker
  <2>2. UNCHANGED <<owner, targetURLs>>
    BY <1>5, LoopLeavesCalls
  <2> QED
    BY <1>5, <2>1, <2>2 DEF OutputOfRun, IInv, WorkerTypeOK, Loop, LoopTop, LoopPost,
      LaunchSucceeds, LaunchFails, LoopSelect, LaunchTargets, Publish, WaitReturns,
      LoopPostSelect, RetryStopped, RetryTimer, LoopExit, Goto
<1>6. ASSUME NEW r \in Runs, Process(r)
      PROVE  OutputOfRun'
  BY <1>1, <1>6 DEF Process, ProcessStep, FFmpegExits, FFmpegHangs, MonitorKills, MonitorQuits,
    MonitorHitsOther, ChildBecomes
<1>7. CASE UNCHANGED vars
  BY <1>1, <1>7 DEF vars, workerVars
<1> QED
  BY <1>3, <1>4, <1>5, <1>6, <1>7, PublisherAssumption DEF Next, CallStep, Terminated

\* A worker for one target sends to that target only.
LEMMA SendsOwn ==
  ASSUME IInv, OutputOfRun, ~Shared, NEW r \in Runs, Active(r)
  PROVE  WillSend(r) \subseteq {owner[r]}
BY DEF OutputOfRun, WillSend, IInv, LoopHasWorker

\* The stop that is on its way to a run, before a step.
LEMMA Followed ==
  ASSUME PausesFollowed, NEW r \in Runs, NEW t, Active(r), r \notin stopClosed,
         t \in WillSend(r), t \in paused, t \notin skipped
  PROVE  \E c \in Callers : WillStop(c, r)
BY DEF PausesFollowed

\* No step leaves a run that sends to a paused target without a caller that stops it.
LEMMA StepFollowed ==
  ASSUME IInv, PublisherTypes, PauseInv, [Next]_vars
  PROVE  PausesFollowed'
<1> SUFFICES ASSUME NEW r \in Runs, Active(r)', r \notin stopClosed', NEW t,
                    t \in WillSend(r)', t \in paused', t \notin skipped'
             PROVE  \E c \in Callers : WillStop(c, r)'
  BY DEF PausesFollowed
<1> USE DEF PauseInv
\* Another caller than the one that moves keeps its stop.
<1>1. ASSUME NEW d \in Callers, WillStop(d, r), owner'[r] = owner[r], phase'[d] = phase[d],
             todo'[d] = todo[d], stopPc'[d] = stopPc[d], heldRun'[d] = heldRun[d],
             command'[d] = command[d]
      PROVE  WillStop(d, r)'
  BY <1>1 DEF WillStop
<1>2. ASSUME NEW c \in Callers, phase[c] \notin {"stopAll", "stopping"}
      PROVE  ~WillStop(c, r)
  BY <1>2 DEF WillStop, Control, StopInPhase
<1>3. ASSUME NEW c \in Callers, Receive(c)
      PROVE  \E d \in Callers : WillStop(d, r)'
  <2>1. UNCHANGED workerVars /\ phase[c] = "idle"
    BY <1>3 DEF Receive, ReceiveStartStop, ReceiveDown, ReceiveUp, ReceiveUnmatched
  <2>2. Active(r) /\ r \notin stopClosed /\ t \in WillSend(r)
    BY <2>1 DEF workerVars, Active, WillSend
  <2>3. CASE t \in paused /\ t \notin skipped
    <3>1. PICK d \in Callers : WillStop(d, r)
      BY <2>2, <2>3, Followed
    <3>2. d # c
      BY <1>2, <2>1, <3>1
    <3>3. phase'[d] = phase[d] /\ todo'[d] = todo[d] /\ command'[d] = command[d]
      BY <1>3, <3>2 DEF Receive, ReceiveStartStop, ReceiveDown, ReceiveUp, ReceiveUnmatched, Enter,
        PublisherTypes
    <3> QED
      BY <1>1, <2>1, <3>1, <3>3 DEF workerVars
  <2>4. CASE ~(t \in paused /\ t \notin skipped)
    <3>1. PICK m \in Matches \ {{}} :
            /\ paused' = paused \cup m /\ skipped' = skipped \ m
            /\ todo' = [todo EXCEPT ![c] = IF Shared THEN {} ELSE m \cap known]
            /\ Enter(c, IF Shared THEN "stopAll" ELSE "stopping")
            /\ command' = [command EXCEPT ![c] = "DOWN"]
      BY <1>3, <2>4 DEF Receive, ReceiveStartStop, ReceiveDown, ReceiveUp, ReceiveUnmatched,
        mgrVars, historyVars
    <3>2. t \in m
      BY <2>4, <3>1
    <3>3. ~Shared => owner[r] \in m \cap known
      BY <2>2, <3>2, SendsOwn DEF Booted, IInv, LoopHasWorker
    <3>4. owner'[r] = owner[r] /\ stopPc'[c] # "panicked"
      BY <2>1 DEF workerVars, Control, StopInPhase
    <3> QED
      BY <3>1, <3>3, <3>4 DEF Enter, PublisherTypes, WillStop
  <2> QED
    BY <2>3, <2>4
\* Steps that add nothing to what runs send, nor to what is paused.
<1>4. ASSUME NEW c \in Callers, Active(r), r \notin stopClosed, t \in WillSend(r), t \in paused,
             t \notin skipped, owner'[r] = owner[r], phase[c] \notin {"stopAll", "stopping"},
             UNCHANGED command,
             \A d \in Callers \ {c} :
               /\ phase'[d] = phase[d] /\ todo'[d] = todo[d]
               /\ stopPc'[d] = stopPc[d] /\ heldRun'[d] = heldRun[d]
      PROVE  \E d \in Callers : WillStop(d, r)'
  <2>1. PICK d \in Callers : WillStop(d, r)
    BY <1>4, Followed
  <2>2. d # c
    BY <1>2, <1>4, <2>1
  <2> QED
    BY <1>1, <1>4, <2>1, <2>2
<1>5. ASSUME NEW c \in Callers, BeginStart(c)
      PROVE  \E d \in Callers : WillStop(d, r)'
  <2>1. Active(r) /\ owner'[r] = owner[r] /\ r \notin stopClosed /\ t \in paused /\ t \notin skipped
    BY <1>5, CallsLeaveLoops DEF BeginStart, StartRejected, StartNothing, StartShared,
      StartPerTarget, Retarget, chanVars, workerVars, historyVars, Active
  <2>2. \/ UNCHANGED <<output, targetURLs, owner, loopPc>>
        \/ /\ UNCHANGED <<output, owner, loopPc>>
           /\ targetURLs' = [targetURLs EXCEPT ![SharedKey] = Targets \ paused]
    BY <1>5 DEF BeginStart, StartRejected, StartNothing, StartShared, StartPerTarget,
      Retarget, ActiveTargets, loopVars, workerVars
  <2>3. t \in WillSend(r)
    <3>1. owner[r] \in Workers
      BY <2>1 DEF IInv, LoopHasWorker
    <3> QED
      BY <2>1, <2>2, <3>1 DEF WillSend, IInv, WorkerTypeOK
  <2>4. /\ phase[c] = "startAll" /\ UNCHANGED command
        /\ \A d \in Callers \ {c} :
               /\ phase'[d] = phase[d] /\ todo'[d] = todo[d]
               /\ stopPc'[d] = stopPc[d] /\ heldRun'[d] = heldRun[d]
    BY <1>5 DEF BeginStart, StartRejected, StartNothing, StartShared, StartPerTarget, Retarget,
      Enter, PublisherTypes, callVars, workerVars
  <2> QED
    BY <1>4, <2>1, <2>3, <2>4
<1>6. ASSUME NEW c \in Callers, StartOne(c) \/ ResumeOne(c)
      PROVE  \E d \in Callers : WillStop(d, r)'
  <2>1. PICK w \in Workers : /\ StartLocked(w) /\ w \in todo[c]
                             /\ skipped' = IF running[w] THEN skipped ELSE skipped \ {w}
                             /\ UNCHANGED <<paused, known, inited>>
    BY <1>6 DEF StartOne, ResumeOne, PublisherTypes, mgrVars
  <2>2. /\ phase[c] \in {"starting", "resuming"} /\ UNCHANGED command
        /\ \A d \in Callers \ {c} :
               /\ phase'[d] = phase[d] /\ todo'[d] = todo[d]
               /\ stopPc'[d] = stopPc[d] /\ heldRun'[d] = heldRun[d]
    <3>1. UNCHANGED <<stopPc, heldRun>>
      BY <2>1 DEF StartLocked, StartRun, StartIgnored, workerVars
    <3> QED
      BY <1>6, <3>1 DEF StartOne, ResumeOne, Enter, PublisherTypes
  <2>3. CASE StartIgnored(w)
    <3>1. Active(r) /\ r \notin stopClosed /\ t \in WillSend(r) /\ t \in paused /\ t \notin skipped
          /\ owner'[r] = owner[r]
      BY <2>1, <2>3 DEF StartIgnored, workerVars, Active, WillSend
    <3> QED
      BY <1>4, <2>2, <3>1
  <2>4. CASE StartRun(w)
    <3>1. PICK q \in Runs : /\ ~running[w] /\ Fresh(w, q)
                            /\ loopPc' = [loopPc EXCEPT ![q] = "top"]
                            /\ owner' = [owner EXCEPT ![q] = w]
                            /\ stopClosed' = stopClosed \ {q}
                            /\ UNCHANGED <<output, targetURLs>>
      BY <2>4 DEF StartRun
    <3>2. r # q
      <4>1. ASSUME r = q
            PROVE  WillSend(r)' = targetURLs[w]
        BY <3>1, <4>1 DEF Fresh, OutputOfRun, WillSend, IInv, WorkerTypeOK
      <4>2. ~Shared => targetURLs[w] = {}
        BY DEF OutputOfRun
      <4>3. Shared => targetURLs[w] \cap paused = {}
        <5>1. Shared => w = SharedKey
          BY PublisherAssumption
        <5> QED
          BY <2>2, <5>1 DEF StartFiltersPaused
      <4> QED
        BY <2>1, <4>1, <4>2, <4>3
    <3>3. Active(r) /\ owner'[r] = owner[r] /\ r \notin stopClosed /\ t \in WillSend(r)
      BY <3>1, <3>2 DEF Active, WillSend, IInv, WorkerTypeOK
    <3>4. owner[r] \in Workers /\ owner[r] # w
      BY <3>1, <3>3 DEF IInv, LoopHasWorker
    <3>5. ~Shared
      BY <3>4, PublisherAssumption
    <3>6. t # w
      BY <3>3, <3>4, <3>5, SendsOwn
    <3> QED
      BY <1>4, <2>1, <2>2, <3>3, <3>6
  <2> QED
    BY <2>1, <2>3, <2>4 DEF StartLocked
\* Steps that change neither what runs send nor what is paused.
<1>8. ASSUME UNCHANGED <<loopPc, owner, output, paused>>, stopClosed \subseteq stopClosed',
             UNCHANGED targetURLs, skipped \subseteq skipped'
      PROVE  /\ Active(r) /\ owner'[r] = owner[r] /\ r \notin stopClosed /\ t \in WillSend(r)
             /\ \E d \in Callers : WillStop(d, r)
  <2>1. Active(r) /\ owner'[r] = owner[r] /\ r \notin stopClosed /\ t \in WillSend(r)
    BY <1>8 DEF Active, WillSend
  <2> QED
    BY <1>8, <2>1, Followed
<1>7. ASSUME NEW c \in Callers, BeginStop(c)
      PROVE  \E d \in Callers : WillStop(d, r)'
  <2>1. UNCHANGED <<workerVars, paused, skipped, command>> /\ phase[c] = "stopAll"
    BY <1>7 DEF BeginStop, mgrVars, historyVars
  <2>2. PICK d \in Callers : WillStop(d, r)
    BY <1>8, <2>1 DEF workerVars
  <2>3. CASE d # c
    BY <1>1, <1>7, <2>1, <2>2, <2>3 DEF BeginStop, Enter, PublisherTypes, workerVars
  <2>4. CASE d = c
    <3>1. owner'[r] \in known
      BY <1>8, <2>1 DEF workerVars, Booted, IInv, LoopHasWorker
    <3> QED
      BY <1>7, <2>1, <2>2, <2>4, <3>1 DEF BeginStop, Enter, WillStop, PublisherTypes, workerVars
  <2> QED
    BY <2>3, <2>4
<1>9. ASSUME NEW c \in Callers, StopOne(c)
      PROVE  \E d \in Callers : WillStop(d, r)'
  <2>1. UNCHANGED <<loopPc, owner, output, paused, stopClosed, targetURLs, skipped, phase, command>>
    BY <1>9 DEF StopOne, StopLocked, StopNothing, StopReads, workerVars, chanVars, loopVars,
      mgrVars, historyVars
  <2>2. PICK d \in Callers : WillStop(d, r)
    BY <1>8, <2>1
  <2>3. owner'[r] = owner[r] /\ running[owner[r]] /\ run[owner[r]] = r
    BY <1>8, <2>1 DEF IInv, LoopHasWorker
  <2>4. PICK w \in todo[c] : StopLocked(c, w) /\ todo' = [todo EXCEPT ![c] = @ \ {w}]
    BY <1>9 DEF StopOne
  <2>5. phase[c] = "stopping" /\ stopPc[c] = "idle"
    BY <1>9 DEF StopOne, StopLocked, StopNothing, StopReads
  <2>6. CASE d # c
    BY <1>1, <2>1, <2>2, <2>3, <2>4, <2>6 DEF StopLocked, StopNothing, StopReads, workerVars, IInv,
      WorkerTypeOK, PublisherTypes
  <2>7. CASE d = c /\ owner[r] = w
    <3>1. StopReads(c, w)
      BY <2>3, <2>4, <2>7 DEF StopLocked, StopNothing
    <3> QED
      BY <2>1, <2>2, <2>3, <2>7, <3>1 DEF StopReads, WillStop, IInv, WorkerTypeOK
  <2>8. CASE d = c /\ owner[r] # w
    <3>1. owner[r] \in todo[c]
      BY <2>2, <2>5, <2>8 DEF WillStop
    <3>2. owner[r] \in todo'[c] /\ stopPc'[c] # "panicked"
      BY <2>4, <2>5, <2>8, <3>1 DEF PublisherTypes, StopLocked, StopNothing, StopReads, workerVars,
        IInv, WorkerTypeOK
    <3> QED
      BY <2>1, <2>2, <2>3, <2>5, <2>8, <3>2 DEF WillStop
  <2> QED
    BY <2>6, <2>7, <2>8
<1>10. ASSUME NEW c \in Callers, StopProceeds(c)
       PROVE  \E d \in Callers : WillStop(d, r)'
  <2>1. UNCHANGED <<loopPc, owner, output, paused, targetURLs, skipped, phase, todo, command>>
        /\ stopClosed \subseteq stopClosed'
    BY <1>10 DEF StopProceeds, CloseStop, KillSkipped, KillSucceeds, KillHitsOther, KillFails,
      KillErrorIgnored, DoneReceived, StopTimesOut, chanVars, loopVars, mgrVars, callerVars,
      historyVars
  <2>2. PICK d \in Callers : WillStop(d, r)
    BY <1>8, <2>1
  <2>3. ASSUME stopPc[c] = "close", heldRun[c] = r
        PROVE  FALSE
    BY <1>10, <2>3 DEF StopProceeds, CloseStop, KillSkipped, KillSucceeds, KillHitsOther,
      KillFails, KillErrorIgnored, DoneReceived, StopTimesOut
  <2>4. \A e \in Callers \ {c} : stopPc'[e] = stopPc[e] /\ heldRun'[e] = heldRun[e]
    BY <1>10 DEF StopProceeds, CloseStop, KillSkipped, KillSucceeds, KillHitsOther, KillFails,
      KillErrorIgnored, DoneReceived, StopTimesOut, Return, IInv, WorkerTypeOK
  <2>5. CASE d # c
    BY <1>1, <1>8, <2>1, <2>2, <2>4, <2>5
  <2>6. CASE d = c
    <3>1. phase[c] = "stopping" /\ owner[r] \in todo[c] /\ stopPc[c] # "idle"
      BY <1>10, <2>2, <2>3, <2>6 DEF WillStop, Control, StopInPhase, StopProceeds, CloseStop,
        KillSkipped, KillSucceeds, KillHitsOther, KillFails, KillErrorIgnored, DoneReceived,
        StopTimesOut
    <3>2. ~Shared
      BY <3>1 DEF Control, SharedStopLast
    <3>3. PausesByURL(c)
      BY <2>2, <2>6, <3>2 DEF WillStop, PausesByURL
    <3>4. stopPc'[c] # "panicked"
      BY <1>10, <2>2, <2>6, <3>3 DEF StopProceeds, CloseStop, KillSkipped, KillSucceeds,
        KillHitsOther, KillErrorIgnored, DoneReceived, StopTimesOut, Return, IInv, WorkerTypeOK
    <3> QED
      BY <1>8, <2>1, <2>2, <2>6, <3>1, <3>4 DEF WillStop
  <2> QED
    BY <2>5, <2>6
<1>11. ASSUME NEW c \in Callers, PausePanics(c) \/ PauseAborts(c)
       PROVE  \E d \in Callers : WillStop(d, r)'
  <2>1. UNCHANGED <<loopPc, owner, output, paused, targetURLs, stopClosed>>
        /\ skipped' = skipped \cup todo[c] /\ UNCHANGED command
    <3>1. CASE PausePanics(c)
      BY <3>1, <1>11 DEF PausePanics, CloseStop, IInv, StopHoldsRun, WorkerTypeOK, loopVars,
        mgrVars, callerVars
    <3>2. CASE PauseAborts(c)
      BY <3>2 DEF PauseAborts, KillErrorReturned, chanVars, loopVars, mgrVars
    <3> QED
      BY <1>11, <3>1, <3>2
  <2>2. PICK d \in Callers : WillStop(d, r)
    BY <1>8, <2>1
  <2>3. /\ ~Shared
        /\ stopPc[c] = "kill" \/ (stopPc[c] = "close" /\ heldRun[c] \in stopClosed)
        /\ \A e \in Callers \ {c} : /\ stopPc'[e] = stopPc[e] /\ heldRun'[e] = heldRun[e]
                                    /\ phase'[e] = phase[e] /\ todo'[e] = todo[e]
    <3>1. CASE PausePanics(c)
      BY <3>1 DEF PausePanics, PausesByURL, CloseStop, callerVars, IInv, WorkerTypeOK
    <3>2. CASE PauseAborts(c)
      <4>1. ~Shared /\ stopPc[c] = "kill"
        BY <3>2 DEF PauseAborts, PausesByURL, KillErrorReturned, KillFails
      <4>2. \A e \in Callers \ {c} : /\ stopPc'[e] = stopPc[e] /\ heldRun'[e] = heldRun[e]
                                     /\ phase'[e] = phase[e] /\ todo'[e] = todo[e]
        <5>1. stopPc \in [Callers -> StopPcs] /\ heldRun \in [Callers -> Runs \cup {None}]
          BY DEF IInv, WorkerTypeOK
        <5> QED
          BY <3>2, <5>1 DEF PauseAborts, KillErrorReturned, Return, Enter, PublisherTypes
      <4> QED
        BY <4>1, <4>2
    <3> QED
      BY <1>11, <3>1, <3>2
  <2>4. t = owner[r]
    BY <1>8, <2>1, <2>3, SendsOwn
  <2>5. d # c
    BY <1>8, <2>1, <2>2, <2>3, <2>4 DEF WillStop, Control, StopInPhase
  <2> QED
    BY <1>1, <2>1, <2>2, <2>3, <2>5
<1>12. ASSUME NEW c \in Callers, StopEnds(c)
       PROVE  \E d \in Callers : WillStop(d, r)'
  <2>1. UNCHANGED <<workerVars, paused, skipped>> /\ stopPc[c] = "idle" /\ todo[c] = {}
        /\ phase[c] = "stopping" /\ UNCHANGED <<todo, command>>
    BY <1>12 DEF StopEnds, mgrVars, historyVars
  <2>2. PICK d \in Callers : WillStop(d, r)
    BY <1>8, <2>1 DEF workerVars
  <2>3. d # c
    BY <2>1, <2>2 DEF WillStop
  <2> QED
    BY <1>1, <1>12, <2>1, <2>2, <2>3 DEF StopEnds, Enter, PublisherTypes, workerVars
<1>13. ASSUME NEW c \in Callers, Finish(c), phase[c] = "reply", UNCHANGED <<workerVars, mgrVars, historyVars>>
       PROVE  \E d \in Callers : WillStop(d, r)'
  <2>1. UNCHANGED <<paused, skipped>>
    BY <1>13 DEF mgrVars, historyVars
  <2>2. PICK d \in Callers : WillStop(d, r)
    BY <1>8, <1>13, <2>1 DEF workerVars
  <2>3. d # c
    BY <1>2, <1>13, <2>2
  <2> QED
    BY <1>1, <1>13, <2>2, <2>3 DEF Finish, Enter, PublisherTypes, workerVars
<1>14. ASSUME MainStep \/ Signal
       PROVE  \E d \in Callers : WillStop(d, r)'
  <2>1. Main \in Callers
    BY PublisherAssumption
  <2>2. CASE Boot
    BY <2>2 DEF Boot, Booted
  <2>3. CASE Ready \/ Exit
    BY <1>13, <2>1, <2>3 DEF Ready, Exit
  <2>4. CASE Signal
    <3>1. UNCHANGED <<workerVars, paused, skipped>> /\ phase[Main] = "idle"
      BY <2>4 DEF Signal, mgrVars, historyVars, Control, MainInPhase
    <3>2. PICK d \in Callers : WillStop(d, r)
      BY <1>8, <3>1 DEF workerVars
    <3>3. d # Main
      BY <1>2, <2>1, <3>1, <3>2
    <3> QED
      BY <1>1, <2>4, <3>2, <3>3 DEF Signal, Enter, PublisherTypes, workerVars
  <2> QED
    BY <1>14, <2>2, <2>3, <2>4 DEF MainStep
<1>15. ASSUME NEW q \in Runs, Loop(q)
       PROVE  \E d \in Callers : WillStop(d, r)'
  <2>1. UNCHANGED <<paused, skipped, phase, command, todo, stopPc, heldRun, stopClosed, targetURLs,
                    owner>>
    BY <1>15, LoopLeavesCalls
  <2>2. Active(r)
    BY <1>15, LoopIsActive DEF Active
  <2>3. t \in WillSend(r)
    <3>1. t \in targetURLs[owner[r]] => t \in WillSend(r)
      BY DEF WillSend
    <3>2. CASE t \in output'[r]
      <4>1. \/ output'[r] \subseteq output[r]
            \/ loopPc[r] = "select" /\ output'[r] = LaunchTargets(owner[r])
        BY <1>15 DEF Loop, LoopTop, LoopPost, LaunchSucceeds, LaunchFails, LoopSelect, Publish,
          WaitReturns, LoopPostSelect, RetryStopped, RetryTimer, LoopExit, IInv, WorkerTypeOK
      <4> QED
        BY <3>2, <4>1 DEF LaunchTargets, WillSend
    <3>3. CASE t = owner[r] /\ loopPc'[r] = "select"
      <4>1. loopPc[r] = "select" \/ ~IsPaused(r)
        BY <1>15, <3>3 DEF Loop, LoopTop, LoopPost, LaunchSucceeds, LaunchFails, LoopSelect,
          Publish, WaitReturns, LoopPostSelect, RetryStopped, RetryTimer, LoopExit, Goto, IInv,
          WorkerTypeOK
      <4> QED
        BY <2>1, <3>3, <4>1 DEF IsPaused, WillSend
    <3> QED
      BY <2>1, <3>1, <3>2, <3>3 DEF WillSend
  <2> QED
    BY <1>1, <2>1, <2>2, <2>3, Followed
<1>16. ASSUME NEW q \in Runs, Process(q)
       PROVE  \E d \in Callers : WillStop(d, r)'
  <2>1. UNCHANGED <<loopPc, owner, output, paused, stopClosed, targetURLs, skipped>>
    BY <1>16, LoopLeavesCalls DEF Process, ProcessStep, FFmpegExits, FFmpegHangs, MonitorKills,
      MonitorQuits, MonitorHitsOther, ChildBecomes
  <2>2. PICK d \in Callers : WillStop(d, r)
    BY <1>8, <2>1
  <2> QED
    BY <1>1, <1>16, <2>1, <2>2, LoopLeavesCalls
<1>17. CASE UNCHANGED vars
  <2>1. UNCHANGED <<loopPc, owner, output, paused, stopClosed, targetURLs, skipped, phase, command,
                    todo, stopPc, heldRun>>
    BY <1>17 DEF vars, workerVars
  <2>2. PICK d \in Callers : WillStop(d, r)
    BY <1>8, <2>1
  <2> QED
    BY <1>1, <2>1, <2>2
<1>18. ASSUME NEW c \in Callers, Reply(c)
       PROVE  \E d \in Callers : WillStop(d, r)'
  BY <1>13, <1>18 DEF Reply
<1> QED
  BY <1>3, <1>5, <1>6, <1>7, <1>9, <1>10, <1>11, <1>12, <1>14, <1>15, <1>16, <1>17, <1>18
  DEF Next, CallStep, Terminated

\* The invariant of the pauses, for any targets, commands and readers.
LEMMA PauseInductive == Spec => []PauseInv
<1>1. IInv /\ PublisherTypes /\ PauseInv /\ [Next]_vars => PauseInv'
  BY StepControl, StepBooted, StepFilters, StepOutput, StepFollowed DEF PauseInv
<1> QED
  BY <1>1, InitPause, BaseInductive, PTL DEF Spec

\* When nobody is inside a publisher call, a reader that panicked in one counting as
\* outside, no process sends to a paused target, but for the one that a stop gave up
\* on or missed, or whose target a pause that failed or panicked did not come to
\* (ffmpeg_worker.go:268, 305, 309, 323).
THEOREM PausedTargetsAreSilent == Spec => []PausedIsSilent
<1>1. ASSUME IInv, PauseInv, Quiet
      PROVE  PausedIsSilent
  <2> SUFFICES ASSUME NEW r \in Runs, Live(r), r \notin stopClosed, NEW t \in output[r],
                      t \in paused, t \notin skipped
               PROVE  FALSE
    BY DEF PausedIsSilent
  <2>1. Active(r) /\ t \in WillSend(r)
    BY <1>1 DEF IInv, ChildPhase, Active, WillSend
  <2>2. PICK c \in Callers : WillStop(c, r)
    BY <1>1, <2>1, Followed DEF PauseInv
  <2> QED
    BY <1>1, <2>2 DEF Quiet, WillStop, PauseInv, Control, StopInPhase
<1>2. IInv /\ PauseInv => PausedIsSilent
  BY <1>1 DEF PausedIsSilent
<1> QED
  BY <1>2, PauseInductive, BaseInductive, PTL
=============================================================================
