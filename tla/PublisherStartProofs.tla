------------------------ MODULE PublisherStartProofs ------------------------
(***************************************************************************)
(* A start that succeeds has an effect, and a readLoop dies of a closed     *)
(* stopCh only after a stop that gave up: the proofs, for any targets and   *)
(* commands, of one reader that nobody interferes with.                    *)
(*                                                                         *)
(* Until a signal arrives the reader is the only goroutine that stops       *)
(* workers.  What it leaves behind is a stopped run that it gave up on      *)
(* (StopsAbandoned) and nothing else: a run of a paused target is stopped   *)
(* or skipped (PausesStopped), nobody starts a paused target                *)
(* (StartsUnpaused), and so a run that is on its way out without a stop     *)
(* belongs to a target that is paused or was skipped (ExitsExplained).      *)
(***************************************************************************)
EXTENDS PublisherPauseProofs

\* One readLoop: no reconnect has left an old one in a handler.
OneReader == \A c, d \in Readers : c = d

\* main() does not stop the publisher.
BeforeSignal == mainPc \in {"boot", "starting", "serving"}

\* A stopped run that is still alive is being waited for, or was given up.
StopsAbandoned ==
  \A r \in Runs : Active(r) /\ r \in stopClosed =>
    r \in gaveUp \/ \E c \in Readers : stopPc[c] \in {"kill", "await"} /\ heldRun[c] = r

\* Only a stop that somebody gave up on is repeated.
ClosesOpen ==
  \A c \in Callers :
    /\ stopPc[c] = "panicked" => heldRun[c] \in gaveUp
    /\ stopPc[c] = "close" /\ heldRun[c] \in stopClosed => heldRun[c] \in gaveUp

\* A caller that has still to come to run r in its stop loop, or stops there.
StillVisits(c, r) ==
  \/ phase[c] = "stopAll"
  \/ phase[c] = "stopping" /\ owner[r] \in todo[c]
  \/ stopPc[c] = "close" /\ heldRun[c] = r

\* A run of a paused target is stopped, about to be, or skipped.
PausesStopped ==
  \A r \in Runs : Active(r) /\ r \notin stopClosed /\ owner[r] \in paused \ skipped
    => \E c \in Callers : StillVisits(c, r)

\* Nobody is about to start a paused target.
StartsUnpaused ==
  \A c \in Callers : phase[c] \in {"starting", "resuming"} => todo[c] \cap paused = {}

\* A run that ends without having been stopped has seen a pause.
ExitsExplained ==
  \A r \in Runs : loopPc[r] = "exit" /\ r \notin stopClosed => owner[r] \in paused \cup skipped

\* What StartIsEffective says of a target.
Served(t) ==
  \/ running[t] /\ run[t] \notin stopClosed
  \/ run[t] \in gaveUp
  \/ t \in skipped

\* Every target a start is about is served, or the start has still to come to it.
WantedServed ==
  \A c \in Readers :
    command[c] \in {"START", "UP"} /\ phase[c] \in {"starting", "resuming", "reply"} /\ code[c] = 0
      => \A t \in Wanted(c) : Served(t) \/ (phase[c] # "reply" /\ t \in todo[c])

\* In per-target mode only STOP and DOWN stop workers.
StopCommands ==
  \A c \in Readers : phase[c] \in {"stopAll", "stopping"} => command[c] \in {"STOP", "DOWN"}

\* No step ends main()'s stop.
LEMMA SignalIsFinal ==
  ASSUME [Next]_vars, BeforeSignal'
  PROVE  BeforeSignal
<1>1. UNCHANGED mainPc \/ mainPc \in {"boot", "starting"} \/ mainPc' \in {"stopping", "exited"}
  BY LoopLeavesCalls DEF Next, CallStep, Receive, ReceiveStartStop, ReceiveDown, ReceiveUp,
    ReceiveUnmatched, BeginStart, StartOne, ResumeOne, BeginStop, StopOne, StopProceeds,
    PausePanics, PauseAborts, StopEnds, Reply, MainStep, Boot, Ready, Exit, Signal, Terminated, vars
<1> QED
  BY <1>1 DEF BeforeSignal

\* Before it, main() stops nothing.
LEMMA MainStopsNothing ==
  ASSUME Control, BeforeSignal
  PROVE  phase[Main] \notin {"stopAll", "stopping", "resuming"} /\ stopPc[Main] = "idle"
BY PublisherAssumption DEF Control, StopInPhase, MainInPhase, BeforeSignal

\* The run loops leave the history of the stops alone.
LEMMA LoopLeavesHistory ==
  ASSUME NEW r \in Runs, Loop(r) \/ Process(r)
  PROVE  UNCHANGED gaveUp
BY DEF Loop, LoopTop, LoopPost, LaunchSucceeds, LaunchFails, LoopSelect, Publish, WaitReturns,
  LoopPostSelect, RetryStopped, RetryTimer, LoopExit, Process, ProcessStep, FFmpegExits,
  FFmpegHangs, MonitorKills, MonitorQuits, MonitorHitsOther, ChildBecomes, callVars

\* What the only reader stops it waits for or gives up.
LEMMA StepStops ==
  ASSUME OneReader, IInv, PublisherTypes, Control, BeforeSignal, StopsAbandoned, ClosesOpen,
         [Next]_vars
  PROVE  StopsAbandoned' /\ ClosesOpen'
<1> DEFINE Goal == StopsAbandoned' /\ ClosesOpen'
<1> USE DEF StopsAbandoned, ClosesOpen
<1>1. ASSUME UNCHANGED <<stopPc, heldRun, stopClosed, gaveUp, loopPc>>
      PROVE  Goal
  BY <1>1 DEF Active
<1>2. ASSUME NEW c \in Callers, StopOne(c) \/ StopProceeds(c) \/ PausePanics(c) \/ PauseAborts(c)
      PROVE  c \in Readers /\ \A d \in Callers \ {c} : stopPc[d] = "idle"
  <2>1. c # Main
    <3>1. CASE StopOne(c)
      BY <3>1, MainStopsNothing DEF StopOne
    <3>2. CASE StopProceeds(c) \/ PausePanics(c) \/ PauseAborts(c)
      BY <3>2, MainStopsNothing DEF StopProceeds, CloseStop, KillSkipped, KillSucceeds,
        KillHitsOther, KillFails, KillErrorIgnored, DoneReceived, StopTimesOut, PausePanics,
        PauseAborts, KillErrorReturned
    <3> QED
      BY <1>2, <3>1, <3>2
  <2>2. \A d \in Callers \ {c} : d = Main
    BY <2>1 DEF OneReader, Readers
  <2> QED
    BY <2>1, <2>2, MainStopsNothing DEF Readers
<1>3. ASSUME NEW w \in Workers, StartLocked(w)
      PROVE  Goal
  <2>1. CASE StartRun(w)
    <3>1. PICK r \in Runs :
            /\ \A c \in Callers : heldRun[c] # r
            /\ stopClosed' = stopClosed \ {r} /\ gaveUp' = gaveUp \ {r}
            /\ loopPc' = [loopPc EXCEPT ![r] = "top"]
      BY <2>1 DEF StartRun, Fresh
    <3>2. UNCHANGED <<stopPc, heldRun>>
      BY <2>1 DEF StartRun
    <3>3. \A s \in Runs \ {r} : Active(s)' => Active(s)
      BY <3>1 DEF Active, IInv, WorkerTypeOK
    <3> QED
      BY <3>1, <3>2, <3>3
  <2> QED
    BY <1>1, <1>3, <2>1 DEF StartLocked, StartIgnored, workerVars
<1>4. ASSUME NEW c \in Callers, StopOne(c)
      PROVE  Goal
  <2>1. PICK w \in todo[c] : StopLocked(c, w)
    BY <1>4 DEF StopOne
  <2>2. CASE StopNothing(c, w)
    BY <1>1, <2>2 DEF StopNothing, workerVars
  <2>3. CASE StopReads(c, w)
    <3>1. w \in Workers /\ running[w] /\ stopPc[c] = "idle"
      BY <2>3 DEF StopReads, PublisherTypes
    <3>2. run[w] \in Runs /\ Active(run[w])
      BY <3>1 DEF IInv, WorkerHasLoop
    <3>3. run[w] \in stopClosed => run[w] \in gaveUp
      BY <1>2, <1>4, <3>1, <3>2 DEF Readers
    <3>4. /\ stopPc' = [stopPc EXCEPT ![c] = "close"]
          /\ heldRun' = [heldRun EXCEPT ![c] = run[w]]
          /\ UNCHANGED <<stopClosed, gaveUp, loopPc>>
      BY <2>3 DEF StopReads, chanVars, loopVars
    <3> QED
      BY <3>1, <3>3, <3>4 DEF Active, IInv, WorkerTypeOK
  <2> QED
    BY <2>1, <2>2, <2>3 DEF StopLocked
<1>5. ASSUME NEW c \in Callers, CloseStop(c), StopProceeds(c) \/ PausePanics(c)
      PROVE  Goal
  <2> c \in Readers /\ \A d \in Callers \ {c} : stopPc[d] = "idle"
    BY <1>2, <1>5
  <2> USE DEF IInv, WorkerTypeOK, Active, Readers
  <2>1. /\ stopPc[c] = "close" /\ stopClosed' = stopClosed \cup {heldRun[c]}
        /\ UNCHANGED <<heldRun, gaveUp, loopPc>>
        /\ \A d \in Callers \ {c} : stopPc'[d] = "idle"
    BY <1>5 DEF CloseStop, loopVars
  <2>2. CASE heldRun[c] \in stopClosed
    <3>1. heldRun[c] \in gaveUp /\ stopClosed' = stopClosed
      BY <2>1, <2>2
    <3>2. stopPc'[c] = "panicked"
      BY <1>5, <2>2 DEF CloseStop
    <3> QED
      BY <2>1, <3>1, <3>2
  <2>3. CASE heldRun[c] \notin stopClosed
    <3>1. stopPc'[c] = "kill"
      BY <1>5, <2>3 DEF CloseStop
    <3> QED
      BY <2>1, <3>1
  <2> QED
    BY <2>2, <2>3
<1>11. ASSUME NEW c \in Callers, StopProceeds(c)
      PROVE  Goal
  <2> c \in Readers /\ \A d \in Callers \ {c} : stopPc[d] = "idle"
    BY <1>2, <1>11
  <2> USE DEF IInv, WorkerTypeOK, Active, Readers
  <2>1. CASE CloseStop(c)
    BY <1>5, <1>11, <2>1
  <2>2. CASE KillSkipped(c) \/ KillSucceeds(c) \/ KillHitsOther(c) \/ KillErrorIgnored(c)
    <3>1. /\ stopPc[c] = "kill" /\ stopPc' = [stopPc EXCEPT ![c] = "await"]
          /\ UNCHANGED <<heldRun, stopClosed, gaveUp, loopPc>>
      BY <2>2 DEF KillSkipped, KillSucceeds, KillHitsOther, KillFails, KillErrorIgnored, chanVars,
        loopVars
    <3> QED
      BY <3>1
  <2>3. CASE DoneReceived(c)
    <3>1. \A r \in Runs : Active(r) => heldRun[c] # r
      BY <2>3 DEF DoneReceived, LoopHasWorker
    <3> QED
      BY <2>3, <3>1 DEF DoneReceived, Return, chanVars, loopVars
  <2>4. CASE StopTimesOut(c)
    BY <2>4 DEF StopTimesOut, Return, chanVars, loopVars
  <2> QED
    BY <1>11, <2>1, <2>2, <2>3, <2>4 DEF StopProceeds
<1>6. ASSUME NEW c \in Callers, PauseAborts(c)
      PROVE  Goal
  <2> c \in Readers /\ \A d \in Callers \ {c} : stopPc[d] = "idle"
    BY <1>2, <1>6
  <2>1. \A r \in Runs : Active(r) /\ heldRun[c] = r => r \in gaveUp'
    BY <1>6 DEF PauseAborts, KillErrorReturned, IInv, LoopHasWorker
  <2> QED
    BY <1>6, <2>1 DEF PauseAborts, KillErrorReturned, KillFails, Return, chanVars, loopVars, IInv,
      WorkerTypeOK, Active
<1>7. ASSUME NEW r \in Runs, Loop(r) \/ Process(r)
      PROVE  Goal
  <2>1. UNCHANGED <<stopPc, heldRun, stopClosed, gaveUp>>
    BY <1>7, LoopLeavesCalls, LoopLeavesHistory
  <2>2. \A s \in Runs : Active(s)' => Active(s)
    <3>1. CASE Loop(r)
      BY <3>1, LoopIsActive DEF Active
    <3>2. CASE Process(r)
      BY <3>2 DEF Process, ProcessStep, FFmpegExits, FFmpegHangs, MonitorKills, MonitorQuits,
        MonitorHitsOther, ChildBecomes, Active
    <3> QED
      BY <1>7, <3>1, <3>2
  <2> QED
    BY <2>1, <2>2
<1>8. ASSUME NEW c \in Callers, StartOne(c) \/ ResumeOne(c)
      PROVE  Goal
  BY <1>3, <1>8 DEF StartOne, ResumeOne, PublisherTypes
<1>9. ASSUME NEW c \in Callers,
             Receive(c) \/ BeginStart(c) \/ BeginStop(c) \/ StopEnds(c) \/ Reply(c)
      PROVE  Goal
  BY <1>1, <1>9 DEF Receive, ReceiveStartStop, ReceiveDown, ReceiveUp, ReceiveUnmatched,
    BeginStart, StartRejected, StartNothing, StartShared, StartPerTarget, Retarget, BeginStop,
    StopEnds, Reply, chanVars, loopVars, callVars, workerVars
<1>10. CASE MainStep \/ Signal \/ UNCHANGED vars
  BY <1>1, <1>10 DEF MainStep, Boot, Ready, Exit, Signal, Retarget, chanVars, loopVars, callVars,
    workerVars, vars
<1>12. ASSUME NEW c \in Callers, PausePanics(c)
      PROVE  Goal
  BY <1>5, <1>12 DEF PausePanics
<1> QED
  BY <1>4, <1>6, <1>7, <1>8, <1>9, <1>10, <1>11, <1>12 DEF Next, CallStep, Terminated

-----------------------------------------------------------------------------
(* Per-target mode *)

\* A step of a process moves no run loop.
LEMMA ProcessLeavesLoops ==
  ASSUME NEW r \in Runs, Process(r)
  PROVE  UNCHANGED <<loopPc, running>>
BY DEF Process, ProcessStep, FFmpegExits, FFmpegHangs, MonitorKills, MonitorQuits,
  MonitorHitsOther, ChildBecomes, fieldVars

\* A start adds one run, of a worker that has none.
LEMMA StartAddsRun ==
  ASSUME IInv, NEW w \in Workers, StartLocked(w)
  PROVE  \A r \in Runs : Active(r)' =>
           \/ Active(r) /\ owner'[r] = owner[r] /\ loopPc'[r] = loopPc[r]
              /\ (r \in stopClosed <=> r \in stopClosed') /\ (~running[w] => owner[r] # w)
           \/ owner'[r] = w /\ loopPc'[r] = "top" /\ ~running[w]
<1>1. CASE StartRun(w)
  <2>1. PICK s \in Runs :
          /\ loopPc[s] = "off" /\ ~running[w]
          /\ stopClosed' = stopClosed \ {s}
          /\ loopPc' = [loopPc EXCEPT ![s] = "top"]
          /\ owner' = [owner EXCEPT ![s] = w]
    BY <1>1 DEF StartRun, Fresh
  <2> QED
    BY <2>1 DEF Active, IInv, WorkerTypeOK, LoopHasWorker
<1>2. CASE StartIgnored(w)
  BY <1>2 DEF StartIgnored, workerVars, Active
<1> QED
  BY <1>1, <1>2 DEF StartLocked

\* No step leaves a run of a paused target without a caller that stops it.
LEMMA StepPausesStopped ==
  ASSUME ~Shared, IInv, PublisherTypes, Control, Booted, PausesStopped, StartsUnpaused,
         [Next]_vars
  PROVE  PausesStopped'
<1> SUFFICES ASSUME NEW r \in Runs, Active(r)', r \notin stopClosed', owner'[r] \in paused',
                    owner'[r] \notin skipped'
             PROVE  \E c \in Callers : StillVisits(c, r)'
  BY DEF PausesStopped
<1> DEFINE Goal == \E c \in Callers : StillVisits(c, r)'
           Before == Active(r) /\ r \notin stopClosed /\ owner[r] \in paused \ skipped
<1>1. ASSUME Before, NEW c \in Callers, phase[c] \notin {"stopAll", "stopping"},
             owner'[r] = owner[r],
             \A d \in Callers \ {c} :
               /\ phase'[d] = phase[d] /\ todo'[d] = todo[d]
               /\ stopPc'[d] = stopPc[d] /\ heldRun'[d] = heldRun[d]
      PROVE  Goal
  <2>1. PICK d \in Callers : StillVisits(d, r)
    BY <1>1 DEF PausesStopped
  <2>2. d # c
    BY <1>1, <2>1 DEF StillVisits, Control, StopInPhase
  <2> QED
    BY <1>1, <2>1, <2>2 DEF StillVisits
<1>2. ASSUME Before, UNCHANGED <<phase, todo, stopPc, heldRun, owner>>
      PROVE  Goal
  BY <1>2 DEF PausesStopped, StillVisits
<1>3. ASSUME NEW c \in Callers, Receive(c)
      PROVE  Goal
  <2>1. UNCHANGED workerVars /\ phase[c] = "idle"
    BY <1>3 DEF Receive, ReceiveStartStop, ReceiveDown, ReceiveUp, ReceiveUnmatched
  <2>2. Active(r) /\ r \notin stopClosed /\ owner'[r] = owner[r]
    BY <2>1 DEF workerVars, Active
  <2>3. CASE owner[r] \in paused \ skipped
    <3>1. \A d \in Callers \ {c} : phase'[d] = phase[d] /\ todo'[d] = todo[d]
      BY <1>3 DEF Receive, ReceiveStartStop, ReceiveDown, ReceiveUp, ReceiveUnmatched, Enter,
        PublisherTypes
    <3> QED
      BY <1>1, <2>1, <2>2, <2>3, <3>1 DEF workerVars
  <2>4. CASE owner[r] \notin paused \ skipped
    <3>1. PICK m \in Matches \ {{}} :
            /\ paused' = paused \cup m /\ skipped' = skipped \ m
            /\ todo' = [todo EXCEPT ![c] = m \cap known]
            /\ Enter(c, "stopping") /\ inited
      BY <1>3, <2>2, <2>4 DEF Receive, ReceiveStartStop, ReceiveDown, ReceiveUp,
        ReceiveUnmatched, mgrVars, historyVars
    <3>2. owner[r] \in m \cap known
      BY <2>2, <2>4, <3>1 DEF Booted, IInv, LoopHasWorker
    <3> QED
      BY <2>2, <3>1, <3>2 DEF Enter, PublisherTypes, StillVisits
  <2> QED
    BY <2>3, <2>4
<1>4. ASSUME NEW c \in Callers, BeginStart(c) \/ Reply(c)
      PROVE  Goal
  <2>1. /\ UNCHANGED <<stopClosed, loopPc, owner, paused, skipped, stopPc, heldRun>>
        /\ \A d \in Callers \ {c} : phase'[d] = phase[d] /\ todo'[d] = todo[d]
        /\ phase[c] \notin {"stopAll", "stopping"}
    BY <1>4 DEF BeginStart, StartRejected, StartNothing, StartShared, StartPerTarget, Reply,
      Finish, Enter, PublisherTypes, workerVars, mgrVars, historyVars
  <2> QED
    BY <1>1, <2>1 DEF Active
<1>5. ASSUME NEW c \in Callers, StartOne(c) \/ ResumeOne(c)
      PROVE  Goal
  <2>1. PICK w \in todo[c] :
          StartLocked(w) /\ skipped' = IF running[w] THEN skipped ELSE skipped \ {w}
    BY <1>5 DEF StartOne, ResumeOne
  <2>2. w \in Workers /\ w \notin paused
    BY <1>5, <2>1 DEF StartOne, ResumeOne, PublisherTypes, StartsUnpaused
  <2>3. UNCHANGED <<paused, stopPc, heldRun>> /\ phase[c] \notin {"stopAll", "stopping"}
        /\ \A d \in Callers \ {c} : phase'[d] = phase[d] /\ todo'[d] = todo[d]
    BY <1>5 DEF StartOne, ResumeOne, StartLocked, StartRun, StartIgnored, Enter, PublisherTypes,
      workerVars, mgrVars
  <2>4. Before /\ owner'[r] = owner[r]
    BY <2>1, <2>2, <2>3, StartAddsRun
  <2> QED
    BY <1>1, <2>3, <2>4
<1>6. ASSUME NEW c \in Callers, BeginStop(c)
      PROVE  Goal
  <2>1. Active(r) /\ owner'[r] = owner[r]
    BY <1>6 DEF BeginStop, workerVars, Active
  <2>2. owner[r] \in known
    BY <2>1 DEF Booted, IInv, LoopHasWorker
  <2> QED
    BY <1>6, <2>1, <2>2 DEF BeginStop, Enter, PublisherTypes, StillVisits
<1>7. ASSUME NEW c \in Callers, StopEnds(c)
      PROVE  Goal
  <2>1. Before /\ UNCHANGED <<owner, todo, stopPc, heldRun>> /\ todo[c] = {} /\ stopPc[c] = "idle"
        /\ phase[c] = "stopping" /\ \A d \in Callers \ {c} : phase'[d] = phase[d]
    BY <1>7 DEF StopEnds, Enter, PublisherTypes, workerVars, mgrVars, historyVars, Active
  <2>2. PICK d \in Callers : StillVisits(d, r)
    BY <2>1 DEF PausesStopped
  <2>3. d # c
    BY <2>1, <2>2 DEF StillVisits
  <2> QED
    BY <2>1, <2>2, <2>3 DEF StillVisits
<1>8. ASSUME NEW c \in Callers, StopOne(c)
      PROVE  Goal
  <2>1. PICK w \in todo[c] : StopLocked(c, w) /\ todo' = [todo EXCEPT ![c] = @ \ {w}]
    BY <1>8 DEF StopOne
  <2>2. Before /\ UNCHANGED <<owner, phase>> /\ w \in Workers
        /\ \A d \in Callers \ {c} :
             todo'[d] = todo[d] /\ stopPc'[d] = stopPc[d] /\ heldRun'[d] = heldRun[d]
    BY <1>8, <2>1 DEF StopOne, StopLocked, StopNothing, StopReads, PublisherTypes, IInv,
      WorkerTypeOK, workerVars, chanVars, loopVars, mgrVars, historyVars, Active
  <2>3. PICK d \in Callers : StillVisits(d, r)
    BY <2>2 DEF PausesStopped
  <2>4. CASE owner[r] = w
    <3>1. running[w] /\ run[w] = r
      BY <2>2, <2>4 DEF IInv, LoopHasWorker
    <3>2. stopPc'[c] = "close" /\ heldRun'[c] = r
      BY <2>1, <3>1 DEF StopLocked, StopNothing, StopReads, IInv, WorkerTypeOK
    <3> QED
      BY <3>2 DEF StillVisits
  <2>5. CASE owner[r] # w
    <3>1. todo'[c] = todo[c] \ {w} /\ stopPc[c] = "idle"
      BY <2>1 DEF StopLocked, StopNothing, StopReads, PublisherTypes
    <3> QED
      BY <2>2, <2>3, <2>5, <3>1 DEF StillVisits
  <2> QED
    BY <2>4, <2>5
<1>9. ASSUME NEW c \in Callers, StopProceeds(c)
      PROVE  Goal
  <2>1. Before /\ UNCHANGED <<owner, phase, todo>> /\ r \notin stopClosed'
    BY <1>9 DEF StopProceeds, CloseStop, KillSkipped, KillSucceeds, KillHitsOther, KillFails,
      KillErrorIgnored, DoneReceived, StopTimesOut, mgrVars, callerVars, historyVars, chanVars,
      loopVars, Active
  <2>2. PICK d \in Callers : StillVisits(d, r)
    BY <2>1 DEF PausesStopped
  <2>3. ASSUME stopPc[d] = "close", heldRun[d] = r
        PROVE  stopPc'[d] = "close" /\ heldRun'[d] = r
    BY <1>9, <2>1, <2>3 DEF StopProceeds, CloseStop, KillSkipped, KillSucceeds, KillHitsOther,
      KillFails, KillErrorIgnored, DoneReceived, StopTimesOut, Return, IInv, WorkerTypeOK
  <2> QED
    BY <2>1, <2>2, <2>3 DEF StillVisits
<1>10. ASSUME NEW c \in Callers, PausePanics(c) \/ PauseAborts(c)
       PROVE  Goal
  <2>1. Before /\ owner'[r] \notin todo[c] /\ owner'[r] = owner[r]
    <3>1. CASE PausePanics(c)
      BY <3>1 DEF PausePanics, CloseStop, mgrVars, loopVars, Active
    <3>2. CASE PauseAborts(c)
      BY <3>2 DEF PauseAborts, KillErrorReturned, mgrVars, chanVars, loopVars, Active
    <3> QED
      BY <1>10, <3>1, <3>2
  <2>2. /\ phase[c] = "stopping"
        /\ stopPc[c] = "kill" \/ (stopPc[c] = "close" /\ heldRun[c] \in stopClosed)
    <3>1. stopPc[c] = "kill" \/ (stopPc[c] = "close" /\ heldRun[c] \in stopClosed)
      BY <1>10 DEF PausePanics, PauseAborts, CloseStop, KillErrorReturned, KillFails
    <3> QED
      BY <3>1 DEF Control, StopInPhase
  <2>3. \A d \in Callers \ {c} :
          /\ phase'[d] = phase[d] /\ todo'[d] = todo[d]
          /\ stopPc'[d] = stopPc[d] /\ heldRun'[d] = heldRun[d]
    <3>1. stopPc \in [Callers -> StopPcs] /\ heldRun \in [Callers -> Runs \cup {None}]
      BY DEF IInv, WorkerTypeOK
    <3>2. CASE PausePanics(c)
      BY <3>1, <3>2 DEF PausePanics, CloseStop, callerVars
    <3>3. CASE PauseAborts(c)
      BY <3>1, <3>3 DEF PauseAborts, KillErrorReturned, Return, Enter, PublisherTypes
    <3> QED
      BY <1>10, <3>2, <3>3
  <2>4. PICK d \in Callers : StillVisits(d, r)
    BY <2>1 DEF PausesStopped
  <2>5. d # c
    BY <2>1, <2>2, <2>4 DEF StillVisits
  <2> QED
    BY <2>1, <2>3, <2>4, <2>5 DEF StillVisits
<1>11. CASE Boot
  <2>1. Active(r)
    BY <1>11 DEF Boot, Retarget, loopVars, workerVars, Active
  <2> QED
    BY <1>11, <2>1 DEF Boot, Booted
<1>12. CASE Ready \/ Exit \/ Signal
  <2>1. Before /\ owner'[r] = owner[r]
    BY <1>12 DEF Ready, Exit, Signal, workerVars, mgrVars, historyVars, Active
  <2>2. phase[Main] \notin {"stopAll", "stopping"}
    BY <1>12 DEF Ready, Exit, Signal, Control, MainInPhase
  <2>3. Main \in Callers
    BY PublisherAssumption
  <2>4. \A d \in Callers \ {Main} :
          /\ phase'[d] = phase[d] /\ todo'[d] = todo[d]
          /\ stopPc'[d] = stopPc[d] /\ heldRun'[d] = heldRun[d]
    BY <1>12 DEF Ready, Exit, Signal, Finish, Enter, PublisherTypes, workerVars
  <2> QED
    BY <1>1, <2>1, <2>2, <2>3, <2>4
<1>13. ASSUME NEW s \in Runs, Loop(s) \/ Process(s)
       PROVE  Goal
  <2>1. UNCHANGED <<paused, phase, todo, skipped, stopPc, heldRun, stopClosed, owner>>
    BY <1>13, LoopLeavesCalls
  <2>2. Active(r)
    BY <1>13, LoopIsActive, ProcessLeavesLoops DEF Active
  <2> QED
    BY <1>2, <2>1, <2>2
<1>14. CASE UNCHANGED vars
  BY <1>2, <1>14 DEF vars, workerVars, Active
<1> QED
  BY <1>3, <1>4, <1>5, <1>6, <1>7, <1>8, <1>9, <1>10, <1>11, <1>12, <1>13, <1>14
  DEF Next, CallStep, MainStep, Terminated

\* Nobody pauses a target that another is about to start.
LEMMA StepStartsUnpaused ==
  ASSUME OneReader, ~Shared, IInv, PublisherTypes, Control, BeforeSignal, StartsUnpaused,
         [Next]_vars
  PROVE  StartsUnpaused'
<1> USE DEF StartsUnpaused, PublisherTypes, Phases
<1>1. ASSUME UNCHANGED <<phase, todo, paused>>
      PROVE  StartsUnpaused'
  BY <1>1
<1>2. ASSUME NEW c \in Callers, Receive(c)
      PROVE  StartsUnpaused'
  <2>1. c \in Readers /\ phase[c] = "idle"
    BY <1>2 DEF Receive
  <2>2. CASE ReceiveStartStop(c) \/ ReceiveUnmatched(c)
    BY <2>1, <2>2 DEF ReceiveStartStop, ReceiveUnmatched, Enter, mgrVars
  <2>3. CASE mgrMu = None /\ ReceiveDown(c)
    <3>1. \A d \in Callers \ {c} : d = Main
      BY <2>1 DEF OneReader, Readers
    <3>2. \A d \in Callers \ {c} : phase[d] \notin {"starting", "resuming"}
      BY <2>3, <3>1, MainStopsNothing, PublisherAssumption DEF Control, StartHoldsMutex
    <3> QED
      BY <2>3, <3>2 DEF ReceiveDown, Enter
  <2>4. CASE ReceiveUp(c)
    BY <2>1, <2>4 DEF ReceiveUp, Enter
  <2> QED
    BY <1>2, <2>2, <2>3, <2>4 DEF Receive
<1>3. ASSUME NEW c \in Callers, BeginStart(c)
      PROVE  StartsUnpaused'
  BY <1>3 DEF BeginStart, StartRejected, StartNothing, StartShared, StartPerTarget,
    ActiveTargets, Enter
<1>4. ASSUME NEW c \in Callers, StartOne(c) \/ ResumeOne(c)
      PROVE  StartsUnpaused'
  BY <1>4 DEF StartOne, ResumeOne, Enter, mgrVars
<1>5. ASSUME NEW c \in Callers,
             \/ BeginStop(c) \/ StopOne(c) \/ StopProceeds(c) \/ PausePanics(c) \/ PauseAborts(c)
             \/ StopEnds(c)
             \/ Reply(c)
      PROVE  StartsUnpaused'
  BY <1>5 DEF BeginStop, StopOne, StopProceeds, PausePanics, PauseAborts, StopEnds, Reply, Finish,
    Enter, mgrVars, callerVars
<1>6. CASE MainStep \/ Signal
  BY <1>6, PublisherAssumption DEF MainStep, Boot, Ready, Exit, Signal, Finish, Enter, mgrVars
<1>7. ASSUME NEW r \in Runs, Loop(r) \/ Process(r)
      PROVE  StartsUnpaused'
  BY <1>1, <1>7, LoopLeavesCalls
<1>8. CASE UNCHANGED vars
  BY <1>1, <1>8 DEF vars
<1> QED
  BY <1>2, <1>3, <1>4, <1>5, <1>6, <1>7, <1>8 DEF Next, CallStep, Terminated

\* A resume never finds a run on its way out that no stop accounts for.
LEMMA StepExitsExplained ==
  ASSUME OneReader, ~Shared, IInv, PublisherTypes, Control, BeforeSignal, PausesStopped,
         ExitsExplained, [Next]_vars
  PROVE  ExitsExplained'
<1> SUFFICES ASSUME NEW r \in Runs, loopPc'[r] = "exit", r \notin stopClosed'
             PROVE  owner'[r] \in paused' \cup skipped'
  BY DEF ExitsExplained
<1> DEFINE Goal == owner'[r] \in paused' \cup skipped'
<1>1. ASSUME UNCHANGED <<loopPc, stopClosed, owner>>,
             paused \cup skipped \subseteq paused' \cup skipped'
      PROVE  Goal
  BY <1>1 DEF ExitsExplained
<1>2. ASSUME NEW c \in Callers, Receive(c)
      PROVE  Goal
  <2>1. UNCHANGED workerVars /\ phase[c] = "idle" /\ c \in Readers
    BY <1>2 DEF Receive, ReceiveStartStop, ReceiveDown, ReceiveUp, ReceiveUnmatched
  <2>2. CASE ReceiveUp(c)
    <3>1. \A d \in Callers : d = c \/ d = Main
      BY <2>1 DEF OneReader, Readers
    <3>2. ~\E d \in Callers : StillVisits(d, r)
      BY <2>1, <3>1, MainStopsNothing DEF StillVisits, Control, StopInPhase
    <3>3. loopPc[r] = "exit" /\ r \notin stopClosed /\ Active(r) /\ owner'[r] = owner[r]
      BY <2>1 DEF workerVars, Active
    <3>4. owner[r] \in skipped
      BY <3>2, <3>3 DEF PausesStopped, ExitsExplained
    <3> QED
      BY <2>2, <3>3, <3>4 DEF ReceiveUp
  <2>3. CASE ~ReceiveUp(c)
    BY <1>1, <1>2, <2>1, <2>3 DEF Receive, ReceiveStartStop, ReceiveDown, ReceiveUnmatched,
      workerVars, mgrVars, historyVars
  <2> QED
    BY <2>2, <2>3
<1>3. ASSUME NEW c \in Callers, StartOne(c) \/ ResumeOne(c)
      PROVE  Goal
  <2>1. PICK w \in todo[c] :
          StartLocked(w) /\ skipped' = IF running[w] THEN skipped ELSE skipped \ {w}
    BY <1>3 DEF StartOne, ResumeOne
  <2>2. w \in Workers /\ UNCHANGED paused
    BY <1>3, <2>1 DEF StartOne, ResumeOne, PublisherTypes, mgrVars
  <2>3. Active(r)'
    BY DEF Active
  <2>4. /\ owner'[r] = owner[r] /\ loopPc[r] = "exit" /\ r \notin stopClosed
        /\ ~running[w] => owner[r] # w
    BY <2>1, <2>2, <2>3, StartAddsRun
  <2> QED
    BY <2>1, <2>2, <2>4 DEF ExitsExplained
<1>4. ASSUME NEW c \in Callers, BeginStart(c) \/ BeginStop(c) \/ StopEnds(c) \/ Reply(c)
      PROVE  Goal
  BY <1>1, <1>4 DEF BeginStart, StartRejected, StartNothing, StartShared, StartPerTarget,
    BeginStop, StopEnds, Reply, workerVars, mgrVars, historyVars
<1>5. ASSUME NEW c \in Callers, StopOne(c) \/ StopProceeds(c) \/ PausePanics(c) \/ PauseAborts(c)
      PROVE  Goal
  <2>1. /\ UNCHANGED <<loopPc, owner, paused>> /\ r \notin stopClosed
        /\ skipped \subseteq skipped'
    BY <1>5 DEF StopOne, StopLocked, StopNothing, StopReads, StopProceeds, CloseStop, KillSkipped,
      KillSucceeds, KillHitsOther, KillFails, KillErrorIgnored, DoneReceived, StopTimesOut,
      PausePanics, PauseAborts, KillErrorReturned, chanVars, loopVars, workerVars, mgrVars,
      historyVars
  <2> QED
    BY <2>1 DEF ExitsExplained
<1>6. CASE MainStep \/ Signal
  BY <1>1, <1>6 DEF MainStep, Boot, Ready, Exit, Signal, workerVars, mgrVars, historyVars
<1>7. ASSUME NEW s \in Runs, Loop(s)
      PROVE  Goal
  <2>1. UNCHANGED <<paused, skipped, stopClosed, owner>> /\ Active(s)
        /\ \A q \in Runs \ {s} : loopPc'[q] = loopPc[q]
    BY <1>7, LoopLeavesCalls, LoopIsActive
  <2>2. CASE r = s /\ loopPc[r] # "exit"
    <3>1. run[owner[r]] = r
      BY <2>1, <2>2 DEF IInv, LoopHasWorker
    <3>2. ~StopRequested(r)
      BY <2>1, <3>1 DEF StopRequested
    <3>3. LoopTop(r, IsPaused(r)) \/ LoopPost(r, IsPaused(r))
      BY <1>7, <2>2, <3>2 DEF Loop, LaunchSucceeds, LaunchFails, LoopSelect, Publish, WaitReturns,
        LoopPostSelect, RetryStopped, RetryTimer, LoopExit, Goto, IInv, WorkerTypeOK
    <3>4. IsPaused(r)
      BY <3>3 DEF LoopTop, LoopPost, Goto, IInv, WorkerTypeOK
    <3> QED
      BY <2>1, <3>4 DEF IsPaused
  <2>3. CASE ~(r = s /\ loopPc[r] # "exit")
    BY <2>1, <2>3 DEF ExitsExplained
  <2> QED
    BY <2>2, <2>3
<1>8. ASSUME NEW s \in Runs, Process(s)
      PROVE  Goal
  BY <1>1, <1>8, LoopLeavesCalls, ProcessLeavesLoops
<1>9. CASE UNCHANGED vars
  BY <1>1, <1>9 DEF vars, workerVars
<1> QED
  BY <1>2, <1>3, <1>4, <1>5, <1>6, <1>7, <1>8, <1>9 DEF Next, CallStep, Terminated

\* Who stops, stops for a STOP or a DOWN.
LEMMA StepStopCommands ==
  ASSUME ~Shared, PublisherTypes, StopCommands, [Next]_vars
  PROVE  StopCommands'
<1> USE DEF StopCommands, PublisherTypes, Phases, Readers
<1>1. ASSUME UNCHANGED <<phase, command>>
      PROVE  StopCommands'
  BY <1>1
<1>2. ASSUME NEW c \in Callers, Receive(c)
      PROVE  StopCommands'
  BY <1>2 DEF Receive, ReceiveStartStop, ReceiveDown, ReceiveUp, ReceiveUnmatched, Enter
<1>3. ASSUME NEW c \in Callers,
             BeginStart(c) \/ StartOne(c) \/ ResumeOne(c) \/ BeginStop(c) \/ StopEnds(c)
      PROVE  StopCommands'
  BY <1>3 DEF BeginStart, StartRejected, StartNothing, StartShared, StartPerTarget, StartOne,
    ResumeOne, BeginStop, StopEnds, Enter
<1>4. ASSUME NEW c \in Callers,
             StopOne(c) \/ StopProceeds(c) \/ PausePanics(c) \/ PauseAborts(c) \/ Reply(c)
      PROVE  StopCommands'
  BY <1>4 DEF StopOne, StopProceeds, PausePanics, PauseAborts, Reply, Finish, Enter, callerVars
<1>5. CASE MainStep \/ Signal
  BY <1>5 DEF MainStep, Boot, Ready, Exit, Signal, Finish, Enter
<1>6. ASSUME NEW r \in Runs, Loop(r) \/ Process(r)
      PROVE  StopCommands'
  BY <1>1, <1>6 DEF Loop, Process, callerVars
<1>7. CASE UNCHANGED vars
  BY <1>1, <1>7 DEF vars
<1> QED
  BY <1>2, <1>3, <1>4, <1>5, <1>6, <1>7 DEF Next, CallStep, Terminated

\* A start by anybody leaves a served target served, ...
LEMMA StartServes ==
  ASSUME IInv, NEW w \in Workers, StartLocked(w),
         skipped' = IF running[w] THEN skipped ELSE skipped \ {w}
  PROVE  /\ \A t \in Workers : Served(t) => Served(t)'
         /\ ~running[w] => Served(w)'
<1>1. CASE StartRun(w)
  <2>1. PICK r \in Runs :
          /\ \A v \in Workers \ {w} : run[v] # r
          /\ running' = [running EXCEPT ![w] = TRUE] /\ run' = [run EXCEPT ![w] = r]
          /\ stopClosed' = stopClosed \ {r} /\ gaveUp' = gaveUp \ {r}
    BY <1>1 DEF StartRun, Fresh
  <2>2. Served(w)'
    BY <2>1 DEF Served, IInv, WorkerTypeOK
  <2>3. ASSUME NEW t \in Workers \ {w}, Served(t)
        PROVE  Served(t)'
    <3>1. running'[t] = running[t] /\ run'[t] = run[t] /\ run[t] # r
      BY <2>1, <2>3 DEF IInv, WorkerTypeOK
    <3> QED
      BY <2>1, <2>3, <3>1 DEF Served
  <2> QED
    BY <2>2, <2>3
<1>2. CASE StartIgnored(w)
  BY <1>2 DEF StartIgnored, Served, workerVars
<1> QED
  BY <1>1, <1>2 DEF StartLocked, StartRun

\* ... and serves its own one: a running worker whose run was stopped is one that the
\* reader gave up on.
LEMMA StartServesOwn ==
  ASSUME OneReader, IInv, Control, BeforeSignal, StopsAbandoned, NEW c \in Readers,
         phase[c] # "stopping", NEW w \in Workers, StartLocked(w),
         skipped' = IF running[w] THEN skipped ELSE skipped \ {w}
  PROVE  Served(w)'
<1>1. CASE running[w]
  <2>1. run[w] \in Runs /\ Active(run[w])
    BY <1>1 DEF IInv, WorkerHasLoop
  <2>2. \A d \in Readers : stopPc[d] = "idle"
    BY DEF OneReader, Control, StopInPhase, Readers
  <2>3. Served(w)
    BY <1>1, <2>1, <2>2 DEF StopsAbandoned, Served
  <2> QED
    BY <2>3, StartServes
<1> QED
  BY <1>1, StartServes

\* A run loop that ends leaves a target served that nobody has paused.
LEMMA LoopServes ==
  ASSUME IInv, ExitsExplained, NEW r \in Runs, Loop(r), NEW t \in Workers, t \notin paused,
         Served(t)
  PROVE  Served(t)'
<1>1. UNCHANGED <<run, stopClosed, gaveUp, skipped>> /\ Active(r)
  BY LoopLeavesCalls, LoopLeavesHistory, LoopIsActive
<1>2. CASE running'[t] = running[t]
  BY <1>1, <1>2 DEF Served
<1>3. CASE running'[t] # running[t]
  <2>1. loopPc[r] = "exit" /\ t = owner[r]
    BY <1>3 DEF Loop, LoopTop, LoopPost, LaunchSucceeds, LaunchFails, LoopSelect, Publish,
      WaitReturns, LoopPostSelect, RetryStopped, RetryTimer, LoopExit, fieldVars, IInv,
      WorkerTypeOK
  <2>2. run[t] = r
    BY <1>1, <2>1 DEF IInv, LoopHasWorker
  <2>3. r \in stopClosed \/ t \in skipped
    BY <2>1 DEF ExitsExplained
  <2> QED
    BY <1>1, <2>2, <2>3 DEF Served
<1> QED
  BY <1>2, <1>3

\* Every step keeps the targets of a start served.
LEMMA StepWantedServed ==
  ASSUME OneReader, ~Shared, IInv, PublisherTypes, Control, Booted, BeforeSignal, BeforeSignal',
         StopsAbandoned, ExitsExplained, StopCommands, WantedServed, [Next]_vars
  PROVE  WantedServed'
<1> SUFFICES ASSUME NEW c \in Readers, command'[c] \in {"START", "UP"},
                    phase'[c] \in {"starting", "resuming", "reply"}, code'[c] = 0,
                    NEW t \in Wanted(c)'
             PROVE  Served(t)' \/ (phase'[c] # "reply" /\ t \in todo'[c])
  BY DEF WantedServed
<1> DEFINE Goal == Served(t)' \/ (phase'[c] # "reply" /\ t \in todo'[c])
           Before == /\ command[c] \in {"START", "UP"} /\ code[c] = 0
                     /\ phase[c] \in {"starting", "resuming", "reply"}
                     /\ t \in Wanted(c)
<1>1. Workers = Targets /\ Main \in Callers /\ c \in Callers /\ c # Main
  BY PublisherAssumption DEF Readers
<1>2. \A d \in Callers : d = c \/ d = Main
  BY <1>1 DEF OneReader, Readers
<1>3. t \in Targets /\ t \notin paused'
  BY <1>1, StepTypes DEF Wanted, PublisherTypes
<1>4. Before => Served(t) \/ (phase[c] # "reply" /\ t \in todo[c])
  BY DEF WantedServed
<1>5. ASSUME Before, UNCHANGED <<running, run, stopClosed, gaveUp, skipped>>,
             phase'[c] = phase[c], todo'[c] = todo[c]
      PROVE  Goal
  BY <1>4, <1>5 DEF Served
<1>6. ASSUME UNCHANGED <<paused, command, matched, code>>, phase'[c] = phase[c]
      PROVE  Before
  BY <1>6 DEF Wanted
\* The reader.
<1>7. CASE Receive(c)
  <2>1. ReceiveUp(c) /\ code'[c] = 0
    BY <1>1, <1>7 DEF Receive, ReceiveStartStop, ReceiveDown, ReceiveUp, ReceiveUnmatched, Enter,
      PublisherTypes
  <2>2. PICK m \in Matches : matched'[c] = m /\ todo'[c] = m \cap known /\ command'[c] = "UP"
    BY <1>1, <2>1 DEF ReceiveUp, PublisherTypes
  <2>3. t \in m
    BY <2>2 DEF Wanted
  <2>4. known = Workers /\ phase'[c] = "resuming"
    BY <1>1, <2>1 DEF ReceiveUp, Booted, Enter, PublisherTypes
  <2> QED
    BY <1>1, <1>3, <2>2, <2>3, <2>4
<1>8. CASE BeginStart(c)
  <2>1. UNCHANGED <<paused>>
    BY <1>8 DEF BeginStart
  <2>2. t \in ActiveTargets
    BY <1>3, <2>1 DEF ActiveTargets
  <2>3. StartPerTarget(c)
    BY <1>1, <1>8, <2>2 DEF BeginStart, StartRejected, StartNothing, StartShared, PublisherTypes
  <2> QED
    BY <1>1, <2>2, <2>3 DEF StartPerTarget, Enter, PublisherTypes
<1>9. CASE StartOne(c) \/ ResumeOne(c)
  <2>1. PICK w \in todo[c] :
          /\ StartLocked(w) /\ skipped' = IF running[w] THEN skipped ELSE skipped \ {w}
          /\ todo' = [todo EXCEPT ![c] = @ \ {w}]
          /\ todo[c] # {w} => UNCHANGED phase
          /\ todo[c] = {w} => Enter(c, "reply")
    BY <1>9 DEF StartOne, ResumeOne
  <2>2. UNCHANGED <<paused, command, matched, code>> /\ phase[c] \in {"starting", "resuming"}
    BY <1>9 DEF StartOne, ResumeOne, mgrVars
  <2>3. Before
    BY <2>2 DEF Wanted
  <2>4. w \in Workers /\ Served(w)'
    <3>1. w \in Workers /\ phase[c] # "stopping"
      BY <1>1, <2>1, <2>2 DEF PublisherTypes
    <3> QED
      BY <2>1, <3>1, StartServesOwn
  <2>5. CASE t = w
    BY <2>4, <2>5
  <2>6. CASE Served(t)
    BY <1>1, <1>3, <2>1, <2>4, <2>6, StartServes
  <2>7. CASE t # w /\ t \in todo[c]
    BY <1>1, <2>1, <2>2, <2>7 DEF PublisherTypes
  <2> QED
    BY <1>4, <2>3, <2>5, <2>6, <2>7
<1>10. ~(\/ BeginStop(c) \/ StopEnds(c) \/ StopOne(c) \/ StopProceeds(c)
         \/ PausePanics(c) \/ PauseAborts(c))
  <2>1. command[c] \in {"START", "UP"} => phase[c] \notin {"stopAll", "stopping"}
    BY DEF StopCommands
  <2>2. ~(BeginStop(c) \/ StopEnds(c) \/ StopOne(c))
    BY <2>1 DEF BeginStop, StopEnds, StopOne
  <2>3. StopProceeds(c) => FALSE
    BY <1>1, <2>1 DEF StopProceeds, CloseStop, KillSkipped, KillSucceeds, KillHitsOther,
      KillFails, KillErrorIgnored, DoneReceived, StopTimesOut, Control, StopInPhase, callerVars
  <2>4. PausePanics(c) \/ PauseAborts(c) => FALSE
    BY <1>1 DEF PausePanics, PauseAborts, PausesByURL, PublisherTypes, callerVars
  <2> QED
    BY <2>2, <2>3, <2>4
<1>11. ~Reply(c)
  BY <1>1 DEF Reply, Finish, Enter, PublisherTypes
\* main().
<1>12. ~Receive(Main) /\ ~Reply(Main)
  BY DEF Receive, Reply, Readers
<1>13. CASE BeginStart(Main)
  <2>1. UNCHANGED <<paused, command, matched, running, run, stopClosed, gaveUp, skipped>>
        /\ phase'[c] = phase[c] /\ todo'[c] = todo[c] /\ code'[c] = code[c]
    BY <1>1, <1>13 DEF BeginStart, StartRejected, StartNothing, StartShared, StartPerTarget, Enter,
      PublisherTypes, workerVars, historyVars
  <2>2. Before
    BY <2>1 DEF Wanted
  <2> QED
    BY <1>5, <2>1, <2>2
<1>14. CASE StartOne(Main) \/ ResumeOne(Main)
  <2>1. PICK w \in todo[Main] :
          StartLocked(w) /\ skipped' = IF running[w] THEN skipped ELSE skipped \ {w}
    BY <1>14 DEF StartOne, ResumeOne
  <2>2. UNCHANGED <<paused, command, matched, code>> /\ phase'[c] = phase[c] /\ todo'[c] = todo[c]
    BY <1>1, <1>14 DEF StartOne, ResumeOne, Enter, PublisherTypes, mgrVars
  <2>3. w \in Workers
    BY <1>1, <2>1 DEF PublisherTypes
  <2>4. Before
    BY <1>6, <2>2
  <2> QED
    BY <1>1, <1>3, <1>4, <2>1, <2>2, <2>3, <2>4, StartServes
<1>15. ~(\/ BeginStop(Main) \/ StopEnds(Main) \/ StopOne(Main) \/ StopProceeds(Main)
         \/ PausePanics(Main) \/ PauseAborts(Main))
  BY MainStopsNothing DEF BeginStop, StopEnds, StopOne, StopProceeds, CloseStop, KillSkipped,
    KillSucceeds, KillHitsOther, KillFails, KillErrorIgnored, DoneReceived, StopTimesOut,
    PausePanics, PauseAborts, KillErrorReturned
<1>16. CASE MainStep
  <2>1. UNCHANGED <<paused, running, run, stopClosed, gaveUp, skipped>>
        /\ phase'[c] = phase[c] /\ todo'[c] = todo[c]
        /\ command'[c] = command[c] /\ matched'[c] = matched[c] /\ code'[c] = code[c]
    BY <1>1, <1>16 DEF MainStep, Boot, Ready, Exit, Finish, Enter, Retarget, PublisherTypes,
      fieldVars, chanVars, callVars, workerVars, mgrVars, historyVars
  <2>2. Before
    BY <2>1 DEF Wanted
  <2> QED
    BY <1>5, <2>1, <2>2
<1>17. ~Signal
  BY DEF Signal, BeforeSignal
<1>18. ASSUME NEW r \in Runs, Loop(r)
       PROVE  Goal
  <2>1. UNCHANGED <<paused, phase, todo, command, matched, code>>
    BY <1>18 DEF Loop, mgrVars, callerVars
  <2>2. Before
    BY <1>6, <2>1
  <2>3. Served(t) => Served(t)'
    BY <1>1, <1>3, <1>18, <2>1, LoopServes
  <2> QED
    BY <1>4, <2>1, <2>2, <2>3
<1>19. ASSUME NEW r \in Runs, Process(r)
       PROVE  Goal
  <2>1. UNCHANGED <<paused, phase, todo, command, matched, code,
                    running, run, stopClosed, gaveUp, skipped>>
    BY <1>19, ProcessLeavesLoops, LoopLeavesCalls, LoopLeavesHistory DEF Process, callerVars
  <2> QED
    BY <1>5, <1>6, <2>1
<1>20. CASE UNCHANGED vars
  BY <1>5, <1>6, <1>20 DEF vars, workerVars
<1> QED
  BY <1>2, <1>7, <1>8, <1>9, <1>10, <1>11, <1>12, <1>13, <1>14, <1>15, <1>16, <1>17, <1>18, <1>19,
    <1>20
  DEF Next, CallStep, Terminated

-----------------------------------------------------------------------------
(* What follows *)

\* With one reader and no signal to main(), a second close of the same stopCh, the
\* panic, happens only after a stop that returned before doneCh, in either mode
\* (ffmpeg_worker.go:228, 305).
THEOREM PanicAfterAbandonedStop ==
  ASSUME OneReader, ~Signals
  PROVE  Spec => []PanicNeedsAbandonedStop
<1> DEFINE I == BeforeSignal /\ StopsAbandoned /\ ClosesOpen
<1>1. Init => I
  BY DEF Init, WorkerInit, BeforeSignal, StopsAbandoned, ClosesOpen, Active
<1>2. ASSUME IInv, PublisherTypes, Control, I, [Next]_vars
      PROVE  I'
  <2>1. BeforeSignal'
    <3>1. ~Exit /\ ~Signal
      BY <1>2 DEF Exit, Signal, BeforeSignal
    <3> QED
      BY <1>2, <3>1, LoopLeavesCalls DEF Next, CallStep, Receive, ReceiveStartStop, ReceiveDown,
        ReceiveUp, ReceiveUnmatched, BeginStart, StartOne, ResumeOne, BeginStop, StopOne,
        StopProceeds, PausePanics, PauseAborts, StopEnds, Reply, MainStep, Boot, Ready,
        Terminated, vars, BeforeSignal
  <2> QED
    BY <1>2, <2>1, StepStops
<1>3. I => PanicNeedsAbandonedStop
  BY DEF ClosesOpen, PanicNeedsAbandonedStop
<1>4. PauseInv => Control
  BY DEF PauseInv
<1> QED
  BY <1>1, <1>2, <1>3, <1>4, BaseInductive, PauseInductive, PTL DEF Spec

\* The inductive invariant of the starts.
StartInv ==
  /\ StopCommands
  /\ BeforeSignal => /\ StopsAbandoned
                     /\ ClosesOpen
                     /\ PausesStopped
                     /\ StartsUnpaused
                     /\ ExitsExplained
                     /\ WantedServed

\* It holds of one reader, whether or not a signal arrives.
LEMMA StartInductive ==
  ASSUME OneReader, ~Shared
  PROVE  Spec => []StartInv
<1>1. Init => StartInv
  BY DEF Init, WorkerInit, StartInv, StopCommands, StopsAbandoned, ClosesOpen, PausesStopped,
    StartsUnpaused, ExitsExplained, WantedServed, Active, Readers
<1>2. ASSUME IInv, PublisherTypes, PauseInv, StartInv, [Next]_vars
      PROVE  StartInv'
  <2>1. Control /\ Booted
    BY <1>2 DEF PauseInv
  <2>2. StopCommands'
    BY <1>2, StepStopCommands DEF StartInv
  <2>3. ASSUME BeforeSignal'
        PROVE  StopsAbandoned' /\ ClosesOpen' /\ PausesStopped' /\ StartsUnpaused'
               /\ ExitsExplained' /\ WantedServed'
    <3>1. BeforeSignal
      BY <1>2, <2>3, SignalIsFinal
    <3>2. StopsAbandoned /\ ClosesOpen /\ PausesStopped /\ StartsUnpaused /\ ExitsExplained
          /\ WantedServed /\ StopCommands
      BY <1>2, <3>1 DEF StartInv
    <3>3. StopsAbandoned' /\ ClosesOpen'
      BY <1>2, <2>1, <3>1, <3>2, StepStops
    <3>4. PausesStopped'
      BY <1>2, <2>1, <3>2, StepPausesStopped
    <3>5. StartsUnpaused'
      BY <1>2, <2>1, <3>1, <3>2, StepStartsUnpaused
    <3>6. ExitsExplained'
      BY <1>2, <2>1, <3>1, <3>2, StepExitsExplained
    <3>7. WantedServed'
      BY <1>2, <2>1, <2>3, <3>1, <3>2, StepWantedServed
    <3> QED
      BY <3>3, <3>4, <3>5, <3>6, <3>7
  <2> QED
    BY <2>2, <2>3 DEF StartInv
<1> QED
  BY <1>1, <1>2, BaseInductive, PauseInductive, PTL DEF Spec

\* A START or an UP of the only reader that succeeds leaves each of its targets with a
\* run that nobody stopped, unless an earlier stop gave up on its run or a pause skipped
\* it (ffmpeg_worker.go:309, 429).
THEOREM StartHasEffect ==
  ASSUME OneReader, ~Shared
  PROVE  Spec => []StartIsEffective
<1>1. StartInv => StartIsEffective
  BY DEF StartInv, BeforeSignal, WantedServed, StartIsEffective, Succeeds, Served
<1> QED
  BY <1>1, StartInductive, PTL
=============================================================================
