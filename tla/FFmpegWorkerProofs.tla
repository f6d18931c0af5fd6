------------------------ MODULE FFmpegWorkerProofs ------------------------
(***************************************************************************)
(* Proofs about FFmpegWorker, for any sets of workers, callers and runs.   *)
(*                                                                         *)
(* The properties are not inductive as they stand.  IInv, which stands in   *)
(* FFmpegWorker and which TLC checks there, ties the fields of a worker to  *)
(* the run loop they belong to: an active loop is the run its worker points *)
(* to, a running worker points to an active loop, and a process exists only *)
(* between the launch and the end of the wait.                             *)
(***************************************************************************)
EXTENDS FFmpegWorker, TLAPS

\* The initial states satisfy the inductive invariant.
LEMMA InitInv == WorkerInit => IInv
BY WorkerAssumption DEF WorkerInit, IInv, WorkerTypeOK, LoopHasWorker, WorkerHasLoop,
  ChildPhase, CmdPhase, MonitorPhase, StopHoldsRun, Active, Live, LoopPcs, StopPcs, Children,
  CmdRefs

\* Every step keeps it.
LEMMA StepInv == IInv /\ [WorkerNext]_workerVars => IInv'
<1> SUFFICES ASSUME IInv, [WorkerNext]_workerVars
             PROVE  IInv'
  OBVIOUS
<1> USE WorkerAssumption DEF IInv, WorkerTypeOK, LoopHasWorker, WorkerHasLoop, ChildPhase,
      CmdPhase, MonitorPhase, StopHoldsRun, Active, Live, LoopPcs, StopPcs, Children, CmdRefs,
      fieldVars, chanVars, loopVars, callVars, workerVars
<1>1. ASSUME NEW w \in Workers, StartRun(w)
      PROVE  IInv'
  BY <1>1 DEF StartRun, Fresh
<1>2. ASSUME NEW w \in Workers, NEW urls \in SUBSET Targets, Retarget(w, urls)
      PROVE  IInv'
  BY <1>2 DEF Retarget
<1>3. ASSUME NEW r \in Runs, NEW isPaused \in BOOLEAN, LoopTop(r, isPaused)
      PROVE  IInv'
  BY <1>3 DEF LoopTop, Goto
<1>4. ASSUME NEW r \in Runs, LoopSelect(r)
      PROVE  IInv'
  BY <1>4 DEF LoopSelect, Goto, LaunchTargets
<1>5. ASSUME NEW r \in Runs, LaunchSucceeds(r)
      PROVE  IInv'
  BY <1>5 DEF LaunchSucceeds, Goto
<1>6. ASSUME NEW r \in Runs, LaunchFails(r)
      PROVE  IInv'
  BY <1>6 DEF LaunchFails, Goto
<1>7. ASSUME NEW r \in Runs, Publish(r)
      PROVE  IInv'
  BY <1>7 DEF Publish, Goto
<1>8. ASSUME NEW r \in Runs, WaitReturns(r)
      PROVE  IInv'
  BY <1>8 DEF WaitReturns, Goto
<1>9. ASSUME NEW r \in Runs, NEW isPaused \in BOOLEAN, LoopPost(r, isPaused)
      PROVE  IInv'
  BY <1>9 DEF LoopPost, Goto
<1>10. ASSUME NEW r \in Runs, LoopPostSelect(r)
      PROVE  IInv'
  BY <1>10 DEF LoopPostSelect, Goto
<1>11. ASSUME NEW r \in Runs, RetryStopped(r)
      PROVE  IInv'
  BY <1>11 DEF RetryStopped, Goto
<1>12. ASSUME NEW r \in Runs, RetryTimer(r)
      PROVE  IInv'
  BY <1>12 DEF RetryTimer, Goto
<1>13. ASSUME NEW r \in Runs, LoopExit(r)
      PROVE  IInv'
  BY <1>13 DEF LoopExit, Goto
<1>14. ASSUME NEW r \in Runs, ProcessStep(r)
      PROVE  IInv'
  <2>1. CASE FFmpegExits(r) \/ FFmpegHangs(r)
    BY <2>1 DEF FFmpegExits, FFmpegHangs, ChildBecomes, Over
  <2>2. CASE MonitorKills(r) \/ MonitorQuits(r)
    BY <2>2 DEF MonitorKills, MonitorQuits, ChildBecomes
  <2>3. CASE MonitorHitsOther(r)
    BY <2>3 DEF MonitorHitsOther, TaskkillHits, Over
  <2> QED
    BY <1>14, <2>1, <2>2, <2>3 DEF ProcessStep
<1>15. ASSUME NEW c \in Callers, NEW w \in Workers, StopReads(c, w)
      PROVE  IInv'
  BY <1>15 DEF StopReads
<1>16. ASSUME NEW c \in Callers, CloseStop(c)
      PROVE  IInv'
  BY <1>16 DEF CloseStop
<1>17. ASSUME NEW c \in Callers, KillSkipped(c)
      PROVE  IInv'
  BY <1>17 DEF KillSkipped
<1>18. ASSUME NEW c \in Callers, KillSucceeds(c)
      PROVE  IInv'
  BY <1>18 DEF KillSucceeds
<1>19. ASSUME NEW c \in Callers, KillErrorIgnored(c)
      PROVE  IInv'
  BY <1>19 DEF KillErrorIgnored, KillFails
<1>20. ASSUME NEW c \in Callers, KillErrorReturned(c)
      PROVE  IInv'
  BY <1>20 DEF KillErrorReturned, KillFails, Return
<1>21. ASSUME NEW c \in Callers, DoneReceived(c)
      PROVE  IInv'
  BY <1>21 DEF DoneReceived, Return
<1>22. ASSUME NEW c \in Callers, StopTimesOut(c)
      PROVE  IInv'
  BY <1>22 DEF StopTimesOut, Return
<1>23. ASSUME NEW c \in Callers, KillHitsOther(c)
      PROVE  IInv'
  <2>1. CASE UNCHANGED child
    BY <1>23, <2>1 DEF KillHitsOther, KillFails
  <2>2. ASSUME NEW s \in Runs, TaskkillHits(s)
        PROVE  IInv'
    BY <1>23, <2>2 DEF KillHitsOther, KillFails, TaskkillHits, Over
  <2> QED
    BY <1>23, <2>1, <2>2 DEF KillHitsOther
<1>24. CASE UNCHANGED workerVars
  BY <1>24
<1> HIDE WorkerAssumption DEF IInv, WorkerTypeOK, LoopHasWorker, WorkerHasLoop, ChildPhase,
      CmdPhase, MonitorPhase, StopHoldsRun, Active, Live, LoopPcs, StopPcs, Children, CmdRefs
<1> QED
  BY <1>1, <1>2, <1>3, <1>4, <1>5, <1>6, <1>7, <1>8, <1>9, <1>10, <1>11, <1>12, <1>13, <1>14,
    <1>15, <1>16, <1>17, <1>18, <1>19, <1>20, <1>21, <1>22, <1>23, <1>24 DEF WorkerNext, StartLocked,
    StartIgnored, LoopStep, StopStep, StopLocked, StopNothing

\* IInv is an invariant of the workers under any client.
THEOREM Inductive == WorkerSpec => []IInv
BY InitInv, StepInv, PTL DEF WorkerSpec

-----------------------------------------------------------------------------
(* What follows from it *)

\* Every variable keeps to its type.
THEOREM TypeCorrect == WorkerSpec => []WorkerTypeOK
<1>1. IInv => WorkerTypeOK
  BY DEF IInv
<1> QED
  BY <1>1, Inductive, PTL

\* No worker ever has two run loops (ffmpeg_worker.go:429).
THEOREM NeverTwoLoops == WorkerSpec => []OneRunLoop
<1>1. IInv => OneRunLoop
  BY DEF IInv, LoopHasWorker, OneRunLoop
<1> QED
  BY <1>1, Inductive, PTL

\* A run loop watches and closes its own channels, each at most once
\* (ffmpeg_worker.go:466, 482, 563, 596).
THEOREM ChannelsAreOwned == WorkerSpec => []LoopOwnsChannels
<1>1. IInv => LoopOwnsChannels
  BY DEF IInv, LoopHasWorker, LoopOwnsChannels
<1> QED
  BY <1>1, Inductive, PTL

\* Whoever sees doneCh closed, or running false, sees no process of that run
\* or worker (ffmpeg_worker.go:237, 314).
THEOREM DoneIsGone == WorkerSpec => []DoneMeansGone
<1>1. ASSUME IInv
      PROVE  DoneMeansGone
  <2>1. \A r \in Runs : Live(r) => Active(r)
    BY <1>1 DEF IInv, ChildPhase, Active
  <2> QED
    BY <1>1, <2>1 DEF IInv, LoopHasWorker, DoneMeansGone
<1> QED
  BY <1>1, Inductive, PTL

\* Every step that leaves the processes alone ends none of them.
LEMMA NoneEnds == UNCHANGED child => \A r \in Runs : Over(r)' <=> Over(r)
BY DEF Over

\* A kill ends the process that the stopped run or the monitor's run is waiting
\* for; only the taskkill of Windows, after a kill of a process that has ended, may
\* end another one (ffmpeg_worker.go:231, 308, 635, 702).
THEOREM KillsAreAimed == WorkerSpec => KillHitsOwnRun
<1> DEFINE Aimed(r) ==
      /\ \A c \in Callers : stopPc[c] = "kill" /\ stopPc'[c] = "await" =>
           IF KillFails(c) THEN Windows ELSE heldRun[c] = r /\ loopPc[r] = "wait"
      /\ \A m \in watched \ watched' :
           IF Over(m) THEN Windows ELSE m = r /\ loopPc[r] = "wait"
<1>1. ASSUME IInv, [WorkerNext]_workerVars
      PROVE  \A r \in Runs : ~Over(r) /\ Over(r)' => Aimed(r)
  <2> SUFFICES ASSUME NEW r \in Runs, ~Over(r), Over(r)'
               PROVE  Aimed(r)
    OBVIOUS
  <2> USE <1>1 DEF IInv, WorkerTypeOK
  <2>1. child' # child
    BY NoneEnds
  <2>2. ASSUME UNCHANGED <<stopPc, watched>>
        PROVE  Aimed(r)
    BY <2>2
  <2>3. ASSUME NEW s \in Runs, MonitorKills(s)
        PROVE  Aimed(r)
    <3>1. s = r /\ loopPc[r] = "wait" /\ ~Over(s)
      BY <2>3 DEF MonitorKills, ChildBecomes, Over, ChildPhase, Live, MonitorPhase
    <3>2. UNCHANGED stopPc /\ watched \ watched' \subseteq {s}
      BY <2>3 DEF MonitorKills, ChildBecomes, callVars
    <3> QED
      BY <3>1, <3>2
  <2>4. ASSUME NEW s \in Runs, MonitorHitsOther(s)
        PROVE  Aimed(r)
    <3>1. Windows /\ Over(s) /\ UNCHANGED stopPc /\ watched \ watched' \subseteq {s}
      BY <2>4 DEF MonitorHitsOther, TaskkillHits, callVars
    <3> QED
      BY <3>1
  <2>5. ASSUME NEW c \in Callers, KillSucceeds(c)
        PROVE  Aimed(r)
    <3>1. heldRun[c] = r /\ loopPc[r] = "wait" /\ heldCmd[c] = "current"
      BY <2>5 DEF KillSucceeds, CmdPhase, Over
    <3>2. ~KillFails(c)
      BY <3>1 DEF KillFails
    <3>3. UNCHANGED watched /\ \A d \in Callers \ {c} : stopPc'[d] = stopPc[d]
      BY <2>5 DEF KillSucceeds
    <3> QED
      BY <3>1, <3>2, <3>3
  <2>6. ASSUME NEW c \in Callers, KillHitsOther(c)
        PROVE  Aimed(r)
    <3>1. Windows
      BY <2>6 DEF KillHitsOther
    <3>2. UNCHANGED watched /\ \A d \in Callers \ {c} : stopPc'[d] = stopPc[d]
      BY <2>6 DEF KillHitsOther
    <3>3. KillFails(c)
      BY <2>6 DEF KillHitsOther
    <3> QED
      BY <3>1, <3>2, <3>3
  <2>7. CASE \E s \in Runs : LoopStep(s)
    <3>1. PICK s \in Runs : LoopStep(s)
      BY <2>7
    <3>2. LaunchSucceeds(s) \/ WaitReturns(s)
      BY <2>1, <3>1 DEF LoopStep, LoopTop, LoopPost, LoopSelect, LaunchFails, Publish,
        LoopPostSelect, RetryStopped, RetryTimer, LoopExit
    <3>3. s = r => ~Over(r)' \/ Over(r)
      BY <3>2 DEF LaunchSucceeds, WaitReturns, Over
    <3>4. s # r => child'[r] = child[r]
      BY <3>2 DEF LaunchSucceeds, WaitReturns
    <3> QED
      BY <3>3, <3>4 DEF Over
  <2>8. CASE \E s \in Runs : ProcessStep(s)
    BY <2>1, <2>2, <2>3, <2>4, <2>8
       DEF ProcessStep, FFmpegExits, FFmpegHangs, MonitorQuits, ChildBecomes, callVars
  <2>9. CASE \E c \in Callers : StopStep(c)
    BY <2>1, <2>5, <2>6, <2>9
       DEF StopStep, CloseStop, KillSkipped, KillErrorIgnored, KillErrorReturned, DoneReceived,
         StopTimesOut, loopVars
  <2> QED
    BY <2>1, <2>7, <2>8, <2>9 DEF WorkerNext, StartLocked, StartRun, StartIgnored, Retarget,
      StopLocked, StopNothing, StopReads, loopVars, workerVars
<1> QED
  BY <1>1, Inductive, PTL DEF WorkerSpec, KillHitsOwnRun

\* After its stopCh is closed no run launches again
\* (ffmpeg_worker.go:481, 562, 595).
THEOREM StopIsFinal == WorkerSpec => NoRetryAfterStop
<1> DEFINE Holds == \A r \in Runs : r \in stopClosed /\ loopPc[r] # "launch" => loopPc'[r] # "launch"
<1>1. ASSUME IInv, [WorkerNext]_workerVars
      PROVE  Holds
  <2> SUFFICES ASSUME NEW r \in Runs, r \in stopClosed, loopPc[r] # "launch"
               PROVE  loopPc'[r] # "launch"
    OBVIOUS
  <2> USE <1>1 DEF IInv, WorkerTypeOK
  <2>1. CASE \E w \in Workers : StartRun(w)
    BY <2>1 DEF StartRun
  <2>2. CASE \E s \in Runs : LoopStep(s)
    <3>1. ASSUME NEW s \in Runs, LoopSelect(s)
          PROVE  loopPc'[r] # "launch"
      <4>1. s = r => StopRequested(s)
        BY <3>1 DEF LoopHasWorker, Active, LoopSelect, StopRequested
      <4> QED
        BY <3>1, <4>1 DEF LoopSelect, Goto
    <3> QED
      BY <2>2, <3>1 DEF LoopStep, LoopTop, LoopPost, LaunchSucceeds, LaunchFails, Publish,
        WaitReturns, LoopPostSelect, RetryStopped, RetryTimer, LoopExit, Goto
  <2>3. CASE UNCHANGED loopPc
    BY <2>3
  <2> QED
    BY <2>1, <2>2, <2>3 DEF WorkerNext, StartLocked, StartIgnored, Retarget, ProcessStep,
      FFmpegExits, FFmpegHangs, MonitorKills, MonitorQuits, MonitorHitsOther, ChildBecomes,
      StopStep, StopLocked, StopNothing, StopReads, CloseStop, KillSkipped, KillSucceeds,
      KillHitsOther, KillErrorIgnored, KillErrorReturned, DoneReceived, StopTimesOut, loopVars, workerVars
<1> QED
  BY <1>1, Inductive, PTL DEF WorkerSpec, NoRetryAfterStop

-----------------------------------------------------------------------------
(* Refinement: what Supervision sees of the workers *)

\* A worker has a process exactly when its run loop is between launch and the end of the wait.
LEMMA ProcessIsOfRun ==
  ASSUME IInv, NEW w \in Workers
  PROVE  HasProcess(w) <=> running[w] /\ loopPc[run[w]] \in {"publish", "wait"}
BY DEF IInv, LoopHasWorker, WorkerHasLoop, ChildPhase, HasProcess, Active

\* The same after a step.
LEMMA ProcessWillBeOfRun ==
  ASSUME IInv', NEW w \in Workers
  PROVE  HasProcess(w)' <=> running'[w] /\ loopPc'[run'[w]] \in {"publish", "wait"}
BY DEF IInv, LoopHasWorker, WorkerHasLoop, ChildPhase, HasProcess, Active

Turns(w, from, to) == Serving(w) = from /\ Serving(w)' = to

\* A step that moves one worker as Supervision allows, and no other.
LEMMA MoveIsSupervised ==
  ASSUME NEW w \in Workers,
         \A v \in Workers \ {w} :
           Serving(v)' = Serving(v) /\ HasProcess(v)' = HasProcess(v),
         \/ /\ HasProcess(w)' = HasProcess(w)
            /\ \/ Turns(w, "off", "on")
               \/ Turns(w, "on", "stopping")
               \/ Turns(w, "on", "stopped")
               \/ Turns(w, "stopping", "stopped")
               \/ ~HasProcess(w) /\ Turns(w, "on", "off")
               \/ ~HasProcess(w) /\ Turns(w, "stopped", "off")
         \/ /\ ~HasProcess(w) /\ HasProcess(w)'
            /\ Turns(w, "on", "on") \/ Turns(w, "stopping", "stopped")
         \/ /\ HasProcess(w) /\ ~HasProcess(w)'
            /\ Serving(w)' = Serving(w)
  PROVE  Supervised!Next
<1> DEFINE serving == [v \in Workers |-> Serving(v)]
           up == [v \in Workers |-> HasProcess(v)]
<1>1. serving' = [serving EXCEPT ![w] = Serving(w)']
  OBVIOUS
<1>2. up' = [up EXCEPT ![w] = HasProcess(w)']
  OBVIOUS
<1>3. serving[w] = Serving(w) /\ up[w] = HasProcess(w)
  OBVIOUS
<1>4. Serving(w)' = Serving(w) => serving' = serving
  OBVIOUS
<1>5. HasProcess(w)' = HasProcess(w) => up' = up
  OBVIOUS
<1>6. ASSUME NEW from, NEW to, NEW S, from \in S, Turns(w, from, to)
      PROVE  Supervised!Serve(w, S, to)
  BY <1>1, <1>3, <1>6 DEF Turns, Supervised!Serve
<1>7. CASE HasProcess(w)' = HasProcess(w)
  <2>1. CASE Turns(w, "off", "on")
    BY <1>5, <1>6, <1>7, <2>1 DEF Supervised!Start, Supervised!Next
  <2>2. CASE Turns(w, "on", "stopping") \/ Turns(w, "on", "stopped")
    BY <1>5, <1>6, <1>7, <2>2 DEF Supervised!Stop, Supervised!Next
  <2>3. CASE Turns(w, "stopping", "stopped")
    BY <1>5, <1>6, <1>7, <2>3 DEF Supervised!GiveUp, Supervised!Next
  <2>4. CASE ~HasProcess(w) /\ (Turns(w, "on", "off") \/ Turns(w, "stopped", "off"))
    BY <1>3, <1>5, <1>6, <1>7, <2>4 DEF Supervised!End, Supervised!Next
  <2> QED
    BY <1>7, <2>1, <2>2, <2>3, <2>4
<1>8. CASE /\ ~HasProcess(w) /\ HasProcess(w)'
           /\ Turns(w, "on", "on") \/ Turns(w, "stopping", "stopped")
  <2>1. HasProcess(w)' = TRUE
    BY <1>8 DEF HasProcess
  <2>2. up' = [up EXCEPT ![w] = TRUE]
    BY <1>2, <2>1
  <2> QED
    BY <1>3, <1>6, <1>8, <2>2 DEF Supervised!Launch, Supervised!Next
<1>9. CASE HasProcess(w) /\ ~HasProcess(w)' /\ Serving(w)' = Serving(w)
  <2>1. HasProcess(w)' = FALSE
    BY <1>9 DEF HasProcess
  <2>2. up' = [up EXCEPT ![w] = FALSE]
    BY <1>2, <2>1
  <2> QED
    BY <1>3, <1>4, <1>9, <2>2 DEF Supervised!Down, Supervised!Next
<1> QED
  BY <1>7, <1>8, <1>9

\* A step that leaves these variables alone is a stutter.
LEMMA SameView ==
  ASSUME IInv, IInv', NEW v \in Workers,
         running'[v] = running[v],
         running[v] => /\ run'[v] = run[v]
                       /\ run[v] \in stopClosed' <=> run[v] \in stopClosed
                       /\ loopPc'[run[v]] = loopPc[run[v]]
  PROVE  Serving(v)' = Serving(v) /\ HasProcess(v)' = HasProcess(v)
<1>1. Serving(v)' = Serving(v)
  BY DEF Serving
<1>2. HasProcess(v)' <=> running'[v] /\ loopPc'[run'[v]] \in {"publish", "wait"}
  BY ProcessWillBeOfRun
<1>3. HasProcess(v)' <=> HasProcess(v)
  BY <1>2, ProcessIsOfRun
<1>4. HasProcess(v)' = HasProcess(v)
  BY <1>3, Zenon DEF HasProcess
<1> QED
  BY <1>1, <1>4

StateOf(r, pc) ==
  IF r \notin stopClosed THEN "on" ELSE IF pc = "launch" THEN "stopping" ELSE "stopped"

\* What Supervision sees when a run loop moves from one line to another.
LEMMA GotoView ==
  ASSUME IInv, IInv', NEW r \in Runs, NEW w \in Workers, Active(r), owner[r] = w,
         NEW pc, Goto(r, pc),
         running' = running, run' = run, stopClosed' = stopClosed
  PROVE  /\ \A v \in Workers \ {w} :
              Serving(v)' = Serving(v) /\ HasProcess(v)' = HasProcess(v)
         /\ Turns(w, StateOf(r, loopPc[r]), StateOf(r, pc))
         /\ HasProcess(w) <=> loopPc[r] \in {"publish", "wait"}
         /\ HasProcess(w)' <=> pc \in {"publish", "wait"}
<1>1. running[w] /\ run[w] = r
  BY DEF IInv, LoopHasWorker
<1>2. loopPc'[r] = pc /\ \A s \in Runs \ {r} : loopPc'[s] = loopPc[s]
  BY DEF Goto, IInv, WorkerTypeOK
<1>3. ASSUME NEW v \in Workers \ {w}
      PROVE  Serving(v)' = Serving(v) /\ HasProcess(v)' = HasProcess(v)
  <2>1. running[v] => run[v] \in Runs \ {r}
    BY <1>1, <1>3 DEF IInv, WorkerHasLoop
  <2> QED
    BY <1>2, <2>1, SameView
<1>4. HasProcess(w)' <=> running'[w] /\ loopPc'[run'[w]] \in {"publish", "wait"}
  BY ProcessWillBeOfRun
<1>5. Serving(w) = StateOf(r, loopPc[r]) /\ Serving(w)' = StateOf(r, pc)
  BY <1>1, <1>2 DEF Serving, StateOf
<1>6. HasProcess(w) <=> loopPc[r] \in {"publish", "wait"}
  BY <1>1, ProcessIsOfRun
<1> QED
  BY <1>1, <1>2, <1>3, <1>4, <1>5, <1>6 DEF Turns

\* Every step of the workers is one Supervision allows, or one it does not see.
LEMMA StepIsSupervised ==
  ASSUME IInv, IInv', [WorkerNext]_workerVars
  PROVE  \/ Supervised!Next
         \/ \A v \in Workers : Serving(v)' = Serving(v) /\ HasProcess(v)' = HasProcess(v)
<1> DEFINE Stutter == \A v \in Workers : Serving(v)' = Serving(v) /\ HasProcess(v)' = HasProcess(v)
<1> DEFINE Goal == Supervised!Next \/ Stutter
<1> SUFFICES Goal
  OBVIOUS
<1>1. ASSUME NEW w \in Workers, StartRun(w)
      PROVE  Goal
  <2>1. PICK r \in Runs : /\ ~running[w]
                          /\ Fresh(w, r)
                          /\ running' = [running EXCEPT ![w] = TRUE]
                          /\ run' = [run EXCEPT ![w] = r]
                          /\ stopClosed' = stopClosed \ {r}
                          /\ loopPc' = [loopPc EXCEPT ![r] = "top"]
    BY <1>1 DEF StartRun
  <2>2. ASSUME NEW v \in Workers \ {w}
        PROVE  Serving(v)' = Serving(v) /\ HasProcess(v)' = HasProcess(v)
    <3>1. running'[v] = running[v] /\ run'[v] = run[v] /\ run[v] # r
      BY <2>1, <2>2 DEF Fresh, IInv, WorkerTypeOK
    <3>2. running[v] => loopPc'[run[v]] = loopPc[run[v]]
      BY <2>1, <3>1 DEF IInv, WorkerTypeOK, WorkerHasLoop
    <3> QED
      BY <2>1, <3>1, <3>2, SameView
  <2>3. running'[w] /\ run'[w] = r /\ loopPc'[r] = "top" /\ r \notin stopClosed'
    BY <2>1 DEF IInv, WorkerTypeOK
  <2>4. Turns(w, "off", "on")
    BY <2>1, <2>3 DEF Turns, Serving
  <2>5. HasProcess(w)' = HasProcess(w)
    <3>1. ~HasProcess(w) /\ ~HasProcess(w)'
      BY <2>1, <2>3, ProcessIsOfRun, ProcessWillBeOfRun
    <3> QED
      BY <3>1, Zenon DEF HasProcess
  <2> QED
    BY <2>2, <2>4, <2>5, MoveIsSupervised
<1>2. ASSUME NEW r \in Runs, LoopStep(r), ~LoopExit(r)
      PROVE  Goal
  <2>1. PICK w \in Workers : owner[r] = w /\ Active(r)
    BY <1>2 DEF IInv, LoopHasWorker, Active, LoopStep, LoopTop, LoopPost, LoopSelect,
      LaunchSucceeds, LaunchFails, Publish, WaitReturns, LoopPostSelect, RetryStopped, RetryTimer
  <2>2. running[w] /\ run[w] = r
    BY <2>1 DEF IInv, LoopHasWorker
  <2>3. PICK pc : /\ Goto(r, pc) /\ running' = running /\ run' = run /\ stopClosed' = stopClosed
                  /\ (pc = "launch" => r \notin stopClosed)
                  /\ pc \in {"publish", "wait"} => loopPc[r] = IF pc = "publish" THEN "launch" ELSE "publish"
                  /\ loopPc[r] = "launch" => pc \in {"publish", "retry"}
                  /\ (loopPc[r] = "publish" => pc = "wait") /\ (loopPc[r] = "wait" => pc = "post")
    BY <1>2, <2>1, <2>2 DEF LoopStep, LoopTop, LoopPost, LoopSelect, StopRequested,
      LaunchSucceeds, LaunchFails, Publish, WaitReturns, LoopPostSelect, RetryStopped, RetryTimer,
      fieldVars, chanVars
  <2>4. /\ \A v \in Workers \ {w} :
              Serving(v)' = Serving(v) /\ HasProcess(v)' = HasProcess(v)
        /\ Turns(w, StateOf(r, loopPc[r]), StateOf(r, pc))
        /\ HasProcess(w) <=> loopPc[r] \in {"publish", "wait"}
        /\ HasProcess(w)' <=> pc \in {"publish", "wait"}
    BY <2>1, <2>3, GotoView
  <2>5. ASSUME HasProcess(w)' <=> HasProcess(w)
        PROVE  HasProcess(w)' = HasProcess(w)
    BY <2>5, Zenon DEF HasProcess
  <2>6. ASSUME HasProcess(w)' <=> HasProcess(w), Turns(w, StateOf(r, pc), StateOf(r, pc))
        PROVE  Stutter
    BY <2>4, <2>5, <2>6 DEF Turns
  <2>7. CASE loopPc[r] = "launch" /\ pc = "publish"
    <3>1. ~HasProcess(w) /\ HasProcess(w)'
      BY <2>4, <2>7
    <3>2. Turns(w, "on", "on") \/ Turns(w, "stopping", "stopped")
      BY <2>4, <2>7 DEF StateOf
    <3> QED
      BY <2>4, <3>1, <3>2, MoveIsSupervised
  <2>8. CASE loopPc[r] = "launch" /\ pc = "retry"
    <3>1. HasProcess(w)' = HasProcess(w)
      BY <2>4, <2>5, <2>8
    <3>2. Turns(w, StateOf(r, pc), StateOf(r, pc)) \/ Turns(w, "stopping", "stopped")
      BY <2>4, <2>8 DEF StateOf
    <3> QED
      BY <2>4, <2>6, <3>1, <3>2, MoveIsSupervised
  <2>9. CASE loopPc[r] = "wait" /\ pc = "post"
    <3>1. HasProcess(w) /\ ~HasProcess(w)'
      BY <2>4, <2>9
    <3>2. Serving(w)' = Serving(w)
      BY <2>4, <2>9 DEF StateOf, Turns
    <3> QED
      BY <2>4, <3>1, <3>2, MoveIsSupervised
  <2>10. CASE /\ loopPc[r] # "launch"
              /\ loopPc[r] \in {"publish", "wait"} <=> pc \in {"publish", "wait"}
    <3>1. StateOf(r, loopPc[r]) = StateOf(r, pc)
      BY <2>3, <2>10 DEF StateOf
    <3> QED
      BY <2>4, <2>6, <2>10, <3>1
  <2> QED
    BY <2>3, <2>7, <2>8, <2>9, <2>10
<1>3. ASSUME NEW r \in Runs, LoopExit(r)
      PROVE  Goal
  <2>1. PICK w \in Workers : /\ owner[r] = w /\ running[w] /\ run[w] = r /\ loopPc[r] = "exit"
                             /\ running' = [running EXCEPT ![w] = FALSE]
                             /\ loopPc' = [loopPc EXCEPT ![r] = "off"]
                             /\ run' = run /\ stopClosed' = stopClosed
    BY <1>3 DEF LoopExit, Goto, IInv, LoopHasWorker, Active
  <2>2. ASSUME NEW v \in Workers \ {w}
        PROVE  Serving(v)' = Serving(v) /\ HasProcess(v)' = HasProcess(v)
    <3>1. running'[v] = running[v]
      BY <2>1 DEF IInv, WorkerTypeOK
    <3>2. running[v] => run[v] \in Runs \ {r}
      BY <2>1, <2>2 DEF IInv, WorkerHasLoop
    <3>3. running[v] => loopPc'[run[v]] = loopPc[run[v]]
      BY <2>1, <3>2 DEF IInv, WorkerTypeOK
    <3> QED
      BY <2>1, <3>1, <3>3, SameView
  <2>3. ~running'[w]
    BY <2>1 DEF IInv, WorkerTypeOK
  <2>4. ~HasProcess(w) /\ ~HasProcess(w)'
    BY <2>1, <2>3, ProcessIsOfRun, ProcessWillBeOfRun
  <2>5. HasProcess(w)' = HasProcess(w)
    BY <2>4, Zenon DEF HasProcess
  <2>6. Turns(w, "on", "off") \/ Turns(w, "stopped", "off")
    BY <2>1, <2>3 DEF Turns, Serving
  <2> QED
    BY <2>2, <2>4, <2>5, <2>6, MoveIsSupervised
<1>4. ASSUME NEW c \in Callers, CloseStop(c)
      PROVE  Goal
  <2> DEFINE r == heldRun[c]
  <2>1. /\ running' = running /\ run' = run /\ loopPc' = loopPc
        /\ stopClosed' = stopClosed \cup {r}
    BY <1>4 DEF CloseStop, fieldVars, loopVars
  <2>2. ASSUME NEW v \in Workers, running[v] => run[v] # r \/ r \in stopClosed
        PROVE  Serving(v)' = Serving(v) /\ HasProcess(v)' = HasProcess(v)
    BY <2>1, <2>2, SameView
  <2>3. CASE \E w \in Workers : running[w] /\ run[w] = r /\ r \notin stopClosed
    <3>1. PICK w \in Workers : running[w] /\ run[w] = r /\ r \notin stopClosed
      BY <2>3
    <3>2. ASSUME NEW v \in Workers \ {w}
          PROVE  Serving(v)' = Serving(v) /\ HasProcess(v)' = HasProcess(v)
      <4>1. running[v] => run[v] # r
        BY <3>1, <3>2 DEF IInv, WorkerHasLoop
      <4> QED
        BY <2>2, <4>1
    <3>3. Turns(w, "on", "stopping") \/ Turns(w, "on", "stopped")
      BY <2>1, <3>1 DEF Turns, Serving
    <3>4. HasProcess(w)' <=> HasProcess(w)
      BY <2>1, ProcessIsOfRun, ProcessWillBeOfRun
    <3>5. HasProcess(w)' = HasProcess(w)
      BY <3>4, Zenon DEF HasProcess
    <3> QED
      BY <3>2, <3>3, <3>5, MoveIsSupervised
  <2>4. CASE ~\E w \in Workers : running[w] /\ run[w] = r /\ r \notin stopClosed
    BY <2>2, <2>4
  <2> QED
    BY <2>3, <2>4
<1>5. ASSUME UNCHANGED <<running, run, stopClosed, loopPc>>
      PROVE  Goal
  BY <1>5, SameView
<1>6. ASSUME NEW r \in Runs, LoopStep(r)
      PROVE  Goal
  BY <1>2, <1>3, <1>6
<1>7. ASSUME NEW r \in Runs, ProcessStep(r)
      PROVE  Goal
  BY <1>5, <1>7 DEF ProcessStep, FFmpegExits, FFmpegHangs, MonitorKills, MonitorQuits,
    MonitorHitsOther, ChildBecomes, fieldVars, chanVars
<1>8. ASSUME NEW c \in Callers, StopStep(c)
      PROVE  Goal
  BY <1>4, <1>5, <1>8 DEF StopStep, KillSkipped, KillSucceeds, KillHitsOther, KillErrorIgnored,
    KillErrorReturned, DoneReceived, StopTimesOut, fieldVars, chanVars, loopVars
<1>9. ASSUME NEW c \in Callers, NEW w \in Workers, StopLocked(c, w)
      PROVE  Goal
  BY <1>5, <1>9 DEF StopLocked, StopNothing, StopReads, fieldVars, chanVars, loopVars, workerVars
<1>10. ASSUME NEW w \in Workers, NEW urls, Retarget(w, urls)
       PROVE  Goal
  BY <1>5, <1>10 DEF Retarget, fieldVars, chanVars, loopVars
<1>11. CASE UNCHANGED workerVars
  BY <1>5, <1>11 DEF workerVars
<1> QED
  BY <1>1, <1>6, <1>7, <1>8, <1>9, <1>10, <1>11 DEF WorkerNext, StartLocked, StartIgnored

\* Workers implement Supervision (ffmpeg_worker.go:429, 466, 481, 523).
THEOREM PromisesAreKept == WorkerSpec => WorkersKeepPromises
<1>1. WorkerInit => Supervised!Init
  BY DEF WorkerInit, Supervised!Init, Serving, HasProcess, Live
<1>2. ASSUME IInv, IInv', [WorkerNext]_workerVars
      PROVE  [Supervised!Next]_(Supervised!vars)
  <2>1. CASE \A v \in Workers : Serving(v)' = Serving(v) /\ HasProcess(v)' = HasProcess(v)
    BY <2>1 DEF Supervised!vars
  <2> QED
    BY <1>2, <2>1, StepIsSupervised
<1> QED
  BY <1>1, <1>2, Inductive, PTL DEF WorkerSpec, WorkersKeepPromises, Supervised!Spec
=============================================================================
