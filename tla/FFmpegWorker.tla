---------------------------- MODULE FFmpegWorker ----------------------------
(***************************************************************************)
(* One ffmpegWorker per publishing target (or one shared worker): the      *)
(* goroutine that launches, waits for and relaunches ffmpeg, the goroutine *)
(* that kills a stalled process, and the start and stop sequences other    *)
(* goroutines drive it with.  Source: src/ws/ffmpeg_worker.go.             *)
(*                                                                         *)
(* This module says what workers do under ANY client: a start, a stop or   *)
(* an answer of isPaused may come at any moment.  FFmpegPublisher composes *)
(* it with the manager, which is one such client.                          *)
(*                                                                         *)
(* A run is what one effective startLocked creates: the pair stopCh,       *)
(* doneCh and the runLoop goroutine.  The identity of a run nobody refers  *)
(* to any more is reused, as memory is: the module needs no generation     *)
(* counter and has finitely many states.  Every action is one critical     *)
(* section of w.mu, or one step between two of them.                       *)
(***************************************************************************)
EXTENDS FiniteSets

CONSTANTS
  Workers,    \* keys of publisherMgr.workers
  Targets,    \* publish URLs
  Callers,    \* goroutines that start and stop workers
  Runs,       \* identities of runs
  None,       \* no run: stopCh and doneCh are nil
  Faults,     \* what ffmpeg does wrong: "launch" fails, "exit" early, "hang"
  Windows,    \* runtime.GOOS is "windows": a kill that fails goes on to taskkill
  PromptExit  \* TRUE: a run that can end ends within the 5 s a stop waits for it

ASSUME WorkerAssumption ==
  /\ None \notin Runs \cup Workers
  /\ Faults \subseteq {"launch", "exit", "hang"}
  /\ Windows \in BOOLEAN
  /\ PromptExit \in BOOLEAN

VARIABLES
  running,     \* w.running
  run,         \* the run whose stopCh and doneCh the fields of w hold
  cmd,         \* w.cmd: "nil", the "current" child of the run, or one that has "exited"
  targetURLs,  \* w.targetURLs; empty in per-target mode
  stopClosed,  \* runs whose stopCh is closed
  doneClosed,  \* runs whose doneCh is closed (an unused identity counts as done)
  loopPc,      \* where runLoop is; "off" before its start and after its end
  owner,       \* the worker a run belongs to
  child,       \* the ffmpeg process runLoop has started and not yet collected
  output,      \* the targets of the command runLoop has built, and of its process
  watched,     \* runs with a monitorStallAndKill goroutine
  stopPc,      \* where a caller is in the stop sequence
  heldRun,     \* the stopCh and doneCh stopLocked returned to a caller
  heldCmd,     \* the cmd it returned; "current" is the child of heldRun
  gaveUp       \* history: runs a stop has closed and returned from before doneCh

fieldVars == <<running, run, cmd>>
chanVars  == <<stopClosed, doneClosed>>
loopVars  == <<loopPc, owner, child, output, watched>>
callVars  == <<stopPc, heldRun, heldCmd, gaveUp>>
workerVars == <<running, run, cmd, targetURLs, stopClosed, doneClosed, loopPc,
                owner, child, output, watched, stopPc, heldRun, heldCmd, gaveUp>>

LoopPcs  == {"off", "top", "select", "launch", "publish", "wait", "post",
             "postSelect", "retry", "exit"}
StopPcs  == {"idle", "close", "kill", "await", "panicked"}
Children == {"none", "alive", "hung", "dying"}
CmdRefs  == {"nil", "current", "exited"}

WorkerInit ==
  /\ running = [w \in Workers |-> FALSE]
  /\ run = [w \in Workers |-> None]
  /\ cmd = [w \in Workers |-> "nil"]
  /\ targetURLs = [w \in Workers |-> {}]
  /\ stopClosed = {}
  /\ doneClosed = Runs
  /\ loopPc = [r \in Runs |-> "off"]
  /\ owner = [r \in Runs |-> None]
  /\ child = [r \in Runs |-> "none"]
  /\ output = [r \in Runs |-> {}]
  /\ watched = {}
  /\ stopPc = [c \in Callers |-> "idle"]
  /\ heldRun = [c \in Callers |-> None]
  /\ heldCmd = [c \in Callers |-> "nil"]
  /\ gaveUp = {}

-----------------------------------------------------------------------------
(* Starting a worker *)

\* Nobody but w, which is about to overwrite its reference, refers to r.
Fresh(w, r) ==
  /\ loopPc[r] = "off"
  /\ \A c \in Callers : heldRun[c] # r
  /\ \A v \in Workers \ {w} : run[v] # r
  /\ r \notin watched

\* Mutant: the test of running is forgotten.
StartRunUnguarded(w) ==
  /\ \E r \in Runs :
       /\ Fresh(w, r)
       /\ running' = [running EXCEPT ![w] = TRUE]
       /\ run' = [run EXCEPT ![w] = r]
       /\ stopClosed' = stopClosed \ {r}
       /\ doneClosed' = doneClosed \ {r}
       /\ gaveUp' = gaveUp \ {r}
       /\ loopPc' = [loopPc EXCEPT ![r] = "top"]
       /\ owner' = [owner EXCEPT ![r] = w]
  /\ UNCHANGED <<cmd, targetURLs, child, output, watched, stopPc, heldRun, heldCmd>>

\* startLocked on a worker that is not running: new channels, a new goroutine.
StartRun(w) ==
  /\ ~running[w]
  /\ \E r \in Runs :
       /\ Fresh(w, r)
       /\ running' = [running EXCEPT ![w] = TRUE]
       /\ run' = [run EXCEPT ![w] = r]
       /\ stopClosed' = stopClosed \ {r}
       /\ doneClosed' = doneClosed \ {r}
       /\ gaveUp' = gaveUp \ {r}
       /\ loopPc' = [loopPc EXCEPT ![r] = "top"]
       /\ owner' = [owner EXCEPT ![r] = w]
  /\ UNCHANGED <<cmd, targetURLs, child, output, watched, stopPc, heldRun, heldCmd>>

\* startLocked on a running worker: "start ignored, target already running".
StartIgnored(w) == running[w] /\ UNCHANGED workerVars

StartLocked(w) == StartRun(w) \/ StartIgnored(w)

\* The manager's unlocked assignment of w.targetURLs before a shared start.
Retarget(w, urls) ==
  /\ targetURLs' = [targetURLs EXCEPT ![w] = urls]
  /\ UNCHANGED <<fieldVars, chanVars, loopVars, callVars>>

-----------------------------------------------------------------------------
(* runLoop *)

Goto(r, pc) == loopPc' = [loopPc EXCEPT ![r] = pc]

\* runLoop and the monitor read the field w.stopCh, whatever run it belongs to.
StopRequested(r) == run[owner[r]] \in stopClosed

\* The isPaused test at the head of the loop; the answer is the manager's.
LoopTop(r, isPaused) ==
  /\ loopPc[r] = "top"
  /\ Goto(r, IF isPaused THEN "exit" ELSE "select")
  /\ UNCHANGED <<fieldVars, targetURLs, chanVars, owner, child, output, watched, callVars>>

LaunchTargets(w) == IF targetURLs[w] = {} THEN {w} ELSE targetURLs[w]

\* Mutant: the look at stopCh before the launch is forgotten.
LoopSelectBlind(r) ==
  /\ loopPc[r] = "select"
  /\ Goto(r, "launch")
  /\ output' = [output EXCEPT ![r] = LaunchTargets(owner[r])]
  /\ UNCHANGED <<fieldVars, targetURLs, chanVars, owner, child, watched, callVars>>

\* The non-blocking look at stopCh, then the unlocked read of the targets.
LoopSelect(r) ==
  /\ loopPc[r] = "select"
  /\ IF StopRequested(r)
     THEN Goto(r, "exit") /\ UNCHANGED output
     ELSE Goto(r, "launch") /\ output' = [output EXCEPT ![r] = LaunchTargets(owner[r])]
  /\ UNCHANGED <<fieldVars, targetURLs, chanVars, owner, child, watched, callVars>>

\* Build the command and cmd.Start: a new process ...
LaunchSucceeds(r) ==
  /\ loopPc[r] = "launch"
  /\ child' = [child EXCEPT ![r] = "alive"]
  /\ Goto(r, "publish")
  /\ UNCHANGED <<fieldVars, targetURLs, chanVars, owner, output, watched, callVars>>

\* ... or an error of StderrPipe or Start, and a retry.
LaunchFails(r) ==
  /\ "launch" \in Faults
  /\ loopPc[r] = "launch"
  /\ output' = [output EXCEPT ![r] = {}]
  /\ Goto(r, "retry")
  /\ UNCHANGED <<fieldVars, targetURLs, chanVars, owner, child, watched, callVars>>

\* w.cmd = cmd under w.mu, and the monitor starts.  Until this step a stop
\* cannot see the process.
Publish(r) ==
  /\ loopPc[r] = "publish"
  /\ cmd' = [cmd EXCEPT ![owner[r]] = "current"]
  /\ watched' = watched \cup {r}
  /\ Goto(r, "wait")
  /\ UNCHANGED <<running, run, targetURLs, chanVars, owner, child, output, callVars>>

\* Mutant: the process is released instead of waited for.
WaitReleases(r) ==
  /\ loopPc[r] = "wait"
  /\ Goto(r, "post")
  /\ UNCHANGED <<fieldVars, targetURLs, chanVars, owner, child, output, watched, callVars>>

\* A monitor whose procDone is closed may still do more than return: its process
\* had stalled, and the kill that fails goes on to taskkill.
MonitorLingers == Windows /\ "hang" \in Faults

\* cmd.Wait collects the process, and procDone is closed; every pointer to the
\* process now points to an exited one.
WaitReturns(r) ==
  /\ loopPc[r] = "wait"
  /\ child[r] = "dying"
  /\ child' = [child EXCEPT ![r] = "none"]
  /\ output' = [output EXCEPT ![r] = {}]
  /\ cmd' = [cmd EXCEPT ![owner[r]] = "exited"]
  /\ heldCmd' = [c \in Callers |->
                   IF heldRun[c] = r /\ heldCmd[c] = "current" THEN "exited" ELSE heldCmd[c]]
  /\ watched' = IF MonitorLingers THEN watched ELSE watched \ {r}
  /\ Goto(r, "post")
  /\ UNCHANGED <<running, run, targetURLs, chanVars, owner, stopPc, heldRun, gaveUp>>

\* The isPaused test after the process has ended.
LoopPost(r, isPaused) ==
  /\ loopPc[r] = "post"
  /\ Goto(r, IF isPaused THEN "exit" ELSE "postSelect")
  /\ UNCHANGED <<fieldVars, targetURLs, chanVars, owner, child, output, watched, callVars>>

LoopPostSelect(r) ==
  /\ loopPc[r] = "postSelect"
  /\ Goto(r, IF StopRequested(r) THEN "exit" ELSE "retry")
  /\ UNCHANGED <<fieldVars, targetURLs, chanVars, owner, child, output, watched, callVars>>

\* waitRetry: the select between stopCh and the timer.
RetryStopped(r) ==
  /\ loopPc[r] = "retry"
  /\ StopRequested(r)
  /\ Goto(r, "exit")
  /\ UNCHANGED <<fieldVars, targetURLs, chanVars, owner, child, output, watched, callVars>>

\* Mutant: the timer is never armed.
RetryNeverFires(r) == FALSE /\ UNCHANGED workerVars

\* The timer, at least 3 s long: by then the monitor, whose procDone is closed
\* from before the delay, has returned.
RetryTimer(r) ==
  /\ loopPc[r] = "retry"
  /\ r \notin watched
  /\ Goto(r, "top")
  /\ UNCHANGED <<fieldVars, targetURLs, chanVars, owner, child, output, watched, callVars>>

\* The deferred function: it closes the doneCh that the field holds.
LoopExit(r) ==
  /\ loopPc[r] = "exit"
  /\ running' = [running EXCEPT ![owner[r]] = FALSE]
  /\ cmd' = [cmd EXCEPT ![owner[r]] = "nil"]
  /\ doneClosed' = doneClosed \cup {run[owner[r]]}
  /\ Goto(r, "off")
  /\ UNCHANGED <<run, targetURLs, stopClosed, owner, child, output, watched, callVars>>

-----------------------------------------------------------------------------
(* The ffmpeg process and its monitor *)

ChildBecomes(r, state) ==
  /\ child' = [child EXCEPT ![r] = state]
  /\ UNCHANGED <<fieldVars, targetURLs, chanVars, loopPc, owner, output, callVars>>

\* The process has ended, collected or not.
Over(r) == child[r] \notin {"alive", "hung"}

\* ffmpeg ends by itself: input lost, network error, crash.
FFmpegExits(r) ==
  "exit" \in Faults /\ ~Over(r) /\ ChildBecomes(r, "dying") /\ UNCHANGED watched

\* ffmpeg stays alive and stops making progress.
FFmpegHangs(r) ==
  "hang" \in Faults /\ child[r] = "alive" /\ ChildBecomes(r, "hung") /\ UNCHANGED watched

\* Mutant: the monitor returns without the kill.
MonitorForgetsKill(r) ==
  /\ r \in watched
  /\ child[r] = "hung"
  /\ watched' = watched \ {r}
  /\ UNCHANGED <<fieldVars, targetURLs, chanVars, loopPc, owner, child, output, callVars>>

\* monitorStallAndKill sees no progress for stallTimeout, kills and returns.
MonitorKills(r) ==
  /\ r \in watched
  /\ child[r] = "hung"
  /\ ChildBecomes(r, "dying")
  /\ watched' = watched \ {r}

\* monitorStallAndKill sees stopCh or procDone closed and returns; or it sees no
\* progress of a process that has ended, and the kill of it fails.
MonitorQuits(r) ==
  /\ r \in watched
  /\ StopRequested(r) \/ Over(r)
  /\ watched' = watched \ {r}
  /\ UNCHANGED <<fieldVars, targetURLs, chanVars, loopPc, owner, child, output, callVars>>

\* taskkill ends whatever has the PID of a process that has ended: in here the
\* ffmpeg of run s.
TaskkillHits(s) ==
  /\ Windows
  /\ ~Over(s)
  /\ child' = [child EXCEPT ![s] = "dying"]

\* The tick of the monitor wins over a closed procDone, and after the kill that
\* fails comes taskkill with a PID that has been given to another ffmpeg.
MonitorHitsOther(r) ==
  /\ r \in watched
  /\ Over(r)
  /\ \E s \in Runs : TaskkillHits(s)
  /\ watched' = watched \ {r}
  /\ UNCHANGED <<fieldVars, targetURLs, chanVars, loopPc, owner, output, callVars>>

-----------------------------------------------------------------------------
(* Stopping a worker: stopLocked, close(stopCh), killProcess, wait for      *)
(* doneCh at most 5 s.  The same sequence stands in StopFFmpegPublisher and *)
(* in PauseFFmpegPublisherByURL.                                            *)

\* stopLocked on a worker that is not running returns three nils.
StopNothing(c, w) == stopPc[c] = "idle" /\ ~running[w] /\ UNCHANGED workerVars

\* Mutant: the test of running is forgotten.
StopReadsUnguarded(c, w) ==
  /\ stopPc[c] = "idle"
  /\ stopPc' = [stopPc EXCEPT ![c] = "close"]
  /\ heldRun' = [heldRun EXCEPT ![c] = run[w]]
  /\ heldCmd' = [heldCmd EXCEPT ![c] = cmd[w]]
  /\ UNCHANGED <<fieldVars, targetURLs, chanVars, loopVars, gaveUp>>

\* stopLocked returns the channels and the cmd of this moment.
StopReads(c, w) ==
  /\ stopPc[c] = "idle"
  /\ running[w]
  /\ stopPc' = [stopPc EXCEPT ![c] = "close"]
  /\ heldRun' = [heldRun EXCEPT ![c] = run[w]]
  /\ heldCmd' = [heldCmd EXCEPT ![c] = cmd[w]]
  /\ UNCHANGED <<fieldVars, targetURLs, chanVars, loopVars, gaveUp>>

StopLocked(c, w) == StopNothing(c, w) \/ StopReads(c, w)

\* close(stopCh); closing a closed channel panics.
CloseStop(c) ==
  /\ stopPc[c] = "close"
  /\ stopClosed' = stopClosed \cup {heldRun[c]}
  /\ stopPc' = [stopPc EXCEPT ![c] = IF heldRun[c] \in stopClosed THEN "panicked" ELSE "kill"]
  /\ UNCHANGED <<fieldVars, targetURLs, doneClosed, loopVars, heldRun, heldCmd, gaveUp>>

\* cmd is nil: nothing to kill.
KillSkipped(c) ==
  /\ stopPc[c] = "kill"
  /\ heldCmd[c] = "nil"
  /\ stopPc' = [stopPc EXCEPT ![c] = "await"]
  /\ UNCHANGED <<fieldVars, targetURLs, chanVars, loopVars, heldRun, heldCmd, gaveUp>>

\* killProcess reaches a process that cmd.Wait has not collected.
KillSucceeds(c) ==
  /\ stopPc[c] = "kill"
  /\ heldCmd[c] = "current"
  /\ child' = [child EXCEPT ![heldRun[c]] = "dying"]
  /\ stopPc' = [stopPc EXCEPT ![c] = "await"]
  /\ UNCHANGED <<fieldVars, targetURLs, chanVars, loopPc, owner, output, watched,
                 heldRun, heldCmd, gaveUp>>

\* The caller leaves the stop sequence and drops what it held.
Return(c) ==
  /\ stopPc' = [stopPc EXCEPT ![c] = "idle"]
  /\ heldRun' = [heldRun EXCEPT ![c] = None]
  /\ heldCmd' = [heldCmd EXCEPT ![c] = "nil"]

\* cmd.Process.Kill fails: the process a caller holds has ended.
KillFails(c) ==
  /\ stopPc[c] = "kill"
  /\ \/ heldCmd[c] = "exited"
     \/ heldCmd[c] = "current" /\ Over(heldRun[c])

\* taskkill succeeds all the same: the PID belongs to a process of somebody else
\* by now, or to an ffmpeg of this program.
KillHitsOther(c) ==
  /\ KillFails(c)
  /\ Windows
  /\ UNCHANGED child \/ \E s \in Runs : TaskkillHits(s)
  /\ stopPc' = [stopPc EXCEPT ![c] = "await"]
  /\ UNCHANGED <<fieldVars, targetURLs, chanVars, loopPc, owner, output, watched,
                 heldRun, heldCmd, gaveUp>>

\* killProcess returns the error: StopFFmpegPublisher logs it and waits,
KillErrorIgnored(c) ==
  /\ KillFails(c)
  /\ stopPc' = [stopPc EXCEPT ![c] = "await"]
  /\ UNCHANGED <<fieldVars, targetURLs, chanVars, loopVars, heldRun, heldCmd, gaveUp>>

\* PauseFFmpegPublisherByURL returns it at once.
KillErrorReturned(c) ==
  /\ KillFails(c)
  /\ gaveUp' = gaveUp \cup ({heldRun[c]} \ doneClosed)
  /\ Return(c)
  /\ UNCHANGED <<fieldVars, targetURLs, chanVars, loopVars>>

\* Mutant: the stop does not wait for doneCh.
DoneNotAwaited(c) ==
  /\ stopPc[c] = "await"
  /\ Return(c)
  /\ UNCHANGED <<fieldVars, targetURLs, chanVars, loopVars, gaveUp>>

DoneReceived(c) ==
  /\ stopPc[c] = "await"
  /\ heldRun[c] \in doneClosed
  /\ Return(c)
  /\ UNCHANGED <<fieldVars, targetURLs, chanVars, loopVars, gaveUp>>

\* The run waits for a process that nobody has killed.
Stuck(r) == loopPc[r] = "wait" /\ ~Over(r)

\* Mutant: there is no timeout.
StopNeverTimesOut(c) == FALSE /\ UNCHANGED workerVars

\* Mutant: a stop that times out declares the worker stopped.
StopTimesOutAndClears(c) ==
  /\ stopPc[c] = "await"
  /\ heldRun[c] \notin doneClosed
  /\ PromptExit => Stuck(heldRun[c])
  /\ running' = [running EXCEPT ![owner[heldRun[c]]] = FALSE]
  /\ gaveUp' = gaveUp \cup {heldRun[c]}
  /\ Return(c)
  /\ UNCHANGED <<run, cmd, targetURLs, chanVars, loopVars>>

\* time.After(5 * time.Second) wins the select.
StopTimesOut(c) ==
  /\ stopPc[c] = "await"
  /\ heldRun[c] \notin doneClosed
  /\ PromptExit => Stuck(heldRun[c])
  /\ gaveUp' = gaveUp \cup {heldRun[c]}
  /\ Return(c)
  /\ UNCHANGED <<fieldVars, targetURLs, chanVars, loopVars>>

-----------------------------------------------------------------------------
LoopStep(r) ==
  \/ \E isPaused \in BOOLEAN : LoopTop(r, isPaused) \/ LoopPost(r, isPaused)
  \/ LoopSelect(r) \/ LaunchSucceeds(r) \/ LaunchFails(r) \/ Publish(r)
  \/ WaitReturns(r) \/ LoopPostSelect(r) \/ RetryStopped(r) \/ RetryTimer(r)
  \/ LoopExit(r)

ProcessStep(r) ==
  \/ FFmpegExits(r) \/ FFmpegHangs(r)
  \/ MonitorKills(r) \/ MonitorQuits(r) \/ MonitorHitsOther(r)

StopStep(c) ==
  \/ CloseStop(c) \/ KillSkipped(c) \/ KillSucceeds(c) \/ KillHitsOther(c)
  \/ KillErrorIgnored(c) \/ KillErrorReturned(c) \/ DoneReceived(c) \/ StopTimesOut(c)

WorkerNext ==
  \/ \E w \in Workers : StartLocked(w)
  \/ \E w \in Workers, urls \in SUBSET Targets : Retarget(w, urls)
  \/ \E r \in Runs : LoopStep(r) \/ ProcessStep(r)
  \/ \E c \in Callers : StopStep(c)
  \/ \E c \in Callers, w \in Workers : StopLocked(c, w)

WorkerSpec == WorkerInit /\ [][WorkerNext]_workerVars

\* The Go scheduler runs every ready goroutine, timers fire and a killed
\* process dies; nothing makes ffmpeg exit, hang, or a command arrive.
WorkerFairness ==
  /\ \A r \in Runs : WF_workerVars(LoopStep(r)) /\ WF_workerVars(MonitorKills(r))
                     /\ WF_workerVars(MonitorQuits(r))
  /\ \A c \in Callers : WF_workerVars(StopStep(c))

FairWorkerSpec == WorkerSpec /\ WorkerFairness

-----------------------------------------------------------------------------
(* Properties *)

Active(r) == loopPc[r] # "off"
Live(r) == child[r] # "none"

\* Every variable keeps to its type.
WorkerTypeOK ==
  /\ running \in [Workers -> BOOLEAN]
  /\ run \in [Workers -> Runs \cup {None}]
  /\ cmd \in [Workers -> CmdRefs]
  /\ targetURLs \in [Workers -> SUBSET Targets]
  /\ stopClosed \subseteq Runs /\ doneClosed \subseteq Runs
  /\ loopPc \in [Runs -> LoopPcs]
  /\ owner \in [Runs -> Workers \cup {None}]
  /\ child \in [Runs -> Children]
  /\ output \in [Runs -> SUBSET (Targets \cup Workers)]
  /\ watched \subseteq Runs
  /\ stopPc \in [Callers -> StopPcs]
  /\ heldRun \in [Callers -> Runs \cup {None}]
  /\ heldCmd \in [Callers -> CmdRefs]
  /\ gaveUp \subseteq Runs

\* A worker never has two run loops, and so never two ffmpeg processes, however
\* starts, stops and exits interleave (ffmpeg_worker.go:429, the test of running).
OneRunLoop ==
  \A r, s \in Runs : Active(r) /\ Active(s) /\ owner[r] = owner[s] => r = s

\* runLoop reads w.stopCh and closes w.doneCh through the fields: they are
\* always its own channels, and the deferred close never hits a closed channel
\* (ffmpeg_worker.go:466, 482, 563, 596).
LoopOwnsChannels ==
  \A r \in Runs : Active(r) => run[owner[r]] = r /\ r \notin doneClosed

\* A closed doneCh means the process is gone: what a stop waits for is enough
\* (ffmpeg_worker.go:237, 314).
DoneMeansGone ==
  /\ \A r \in Runs : r \in doneClosed => ~Live(r)
  /\ \A w \in Workers : ~running[w] => \A r \in Runs : Live(r) => owner[r] # w

\* A kill of a stop or of a monitor ends no process but the one that the stopped
\* run, or the monitor's run, is waiting for; only where that process has ended
\* already, and on Windows, may taskkill with its PID end another one
\* (ffmpeg_worker.go:231, 308, 635, 702).
KillHitsOwnRun ==
  [][\A r \in Runs : ~Over(r) /\ Over(r)' =>
       /\ \A c \in Callers : stopPc[c] = "kill" /\ stopPc'[c] = "await" =>
            IF KillFails(c) THEN Windows ELSE heldRun[c] = r /\ loopPc[r] = "wait"
       /\ \A m \in watched \ watched' :
            IF Over(m) THEN Windows ELSE m = r /\ loopPc[r] = "wait"]_workerVars

\* A live run loop belongs to a running worker that points back to it, and
\* its doneCh is still open.
LoopHasWorker ==
  \A r \in Runs : Active(r) =>
    /\ owner[r] \in Workers
    /\ running[owner[r]]
    /\ run[owner[r]] = r
    /\ r \notin doneClosed

\* A running worker has a live run loop.
WorkerHasLoop ==
  \A w \in Workers : running[w] =>
    /\ run[w] \in Runs
    /\ Active(run[w])
    /\ owner[run[w]] = w

\* A process exists exactly from the launch to the end of the wait.
ChildPhase == \A r \in Runs : Live(r) <=> loopPc[r] \in {"publish", "wait"}

\* A reference to a live process is one to the process the loop waits for.
CmdPhase ==
  /\ \A w \in Workers : cmd[w] = "current" => running[w] /\ loopPc[run[w]] = "wait"
  /\ \A c \in Callers : heldCmd[c] = "current" =>
       heldRun[c] \in Runs /\ loopPc[heldRun[c]] = "wait"

\* The monitor of a process is gone before the next launch.
MonitorPhase == \A r \in watched : loopPc[r] \notin {"top", "select", "launch", "publish"}

\* A caller in the stop sequence holds a run.
StopHoldsRun == \A c \in Callers : stopPc[c] # "idle" => heldRun[c] \in Runs

\* The inductive invariant of the proofs: the fields of a worker, its run loop,
\* its process and what the callers hold agree at every step.
IInv ==
  /\ WorkerTypeOK
  /\ LoopHasWorker
  /\ WorkerHasLoop
  /\ ChildPhase
  /\ CmdPhase
  /\ MonitorPhase
  /\ StopHoldsRun

\* Once its stopCh is closed a run never comes back to the launch step: no
\* retry outlives a stop (ffmpeg_worker.go:481, 562, 595).
NoRetryAfterStop ==
  [][\A r \in Runs : r \in stopClosed /\ loopPc[r] # "launch" => loopPc'[r] # "launch"]_workerVars

\* With one caller, a second close of the same stopCh, the panic, happens only
\* after a stop that returned before doneCh (ffmpeg_worker.go:228, 305).
PanicNeedsAbandonedStop ==
  \A c \in Callers : stopPc[c] = "panicked" => heldRun[c] \in gaveUp

\* A stopped run ends, or is stuck behind a process that nobody killed.
StoppedRunEnds ==
  \A r \in Runs : r \in stopClosed ~> (~Active(r) \/ Stuck(r))

\* An unstopped run loop never gives up: it reaches the launch step again,
\* unless its process lives on, it is stopped, or it is told it is paused.
RetriesForever ==
  \A r \in Runs : Active(r) ~>
    (loopPc[r] \in {"launch", "exit"} \/ child[r] = "alive" \/ r \in stopClosed)

\* A stalled process is killed, unless a stop sent the monitor away.
StallIsKilled ==
  \A r \in Runs : child[r] = "hung" ~> (child[r] # "hung" \/ r \in stopClosed)

\* What Supervision sees of a worker.
Serving(w) ==
  IF ~running[w] THEN "off"
  ELSE IF run[w] \notin stopClosed THEN "on"
  ELSE IF loopPc[run[w]] = "launch" THEN "stopping"
  ELSE "stopped"

HasProcess(w) == \E r \in Runs : owner[r] = w /\ Live(r)

Supervised == INSTANCE Supervision WITH
  serving <- [w \in Workers |-> Serving(w)],
  up <- [w \in Workers |-> HasProcess(w)]

\* Workers implement Supervision: one process at a time and only while the
\* worker is running, at most one launch after a stop, and an end only without a
\* process (ffmpeg_worker.go:429, 466, 481, 523).
WorkersKeepPromises == Supervised!Spec
=============================================================================
