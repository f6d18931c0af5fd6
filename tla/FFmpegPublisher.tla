--------------------------- MODULE FFmpegPublisher ---------------------------
(***************************************************************************)
(* The manager publisherMgr, the commands that drive it and the life of    *)
(* the process: main initialises the publisher while the websocket thread  *)
(* already accepts commands, optionally starts it, and on a signal stops   *)
(* it and exits.  The workers are those of FFmpegWorker.                   *)
(* Source: src/ws/ffmpeg_worker.go, src/ws/ws_client.go, src/main.go.      *)
(*                                                                         *)
(* A caller is a goroutine inside a publisher call: Main, or a readLoop    *)
(* that handles one command after the other.  Several readLoops are alive  *)
(* at once when a reconnect leaves the old one in a handler.               *)
(***************************************************************************)
EXTENDS FFmpegWorker, Naturals

CONSTANTS
  Main,            \* the goroutine of main()
  SharedKey,       \* sharedWorkerKey
  Shared,          \* shouldUseSharedFFmpeg: dshow input and several targets
  PublishOnReady,  \* the configuration flag
  Matches,         \* target sets resolveTargetsLocked can return, {} included
  Commands,        \* commands the readers receive
  Signals          \* TRUE: SIGINT or SIGTERM may arrive

Readers == Callers \ {Main}

ASSUME PublisherAssumption ==
  /\ Main \in Callers
  /\ None \notin Callers
  /\ Shared \in BOOLEAN /\ PublishOnReady \in BOOLEAN /\ Signals \in BOOLEAN
  /\ Workers = IF Shared THEN {SharedKey} ELSE Targets
  /\ Shared => Windows
  /\ Shared => SharedKey \notin Targets  \* no publish URL is "__shared__"
  /\ Matches \subseteq SUBSET Targets
  /\ Commands \subseteq {"START", "STOP", "DOWN", "UP"}

VARIABLES
  mgrMu,      \* who holds publisherMgr.mu across steps, or None
  inited,     \* publisherMgr.cfg is set
  known,      \* DOMAIN of publisherMgr.workers
  paused,     \* publisherMgr.paused
  mainPc,     \* main()
  phase,      \* where a caller is in its publisher call
  command,    \* the command it carries out
  matched,    \* the targets that command resolved to
  todo,       \* workers its current loop has still to visit
  code,       \* NodeMsgRsp.code it will answer with
  launches,   \* history: processes launched for a target since it was paused, at most 2
  skipped     \* history: targets whose run the last pause of them did not come to stop

mgrVars == <<inited, known, paused>>
callerVars == <<phase, command, matched, todo, code>>
historyVars == <<launches, skipped>>
vars == <<workerVars, mgrMu, inited, known, paused, mainPc, phase, command,
          matched, todo, code, launches, skipped>>

Phases == {"idle", "stopAll", "stopping", "startAll", "starting", "resuming", "reply"}

Init ==
  /\ WorkerInit
  /\ mgrMu = None
  /\ inited = FALSE
  /\ known = {}
  /\ paused = {}
  /\ mainPc = "boot"
  /\ phase = [c \in Callers |-> "idle"]
  /\ command = [c \in Callers |-> "none"]
  /\ matched = [c \in Callers |-> {}]
  /\ todo = [c \in Callers |-> {}]
  /\ code = [c \in Callers |-> 0]
  /\ launches = [t \in Targets |-> 0]
  /\ skipped = {}

\* The process runs: a panic of main, which recovers from none, ends it too.
Up == mainPc # "exited" /\ stopPc[Main] # "panicked"

Enter(c, p) == phase' = [phase EXCEPT ![c] = p]

\* Keep the launch count of paused targets only.
Recount == launches' = [t \in Targets |-> IF t \in paused' THEN launches[t] ELSE 0]

-----------------------------------------------------------------------------
(* A readLoop receives a command and answers it *)

\* StartFFmpegPublisher, StopFFmpegPublisher: no decision before the lock.
ReceiveStartStop(c) ==
  /\ \E cm \in Commands \cap {"START", "STOP"} :
       /\ command' = [command EXCEPT ![c] = cm]
       /\ Enter(c, IF cm = "START" THEN "startAll" ELSE "stopAll")
  /\ UNCHANGED <<workerVars, mgrMu, mgrVars, matched, todo, code, historyVars>>

\* Mutant: the matched workers are marked and not collected for the stop.
ReceiveDownMarksOnly(c) ==
  /\ "DOWN" \in Commands
  /\ inited
  /\ \E m \in Matches \ {{}} :
       /\ paused' = paused \cup m
       /\ matched' = [matched EXCEPT ![c] = m]
       /\ todo' = [todo EXCEPT ![c] = {}]
       /\ skipped' = skipped \ m
  /\ command' = [command EXCEPT ![c] = "DOWN"]
  /\ Enter(c, IF Shared THEN "stopAll" ELSE "stopping")
  /\ Recount
  /\ UNCHANGED <<workerVars, mgrMu, inited, known, code>>

\* PauseFFmpegPublisherByURL up to the unlock.  In shared mode the call goes on
\* with a full stop and start, otherwise with a stop of the matched workers.
ReceiveDown(c) ==
  /\ "DOWN" \in Commands
  /\ inited
  /\ \E m \in Matches \ {{}} :
       /\ paused' = paused \cup m
       /\ matched' = [matched EXCEPT ![c] = m]
       /\ todo' = [todo EXCEPT ![c] = IF Shared THEN {} ELSE m \cap known]
       /\ skipped' = skipped \ m
  /\ command' = [command EXCEPT ![c] = "DOWN"]
  /\ Enter(c, IF Shared THEN "stopAll" ELSE "stopping")
  /\ Recount
  /\ UNCHANGED <<workerVars, mgrMu, inited, known, code>>

\* ResumeFFmpegPublisherByURL up to the unlock.
ReceiveUp(c) ==
  /\ "UP" \in Commands
  /\ inited
  /\ \E m \in Matches \ {{}} :
       /\ paused' = paused \ m
       /\ matched' = [matched EXCEPT ![c] = m]
       /\ todo' = [todo EXCEPT ![c] = IF Shared THEN {} ELSE m \cap known]
  /\ command' = [command EXCEPT ![c] = "UP"]
  /\ Enter(c, IF Shared THEN "stopAll" ELSE "resuming")
  /\ Recount
  /\ UNCHANGED <<workerVars, mgrMu, inited, known, code, skipped>>

\* No configured target matches the URL: an error, and nothing changes.
ReceiveUnmatched(c) ==
  /\ ~inited \/ {} \in Matches
  /\ \E cm \in Commands \cap {"DOWN", "UP"} : command' = [command EXCEPT ![c] = cm]
  /\ code' = [code EXCEPT ![c] = 500]
  /\ Enter(c, "reply")
  /\ UNCHANGED <<workerVars, mgrMu, mgrVars, matched, todo, historyVars>>

Receive(c) ==
  /\ c \in Readers
  /\ phase[c] = "idle"
  /\ \/ ReceiveStartStop(c)
     \/ mgrMu = None /\ (ReceiveDown(c) \/ ReceiveUp(c) \/ ReceiveUnmatched(c))
  /\ UNCHANGED mainPc

\* The call has returned; a reader sends NodeMsgRsp and reads on.
Finish(c) ==
  /\ Enter(c, "idle")
  /\ command' = [command EXCEPT ![c] = "none"]
  /\ matched' = [matched EXCEPT ![c] = {}]
  /\ code' = [code EXCEPT ![c] = 0]
  /\ UNCHANGED todo

Reply(c) ==
  /\ c \in Readers
  /\ phase[c] = "reply"
  /\ Finish(c)
  /\ UNCHANGED <<workerVars, mgrMu, mgrVars, mainPc, historyVars>>

-----------------------------------------------------------------------------
(* StartFFmpegPublisher: publisherMgr.mu is held from the first test to the  *)
(* return, and startLocked takes the mutex of one worker after the other.    *)

ActiveTargets == Targets \ paused

StartRejected(c) ==
  /\ ~inited
  /\ code' = [code EXCEPT ![c] = 500]
  /\ Enter(c, "reply")
  /\ UNCHANGED <<workerVars, mgrMu, known, todo>>

\* Every target is paused: nothing to start, no error.
StartNothing(c) ==
  /\ inited
  /\ ActiveTargets = {}
  /\ Enter(c, "reply")
  /\ UNCHANGED <<workerVars, mgrMu, known, todo, code>>

\* Mutant: paused targets are not filtered out.
StartSharedUnfiltered(c) ==
  /\ inited /\ Shared /\ ActiveTargets # {}
  /\ Retarget(SharedKey, Targets)
  /\ known' = known \cup {SharedKey}
  /\ todo' = [todo EXCEPT ![c] = {SharedKey}]
  /\ mgrMu' = c
  /\ Enter(c, "starting")
  /\ UNCHANGED code

StartShared(c) ==
  /\ inited /\ Shared /\ ActiveTargets # {}
  /\ Retarget(SharedKey, ActiveTargets)
  /\ known' = known \cup {SharedKey}
  /\ todo' = [todo EXCEPT ![c] = {SharedKey}]
  /\ mgrMu' = c
  /\ Enter(c, "starting")
  /\ UNCHANGED code

\* Mutant: every worker is replaced by a new one although there is one.
StartPerTargetReplaces(c) ==
  /\ inited /\ ~Shared /\ ActiveTargets # {}
  /\ running' = [w \in Workers |-> running[w] /\ w \in paused]
  /\ known' = known \cup ActiveTargets
  /\ todo' = [todo EXCEPT ![c] = ActiveTargets]
  /\ mgrMu' = c
  /\ Enter(c, "starting")
  /\ UNCHANGED <<run, cmd, targetURLs, chanVars, loopVars, callVars, code>>

StartPerTarget(c) ==
  /\ inited /\ ~Shared /\ ActiveTargets # {}
  /\ known' = known \cup ActiveTargets
  /\ todo' = [todo EXCEPT ![c] = ActiveTargets]
  /\ mgrMu' = c
  /\ Enter(c, "starting")
  /\ UNCHANGED <<workerVars, code>>

BeginStart(c) ==
  /\ phase[c] = "startAll"
  /\ mgrMu = None
  /\ StartRejected(c) \/ StartNothing(c) \/ StartShared(c) \/ StartPerTarget(c)
  /\ UNCHANGED <<inited, paused, mainPc, command, matched, historyVars>>

\* One startLocked; the last one ends the call and its critical section.
StartOne(c) ==
  /\ phase[c] = "starting"
  /\ \E w \in todo[c] :
       /\ StartLocked(w)
       /\ skipped' = IF running[w] THEN skipped ELSE skipped \ {w}
       /\ todo' = [todo EXCEPT ![c] = @ \ {w}]
       /\ IF todo[c] = {w}
          THEN mgrMu' = None /\ Enter(c, "reply")
          ELSE UNCHANGED <<mgrMu, phase>>
  /\ UNCHANGED <<mgrVars, mainPc, command, matched, code, launches>>

\* The loop of ResumeFFmpegPublisherByURL runs without publisherMgr.mu.
ResumeOne(c) ==
  /\ phase[c] = "resuming"
  /\ \E w \in todo[c] :
       /\ StartLocked(w)
       /\ skipped' = IF running[w] THEN skipped ELSE skipped \ {w}
       /\ todo' = [todo EXCEPT ![c] = @ \ {w}]
       /\ IF todo[c] = {w} THEN Enter(c, "reply") ELSE UNCHANGED phase
  /\ UNCHANGED <<mgrMu, mgrVars, mainPc, command, matched, code, launches>>

-----------------------------------------------------------------------------
(* StopFFmpegPublisher, and the stop loop of PauseFFmpegPublisherByURL *)

\* The snapshot of the workers under publisherMgr.mu.
BeginStop(c) ==
  /\ phase[c] = "stopAll"
  /\ mgrMu = None
  /\ todo' = [todo EXCEPT ![c] = known]
  /\ Enter(c, "stopping")
  /\ UNCHANGED <<workerVars, mgrMu, mgrVars, mainPc, command, matched, code, historyVars>>

StopOne(c) ==
  /\ phase[c] = "stopping"
  /\ \E w \in todo[c] :
       /\ StopLocked(c, w)
       /\ todo' = [todo EXCEPT ![c] = @ \ {w}]
  /\ UNCHANGED <<mgrMu, mgrVars, mainPc, phase, command, matched, code, historyVars>>

\* The pause of single targets, whose loop returns on a kill error.
PausesByURL(c) == command[c] = "DOWN" /\ ~Shared

\* close(stopCh) of a run that is already stopped: the reader dies inside the
\* pause and comes to none of the remaining workers.
PausePanics(c) ==
  /\ PausesByURL(c)
  /\ heldRun[c] \in stopClosed
  /\ CloseStop(c)
  /\ skipped' = skipped \cup todo[c]
  /\ UNCHANGED <<mgrMu, mgrVars, mainPc, callerVars, launches>>

StopProceeds(c) ==
  /\ \/ ~(PausesByURL(c) /\ heldRun[c] \in stopClosed) /\ CloseStop(c)
     \/ KillSkipped(c) \/ KillSucceeds(c) \/ KillHitsOther(c)
     \/ ~PausesByURL(c) /\ KillErrorIgnored(c)
     \/ DoneReceived(c) \/ StopTimesOut(c)
  /\ UNCHANGED <<mgrMu, mgrVars, mainPc, callerVars, historyVars>>

\* The remaining matched workers are not visited.
PauseAborts(c) ==
  /\ PausesByURL(c)
  /\ KillErrorReturned(c)
  /\ todo' = [todo EXCEPT ![c] = {}]
  /\ code' = [code EXCEPT ![c] = 500]
  /\ Enter(c, "reply")
  /\ skipped' = skipped \cup todo[c]
  /\ UNCHANGED <<mgrMu, mgrVars, mainPc, command, matched, launches>>

\* All workers visited.  A shared-mode pause or resume goes on with the start.
StopEnds(c) ==
  /\ phase[c] = "stopping"
  /\ stopPc[c] = "idle"
  /\ todo[c] = {}
  /\ Enter(c, IF Shared /\ command[c] \in {"DOWN", "UP"} THEN "startAll" ELSE "reply")
  /\ UNCHANGED <<workerVars, mgrMu, mgrVars, mainPc, command, matched, todo, code, historyVars>>

-----------------------------------------------------------------------------
(* main() *)

\* InitFFmpegPublisher on the empty manager, then the start if it is configured.
Boot ==
  /\ mainPc = "boot"
  /\ mgrMu = None
  /\ inited' = TRUE
  /\ known' = Workers
  /\ IF Shared THEN Retarget(SharedKey, Targets) ELSE UNCHANGED workerVars
  /\ IF PublishOnReady
     THEN mainPc' = "starting" /\ Enter(Main, "startAll")
     ELSE mainPc' = "serving" /\ UNCHANGED phase
  /\ UNCHANGED <<mgrMu, paused, command, matched, todo, code, historyVars>>

Ready ==
  /\ mainPc = "starting"
  /\ phase[Main] = "reply"
  /\ mainPc' = "serving"
  /\ Finish(Main)
  /\ UNCHANGED <<workerVars, mgrMu, mgrVars, historyVars>>

\* SIGINT or SIGTERM: StopFFmpegPublisher.
Signal ==
  /\ Signals
  /\ mainPc = "serving"
  /\ mainPc' = "stopping"
  /\ command' = [command EXCEPT ![Main] = "STOP"]
  /\ Enter(Main, "stopAll")
  /\ UNCHANGED <<workerVars, mgrMu, mgrVars, matched, todo, code, historyVars>>

\* CloseWebsocketMainThread and the return of main: every goroutine is gone,
\* an ffmpeg process that still runs is not.
Exit ==
  /\ mainPc = "stopping"
  /\ phase[Main] = "reply"
  /\ mainPc' = "exited"
  /\ Finish(Main)
  /\ UNCHANGED <<workerVars, mgrMu, mgrVars, historyVars>>

-----------------------------------------------------------------------------
(* The run loops, with isPaused answered by the manager under its mutex.  In *)
(* shared mode the worker asks for the key "__shared__", which is never in   *)
(* paused.                                                                   *)

\* Mutant: the key asked for is never in the map.
IsPausedNever(r) == FALSE

IsPaused(r) == owner[r] \in paused

CountLaunch(t) ==
  launches' = [launches EXCEPT ![t] = IF t \in paused /\ @ < 2 THEN @ + 1 ELSE @]

Loop(r) ==
  /\ \/ /\ mgrMu = None
        /\ LoopTop(r, IsPaused(r)) \/ LoopPost(r, IsPaused(r))
        /\ UNCHANGED launches
     \/ /\ mgrMu = None  \* the layout is read under publisherMgr.mu; what follows up
                         \* to cmd.Start commutes with the steps of a holder
        /\ LaunchSucceeds(r)
        /\ IF owner[r] \in Targets THEN CountLaunch(owner[r]) ELSE UNCHANGED launches
     \/ /\ mgrMu = None
        /\ LaunchFails(r)
        /\ UNCHANGED launches
     \/ /\ \/ LoopSelect(r) \/ Publish(r) \/ WaitReturns(r) \/ LoopPostSelect(r)
           \/ RetryStopped(r) \/ RetryTimer(r) \/ LoopExit(r)
        /\ UNCHANGED launches
  /\ UNCHANGED <<mgrMu, mgrVars, mainPc, callerVars, skipped>>

Process(r) ==
  /\ ProcessStep(r)
  /\ UNCHANGED <<mgrMu, mgrVars, mainPc, callerVars, historyVars>>

\* The program has ended, or every reader has died and no signal comes.
Terminated ==
  /\ \/ ~Up
     \/ ~Signals /\ \A c \in Readers : stopPc[c] = "panicked"
  /\ UNCHANGED vars

CallStep(c) ==
  \/ BeginStart(c) \/ StartOne(c) \/ ResumeOne(c) \/ BeginStop(c) \/ StopOne(c)
  \/ StopProceeds(c) \/ PausePanics(c) \/ PauseAborts(c) \/ StopEnds(c) \/ Reply(c)

MainStep == Boot \/ Ready \/ Exit

Next ==
  \/ /\ Up
     /\ \/ \E c \in Callers : Receive(c) \/ CallStep(c)
        \/ MainStep \/ Signal
        \/ \E r \in Runs : Loop(r) \/ Process(r)
  \/ Terminated

Spec == Init /\ [][Next]_vars

\* Ready goroutines run, timers fire, killed processes die.  sync.Mutex hands
\* itself to a waiter that starves, so the steps that take publisherMgr.mu are
\* strongly fair.  Nothing makes a command or a signal arrive.
Fairness ==
  /\ \A c \in Callers : SF_vars(CallStep(c))
  /\ \A r \in Runs : SF_vars(Loop(r)) /\ WF_vars(Process(r) /\ (MonitorKills(r) \/ MonitorQuits(r)))
  /\ WF_vars(MainStep)

FairSpec == Spec /\ Fairness

-----------------------------------------------------------------------------
(* Properties *)

\* Every variable keeps to its type.
TypeOK ==
  /\ WorkerTypeOK
  /\ mgrMu \in Callers \cup {None}
  /\ inited \in BOOLEAN
  /\ known \subseteq Workers
  /\ paused \subseteq Targets
  /\ mainPc \in {"boot", "starting", "serving", "stopping", "exited"}
  /\ phase \in [Callers -> Phases]
  /\ command \in [Callers -> Commands \cup {"none", "STOP"}]
  /\ matched \in [Callers -> SUBSET Targets]
  /\ todo \in [Callers -> SUBSET Workers]
  /\ code \in [Callers -> {0, 500}]
  /\ launches \in [Targets -> 0 .. 2]
  /\ skipped \subseteq Targets

\* The manager and main are one of the clients FFmpegWorker allows: all that
\* module shows of its workers holds here.
PublisherIsAClient == WorkerSpec

\* A pause that falls between the isPaused test and the launch lets one more
\* process of the target start, and never a second (ffmpeg_worker.go:476, 559).
AtMostOneLatePausedLaunch == \A t \in Targets : launches[t] <= 1

\* Nobody is inside a publisher call: a panic ends the call of its goroutine.
Quiet == \A c \in Callers : phase[c] = "idle" \/ stopPc[c] = "panicked"

\* Between calls no process sends to a paused target, unless a stop that gave
\* up after 5 s or missed the process left it behind (ffmpeg_worker.go:268, 323:
\* the restart in shared mode, the stop loop otherwise), or the pause returned an
\* error or panicked before it came to the target (ffmpeg_worker.go:305, 309).
PausedIsSilent ==
  Quiet => \A r \in Runs :
    Live(r) /\ r \notin stopClosed => output[r] \cap (paused \ skipped) = {}

Succeeds(c, commands) == phase[c] = "reply" /\ command[c] \in commands /\ code[c] = 0

\* The targets a START or an UP is about that nobody has paused.
Wanted(c) == (IF command[c] = "START" THEN Targets ELSE matched[c]) \ paused

\* When a START or an UP of the only reader succeeds, each of its targets has a
\* run that nobody stopped; only two kinds of runs can swallow the start
\* (ffmpeg_worker.go:429): one that an earlier stop had given up on, and one that
\* may be on its way out because it saw a pause which never came to stop it (:309).
StartIsEffective ==
  \A c \in Readers : Succeeds(c, {"START", "UP"}) /\ mainPc = "serving" =>
    \A t \in Wanted(c) :
      \/ running[t] /\ run[t] \notin stopClosed
      \/ run[t] \in gaveUp
      \/ t \in skipped

\* A successful STOP leaves no ffmpeg process.
SuccessMeansStopped ==
  \A c \in Readers : Succeeds(c, {"STOP"}) => \A r \in Runs : ~Live(r)

\* Every command is answered, unless its goroutine panics or the program ends:
\* no stop, start or test of isPaused waits for another forever.
CommandsAreAnswered ==
  \A c \in Readers :
    phase[c] # "idle" ~> (phase[c] = "idle" \/ stopPc[c] = "panicked" \/ ~Up)

\* The shutdown that a signal starts comes to its end.
ShutdownEnds == mainPc = "stopping" ~> ~Up
=============================================================================
