----------------------------- MODULE FFmpegTiming -----------------------------
(***************************************************************************)
(* The clocks of one run of a worker: the backoff of runLoop and waitRetry *)
(* and the stall timeout of monitorStallAndKill, in whole seconds, and     *)
(* what a query of the current PTS answers meanwhile.                      *)
(* Source: src/ws/ffmpeg_worker.go.                                        *)
(*                                                                         *)
(* FFmpegWorker says in which order things happen and has no clock; here   *)
(* the order is plain (one caller; a pause is a stop) and the durations    *)
(* are those of the code.  A goroutine that can run does so before a       *)
(* second passes: see Urgent.  Ages stop at the bound beyond which the     *)
(* code does not tell them apart.                                          *)
(***************************************************************************)
EXTENDS Naturals

CONSTANTS
  RetryMin,       \* retryDelayMin
  RetryMax,       \* retryDelayMax
  ResetAfter,     \* retryResetAfterRun
  CheckInterval,  \* stallCheckInterval
  StallTimeout,   \* stallTimeout
  AttemptCap,     \* bound of retryAttempt: beyond it every delay is RetryMax
  SilenceCap      \* bound of the history variable silence

ASSUME TimingAssumption ==
  /\ RetryMin \in Nat \ {0} /\ RetryMax \in Nat /\ RetryMin <= RetryMax
  /\ ResetAfter \in Nat /\ StallTimeout \in Nat \ {0} /\ CheckInterval \in Nat \ {0}
  /\ AttemptCap \in Nat \ {0} /\ SilenceCap \in Nat

\* At the bound of retryAttempt the doubled delay has reached its limit.
ASSUME AttemptCapAssumption == RetryMin * 2 ^ (AttemptCap - 1) >= RetryMax

\* A check that may judge comes at most this long after the launch.
LatestCheck == StallTimeout + CheckInterval - 1

\* The checks of a silent run end before the run would reset the backoff.
ASSUME DurationsAssumption == LatestCheck < ResetAfter

\* The history is long enough to contradict StallIsNoticed.
ASSUME SilenceCapAssumption == 2 * LatestCheck < SilenceCap

VARIABLES
  phase,         \* where runLoop is; "exited": cmd.Wait has still to return
  stopped,       \* stopCh is closed
  retryDelay,    \* retryDelay
  retryAttempt,  \* retryAttempt, at most AttemptCap
  timer,         \* seconds until the timer of waitRetry fires
  ranFor,        \* time.Since(startedAt), at most Oldest
  watching,      \* monitorStallAndKill runs
  nextCheck,     \* seconds until its ticker ticks
  ptsAdvanced,   \* lastPtsFnMs is greater than the monitor's lastPts
  sinceProgress, \* time.Since(lastProgressAt), at most StallTimeout
  killed,        \* the monitor has killed the process
  lastPtsFnMs,   \* w.lastPtsFnMs: whose report it is, see Origins
  startedAt,     \* w.startedAt: whose launch it is
  asked,         \* what a query has read of startedAt, "no" if none is under way
  launched,      \* history: this run has launched a process
  askedOwn,      \* history: what was the worker's own when that query read it
  progressed,    \* history: this process has reported progress
  silence        \* history: seconds since its last report or its launch, at most SilenceCap

loopVars == <<phase, stopped, retryDelay, retryAttempt, timer>>
monitorVars == <<watching, nextCheck, ptsAdvanced, sinceProgress, killed>>
askVars == <<asked, askedOwn>>
queryVars == <<lastPtsFnMs, startedAt, launched, askVars>>
historyVars == <<progressed, silence>>
vars == <<loopVars, ranFor, monitorVars, queryVars, historyVars>>

\* A value is zero, of the process that runs, of the last one, which has ended,
\* or of one before.
Origins == {"zero", "live", "ended", "older"}

\* The label of a value when the process ends, and when the next run or process
\* begins.
AtExit(origin) == IF origin = "live" THEN "ended" ELSE origin
AtBegin(origin) == IF origin \in {"live", "ended"} THEN "older" ELSE origin

minDuration(a, b) == IF a < b THEN a ELSE b

Oldest == IF ResetAfter > StallTimeout THEN ResetAfter ELSE StallTimeout

Init ==
  /\ phase = "off" /\ stopped = FALSE
  /\ retryDelay = RetryMin /\ retryAttempt = 0 /\ timer = 0
  /\ ranFor = 0
  /\ watching = FALSE /\ nextCheck = 0 /\ ptsAdvanced = FALSE
  /\ sinceProgress = 0 /\ killed = FALSE
  /\ lastPtsFnMs = "zero" /\ startedAt = "zero" /\ launched = FALSE
  /\ asked = "no" /\ askedOwn = "no"
  /\ progressed = FALSE /\ silence = 0

-----------------------------------------------------------------------------
(* runLoop *)

\* startLocked, and the first lines of runLoop.
Start ==
  /\ phase = "off"
  /\ phase' = "top"
  /\ stopped' = FALSE
  /\ retryDelay' = RetryMin
  /\ retryAttempt' = 0
  /\ launched' = FALSE
  /\ asked' = AtBegin(asked) /\ askedOwn' = AtBegin(askedOwn)
  /\ UNCHANGED <<timer, ranFor, monitorVars, lastPtsFnMs, startedAt, historyVars>>

CloseStop ==
  /\ phase # "off"
  /\ stopped' = TRUE
  /\ UNCHANGED <<phase, retryDelay, retryAttempt, timer, ranFor, monitorVars, historyVars, queryVars>>

\* retryAttempt++ and waitRetry with its clamped delay.
WaitRetry(delay, attempt) ==
  /\ phase' = "retry"
  /\ retryDelay' = delay
  /\ retryAttempt' = minDuration(attempt + 1, AttemptCap)
  /\ timer' = IF delay < RetryMin THEN RetryMin ELSE minDuration(delay, RetryMax)

\* StderrPipe, buildFFmpegCommand or cmd.Start fails.
LaunchFails ==
  /\ phase = "top"
  /\ ~stopped
  /\ WaitRetry(retryDelay, retryAttempt)
  /\ UNCHANGED <<stopped, ranFor, monitorVars, historyVars, queryVars>>

\* The process starts, lastPtsFnMs is reset, and the monitor begins.
Launch ==
  /\ phase = "top"
  /\ ~stopped
  /\ phase' = "run"
  /\ ranFor' = 0
  /\ watching' = TRUE
  /\ nextCheck' = CheckInterval
  /\ ptsAdvanced' = FALSE
  /\ sinceProgress' = 0
  /\ killed' = FALSE
  /\ lastPtsFnMs' = "zero"
  /\ startedAt' = "live"
  /\ launched' = TRUE
  /\ asked' = AtBegin(asked) /\ askedOwn' = AtBegin(askedOwn)
  /\ progressed' = FALSE
  /\ silence' = 0
  /\ UNCHANGED <<stopped, retryDelay, retryAttempt, timer>>

\* Labels only: what is known of the process outlives it.
ProcessEnds ==
  /\ lastPtsFnMs' = AtExit(lastPtsFnMs) /\ startedAt' = AtExit(startedAt)
  /\ asked' = AtExit(asked) /\ askedOwn' = AtExit(askedOwn)
  /\ UNCHANGED launched

\* ffmpeg ends by itself or is killed by a stop.
FFmpegExits ==
  /\ phase = "run"
  /\ phase' = "exited"
  /\ ProcessEnds
  /\ UNCHANGED <<stopped, retryDelay, retryAttempt, timer, ranFor, monitorVars, historyVars>>

\* Mutant: the delay is reset and the attempts are counted on.
WaitReturnsKeepsAttempt ==
  /\ phase = "exited"
  /\ ~stopped
  /\ IF ranFor >= ResetAfter
     THEN WaitRetry(RetryMin, retryAttempt)
     ELSE WaitRetry(retryDelay, retryAttempt)
  /\ watching' = FALSE
  /\ UNCHANGED <<stopped, ranFor, nextCheck, ptsAdvanced, sinceProgress, killed, historyVars, queryVars>>

\* cmd.Wait returns and procDone ends the monitor; the loop waits up to 500 ms
\* for trackPtsFromFFmpegProgress, which ends within a second like every
\* goroutine that can run, so no store comes later.  A run that lasted long
\* enough starts the backoff again.
WaitReturns ==
  /\ phase = "exited"
  /\ ~stopped
  /\ IF ranFor >= ResetAfter
     THEN WaitRetry(RetryMin, 0)
     ELSE WaitRetry(retryDelay, retryAttempt)
  /\ watching' = FALSE
  /\ UNCHANGED <<stopped, ranFor, nextCheck, ptsAdvanced, sinceProgress, killed, historyVars, queryVars>>

\* Mutant: the doubled delay has no limit.
RetryFiresUncapped ==
  /\ phase = "retry"
  /\ timer = 0
  /\ phase' = "top"
  /\ retryDelay' = retryDelay * 2
  /\ UNCHANGED <<stopped, retryAttempt, timer, ranFor, monitorVars, historyVars, queryVars>>

\* waitRetry returns true, and the caller doubles the delay.
RetryFires ==
  /\ phase = "retry"
  /\ timer = 0
  /\ phase' = "top"
  /\ retryDelay' = minDuration(retryDelay * 2, RetryMax)
  /\ UNCHANGED <<stopped, retryAttempt, timer, ranFor, monitorVars, historyVars, queryVars>>

\* Mutant: the deferred function leaves the last PTS behind.
LoopEndsKeepsPts ==
  /\ stopped
  /\ phase \in {"top", "exited", "retry"}
  /\ phase' = "off"
  /\ watching' = FALSE
  /\ startedAt' = "zero"
  /\ UNCHANGED <<lastPtsFnMs, launched, askVars, stopped, retryDelay, retryAttempt, timer, ranFor,
                 nextCheck, ptsAdvanced, sinceProgress, killed, historyVars>>

\* Every look at stopCh that ends runLoop, and its deferred function.
LoopEnds ==
  /\ stopped
  /\ phase \in {"top", "exited", "retry"}
  /\ phase' = "off"
  /\ watching' = FALSE
  /\ lastPtsFnMs' = "zero"
  /\ startedAt' = "zero"
  /\ UNCHANGED <<launched, askVars, stopped, retryDelay, retryAttempt, timer, ranFor, nextCheck,
                 ptsAdvanced, sinceProgress, killed, historyVars>>

-----------------------------------------------------------------------------
(* trackPtsFromFFmpegProgress and monitorStallAndKill *)

\* A greater out_time is stored in lastPtsFnMs.
Progress ==
  /\ phase = "run"
  /\ ptsAdvanced' = TRUE
  /\ progressed' = TRUE
  /\ silence' = 0
  /\ lastPtsFnMs' = "live"
  /\ UNCHANGED <<startedAt, launched, askVars, loopVars, ranFor, watching, nextCheck, sinceProgress, killed>>

CheckDue == watching /\ nextCheck = 0

\* Mutant: the wait for progress begins with the first check.
CheckTooEarlyResets ==
  /\ CheckDue
  /\ ranFor < StallTimeout
  /\ nextCheck' = CheckInterval
  /\ sinceProgress' = 0
  /\ UNCHANGED <<loopVars, ranFor, watching, ptsAdvanced, killed, historyVars, queryVars>>

\* No judgement before the process is stallTimeout old.
CheckTooEarly ==
  /\ CheckDue
  /\ ranFor < StallTimeout
  /\ nextCheck' = CheckInterval
  /\ UNCHANGED <<loopVars, ranFor, watching, ptsAdvanced, sinceProgress, killed, historyVars, queryVars>>

\* Mutant: lastProgressAt is not moved.
CheckProgressKeepsTime ==
  /\ CheckDue
  /\ ranFor >= StallTimeout
  /\ ptsAdvanced
  /\ ptsAdvanced' = FALSE
  /\ nextCheck' = CheckInterval
  /\ UNCHANGED <<loopVars, ranFor, watching, sinceProgress, killed, historyVars, queryVars>>

\* Mutant: lastPts is not moved.
CheckProgressKeepsPts ==
  /\ CheckDue
  /\ ranFor >= StallTimeout
  /\ ptsAdvanced
  /\ sinceProgress' = 0
  /\ nextCheck' = CheckInterval
  /\ UNCHANGED <<loopVars, ranFor, watching, ptsAdvanced, killed, historyVars, queryVars>>

\* lastPts = curPts, lastProgressAt = now.
CheckProgress ==
  /\ CheckDue
  /\ ranFor >= StallTimeout
  /\ ptsAdvanced
  /\ ptsAdvanced' = FALSE
  /\ sinceProgress' = 0
  /\ nextCheck' = CheckInterval
  /\ UNCHANGED <<loopVars, ranFor, watching, killed, historyVars, queryVars>>

CheckWaits ==
  /\ CheckDue
  /\ ranFor >= StallTimeout
  /\ ~ptsAdvanced
  /\ sinceProgress < StallTimeout
  /\ nextCheck' = CheckInterval
  /\ UNCHANGED <<loopVars, ranFor, watching, ptsAdvanced, sinceProgress, killed, historyVars, queryVars>>

\* killProcess, and the end of the monitor.
CheckKills ==
  /\ CheckDue
  /\ ranFor >= StallTimeout
  /\ ~ptsAdvanced
  /\ sinceProgress >= StallTimeout
  /\ phase' = "exited"
  /\ killed' = TRUE
  /\ watching' = FALSE
  /\ ProcessEnds
  /\ UNCHANGED <<stopped, retryDelay, retryAttempt, timer, ranFor, nextCheck, ptsAdvanced,
                 sinceProgress, historyVars>>

MonitorQuits ==
  /\ watching
  /\ stopped
  /\ watching' = FALSE
  /\ UNCHANGED <<loopVars, ranFor, nextCheck, ptsAdvanced, sinceProgress, killed, historyVars, queryVars>>

-----------------------------------------------------------------------------
(* GetCurrentEncodingPtsFnMs and snapshot *)

\* Whose PTS or running time a query may give: of the process that runs, between
\* two processes of the last one, and of none only before the first launch.
Own == IF phase = "run" THEN "live" ELSE IF launched THEN "ended" ELSE "zero"

\* snapshot finds the worker running and reads startedAt, and leaves w.mu.
QueryReads ==
  /\ phase # "off"
  /\ asked = "no"
  /\ asked' = startedAt
  /\ askedOwn' = Own
  /\ UNCHANGED <<loopVars, ranFor, monitorVars, historyVars, lastPtsFnMs, startedAt, launched>>

\* What the query under way answers: the PTS it would load now, or else the time
\* since the startedAt it has read (of a zero one, the longest there is).
Answer == IF lastPtsFnMs # "zero" THEN lastPtsFnMs ELSE asked

\* lastPtsFnMs is loaded without w.mu, and the query is answered.
QueryAnswers ==
  /\ asked # "no"
  /\ asked' = "no" /\ askedOwn' = "no"
  /\ UNCHANGED <<loopVars, ranFor, monitorVars, historyVars, lastPtsFnMs, startedAt, launched>>

-----------------------------------------------------------------------------
\* Something is due that does not wait for the clock.
Urgent ==
  \/ phase \in {"top", "exited"}
  \/ phase = "retry" /\ (timer = 0 \/ stopped)
  \/ CheckDue
  \/ watching /\ stopped
  \/ asked # "no"

Older(age, bound) == minDuration(age + 1, bound)

\* One second passes.
Second ==
  /\ phase \in {"run", "retry"}
  /\ ~Urgent
  /\ timer' = IF phase = "retry" THEN timer - 1 ELSE timer
  /\ IF phase = "run"
     THEN /\ ranFor' = Older(ranFor, Oldest)
          /\ silence' = Older(silence, SilenceCap)
          /\ nextCheck' = IF watching THEN nextCheck - 1 ELSE nextCheck
          /\ sinceProgress' = Older(sinceProgress, StallTimeout)
     ELSE UNCHANGED <<ranFor, silence, nextCheck, sinceProgress>>
  /\ UNCHANGED <<phase, stopped, retryDelay, retryAttempt, watching, ptsAdvanced, killed,
                 progressed, queryVars>>

Next ==
  \/ Start \/ CloseStop \/ LaunchFails \/ Launch \/ FFmpegExits \/ WaitReturns \/ RetryFires
  \/ LoopEnds \/ Progress \/ CheckTooEarly \/ CheckProgress \/ CheckWaits \/ CheckKills
  \/ MonitorQuits \/ QueryReads \/ QueryAnswers \/ Second

Spec == Init /\ [][Next]_vars

-----------------------------------------------------------------------------
(* Properties *)

QueryTypeOK ==
  /\ lastPtsFnMs \in Origins /\ startedAt \in Origins /\ launched \in BOOLEAN
  /\ asked \in Origins \cup {"no"} /\ askedOwn \in Origins \cup {"no"}

\* Every variable keeps to its type; delays stay between the two limits.
TimingTypeOK ==
  /\ phase \in {"off", "top", "run", "exited", "retry"}
  /\ stopped \in BOOLEAN
  /\ retryDelay \in RetryMin .. RetryMax
  /\ retryAttempt \in 0 .. AttemptCap
  /\ timer \in 0 .. RetryMax
  /\ ranFor \in 0 .. Oldest
  /\ watching \in BOOLEAN
  /\ nextCheck \in 0 .. CheckInterval
  /\ ptsAdvanced \in BOOLEAN
  /\ sinceProgress \in 0 .. StallTimeout
  /\ killed \in BOOLEAN
  /\ QueryTypeOK
  /\ progressed \in BOOLEAN
  /\ silence \in 0 .. SilenceCap

\* The delay before attempt n is retryDelayMin * 2^(n-1), capped: delay and
\* attempt, which change on five paths, never come apart (ffmpeg_worker.go:505,
\* 516, 526, 555, 572).
DelayMatchesAttempt ==
  phase = "retry" =>
    retryDelay = minDuration(RetryMin * 2 ^ (retryAttempt - 1), RetryMax)

\* The monitor kills no process that reported progress within stallTimeout
\* (ffmpeg_worker.go:624, 630).
OnlyStalledIsKilled == killed /\ phase = "exited" => silence >= StallTimeout

\* A stall is noticed, at the latest when progress before the first check that
\* may judge is counted as progress at that check (ffmpeg_worker.go:619, 626).
StallIsNoticed == phase = "run" /\ watching => silence <= 2 * LatestCheck

\* A process that never made progress is killed before it has run for
\* retryResetAfterRun: it cannot reset the backoff, and is retried ever more
\* seldom (ffmpeg_worker.go:554, 619).
SilentRunKeepsBackoff ==
  phase = "exited" /\ killed /\ ~progressed => ranFor < ResetAfter

\* Whenever a PTS query loads the PTS, it answers with a value that is the
\* worker's own then, or was so when the query read startedAt: never with a value
\* of an earlier run or process that was already gone (ffmpeg_worker.go:78, 452,
\* 464, 531).  That the answer is the worker's own when it is given does not hold:
\* a query that reads startedAt before a launch and the PTS after it answers with
\* the time of the process before (ffmpeg_worker.go:455, 534).
PtsAnswerIsOwn == asked # "no" => Answer \in {Own, askedOwn}

-----------------------------------------------------------------------------
(* The inductive invariant of the proofs in FFmpegTimingProofs *)

\* A kill, as long as the loop has not taken the end of the process.
KillInv ==
  /\ phase = "run" => ~killed
  /\ killed /\ phase = "exited" =>
       silence >= StallTimeout /\ (~progressed => ranFor < ResetAfter)

\* Progress the monitor has not seen is younger than the next check allows.
UnseenInv == ptsAdvanced => silence + nextCheck <= LatestCheck

\* Without such progress, the monitor's own clock runs behind the true one, by
\* no more than one LatestCheck.
SeenInv ==
  ~ptsAdvanced =>
    /\ sinceProgress <= silence
    /\ sinceProgress < StallTimeout => silence <= LatestCheck + sinceProgress
    /\ silence + nextCheck <= 2 * LatestCheck

\* Before the first report the two clocks agree.
SilentInv ==
  ~progressed =>
    /\ ~ptsAdvanced
    /\ ranFor + nextCheck <= LatestCheck
    /\ sinceProgress = minDuration(ranFor, StallTimeout)

\* What ties the clocks of the run, of the monitor and of the process together
\* while the monitor runs, and when it has killed (ffmpeg_worker.go:603-637).
ClockInv ==
  /\ KillInv
  /\ watching =>
       /\ phase \in {"run", "exited"}
       /\ ranFor < StallTimeout => silence <= ranFor
       /\ UnseenInv /\ SeenInv /\ SilentInv

\* What a run knows of its processes: nothing before the first launch, nothing
\* of any but the last one after it, and nothing remains when it ends.  A query
\* has read what was the worker's own.
QueryInv ==
  /\ IF phase # "off" /\ launched
     THEN startedAt = Own /\ lastPtsFnMs \in {"zero", Own}
     ELSE startedAt = "zero" /\ lastPtsFnMs = "zero" /\ phase # "run"
  /\ asked = askedOwn

\* The delay after n retries of one backoff.
DelayAfter(n) == minDuration(RetryMin * 2 ^ n, RetryMax)

\* waitRetry counts the attempt before it waits, and its caller doubles the delay
\* after the wait: between the two the attempt is one ahead of the delay.
BackoffInv ==
  /\ phase = "retry" => retryAttempt > 0 /\ retryDelay = DelayAfter(retryAttempt - 1)
  /\ phase \in {"top", "run", "exited"} => retryDelay = DelayAfter(retryAttempt)
=============================================================================
