# vpublisher in TLA+

vpublisher is a Go process that keeps one ffmpeg per publishing target alive
and takes its orders from a websocket. These modules model its start, its
concurrent core and its log, and check them with TLC; the safety of every
component, its refinements included, is proved with TLAPS for all values of the
constants, with the exceptions named below. Everything is translated from the
source in `src/`; comments in the modules name the lines.

## The system

| Part | Source | State | Operations | Modelled in |
| --- | --- | --- | --- | --- |
| `ffmpegWorker` | `ws/ffmpeg_worker.go` | `running`, `stopCh`, `doneCh`, `cmd`, `targetURLs` | `startLocked`, `stopLocked`, `runLoop`, `waitRetry`, `monitorStallAndKill`, the stop sequence of its callers | `FFmpegWorker`, which implements `Supervision` |
| `FFmpegManager` and commands | `ws/ffmpeg_worker.go`, `ws/ws_client.go`, `main.go` | `cfg`, `workers`, `paused` | `InitFFmpegPublisher`, `Start-`, `StopFFmpegPublisher`, `Pause-`, `ResumeFFmpegPublisherByURL`, `handleNodeMsgReq`, boot and shutdown | `FFmpegPublisher` |
| Backoff, stall monitor, PTS query | `ws/ffmpeg_worker.go` | `retryDelay`, `retryAttempt`, the monitor's `lastPts`, `lastProgressAt`, `lastPtsFnMs`, `startedAt` | doubling and reset of the delay, the checks of the ticker, what `snapshot` sees | `FFmpegTiming` |
| `ReconnectClient` | `ws/ws_client.go`, `main.go` | `conn`, `stopCh`, `triggerOnce`, `reconnectCh`, `reconnect`, `doneCh`, `wg` | `connect`, `readLoop`, `heartbeatLoop`, `reconnectLoop`, `WebsocketClientThread`, `CloseWebsocketMainThread` | `ReconnectClient` |
| Logger | `tracer/log.go` | `gLogger`, `msgQueue`, `quitCh`, `lastDay`, `logFd` | `InitLog`, `addlog`, `put`, `autoWrite`, `writeLog`, `shutdown` | `Logger`, which implements `LossyLog` |
| Target resolution | `ws/ffmpeg_worker.go`, `main.go` | none | `resolvePublishTargets`, `uniqueNonEmpty`, `shouldUseSharedFFmpeg`, `resolveTargetsLocked` | `FFmpegCommand`, `Startup` |
| ffmpeg command line, probing | `ws/ffmpeg_worker.go` | none | `buildFFmpegCommand`, `resolveDShowDeviceNames` | `FFmpegCommand`, `Startup` |
| Configuration, address resolution | `conf/config.go`, `utils/publish_auth.go` | the configuration | `Load`, `overrideByEnv`, `Validate`, `ResolvePublishURL` | `Startup`, partly |
| Remote log | `tracer/remote.go` | `conn`, `msgQueue`, `isConnected` | never started: `EnableRemoteLog` has no caller | no |
| Protocol messages | `pb3/` | none | generated | no |
| `MsgToMessenger`, `Queue`, `RestartWebsocketMainThread`, `Pause-` and `ResumeFFmpegPublisher` | `ws/` | - | no caller | no |

How they interact: `main` loads the configuration, starts the log, resolves the
URLs to targets, starts the websocket thread, then initialises the manager and,
with `publishOnReady`, starts it. Read loops of the client call the manager
directly, one command at a time each. The manager holds its mutex while it starts
workers and lets it go before it stops them. A run loop asks the manager whether
its target is paused, and builds its command line anew for every launch. On
SIGINT or SIGTERM `main` stops the publisher, closes the client and returns;
goroutines end with it, ffmpeg processes do not. The websocket thread listens for
the same signals on a channel of its own, from before `main` does.

What is hard here:

* starts, stops and pauses of several goroutines overlap with a run loop that
  reads `w.stopCh` and closes `w.doneCh` through the fields of the worker;
* a stop waits 5 s for the run loop and then goes on without it;
* a process exists before `w.cmd` says so and stays in `w.cmd` after it ended,
  and on Windows a kill that fails goes on to `taskkill` with its PID;
* a pause that fails or panics half-way leaves run loops of paused targets that
  nobody stops;
* session loops of the client outlive their session, and read `c.stopCh`,
  `c.conn` and `c.triggerOnce` of the next one;
* the websocket thread accepts commands before the manager is initialised and
  after the publisher has been stopped;
* a logger is replaced while goroutines hold it and its writer changes the file;
* a target is known by its URL, which changes between the configuration, the
  registration and the commands, and a device by a name that changes when it is
  plugged in again.

What makes the parts correct: a worker has one run loop and one process; a stop
is final for the run it stops; a kill never reaches a later process through a
stale pointer; a paused target is silent and a started one is published; a
failing ffmpeg is retried for ever, ever more seldom; a stalled one is killed
and a healthy one is not; every command is answered and the shutdown ends; the
client always has a way to wake its reconnect loop, and forgets no connection; a
log keeps order and loses only what it must; every configured stream is sent
once, under a URL that the server can name, from the devices that were asked
for.

## The modules

### FFmpegWorker and Supervision

A *run* is what one effective `startLocked` creates: `stopCh`, `doneCh` and a
`runLoop`. `run[w]` stands for the two fields that hold the channels,
`stopClosed` and `doneClosed` for the state of the channels, `heldRun[c]` and
`heldCmd[c]` for what `stopLocked` returned to caller `c`. The identity of a run
that nothing refers to any more is used again (`Fresh`), so the state space is
finite without a bound on the number of starts. `cmd[w]` tells a nil pointer, a
pointer to the process the loop waits for, and one to a process that has ended.

`loopPc` follows `runLoop` line by line: the pause test, the look at `stopCh`
and the read of the targets, the launch, the publication in `w.cmd`, the wait,
the second pause test, the second look at `stopCh`, `waitRetry`, the deferred
exit. A launched process is invisible to a stop between `launch` and `publish`.
`stopPc` follows a stop: read under the lock, close, kill, wait for `doneCh` or
5 s. The constant `Faults` says what ffmpeg does wrong. `KillFails` is the kill
of a process that has ended, collected or not: elsewhere it returns an error,
with `Windows` the `taskkill` that follows may succeed, on a PID that is
nobody's ffmpeg or that of another run of this program (`KillHitsOther`, and
`MonitorHitsOther` for a monitor whose tick wins over a closed `procDone`). With
`PromptExit` a stop times out only when the run is behind a process that nobody
killed; without it a stop may time out whenever `doneCh` is open, as on a
machine that is busy.

Starts, stops and the answer of `isPaused` come from any client at any time.

`Supervision` says in six actions what such a worker promises: a process only
while it serves its target, never two, after a stop no launch but the one on its
way, and an end only without a process. `WorkersKeepPromises` is the refinement;
`Serving` and `HasProcess` are the mapping, and the stop that falls on a loop
about to launch is the one that leaves a launch on its way.

### FFmpegPublisher

Extends `FFmpegWorker` with the manager, the callers (`Main` and the readers)
and the life of the process. `phase` is where a caller is in its publisher call,
`todo` the workers its loop has still to visit (in any order, as Go's map
iteration), `mgrMu` who holds `publisherMgr.mu` across steps (only
`StartFFmpegPublisher` does). A pause or resume in shared mode goes on with a
full stop and start; otherwise a pause stops the matched workers and returns on
the first kill error (`PauseAborts`), which `StopFFmpegPublisher` ignores, or
its reader dies of a second close of `stopCh` (`PausePanics`). `Matches` is what
`resolveTargetsLocked` may return; `Startup` has the function itself. Two
history variables serve the properties: `launches` counts the processes of a
target since it was paused, `skipped` holds the targets that a pause marked as
paused and did not come to stop. A caller that panicked is in no call any more
(`Quiet`): the recover of its goroutine has ended it. `PublisherIsAClient` is
the refinement: the workers of this module behave as `WorkerSpec` allows, with
the identity as mapping, since the variables are the same.

### FFmpegTiming

One worker on a clock of seconds with the durations of the code. A goroutine
that can run does so before a second passes (`Urgent`); reports of ffmpeg,
exits and stops come in any order within a second. Ages are kept up to the
bound beyond which no comparison in the code tells them apart (`Oldest`,
`StallTimeout`); `AttemptCap` bounds the attempt where the delay has reached its
maximum, `SilenceCap` the history variable.

A PTS query reads `lastPtsFnMs` and `startedAt`, of which the module keeps whose
they are: nobody's, those of the process that runs, or those of the last one
(`Origins`). The query is two steps, as `snapshot` reads `startedAt` under
`w.mu` and loads `lastPtsFnMs` after it: `QueryReads` and `QueryAnswers`, with
any steps of the worker in between. `Progress` stores only while the process
runs: after `cmd.Wait` the loop waits up to 500 ms for
`trackPtsFromFFmpegProgress` to have read the rest, and a tracker that needs
longer is no goroutine that runs within a second.

### ReconnectClient

A *session* is what `startSessionLoops` creates. `readPc`, `beatPc`, `rcPc` and
`threadPc` follow the four goroutines; every read of `c.stopCh`, `c.conn` or
`c.triggerOnce` is the value at that moment, as in the code, and only the
blocking select of `heartbeatLoop` keeps the channel it has evaluated
(`beatStop`). Sessions and connections are reused like runs. The network may
break a connection at any moment, a write to a broken one may still succeed, a
handler may panic (the double close of a stop does), a dial may fail. `main`
shuts down through `MainCloses` and `MainExits`. A signal goes to every channel
that is registered by then: before the thread has registered its own it kills the
program unless `main` has (`SignalKills`), after that the thread may be the only
one to get it (`SignalDelivered`). The end of the program takes the goroutines
and connections with it (`ProgramEnds`). Where `main` is before its wait no other
goroutine can see, so whether it listens already is decided when the signal comes.

### Logger and LossyLog

The grain is one critical section of `msgQueueMutex`, one channel operation or
one operation on the file. `initPc` follows `InitLog` with the `shutdown` of the
logger it replaces, `writerPc` the goroutine `autoWrite` with `pop_front`,
`writeLog` and `getLoggerFd`; `held` is the logger a goroutine has read from
`gLogger` and will put its message into, perhaps after it was replaced. `today`
advances at any moment, the writer compares days of the month only. With the
fault `open` the file of the day cannot be opened, which panics in `InitLog` and
ends the writer elsewhere; with `write` a message is lost. A message is its
number.

`LossyLog` is what a user of the log may rely on: order, no duplicates, and a
loss only of the oldest message of a full log (or the one behind it, when the
oldest is in the hands of the writer), of a message that cannot be written, or
of those that wait when the log is closed. `LoggersAreLossyLogs` is the
refinement, with `LogState` and `Pending` as mapping.

### FFmpegCommand and Startup

`FFmpegCommand` holds the pure functions: `uniqueNonEmpty`,
`shouldUseSharedFFmpeg`, `resolveTargetsLocked`, the parsing of a DirectShow
input and of a device listing, the choice of a device, the renditions and the
command. A URL is a record of server and path, stream, and who filled in the
credentials; a name a model value, with `Contained` for the substring test and
`Continued` for the prefix test that URLs which do not parse are compared with; a
command a record of what it asks for. `Filter` is `mapKeysInOrder`.

`Startup` is `main` up to the publisher: the file and the environment, `Load`
with its overrides and validation, `resolvePublishTargets` with the credentials
(of the service, or of the secret, which depend on the second), the
announcement, `InitFFmpegPublisher`; then launches, pauses, resumes and devices
that come and go, in any order. `pc` is where `main` is, `failure` why it ended.
Which launches are possible while commands run is the subject of
`FFmpegPublisher`; here a launch is one step and shows what it asks for.
`ConfigAssumption` says what a file and an environment look like: every field is
there, and a URL that is not blank stays so when its credentials are filled in.

### MC modules and proofs

`MCFFmpegWorker`, `MCFFmpegPublisher` and `MCReconnectClient` hold the symmetry
sets, the values of `Matches` and the assumption that there are enough
identities, `MCLogger` the assumption that its instance reaches every case,
`MCStartup` the files, environments and listings. The theorems of a component
stand in its `...Proofs` module; those of the manager are split into
`FFmpegPublisherProofs` (refinement, types, late launches), `PublisherPauseProofs`
and `PublisherStartProofs`, each of which extends the one before. An operator
with "Mutant" in its comment is a plausible mistake in the definition below it,
which the properties are tried against; no action of a specification uses it.

## The runs

| Run | Instance | Shows |
| --- | --- | --- |
| `Worker` | 1 worker, 2 callers, 2 runs, every fault, Windows | one run loop, own channels, `doneCh` means gone, aimed kills, no retry after a stop; the worker implements `Supervision`; stopped runs end, others retry for ever, stalls are killed |
| `Publisher_readers` | 1 target, 2 readers, early exits, stops that time out | at most one launch slips past a pause; the manager is a client of its workers |
| `Publisher_two_targets` | 2 targets, 1 reader, early exits, all four commands, Windows | starts take effect, paused targets are silent, double closes need an abandoned stop |
| `Publisher_shared` | 2 targets in one process, `publishOnReady`, a signal, every fault, Windows | types, paused targets are not sent to |
| `Publisher_live` | 1 target, main and 1 reader, a signal, Windows | every command is answered, the shutdown ends |
| `Client` | 2 sessions, 2 connections, panicking handlers, signals at any time | no connection forgotten, no `stopCh` closed twice, a wake-up is always possible, a signal that finds `main` listening ends the program |
| `Client_live` | 2 sessions, 2 connections | reconnects; a connected client reads again and again |
| `Timing` | the durations of the code | delay follows attempt, only stalled processes are killed, a stall is noticed within 44 s, a process that never progressed does not reset the backoff; a query answers with what was the worker's own at one of its two reads |
| `Logger` | 2 loggers, a queue of 2, 3 messages, 3 midnights in a month of 3 days, every fault | writes go to an open file of the day, the log is a `LossyLog`, `InitLog` returns, the queue drains |
| `Startup` | 140 files, 8 environments, 2 systems, 5 listings | every stream is sent once, URLs name their streams, only credentials fail late, launches do what was configured |
| `Publisher_stop_code`, `Client_readers` | small | find the violations below |

Bounds.

* Workers: two callers are enough to overlap every pair of steps of two stops;
  a run is needed for each worker and for each stop that may still hold an old
  one. The publisher's runs have that many (`EnoughRuns`). `Worker` has two: while
  a stop holds the last run and the fields refer to the next, a start has no
  identity left and waits for the stop, so two stops that hold two old runs beside
  a third one are outside that instance, which is too large with three; the
  proofs hold for any number. Two targets tell "this target"
  from "another target", which is all the per-target code does; `AnyMatch` lets a
  command name none, one or all of them. The shared run and `Worker` have every
  fault, the larger publisher runs only the early exit, which is the fault that
  leaves a stale `w.cmd`. `launches` counts to 2, one more than the property
  allows. The PID of an ended process may belong to any other ffmpeg of the
  instance at once, which is more than an operating system does.
* Client: two sessions are the current one and one old one whose loops live on
  through a reconnect. As long as a loop of the old session runs, its identity is
  taken and a further reconnect waits, so loops of three sessions at once are
  outside the instance. The safety properties hold with three sessions as well
  (1.7 million states); with the signal and its liveness that instance is too
  large for a regular run. Two connections are the current one and the last one.
* Logger: one goroutine logs, since `addlog` is one critical section but for the
  read of `gLogger`; three messages overflow a queue of two; a month of three
  days, in a range of four dates, lets the day of the month come round, and is the
  shortest that tells the file of the day before from the one of a month ago.
* Startup: two URLs, as many as the code has; of the URLs that do not parse, one
  with a query and the same without it; inputs that are a file, a camera, a
  camera with a microphone, or a microphone with an empty video part; listings
  with the device there, one, none or two like it, and one without headings.
  `MaxClock` lets one second pass between the two URLs.

Deadlock is checked in every run. Symmetry is used only where no liveness
property is checked.

Fairness. Goroutines that can run do so, timers fire and a killed process dies:
weak fairness of the steps of the loops and calls (`FairWorkerSpec`, `FairSpec`).
The steps that take `publisherMgr.mu` are strongly fair, since `sync.Mutex` hands
itself over to a starving waiter. In the client a dial that is tried again and
again succeeds at some time and writes to a broken connection fail at some time
(strong fairness of `RcDialSucceeds` and `BeatFails`): without a server nothing
reconnects. `Listens` needs that a select between a closed channel and the
ticker, which picks at random, does not pick the ticker for ever. The shutdown of
the client assumes only that the websocket thread or main runs while one of them
can (`ShutdownSpec`), the log that of its writers and of `InitLog` only. No command,
no signal, no message and no exit of ffmpeg is assumed to come, and nobody has
to log.

## Where the code and its documentation differ

* `Publisher_stop_code`: a STOP between `cmd.Start` and `w.cmd = cmd` finds no
  process to kill, closes `stopCh`, waits 5 s and answers 0
  (`ws/ffmpeg_worker.go:230`). The run loop waits for a process that streams on
  and has no monitor. The protocol calls 0 success (`pb3/mmx.proto:65`).
* `Client_readers`: a read loop that was in a handler during a reconnect finds
  the new `c.stopCh` open and reads from the new connection beside the new read
  loop (`ws/ws_client.go:313`), against the comment at `ws/ws_client.go:87`.

Seen while modelling, without a run of their own:

* On Windows `killProcess` goes on to `taskkill /PID` when `Kill` fails
  (`ws/ffmpeg_worker.go:701`). `Kill` fails on a process that has been collected,
  as `w.cmd` is during the retry delay, whose PID may belong to another process by
  then: a stop may end something else, another target's ffmpeg for one.
  `KillHitsOwnRun` allows this and nothing more.
* During the retry delay `w.cmd` is the exited process; the kill fails and
  `PauseFFmpegPublisherByURL` returns (`ws/ffmpeg_worker.go:309`) before it has
  stopped the other targets the URL matched, against `README.md:13`. Their run
  loops go on to stream until their process ends, see the pause then, and are on
  their way out when the next UP or START comes: `startLocked` swallows it,
  because the run still counts as running. `PausedIsSilent` and
  `StartIsEffective` allow exactly this, through `skipped`.
* A pause may also die half-way. A STOP gives up on the run of one target after
  5 s, a START starts the others again, and a DOWN that matches all of them closes
  the `stopCh` of that run a second time: the reader panics inside the pause, with
  all targets marked as paused and the ones it had not come to still streaming
  (`PausePanics`). Again `skipped` has them.
* An UP after a DOWN whose stop gave up after 5 s is swallowed in the same way
  (`StartIsEffective` allows it through `gaveUp`).
* A query reads `startedAt` under `w.mu` and the PTS after it
  (`ws/ffmpeg_worker.go:455`). When a launch comes between, which resets the PTS,
  it answers with the time since the start of the process before. `PtsAnswerIsOwn`
  says that nothing older can come out.
* A query during the retry delay answers the PTS of the process that has gone,
  and one before the first launch computes `time.Since` of a zero `startedAt`,
  the longest duration there is; as the query takes the maximum over all workers
  (`:75`), one worker that has not launched yet drowns the others.
* A loop of an old session that is between its failed read and
  `triggerReconnect` takes the new `triggerOnce` and the new `c.conn`, and closes
  the new connection (`ws/ws_client.go:253`).
* `startSessionLoops` overwrites a `sync.Once` (`:272`) word by word. A late loop
  of the old session that calls `Do` in that instant may find the new done flag
  and lock a mutex that is zeroed under it; its unlock of a fresh mutex ends the
  program. A call that is inside since before the reconnect cannot meet this:
  `reconnectLoop` sleeps at least a second between the token and the assignment
  (`:459`).
* The websocket thread registers for signals at `ws/ws_client.go:94`, `main` at
  `main.go:71`, after it has initialised the publisher and, with `publishOnReady`,
  started it. A signal in between ends only the thread: `main` serves on, with a
  client that no longer reconnects, until the next signal.
* The select of the websocket thread between the interrupt and `doneCh` may take
  the first, and the program ends without closing the connection
  (`ws/ws_client.go:122`).
* The same URL in both fields becomes two targets, and two processes of one
  stream, when the second of the clock changes between the two resolutions, since
  the credential of the secret contains the time (`main.go:99`).
* A colon in the name of a DirectShow device cuts the name, and a listing without
  its two headings lists nothing, so that a device which was renamed is not found
  again (`ws/ffmpeg_worker.go:898-983`).
* `README.md:37` calls `conf/vpublisher.yml` the default file; `runEnv` falls
  back to `local` (`utils/utils.go:15-45`), so that file is not read.
* `main` returns, or exits, without a shutdown of the log: what is in the queue is
  lost.

## What is proved

For all values of the constants, from the named assumptions of each module only:
every invariant, action property and refinement that a passing run checks. Where a
theorem has a hypothesis of its own it is named here.

**`FFmpegWorkerProofs`.** The inductive invariant is `IInv`; from it follow type
correctness, `OneRunLoop`, `LoopOwnsChannels`, `DoneMeansGone` and the action
properties `KillHitsOwnRun` and `NoRetryAfterStop`. None of these is inductive
alone. That a loop closes its own `doneCh` depends on its worker's fields not
having been replaced, which depends on `running` being true as long as the loop
is there (`LoopHasWorker`), which depends on nobody but the loop resetting it;
the converse (`WorkerHasLoop`) makes a start on a worker that is not running
safe. `ChildPhase` and `CmdPhase` tie the process and every pointer to it to the
program counter of the loop; `MonitorPhase` says that a monitor outlives its
process at most until the retry delay is over; `StopHoldsRun` says that a caller
in a stop holds a real run. `StepInv` proves that each action preserves each
conjunct.

The refinement `PromisesAreKept` maps the steps one by one: `StartRun` to `Start`,
`CloseStop` to `Stop`, `LaunchSucceeds` to `Launch`, a failed launch of a stopped
run to `GiveUp`, `WaitReturns` to `Down`, `LoopExit` to `End`, all others to a
stutter. `IInv` is needed because a step of one run must not change what the
mapping says of another worker: every active run is its worker's only one.

**`FFmpegPublisherProofs`.** Every step of the manager, of its callers and of main
is a step of `WorkerNext` or leaves the worker's variables alone
(`StepIsWorkerStep`), so `Spec => WorkerSpec` (`Refinement`), and the theorems
about workers, `WorkersKeepPromises` among them, hold under the manager. The lemma
`StepVisits` is needed because a stop is a worker's step only for a worker that
exists: callers visit known workers only. `AtMostOneLatePausedLaunch` rests on
`LateLaunches`: the counter of a target is zero while it is not paused, and while
a run of it is between the pause test and the launch. With `OneRunLoop` only one
run can be there.

**`PublisherPauseProofs`.** `PausedIsSilent` speaks of the moments when nobody
is inside a call; `PauseInv` says what holds at all others. A run that sends to
a paused target, or will at its next launch without another look at the pauses
(`WillSend`), is one that some caller is still on its way to stop
(`PausesFollowed`), unless a pause returned or panicked before it came to the
target. Such a caller (`WillStop`) is one of a pause that has not panicked. The
other conjuncts keep that caller on its way: a start holds the manager's mutex
(`StartHoldsMutex`), the shared worker is started with unpaused targets
(`StartFiltersPaused`), a run sends to the target of its worker only
(`OutputOfRun`), and the stop of the shared worker is the last of its caller
(`SharedStopLast`), so that a panic there leaves nothing undone. It holds for
any number of readers, in both modes.

**`PublisherStartProofs`.** Two theorems with hypotheses, because without them the
code makes no such promise:

* `PanicAfterAbandonedStop` assumes one reader and no signal. A second reader (the
  loop of an old session) or the shutdown of main may stop a run that the first
  is stopping, which is the double close that `Client` has as a panicking handler.
* `StartHasEffect` assumes one reader and a process for each target. A signal may
  come: the property ends where main begins to stop. With two readers one may
  stop or pause what the other has just started. The property speaks of the run
  of each target, of which shared mode has none.

The invariant `StartInv` says that what the only reader leaves behind is a stopped
run that it gave up on and nothing else (`StopsAbandoned`, `ClosesOpen`), that a
run of a paused target is stopped, about to be, or skipped (`PausesStopped`), that
nobody starts a paused target (`StartsUnpaused`), and hence that a run on its way
out without a stop belongs to a target that is paused or was skipped
(`ExitsExplained`); so a start that finds a run to be running finds one that goes
on, or one of the exceptions (`WantedServed`).

**`FFmpegTimingProofs`.** Type correctness, `OnlyStalledIsKilled`,
`StallIsNoticed`, `SilentRunKeepsBackoff`, `PtsAnswerIsOwn` and
`DelayMatchesAttempt`, for all durations
with `TimingAssumption` (positive intervals, ordered limits),
`DurationsAssumption` (`stallTimeout + stallCheckInterval - 1` is below
`retryResetAfterRun`; in the code 22 s against 30 s) and `SilenceCapAssumption`
(the history variable counts further than the bound) and `AttemptCapAssumption`
(where the model stops counting attempts the delay has reached `retryDelayMax`; in
the code after six). The monitor's clock restarts
at a check, not at a report, so a bound on the silence needs how far the two can
be apart: `ClockInv` says that progress the monitor has not seen is younger than
`LatestCheck` less the time to the next tick (`UnseenInv`), that otherwise the
silence exceeds `sinceProgress` by at most `LatestCheck` (`SeenInv`), and that
before the first report the clocks agree (`SilentInv`). The answer of a query
rests on `QueryInv`: nothing of an earlier run survives its end, so that what is
not of the process that runs is of the last one, and a query under way has read
what was the worker's own. `BackoffInv` says how far delay and
attempt are apart at each place of the loop: the attempt is counted before the
wait and the delay doubled after it. That `2 ^ (n + 1)` is twice `2 ^ n` is not
built into the provers; `PowerOfTwo` derives it from the number of subsets of a set.

**`ReconnectClientProofs`.** Type correctness, `NoConnForgotten`,
`StopChClosedOnce` and `WakeUpIsPossible`, for any number of sessions and
connections: the instance of the run has two. The thread and `reconnectLoop` both
dial, which is safe because until the thread has started the first loops nothing
can ask for a reconnect (`BeforeLoops`) and whoever dials does so with `c.conn` nil
(`DialsFromNil`). A closed `stopCh` is being replaced or `reconnectLoop` ends
(`StopChOpen`). Of all the loops alive the heartbeat of the current session is the
one that is sure to be there while `reconnectLoop` waits without a token
(`HeartbeatWatches`): a read loop may have died of a panic.

**`LoggerProofs`.** Type correctness, `WritesToTodaysFile` and the refinement of
`LossyLog`, for any number of loggers, callers and messages, any bound of the
queue and any length of the month. `InitLog` closes a file only after its writer
has stopped (`InitLogHolds`); a writer has its file open between two messages and
a message in hand inside `writeLog` (`WriterHolds`); `lastDay` is the day of the
file's date or the one before it (`Dates`), because midnight may fall between the
look at the clock and the opening of the file.

**`StartupProofs`.** `OnlyCredentialsFailLate`, `EveryUrlNamesItsStream`,
`EveryStreamIsSentOnce` and `LaunchesAsConfigured`, for all files, environments,
answers and devices with `StartupAssumption`, `ConfigAssumption` and
`ListingAssumption` (a listing is a sequence of lines). The invariant `Resolved`
keeps, for each number of URLs that have been looked at, which targets there are
and what each became from (`Became`); `Distributed` says how the workers share
them out. The recursive functions over the targets (`UniqueNonEmpty`, `Filter`)
are unfolded for one and for two targets, as many as two URLs give: the lemmas
`UniqueOne` to `FilterTwo` exhibit the function that the definition chooses, and
need no induction. What a launch asks of ffmpeg rests on `Commands` (input and
layout are those asked for, and nothing is launched before there are workers)
and on `ScanFindsListed`: for a listing of any length, the scan of
`parseDShowDevices` ends with the names that stand under each heading. That is
an induction over the lines; the library's theorem takes an operator, so
`SetInduction` states it for sets and `LeastElement` derives it from the
well-foundedness of strict inclusion among finite sets. `ScannedLine` is its
step.

Only model-checked:

* the liveness properties: fairness and `ENABLED` are beyond the provers;
* the two runs that expect a violation, which are counterexamples.

## Not modelled

* `tracer/remote.go`: `EnableRemoteLog` has no caller, so `RemoteLog` never runs.
* `NotificationPack`, `Queue`, `MsgToMessenger` and `RestartWebsocketMainThread`
  have no caller, `chanWebSocket` no reader; `PauseFFmpegPublisher` and
  `ResumeFFmpegPublisher` have no caller. A second `InitFFmpegPublisher`, which
  would remove workers, does not happen.
* `pb3/mmx.pb.go` is generated; a message is a member of a set.
* The choice of the file by `ENV` and `.env`, and the blanks around values, decide
  on strings only.
* `writeMu` and answers as messages: the write of an answer is a part of
  `HandlerReturns`. Nothing in the code compares message numbers, so a repeated
  command is a second command, which `FFmpegPublisher` has.
* `TriggerReconnect` and `StartSessionLoops` are one step each. Of one
  `triggerOnce` a single call gets inside, the token it leaves is the only one,
  and a sleep separates it from the next session; what is left out is the race
  between the words of a `sync.Once` (above).
* Values of a PTS, bit rates and the text of messages.

## Plan

1. The parts of the liveness arguments that are safety: that a measure of the work
   left for a stopped run, or for a shutdown, decreases with every step of it.
2. The bounds of the retry delay as an action property: it doubles or falls back to
   the minimum, and never exceeds the maximum.
