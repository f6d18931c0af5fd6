------------------------------- MODULE Logger -------------------------------
(***************************************************************************)
(* The file log: goroutines put messages into the queue of the current     *)
(* logger, its writer goroutine takes them out and appends them to the     *)
(* file of the day, and InitLog replaces the logger.                       *)
(* Source: src/tracer/log.go, routine.go, debug.go.                        *)
(*                                                                         *)
(* main calls InitLog once, the tests call it again and again; nobody      *)
(* closes the last logger.  A message is its number; what it says and the  *)
(* copy on the console are left out, and so is the remote log, which       *)
(* nobody enables.                                                         *)
(***************************************************************************)
EXTENDS Naturals, Sequences

CONSTANTS
  Callers,      \* goroutines that log
  Loggers,      \* identities of loggers: bounds the calls of InitLog
  None,         \* no logger: gLogger is nil
  MaxQueue,     \* max_local_queue_size
  MaxMessages,  \* bound of the messages put
  MonthDays,    \* days of a month; a logger looks at the day of the month only
  LastDate,     \* bound of the dates
  Faults        \* what the file system refuses: "open", "write"

ASSUME LoggerAssumption ==
  /\ None \notin Loggers
  /\ MaxQueue \in Nat \ {0} /\ MaxMessages \in Nat
  /\ MonthDays \in Nat \ {0} /\ LastDate \in Nat
  /\ Faults \subseteq {"open", "write"}

VARIABLES
  today,     \* the date
  gLogger,   \* the global logger
  initPc,    \* where InitLog is; initMu admits one at a time
  fresh,     \* nl of InitLog
  old,       \* old of InitLog
  held,      \* the logger a caller has read from gLogger and will put into
  puts,      \* messages put so far, the number of the last one
  msgQueue,  \* msgQueue of every logger
  quit,      \* loggers whose quitCh is closed
  writerPc,  \* where autoWrite is; "stopped": it has ended and closed stoppedCh
  taken,     \* the message the writer has popped
  began,     \* the date writeLog has read; 0 outside of it
  lastDay,   \* lastDay, a day of the month; 0 before the first write
  logFd,     \* logFd: "nil", "open" or "closed"
  fileDate,  \* the date in the name of the file
  file       \* what the writer has appended, to whatever file

clockVars  == <<today>>
initVars   == <<gLogger, initPc, fresh, old>>
putVars    == <<held, puts>>
writerVars == <<writerPc, taken, began, lastDay>>
fileVars   == <<logFd, fileDate, file>>
vars == <<today, gLogger, initPc, fresh, old, held, puts, msgQueue, quit,
          writerPc, taken, began, lastDay, logFd, fileDate, file>>

InitPcs   == {"idle", "swap", "quit", "await", "close", "panicked"}
WriterPcs == {"none", "look", "pop", "write", "reopen", "append", "stopped"}

Messages == 1..MaxMessages
NoMessage == 0
DayOfMonth(date) == 1 + (date % MonthDays)

Init ==
  /\ today = 0
  /\ gLogger = None /\ initPc = "idle" /\ fresh = None /\ old = None
  /\ held = [c \in Callers |-> None] /\ puts = 0
  /\ msgQueue = [l \in Loggers |-> <<>>]
  /\ quit = {}
  /\ writerPc = [l \in Loggers |-> "none"]
  /\ taken = [l \in Loggers |-> NoMessage]
  /\ began = [l \in Loggers |-> 0]
  /\ lastDay = [l \in Loggers |-> 0]
  /\ logFd = [l \in Loggers |-> "nil"]
  /\ fileDate = [l \in Loggers |-> 0]
  /\ file = [l \in Loggers |-> <<>>]

\* The process lives: a panic in InitLog is caught by nobody.
Alive == initPc # "panicked"

\* At most one midnight falls into a change of the file.
Midnight ==
  /\ Alive
  /\ today < LastDate
  /\ \A l \in Loggers : writerPc[l] = "reopen" => began[l] = today
  /\ today' = today + 1
  /\ UNCHANGED <<initVars, putVars, msgQueue, quit, writerVars, fileVars>>

-----------------------------------------------------------------------------
(* InitLog *)

Unused == {l \in Loggers : writerPc[l] = "none"}

\* newLogger and start: the file of the day is open and autoWrite runs.
InitLog(l) ==
  /\ initPc = "idle"
  /\ l \in Unused
  /\ initPc' = "swap"
  /\ old' = gLogger
  /\ fresh' = l
  /\ logFd' = [logFd EXCEPT ![l] = "open"]
  /\ fileDate' = [fileDate EXCEPT ![l] = today]
  /\ writerPc' = [writerPc EXCEPT ![l] = "look"]
  /\ UNCHANGED <<clockVars, gLogger, putVars, msgQueue, quit, taken, began, lastDay, file>>

\* getLoggerFd panics under InitLog.
InitLogPanics ==
  /\ "open" \in Faults
  /\ initPc = "idle"
  /\ Unused # {}
  /\ initPc' = "panicked"
  /\ UNCHANGED <<clockVars, gLogger, fresh, old, putVars, msgQueue, quit, writerVars, fileVars>>

\* gLogger = nl.
Swap ==
  /\ initPc = "swap"
  /\ gLogger' = fresh
  /\ fresh' = None
  /\ initPc' = IF old = None THEN "idle" ELSE "quit"
  /\ UNCHANGED <<clockVars, old, putVars, msgQueue, quit, writerVars, fileVars>>

\* shutdown of the old logger: close(quitCh), ...
ShutdownQuits ==
  /\ initPc = "quit"
  /\ quit' = quit \cup {old}
  /\ initPc' = "await"
  /\ UNCHANGED <<clockVars, gLogger, fresh, old, putVars, msgQueue, writerVars, fileVars>>

\* Mutant: the shutdown does not wait for the writer.
ShutdownHurries ==
  /\ initPc = "await"
  /\ initPc' = "close"
  /\ UNCHANGED <<clockVars, gLogger, fresh, old, putVars, msgQueue, quit, writerVars, fileVars>>

\* ... wait for stoppedCh, ...
ShutdownAwaits ==
  /\ initPc = "await"
  /\ writerPc[old] = "stopped"
  /\ initPc' = "close"
  /\ UNCHANGED <<clockVars, gLogger, fresh, old, putVars, msgQueue, quit, writerVars, fileVars>>

\* ... and close the file, if there is one.
ShutdownCloses ==
  /\ initPc = "close"
  /\ logFd' = [logFd EXCEPT ![old] = "nil"]
  /\ old' = None
  /\ initPc' = "idle"
  /\ UNCHANGED <<clockVars, gLogger, fresh, putVars, msgQueue, quit, writerVars, fileDate, file>>

-----------------------------------------------------------------------------
(* Logging *)

\* LogInfo and the like: the receiver of addlog is read here, and the logger
\* may be replaced before the message is put.
ReadLogger(c) ==
  /\ Alive
  /\ gLogger # None
  /\ held[c] = None
  /\ held' = [held EXCEPT ![c] = gLogger]
  /\ UNCHANGED <<clockVars, initVars, puts, msgQueue, quit, writerVars, fileVars>>

\* addlog of a message above starLev.
Filtered == Alive /\ gLogger # None /\ UNCHANGED vars

\* Mutant: the test of the length is forgotten.
BoundedNever(queue) == queue

\* The queue without its oldest message when it has grown too long.
Bounded(queue) == IF Len(queue) > MaxQueue THEN Tail(queue) ELSE queue

\* addlog and put: the critical section of msgQueueMutex.
Put(c) ==
  /\ Alive
  /\ held[c] # None
  /\ puts < MaxMessages
  /\ puts' = puts + 1
  /\ msgQueue' = [msgQueue EXCEPT ![held[c]] = Bounded(Append(@, puts + 1))]
  /\ held' = [held EXCEPT ![c] = None]
  /\ UNCHANGED <<clockVars, initVars, quit, writerVars, fileVars>>

-----------------------------------------------------------------------------
(* autoWrite *)

WriterGoto(l, pc) == writerPc' = [writerPc EXCEPT ![l] = pc]

\* The look at quitCh: the loop ends whatever is left in the queue, and the
\* deferred call closes stoppedCh.
Look(l) ==
  /\ writerPc[l] = "look"
  /\ WriterGoto(l, IF l \in quit THEN "stopped" ELSE "pop")
  /\ UNCHANGED <<clockVars, initVars, putVars, msgQueue, quit, taken, began, lastDay, fileVars>>

\* Mutant: the loop ends when there is nothing to write.
PopEmptyReturns(l) ==
  /\ writerPc[l] = "pop"
  /\ msgQueue[l] = <<>>
  /\ WriterGoto(l, "stopped")
  /\ UNCHANGED <<clockVars, initVars, putVars, msgQueue, quit, taken, began, lastDay, fileVars>>

\* pop_front finds nothing: sleep 100 ms and look again.
PopEmpty(l) ==
  /\ writerPc[l] = "pop"
  /\ msgQueue[l] = <<>>
  /\ WriterGoto(l, "look")
  /\ UNCHANGED <<clockVars, initVars, putVars, msgQueue, quit, taken, began, lastDay, fileVars>>

\* Mutant: the message stays in the queue.
PopFrontPeeks(l) ==
  /\ writerPc[l] = "pop"
  /\ msgQueue[l] # <<>>
  /\ taken' = [taken EXCEPT ![l] = Head(msgQueue[l])]
  /\ WriterGoto(l, "write")
  /\ UNCHANGED <<clockVars, initVars, putVars, msgQueue, quit, began, lastDay, fileVars>>

PopFront(l) ==
  /\ writerPc[l] = "pop"
  /\ msgQueue[l] # <<>>
  /\ taken' = [taken EXCEPT ![l] = Head(msgQueue[l])]
  /\ msgQueue' = [msgQueue EXCEPT ![l] = Tail(@)]
  /\ WriterGoto(l, "write")
  /\ UNCHANGED <<clockVars, initVars, putVars, quit, began, lastDay, fileVars>>

\* Mutant: only the first write opens a file of the day.
SameDayOnceOpened(l) ==
  /\ writerPc[l] = "write"
  /\ lastDay[l] # 0
  /\ began' = [began EXCEPT ![l] = today]
  /\ WriterGoto(l, "append")
  /\ UNCHANGED <<clockVars, initVars, putVars, msgQueue, quit, taken, lastDay, fileVars>>

\* writeLog on the day of the last write.
SameDay(l) ==
  /\ writerPc[l] = "write"
  /\ lastDay[l] = DayOfMonth(today)
  /\ began' = [began EXCEPT ![l] = today]
  /\ WriterGoto(l, "append")
  /\ UNCHANGED <<clockVars, initVars, putVars, msgQueue, quit, taken, lastDay, fileVars>>

\* writeLog on another day, or for the first time: the file is closed, ...
CloseOldFile(l) ==
  /\ writerPc[l] = "write"
  /\ lastDay[l] # DayOfMonth(today)
  /\ began' = [began EXCEPT ![l] = today]
  /\ logFd' = [logFd EXCEPT ![l] = "closed"]
  /\ WriterGoto(l, "reopen")
  /\ UNCHANGED <<clockVars, initVars, putVars, msgQueue, quit, taken, lastDay, fileDate, file>>

\* ... and getLoggerFd opens the one of the date it reads itself.
OpenNewFile(l) ==
  /\ writerPc[l] = "reopen"
  /\ logFd' = [logFd EXCEPT ![l] = "open"]
  /\ fileDate' = [fileDate EXCEPT ![l] = today]
  /\ lastDay' = [lastDay EXCEPT ![l] = DayOfMonth(began[l])]
  /\ WriterGoto(l, "append")
  /\ UNCHANGED <<clockVars, initVars, putVars, msgQueue, quit, taken, began, file>>

\* Mutant: stoppedCh is closed after the loop and not by a deferred call.
OpenPanicsForGood(l) ==
  /\ "open" \in Faults
  /\ writerPc[l] = "reopen"
  /\ logFd' = [logFd EXCEPT ![l] = "nil"]
  /\ taken' = [taken EXCEPT ![l] = NoMessage]
  /\ began' = [began EXCEPT ![l] = 0]
  /\ WriterGoto(l, "none")
  /\ UNCHANGED <<clockVars, initVars, putVars, msgQueue, quit, lastDay, fileDate, file>>

\* getLoggerFd leaves a nil logFd and panics: the deferred call closes stoppedCh
\* and TryException ends the goroutine.
OpenPanics(l) ==
  /\ "open" \in Faults
  /\ writerPc[l] = "reopen"
  /\ logFd' = [logFd EXCEPT ![l] = "nil"]
  /\ taken' = [taken EXCEPT ![l] = NoMessage]
  /\ began' = [began EXCEPT ![l] = 0]
  /\ WriterGoto(l, "stopped")
  /\ UNCHANGED <<clockVars, initVars, putVars, msgQueue, quit, lastDay, fileDate, file>>

AppendToFile(l) ==
  /\ writerPc[l] = "append"
  /\ file' = [file EXCEPT ![l] = Append(@, taken[l])]
  /\ taken' = [taken EXCEPT ![l] = NoMessage]
  /\ began' = [began EXCEPT ![l] = 0]
  /\ WriterGoto(l, "look")
  /\ UNCHANGED <<clockVars, initVars, putVars, msgQueue, quit, lastDay, logFd, fileDate>>

\* The write error is printed and the message forgotten.
AppendFails(l) ==
  /\ "write" \in Faults
  /\ writerPc[l] = "append"
  /\ taken' = [taken EXCEPT ![l] = NoMessage]
  /\ began' = [began EXCEPT ![l] = 0]
  /\ WriterGoto(l, "look")
  /\ UNCHANGED <<clockVars, initVars, putVars, msgQueue, quit, lastDay, fileVars>>

-----------------------------------------------------------------------------
InitStep == Swap \/ ShutdownQuits \/ ShutdownAwaits \/ ShutdownCloses

WriterStep(l) ==
  /\ Alive
  /\ \/ Look(l) \/ PopEmpty(l) \/ PopFront(l) \/ SameDay(l) \/ CloseOldFile(l)
     \/ OpenNewFile(l) \/ OpenPanics(l) \/ AppendToFile(l) \/ AppendFails(l)

\* After a panic of InitLog the process is gone.
Crashed == ~Alive /\ UNCHANGED vars

Next ==
  \/ Midnight
  \/ Unused # {} /\ InitLog(CHOOSE l \in Unused : TRUE)
  \/ \E l \in Loggers : WriterStep(l)
  \/ InitLogPanics
  \/ InitStep
  \/ \E c \in Callers : ReadLogger(c) \/ Put(c)
  \/ Filtered
  \/ Crashed

Spec == Init /\ [][Next]_vars

\* The goroutines of the writers and of InitLog run; nobody has to log.
Fairness == WF_vars(InitStep) /\ \A l \in Loggers : WF_vars(WriterStep(l))

FairSpec == Spec /\ Fairness

-----------------------------------------------------------------------------
(* Properties *)

\* Every variable keeps to its type; no queue is longer than its bound.
LoggerTypeOK ==
  /\ today \in 0..LastDate
  /\ gLogger \in Loggers \cup {None}
  /\ initPc \in InitPcs
  /\ fresh \in Loggers \cup {None} /\ old \in Loggers \cup {None}
  /\ held \in [Callers -> Loggers \cup {None}]
  /\ puts \in 0..MaxMessages
  /\ msgQueue \in [Loggers -> Seq(Messages)]
  /\ \A l \in Loggers : Len(msgQueue[l]) <= MaxQueue
  /\ quit \subseteq Loggers
  /\ writerPc \in [Loggers -> WriterPcs]
  /\ taken \in [Loggers -> Messages \cup {NoMessage}]
  /\ began \in [Loggers -> 0..LastDate]
  /\ lastDay \in [Loggers -> 0..MonthDays]
  /\ logFd \in [Loggers -> {"nil", "open", "closed"}]
  /\ fileDate \in [Loggers -> 0..LastDate]
  /\ file \in [Loggers -> Seq(Messages)]

\* The writer appends to an open file, however InitLog and the writer
\* interleave (log.go:210), and the file is that of the day on which writeLog
\* began or of a later one, unless nothing was written for about a month: the
\* day of the month alone tells the writer to change the file (log.go:221).
WritesToTodaysFile ==
  \A l \in Loggers : writerPc[l] = "append" =>
    /\ logFd[l] = "open"
    /\ fileDate[l] < began[l] => began[l] - fileDate[l] >= MonthDays - 1

\* A call of InitLog returns, even when the old writer has died of a panic
\* (log.go:191, 210).
InitLogReturns == initPc \in {"swap", "quit", "await", "close"} ~> initPc = "idle"

InHand(l) == IF taken[l] = NoMessage THEN <<>> ELSE <<taken[l]>>
Pending(l) == InHand(l) \o msgQueue[l]

\* Message m waits in a log that is neither shut down nor without a file.
Waits(m) == \E l \in Loggers :
  /\ Alive
  /\ l \notin quit
  /\ logFd[l] # "nil"
  /\ \E i \in DOMAIN Pending(l) : Pending(l)[i] = m

\* A message does not wait for ever: it is written, fails or is pushed out,
\* unless its logger is shut down or its writer could not open a file
\* (log.go:190-205).
QueueDrains == \A m \in Messages : Waits(m) ~> ~Waits(m)

\* What LossyLog calls the state of a log.
LogState(l) ==
  CASE writerPc[l] = "none" -> "unopened"
    [] writerPc[l] = "stopped" -> "closed"
    [] OTHER -> "open"

Log == INSTANCE LossyLog WITH
  Logs <- Loggers, Capacity <- MaxQueue, offered <- puts,
  state <- [l \in Loggers |-> LogState(l)],
  pending <- [l \in Loggers |-> Pending(l)],
  written <- file

\* Every logger is a LossyLog: order, no duplicates, and no loss but the ones
\* it admits (log.go:474-500).
LoggersAreLossyLogs == Log!Spec
=============================================================================
