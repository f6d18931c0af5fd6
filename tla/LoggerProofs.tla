---------------------------- MODULE LoggerProofs ----------------------------
(***************************************************************************)
(* Logger keeps its types, writes to the file of the day and implements    *)
(* LossyLog, for every number of callers, of loggers, of messages and for  *)
(* every bound of the queue and length of the month.                       *)
(*                                                                         *)
(* What makes the properties inductive: InitLog closes the file of a       *)
(* logger only after the writer has stopped (InitLogHolds), a writer has   *)
(* its file open whenever it is between two messages and its hand full     *)
(* whenever it is inside writeLog (WriterHolds), and lastDay is the day of *)
(* the file's date or the day before it (Dates), because one midnight may  *)
(* fall between the read of the day and the opening of the file.           *)
(***************************************************************************)
EXTENDS Logger, TLAPS, SequenceTheorems

\* Dates of the same day of the month are equal or a month apart.
LEMMA ModGap ==
  ASSUME NEW m \in Nat \ {0}, NEW a \in Nat, NEW b \in Nat, a % m = b % m, a < b
  PROVE  b - a >= m
BY SMTT(30)

\* A day of the month differs from the 0 of a logger that has written nothing.
LEMMA DayIsPositive ==
  ASSUME NEW date \in Nat
  PROVE  DayOfMonth(date) \in 1..MonthDays
BY LoggerAssumption DEF DayOfMonth

\* A logger that InitLog has started.
Started(l) == l \in Loggers /\ writerPc[l] # "none"

\* Whatever InitLog or a caller holds has been started, and the file is closed after the
\* writer has stopped.
InitLogHolds ==
  /\ initPc = "swap" => Started(fresh)
  /\ initPc \in {"quit", "await", "close"} => old \in Loggers
  /\ initPc = "close" => writerPc[old] = "stopped"
  /\ gLogger # None => Started(gLogger)
  /\ fresh # None => Started(fresh)
  /\ old # None => Started(old)
  /\ \A c \in Callers : held[c] # None => Started(held[c])

\* What the writer has in hand and whether its file is open, by its pc.
WriterHolds == \A l \in Loggers :
  /\ writerPc[l] = "none" => lastDay[l] = 0
  /\ writerPc[l] \in {"write", "reopen", "append"} <=> taken[l] # NoMessage
  /\ writerPc[l] \in {"look", "pop", "write", "append"} => logFd[l] = "open"

\* The day of the month of a date or of the day before it.
Near(day, date) == day = DayOfMonth(date) \/ (date > 0 /\ day = DayOfMonth(date - 1))

\* The file is named for a day that has come, lastDay is near it.
Dates == \A l \in Loggers :
  /\ fileDate[l] <= today
  /\ lastDay[l] # 0 => Near(lastDay[l], fileDate[l])
  /\ writerPc[l] = "reopen" => began[l] = today \/ began[l] + 1 = today

\* The inductive invariant.
LoggerInv ==
  /\ LoggerTypeOK
  /\ InitLogHolds
  /\ WriterHolds
  /\ Dates
  /\ WritesToTodaysFile

\* The initial states satisfy it.
LEMMA InitLogger == Init => LoggerInv
<1> SUFFICES ASSUME Init
             PROVE  LoggerInv
  OBVIOUS
<1> USE LoggerAssumption DEF Init
<1>1. LoggerTypeOK
  <2>1. <<>> \in Seq(Messages) /\ Len(<<>>) = 0
    BY EmptySeq
  <2> QED
    BY <2>1 DEF LoggerTypeOK, InitPcs, WriterPcs, NoMessage
<1>2. InitLogHolds /\ WriterHolds
  BY DEF InitLogHolds, WriterHolds
<1>3. Dates /\ WritesToTodaysFile
  BY DEF Dates, WritesToTodaysFile
<1> QED
  BY <1>1, <1>2, <1>3 DEF LoggerInv

\* put keeps the queue within its bound.
LEMMA BoundedQueue ==
  ASSUME NEW q \in Seq(Messages), Len(q) <= MaxQueue, NEW m \in Messages
  PROVE  Bounded(Append(q, m)) \in Seq(Messages) /\ Len(Bounded(Append(q, m))) <= MaxQueue
<1>1. Append(q, m) \in Seq(Messages) /\ Len(Append(q, m)) = Len(q) + 1
  BY AppendProperties
<1>2. Append(q, m) # <<>>
  BY <1>1, EmptySeq
<1>3. Tail(Append(q, m)) \in Seq(Messages) /\ Len(Tail(Append(q, m))) = Len(q)
  BY <1>1, <1>2, HeadTailProperties, LenProperties
<1> QED
  BY <1>1, <1>3, LoggerAssumption, LenProperties DEF Bounded

\* The types of the sequences, ...
QueueTypes ==
  /\ msgQueue \in [Loggers -> Seq(Messages)]
  /\ \A l \in Loggers : Len(msgQueue[l]) <= MaxQueue
  /\ file \in [Loggers -> Seq(Messages)]

\* A queue is replaced by one that is not too long.
LEMMA QueueReplaced ==
  ASSUME QueueTypes, NEW l \in Loggers, NEW q \in Seq(Messages), Len(q) <= MaxQueue,
         msgQueue' = [msgQueue EXCEPT ![l] = q], UNCHANGED file
  PROVE  QueueTypes'
BY DEF QueueTypes

\* Every step keeps the types of the sequences.
LEMMA StepQueueTypes ==
  ASSUME LoggerTypeOK, InitLogHolds, WriterHolds, [Next]_vars
  PROVE  QueueTypes'
<1>1. QueueTypes
  BY DEF LoggerTypeOK, QueueTypes
<1>2. ASSUME UNCHANGED <<msgQueue, file>>
      PROVE  QueueTypes'
  BY <1>1, <1>2 DEF QueueTypes
<1>3. ASSUME NEW c \in Callers, Put(c)
      PROVE  QueueTypes'
  <2> DEFINE l == held[c]
             q == Bounded(Append(msgQueue[l], puts + 1))
  <2>1. l \in Loggers
    BY <1>3 DEF Put, LoggerTypeOK
  <2>2. puts + 1 \in Messages
    BY <1>3, LoggerAssumption DEF Put, Messages, LoggerTypeOK
  <2>3. q \in Seq(Messages) /\ Len(q) <= MaxQueue
    BY <1>1, <2>1, <2>2, BoundedQueue DEF QueueTypes
  <2>4. msgQueue' = [msgQueue EXCEPT ![l] = q] /\ UNCHANGED file
    BY <1>3 DEF Put, fileVars
  <2> HIDE DEF q
  <2> QED
    BY <1>1, <2>1, <2>3, <2>4, QueueReplaced
<1>4. ASSUME NEW l \in Loggers, WriterStep(l)
      PROVE  QueueTypes'
  <2>1. CASE PopFront(l)
    <3> DEFINE q == Tail(msgQueue[l])
    <3>1. msgQueue[l] \in Seq(Messages) /\ msgQueue[l] # <<>> /\ Len(msgQueue[l]) <= MaxQueue
      BY <1>1, <2>1 DEF QueueTypes, PopFront
    <3>2. q \in Seq(Messages) /\ Len(q) = Len(msgQueue[l]) - 1 /\ Len(msgQueue[l]) \in Nat
      BY <3>1, HeadTailProperties, LenProperties
    <3>3. msgQueue' = [msgQueue EXCEPT ![l] = q] /\ UNCHANGED file
      BY <2>1 DEF PopFront, fileVars
    <3>4. Len(q) <= MaxQueue
      BY <3>1, <3>2, LoggerAssumption
    <3> HIDE DEF q
    <3> QED
      BY <1>1, <3>2, <3>3, <3>4, QueueReplaced
  <2>2. CASE AppendToFile(l)
    <3>1. taken[l] \in Messages
      BY <2>2 DEF AppendToFile, WriterHolds, LoggerTypeOK
    <3>2. Append(file[l], taken[l]) \in Seq(Messages)
      BY <1>1, <3>1, AppendProperties DEF QueueTypes
    <3>3. file' = [file EXCEPT ![l] = Append(file[l], taken[l])] /\ UNCHANGED msgQueue
      BY <2>2 DEF AppendToFile
    <3> QED
      BY <1>1, <3>2, <3>3 DEF QueueTypes
  <2> QED
    BY <1>2, <1>4, <2>1, <2>2 DEF WriterStep, Look, PopEmpty, SameDay, CloseOldFile, OpenNewFile,
      OpenPanics, AppendFails, fileVars
<1>5. CASE Midnight \/ InitLogPanics \/ InitStep \/ UNCHANGED vars
  BY <1>2, <1>5 DEF Midnight, InitLogPanics, InitStep, Swap, ShutdownQuits, ShutdownAwaits,
    ShutdownCloses, fileVars, vars
<1>6. ASSUME NEW l, InitLog(l)
      PROVE  QueueTypes'
  BY <1>2, <1>6 DEF InitLog
<1>7. ASSUME NEW c \in Callers, ReadLogger(c)
      PROVE  QueueTypes'
  BY <1>2, <1>7 DEF ReadLogger, fileVars
<1> QED
  BY <1>3, <1>4, <1>5, <1>6, <1>7 DEF Next, Filtered, Crashed

\* ... and those of the other variables.
StateTypes ==
  /\ today \in 0..LastDate
  /\ gLogger \in Loggers \cup {None}
  /\ initPc \in InitPcs
  /\ fresh \in Loggers \cup {None} /\ old \in Loggers \cup {None}
  /\ held \in [Callers -> Loggers \cup {None}]
  /\ puts \in 0..MaxMessages
  /\ quit \subseteq Loggers
  /\ writerPc \in [Loggers -> WriterPcs]
  /\ taken \in [Loggers -> Messages \cup {NoMessage}]
  /\ began \in [Loggers -> 0..LastDate]
  /\ lastDay \in [Loggers -> 0..MonthDays]
  /\ logFd \in [Loggers -> {"nil", "open", "closed"}]
  /\ fileDate \in [Loggers -> 0..LastDate]

\* Every step keeps the types of the other variables.
LEMMA StepStateTypes ==
  ASSUME LoggerTypeOK, InitLogHolds, [Next]_vars
  PROVE  StateTypes'
<1>1. StateTypes
  BY DEF LoggerTypeOK, StateTypes
<1> USE <1>1, LoggerAssumption DEF StateTypes, InitPcs, WriterPcs, clockVars, initVars, putVars,
      writerVars, fileVars
<1>2. CASE Midnight
  BY <1>2 DEF Midnight
<1>3. ASSUME NEW l \in Loggers, InitLog(l)
      PROVE  StateTypes'
  BY <1>3 DEF InitLog
<1>4. CASE InitLogPanics \/ InitStep
  BY <1>4 DEF InitLogPanics, InitStep, Swap, ShutdownQuits, ShutdownAwaits, ShutdownCloses,
    InitLogHolds
<1>5. ASSUME NEW c \in Callers, ReadLogger(c) \/ Put(c)
      PROVE  StateTypes'
  BY <1>5 DEF ReadLogger, Put
<1>6. ASSUME NEW l \in Loggers, WriterStep(l)
      PROVE  StateTypes'
  <2>1. CASE Look(l) \/ PopEmpty(l) \/ AppendToFile(l) \/ AppendFails(l) \/ OpenPanics(l)
    <3>1. CASE Look(l) \/ PopEmpty(l)
      BY <3>1 DEF Look, PopEmpty, WriterGoto
    <3>2. CASE AppendToFile(l)
      BY SMTT(30), <3>2 DEF AppendToFile, WriterGoto
    <3>3. CASE AppendFails(l)
      BY <3>3 DEF AppendFails, WriterGoto
    <3>4. CASE OpenPanics(l)
      BY <3>4 DEF OpenPanics, WriterGoto
    <3> QED
      BY <2>1, <3>1, <3>2, <3>3, <3>4
  <2>2. CASE PopFront(l)
    <3>1. Head(msgQueue[l]) \in Messages
      BY <2>2, HeadTailProperties DEF PopFront, LoggerTypeOK
    <3> QED
      BY <2>2, <3>1 DEF PopFront, WriterGoto
  <2>3. CASE SameDay(l) \/ CloseOldFile(l)
    BY <2>3 DEF SameDay, CloseOldFile, WriterGoto
  <2>4. CASE OpenNewFile(l)
    <3>1. DayOfMonth(began[l]) \in 0..MonthDays
      BY DayIsPositive
    <3> QED
      BY <2>4, <3>1 DEF OpenNewFile, WriterGoto
  <2> QED
    BY <1>6, <2>1, <2>2, <2>3, <2>4 DEF WriterStep
<1>7. CASE UNCHANGED vars
  BY <1>7 DEF vars
<1>8. Unused # {} => (CHOOSE l \in Unused : TRUE) \in Loggers
  BY DEF Unused
<1> QED
  BY <1>2, <1>3, <1>4, <1>5, <1>6, <1>7, <1>8 DEF Next, Filtered, Crashed

\* Every step keeps all types.
LEMMA StepTypes ==
  ASSUME LoggerTypeOK, InitLogHolds, WriterHolds, [Next]_vars
  PROVE  LoggerTypeOK'
BY StepQueueTypes, StepStateTypes DEF LoggerTypeOK, QueueTypes, StateTypes

\* A writer never goes back to "none", nor on from "stopped".
LEMMA WriterAdvances ==
  ASSUME LoggerTypeOK, NEW l \in Loggers, WriterStep(l)
  PROVE  /\ UNCHANGED <<gLogger, initPc, fresh, old, held, quit, today>>
         /\ writerPc[l] \notin {"none", "stopped"} /\ writerPc'[l] # "none"
         /\ \A k \in Loggers \ {l} : writerPc'[k] = writerPc[k]
BY DEF WriterStep, Look, PopEmpty, PopFront, SameDay, CloseOldFile, OpenNewFile, OpenPanics,
  AppendToFile, AppendFails, WriterGoto, LoggerTypeOK, clockVars, initVars, putVars

\* Every step preserves what InitLog relies on.
LEMMA StepInitLogHolds ==
  ASSUME LoggerTypeOK, InitLogHolds, [Next]_vars
  PROVE  InitLogHolds'
<1> USE LoggerAssumption DEF LoggerTypeOK, InitLogHolds, Started
<1>1. CASE Midnight \/ InitLogPanics \/ UNCHANGED vars
  BY <1>1 DEF Midnight, InitLogPanics, initVars, putVars, writerVars, vars
<1>2. ASSUME NEW l \in Loggers, InitLog(l)
      PROVE  InitLogHolds'
  BY <1>2 DEF InitLog, putVars
<1>3. CASE Swap
  BY <1>3 DEF Swap, putVars, writerVars
<1>4. CASE ShutdownQuits \/ ShutdownAwaits \/ ShutdownCloses
  BY <1>4 DEF ShutdownQuits, ShutdownAwaits, ShutdownCloses, putVars, writerVars
<1>5. ASSUME NEW c \in Callers, ReadLogger(c) \/ Put(c)
      PROVE  InitLogHolds'
  BY <1>5 DEF ReadLogger, Put, initVars, writerVars
<1>6. ASSUME NEW l \in Loggers, WriterStep(l)
      PROVE  InitLogHolds'
  BY <1>6, WriterAdvances
<1>7. Unused # {} => (CHOOSE l \in Unused : TRUE) \in Loggers
  BY DEF Unused
<1> QED
  BY <1>1, <1>2, <1>3, <1>4, <1>5, <1>6, <1>7 DEF Next, InitStep, Filtered, Crashed

\* Every step preserves what the writer relies on.
LEMMA StepWriterHolds ==
  ASSUME LoggerTypeOK, InitLogHolds, WriterHolds, [Next]_vars
  PROVE  WriterHolds'
<1> USE LoggerAssumption DEF WriterHolds, NoMessage
<1> StateTypes
  BY DEF LoggerTypeOK, StateTypes
<1> USE DEF StateTypes
<1>1. ASSUME UNCHANGED <<writerPc, lastDay, taken, logFd>>
      PROVE  WriterHolds'
  BY <1>1
<1>2. ASSUME NEW l \in Unused, InitLog(l)
      PROVE  WriterHolds'
  BY <1>2 DEF InitLog, Unused
<1>3. CASE ShutdownCloses
  BY <1>3 DEF ShutdownCloses, InitLogHolds, writerVars
<1>4. ASSUME NEW l \in Loggers, WriterStep(l)
      PROVE  WriterHolds'
  <2>1. CASE Look(l) \/ PopEmpty(l)
    BY SMTT(30), <2>1 DEF Look, PopEmpty, WriterGoto, fileVars
  <2>2. CASE PopFront(l)
    <3>1. Head(msgQueue[l]) \in Messages
      BY <2>2, HeadTailProperties DEF PopFront, LoggerTypeOK
    <3>2. Head(msgQueue[l]) # 0
      BY <3>1 DEF Messages
    <3> QED
      BY <2>2, <3>2 DEF PopFront, WriterGoto, fileVars
  <2>3. CASE SameDay(l) \/ CloseOldFile(l)
    BY <2>3 DEF SameDay, CloseOldFile, WriterGoto, fileVars
  <2>4. CASE OpenNewFile(l) \/ OpenPanics(l)
    BY <2>4 DEF OpenNewFile, OpenPanics, WriterGoto
  <2>5. CASE AppendToFile(l) \/ AppendFails(l)
    BY SMTT(30), <2>5 DEF AppendToFile, AppendFails, WriterGoto, fileVars
  <2> QED
    BY <1>4, <2>1, <2>2, <2>3, <2>4, <2>5 DEF WriterStep
<1>5. CASE Midnight \/ InitLogPanics \/ UNCHANGED vars \/ Swap \/ ShutdownQuits \/ ShutdownAwaits
  BY <1>1, <1>5 DEF Midnight, InitLogPanics, Swap, ShutdownQuits, ShutdownAwaits, writerVars,
    fileVars, vars
<1>6. ASSUME NEW c \in Callers, ReadLogger(c) \/ Put(c)
      PROVE  WriterHolds'
  BY <1>1, <1>6 DEF ReadLogger, Put, writerVars, fileVars
<1>7. Unused # {} => (CHOOSE l \in Unused : TRUE) \in Unused
  OBVIOUS
<1> QED
  BY <1>2, <1>3, <1>4, <1>5, <1>6, <1>7 DEF Next, InitStep, Filtered, Crashed

\* The writer on the day of its last write has the file of that day, or of a month before.
LEMMA SameDayFile ==
  ASSUME NEW d \in Nat, NEW f \in Nat, f <= d, Near(DayOfMonth(d), f)
  PROVE  f < d => d - f >= MonthDays - 1
<1>1. ASSUME NEW e \in Nat, e < d, DayOfMonth(d) = DayOfMonth(e)
      PROVE  d - e >= MonthDays
  <2>1. d % MonthDays \in Nat /\ e % MonthDays \in Nat
    BY LoggerAssumption
  <2>2. d % MonthDays = e % MonthDays
    BY <1>1, <2>1 DEF DayOfMonth
  <2> QED
    BY <1>1, <2>2, ModGap, LoggerAssumption
<1>2. CASE DayOfMonth(d) = DayOfMonth(f)
  BY <1>1, <1>2, LoggerAssumption
<1>3. CASE f > 0 /\ DayOfMonth(d) = DayOfMonth(f - 1)
  <2>1. f - 1 \in Nat /\ (f < d => f - 1 < d)
    BY <1>3
  <2>2. f < d => d - (f - 1) >= MonthDays
    BY <1>1, <1>3, <2>1
  <2> QED
    BY <2>2, LoggerAssumption
<1> QED
  BY <1>2, <1>3 DEF Near

\* Every step preserves the relation between the dates and that of the file to its day.
LEMMA StepDates ==
  ASSUME LoggerTypeOK, InitLogHolds, WriterHolds, Dates, WritesToTodaysFile, [Next]_vars
  PROVE  Dates' /\ WritesToTodaysFile'
<1> DEFINE Goal == Dates' /\ WritesToTodaysFile'
<1> USE LoggerAssumption DEF Dates, WritesToTodaysFile
<1> StateTypes
  BY DEF LoggerTypeOK, StateTypes
<1> USE DEF StateTypes
<1>1. ASSUME UNCHANGED <<today, writerPc, lastDay, began, logFd, fileDate>>
      PROVE  Goal
  BY <1>1
<1>2. ASSUME NEW l \in Unused, InitLog(l)
      PROVE  Goal
  BY <1>2 DEF InitLog, Unused, WriterHolds, clockVars
<1>3. CASE ShutdownCloses
  BY <1>3 DEF ShutdownCloses, InitLogHolds, writerVars, clockVars
<1>4. CASE Midnight
  BY <1>4 DEF Midnight, writerVars, fileVars
<1>5. ASSUME NEW l \in Loggers, WriterStep(l)
      PROVE  Goal
  <2>1. CASE Look(l) \/ PopEmpty(l)
    <3>1. CASE Look(l)
      BY <3>1 DEF Look, WriterGoto, fileVars, clockVars
    <3>2. CASE PopEmpty(l)
      BY <3>2 DEF PopEmpty, WriterGoto, fileVars, clockVars
    <3> QED
      BY <2>1, <3>1, <3>2
  <2>2. CASE PopFront(l)
    BY <2>2 DEF PopFront, WriterGoto, fileVars, clockVars
  <2>3. CASE SameDay(l)
    <3>1. lastDay[l] # 0 /\ fileDate[l] <= today
      BY <2>3, DayIsPositive DEF SameDay
    <3>2. fileDate[l] < today => today - fileDate[l] >= MonthDays - 1
      BY <2>3, <3>1, SameDayFile DEF SameDay
    <3>3. logFd[l] = "open"
      BY <2>3 DEF SameDay, WriterHolds
    <3> QED
      BY <2>3, <3>2, <3>3 DEF SameDay, WriterGoto, fileVars, clockVars
  <2>4. CASE CloseOldFile(l)
    BY <2>4 DEF CloseOldFile, WriterGoto, clockVars
  <2>5. CASE OpenNewFile(l)
    <3>1. began[l] = today \/ (today > 0 /\ began[l] = today - 1)
      BY <2>5 DEF OpenNewFile
    <3>2. Near(DayOfMonth(began[l]), today)
      BY <3>1 DEF Near
    <3> QED
      BY <2>5, <3>1, <3>2 DEF OpenNewFile, WriterGoto, clockVars
  <2>6. CASE OpenPanics(l)
    BY <2>6 DEF OpenPanics, WriterGoto, clockVars
  <2>7. CASE AppendToFile(l)
    BY <2>7 DEF AppendToFile, WriterGoto, clockVars
  <2>8. CASE AppendFails(l)
    BY <2>8 DEF AppendFails, WriterGoto, fileVars, clockVars
  <2> QED
    BY <1>5, <2>1, <2>2, <2>3, <2>4, <2>5, <2>6, <2>7, <2>8 DEF WriterStep
<1>6. CASE InitLogPanics \/ UNCHANGED vars \/ Swap \/ ShutdownQuits \/ ShutdownAwaits
  BY <1>1, <1>6 DEF InitLogPanics, Swap, ShutdownQuits, ShutdownAwaits, writerVars, fileVars,
    clockVars, vars
<1>7. ASSUME NEW c \in Callers, ReadLogger(c) \/ Put(c)
      PROVE  Goal
  BY <1>1, <1>7 DEF ReadLogger, Put, writerVars, fileVars, clockVars
<1>8. Unused # {} => (CHOOSE l \in Unused : TRUE) \in Unused
  OBVIOUS
<1> QED
  BY <1>2, <1>3, <1>4, <1>5, <1>6, <1>7, <1>8 DEF Next, InitStep, Filtered, Crashed

\* Every step preserves it.
LEMMA StepLogger == LoggerInv /\ [Next]_vars => LoggerInv'
BY StepTypes, StepInitLogHolds, StepWriterHolds, StepDates DEF LoggerInv

\* It holds in every reachable state.
LEMMA LoggerInductive == Spec => []LoggerInv
BY InitLogger, StepLogger, PTL DEF Spec

-----------------------------------------------------------------------------
(* What follows from it *)

\* Every variable keeps to its type, and no queue outgrows its bound.
THEOREM LoggerTypeCorrect == Spec => []LoggerTypeOK
<1>1. LoggerInv => LoggerTypeOK
  BY DEF LoggerInv
<1> QED
  BY <1>1, LoggerInductive, PTL

\* The writer appends to an open file, and the file is that of the day or of a
\* month before (log.go:210, 221).
THEOREM TodaysFileIsWritten == Spec => []WritesToTodaysFile
<1>1. LoggerInv => WritesToTodaysFile
  BY DEF LoggerInv
<1> QED
  BY <1>1, LoggerInductive, PTL

-----------------------------------------------------------------------------
(* Every logger is a LossyLog *)

\* Taking the first message apart and putting it back.
LEMMA FirstAndRest ==
  ASSUME NEW S, NEW q \in Seq(S), NEW m \in S
  PROVE  /\ <<m>> \o q \in Seq(S) /\ <<m>> \o q # <<>>
         /\ Head(<<m>> \o q) = m
         /\ Tail(<<m>> \o q) = q
         /\ q # <<>> => <<Head(q)>> \o Tail(q) = q
<1>1. <<m>> \in Seq(S) /\ Len(<<m>>) = 1 /\ <<m>>[1] = m
  OBVIOUS
<1>2. /\ <<m>> \o q \in Seq(S)
      /\ Len(<<m>> \o q) = 1 + Len(q)
      /\ \A i \in 1..1 + Len(q) : (<<m>> \o q)[i] = IF i <= 1 THEN m ELSE q[i - 1]
  BY <1>1, ConcatProperties
<1>3. Len(q) \in Nat
  BY LenProperties
<1>4. <<m>> \o q # <<>>
  BY <1>2, <1>3, EmptySeq
<1>5. Head(<<m>> \o q) = m
  BY <1>2, <1>3, <1>4
<1>6. Tail(<<m>> \o q) = q
  <2> DEFINE t == Tail(<<m>> \o q)
  <2>1. t \in Seq(S) /\ Len(t) = Len(q) /\ \A i \in 1..Len(t) : t[i] = (<<m>> \o q)[i + 1]
    BY <1>2, <1>3, <1>4, HeadTailProperties
  <2>2. \A i \in 1..Len(t) : t[i] = q[i]
    BY <1>2, <1>3, <2>1
  <2> HIDE DEF t
  <2>3. t = q
    BY <2>1, <2>2, SeqEqual
  <2> QED
    BY <2>3 DEF t
<1>7. ASSUME q # <<>>
      PROVE  <<Head(q)>> \o Tail(q) = q
  <2> DEFINE s == <<Head(q)>> \o Tail(q)
  <2>1. Head(q) \in S /\ Tail(q) \in Seq(S) /\ Len(Tail(q)) = Len(q) - 1
        /\ \A i \in 1..Len(Tail(q)) : Tail(q)[i] = q[i + 1]
    BY <1>7, HeadTailProperties
  <2>2. <<Head(q)>> \in Seq(S) /\ Len(<<Head(q)>>) = 1 /\ <<Head(q)>>[1] = q[1]
    BY <1>7, <2>1
  <2>3. s \in Seq(S) /\ Len(s) = Len(q)
        /\ \A i \in 1..Len(q) : s[i] = IF i <= 1 THEN q[1] ELSE Tail(q)[i - 1]
    BY <1>3, <2>1, <2>2, ConcatProperties
  <2>4. \A i \in 1..Len(s) : s[i] = q[i]
    BY <1>3, <2>1, <2>3
  <2> HIDE DEF s
  <2>5. s = q
    BY <2>3, <2>4, SeqEqual
  <2> QED
    BY <2>5 DEF s
<1> QED
  BY <1>2, <1>4, <1>5, <1>6, <1>7

\* A message appended behind what is in hand.
LEMMA AppendToJoin ==
  ASSUME NEW S, NEW h \in Seq(S), NEW q \in Seq(S), NEW m \in S
  PROVE  h \o Append(q, m) = Append(h \o q, m)
<1>1. <<m>> \in Seq(S) /\ h \o q \in Seq(S)
  BY ConcatProperties
<1> QED
  BY <1>1, AppendIsConcat, ConcatAssociative

\* The oldest message that is not in hand is the first or the second of the pending ones.
LEMMA Forgotten ==
  ASSUME NEW S, NEW h \in Seq(S), Len(h) = 0 \/ Len(h) = 1, NEW q \in Seq(S), q # <<>>
  PROVE  /\ Len(h) + 1 \in {1, 2} \cap DOMAIN (h \o q)
         /\ Log!Without(h \o q, Len(h) + 1) = h \o Tail(q)
<1> DEFINE p == h \o q
<1>1. Len(q) \in Nat \ {0} /\ Len(h) \in Nat
  BY EmptySeq, LenProperties
<1>2. p \in Seq(S) /\ Len(p) = Len(h) + Len(q) /\ DOMAIN p = 1..Len(p)
  BY ConcatProperties, LenProperties
<1>3. SubSeq(p, 1, Len(h)) = h
  <2>1. CASE Len(h) = 0
    <3>1. SubSeq(p, 1, 0) = <<>>
      BY SubSeqEmpty
    <3>2. h = <<>>
      BY <2>1, EmptySeq
    <3> QED
      BY <2>1, <3>1, <3>2
  <2>2. CASE Len(h) = 1
    <3>1. 1 \in 1..Len(h) /\ Len(h) \in 1..Len(h)
      BY <2>2
    <3>2. SubSeq(p, 1, Len(h)) = SubSeq(h, 1, Len(h))
      BY <3>1, SubSeqOfConcat1
    <3> QED
      BY <3>2, SubSeqFull
  <2> QED
    BY <2>1, <2>2
<1>4. SubSeq(p, Len(h) + 2, Len(p)) = Tail(q)
  <2>1. Tail(q) = SubSeq(q, 2, Len(q))
    BY TailIsSubSeq
  <2>2. CASE Len(q) = 1
    <3>1. SubSeq(q, 2, Len(q)) = <<>>
      BY <2>2, SubSeqEmpty
    <3>2. SubSeq(p, Len(h) + 2, Len(p)) = <<>>
      BY <1>1, <1>2, <2>2, SubSeqEmpty
    <3> QED
      BY <2>1, <3>1, <3>2
  <2>3. CASE Len(q) # 1
    <3>1. Len(h) + 2 \in Len(h) + 1..Len(h) + Len(q) /\ Len(p) \in Len(h) + 1..Len(h) + Len(q)
      <4>1. Len(p) = Len(h) + Len(q)
        BY <1>2
      <4> HIDE DEF p
      <4>2. \A m, n \in Nat : n \notin {0, 1} => m + 2 \in m + 1..m + n /\ m + n \in m + 1..m + n
        OBVIOUS
      <4> QED
        BY <1>1, <2>3, <4>1, <4>2
    <3>2. SubSeq(p, Len(h) + 2, Len(p)) = SubSeq(q, (Len(h) + 2) - Len(h), Len(p) - Len(h))
      BY <3>1, SubSeqOfConcat2
    <3>3. (Len(h) + 2) - Len(h) = 2 /\ Len(p) - Len(h) = Len(q)
      BY <1>1, <1>2
    <3> QED
      BY <2>1, <3>2, <3>3
  <2> QED
    BY <2>2, <2>3
<1>5. Log!Without(p, Len(h) + 1) = SubSeq(p, 1, Len(h)) \o SubSeq(p, Len(h) + 2, Len(p))
  <2>1. (Len(h) + 1) - 1 = Len(h) /\ (Len(h) + 1) + 1 = Len(h) + 2
    BY <1>1
  <2> QED
    BY <2>1 DEF Log!Without
<1> HIDE DEF p
<1>6. Len(h) + 1 \in {1, 2} \cap DOMAIN p
  <2>1. \A m, n \in Nat : n # 0 => m + 1 \in 1..m + n
    OBVIOUS
  <2>2. Len(h) + 1 \in 1..Len(p)
    BY <1>1, <1>2, <2>1
  <2>3. Len(h) + 1 \in {1, 2}
    <3>1. CASE Len(h) = 0
      BY <3>1
    <3>2. CASE Len(h) = 1
      BY <3>2
    <3> QED
      BY <3>1, <3>2
  <2> QED
    BY <1>2, <2>2, <2>3
<1>7. Log!Without(p, Len(h) + 1) = h \o Tail(q)
  BY <1>3, <1>4, <1>5
<1> QED
  BY <1>6, <1>7 DEF p

\* What is in hand and what waits, by the writer's pc.
LEMMA PendingTypes ==
  ASSUME LoggerInv, NEW l \in Loggers
  PROVE  /\ InHand(l) \in Seq(Messages)
         /\ Len(InHand(l)) = 0 \/ Len(InHand(l)) = 1
         /\ msgQueue[l] \in Seq(Messages) /\ Len(msgQueue[l]) <= MaxQueue
         /\ Pending(l) \in Seq(Messages)
<1>1. taken[l] # NoMessage => taken[l] \in Messages
  BY DEF LoggerInv, LoggerTypeOK
<1>2. InHand(l) \in Seq(Messages) /\ (Len(InHand(l)) = 0 \/ Len(InHand(l)) = 1)
  BY <1>1, EmptySeq DEF InHand
<1>3. msgQueue[l] \in Seq(Messages) /\ Len(msgQueue[l]) <= MaxQueue
  BY DEF LoggerInv, LoggerTypeOK
<1> QED
  BY <1>2, <1>3, ConcatProperties DEF Pending

\* A step that moves the log of one logger, seen as a LossyLog.
LEMMA LogMoves ==
  ASSUME NEW l \in Loggers,
         \A k \in Loggers \ {l} : LogState(k)' = LogState(k) /\ Pending(k)' = Pending(k)
  PROVE  /\ [k \in Loggers |-> LogState(k)]' =
              [[k \in Loggers |-> LogState(k)] EXCEPT ![l] = LogState(l)']
         /\ [k \in Loggers |-> Pending(k)]' =
              [[k \in Loggers |-> Pending(k)] EXCEPT ![l] = Pending(l)']
         /\ LogState(l)' = LogState(l) =>
              [k \in Loggers |-> LogState(k)]' = [k \in Loggers |-> LogState(k)]
         /\ Pending(l)' = Pending(l) =>
              [k \in Loggers |-> Pending(k)]' = [k \in Loggers |-> Pending(k)]
OBVIOUS

\* A step that moves no log.
LEMMA SameLogs ==
  ASSUME \A k \in Loggers : LogState(k)' = LogState(k) /\ Pending(k)' = Pending(k),
         UNCHANGED <<puts, file>>
  PROVE  UNCHANGED Log!vars
BY DEF Log!vars

\* InitLog opens a log.
LEMMA InitLogOpens ==
  ASSUME LoggerInv, NEW l \in Unused, InitLog(l)
  PROVE  Log!Next
<1> USE DEF LoggerInv, LoggerTypeOK
<1>1. l \in Loggers
  BY DEF Unused
<1>2. LogState(l) = "unopened" /\ LogState(l)' = "open"
  BY <1>1 DEF InitLog, Unused, LogState
<1>3. \A k \in Loggers : Pending(k)' = Pending(k)
  BY DEF InitLog, Pending, InHand
<1>4. \A k \in Loggers \ {l} : LogState(k)' = LogState(k)
  BY <1>1 DEF InitLog, LogState
<1>5. UNCHANGED <<puts, file>>
  BY DEF InitLog, putVars
<1>6. Log!Open(l)
  BY <1>1, <1>2, <1>3, <1>4, <1>5, LogMoves DEF Log!Open
<1> QED
  BY <1>1, <1>6 DEF Log!Next

\* addlog is accepted, at the cost of the oldest message that no writer has in hand when
\* the queue is full.
LEMMA PutIsAccepted ==
  ASSUME LoggerInv, NEW c \in Callers, Put(c),
         NEW l \in Loggers, l = held[c], NEW q, q = msgQueue[l], NEW m, m = puts + 1
  PROVE  Log!Next
<1>1. writerPc[l] # "none"
  BY DEF Put, LoggerInv, InitLogHolds, Started
<1>2. m \in Messages
  BY LoggerAssumption DEF Put, Messages, LoggerInv, LoggerTypeOK
<1>3. msgQueue' = [msgQueue EXCEPT ![l] = Bounded(Append(q, m))]
  BY DEF Put
<1>4. puts' = m /\ UNCHANGED <<writerPc, taken, file>>
  BY DEF Put, writerVars, fileVars
<1>5. LogState(l) # "unopened" /\ \A k \in Loggers : LogState(k)' = LogState(k)
  BY <1>1, <1>4 DEF LogState
<1>6. /\ InHand(l) \in Seq(Messages)
      /\ Len(InHand(l)) = 0 \/ Len(InHand(l)) = 1
      /\ q \in Seq(Messages) /\ Len(q) <= MaxQueue
      /\ Pending(l) \in Seq(Messages)
  BY <1>1, PendingTypes
<1>7. \A k \in Loggers : InHand(k)' = InHand(k)
  BY <1>4 DEF InHand
<1>8. msgQueue'[l] = Bounded(Append(q, m)) /\ \A k \in Loggers \ {l} : msgQueue'[k] = msgQueue[k]
  BY <1>1, <1>3 DEF LoggerInv, LoggerTypeOK
<1>9. Pending(l)' = InHand(l) \o Bounded(Append(q, m))
  BY <1>1, <1>7, <1>8 DEF Pending
<1>10. \A k \in Loggers \ {l} : Pending(k)' = Pending(k)
  BY <1>7, <1>8 DEF Pending
<1>11. Len(Append(q, m)) = Len(q) + 1 /\ Len(q) \in Nat /\ MaxQueue \in Nat \ {0}
  BY <1>2, <1>6, AppendProperties, LenProperties, LoggerAssumption
<1>12. \A h, t \in Seq(Messages) : h \o Append(t, m) = Append(h \o t, m)
  BY <1>2, AppendToJoin
<1>13. CASE Len(q) < MaxQueue
  <2>1. Bounded(Append(q, m)) = Append(q, m)
    BY <1>11, <1>13 DEF Bounded
  <2>2. Pending(l)' = Append(Pending(l), m)
    <3>1. InHand(l) \o Append(q, m) = Append(InHand(l) \o q, m)
      BY <1>6, <1>12
    <3>2. Pending(l) = InHand(l) \o q
      BY DEF Pending
    <3> QED
      BY <1>9, <2>1, <3>1, <3>2
  <2>3. Log!Accept(l)
    BY <1>1, <1>4, <1>5, <1>10, <2>2, LogMoves DEF Log!Accept
  <2> QED
    BY <1>1, <2>3 DEF Log!Next
<1>14. CASE Len(q) = MaxQueue
  <2>1. q # <<>>
    BY <1>11, <1>14, EmptySeq
  <2>2. Bounded(Append(q, m)) = Append(Tail(q), m)
    <3>1. Bounded(Append(q, m)) = Tail(Append(q, m))
      BY <1>11, <1>14 DEF Bounded
    <3> QED
      BY <1>6, <2>1, <3>1, HeadTailAppend
  <2>3. Tail(q) \in Seq(Messages)
    BY <1>6, <2>1, HeadTailProperties
  <2>4. Pending(l)' = Append(InHand(l) \o Tail(q), m)
    <3>1. InHand(l) \o Append(Tail(q), m) = Append(InHand(l) \o Tail(q), m)
      BY <1>6, <1>12, <2>3
    <3> QED
      BY <1>9, <2>2, <3>1
  <2> DEFINE i == Len(InHand(l)) + 1
  <2>5. i \in {1, 2} \cap DOMAIN Pending(l) /\ Log!Without(Pending(l), i) = InHand(l) \o Tail(q)
    BY <1>6, <2>1, Forgotten DEF Pending
  <2>6. Len(Pending(l)) >= MaxQueue
    <3>1. Len(Pending(l)) = Len(InHand(l)) + Len(q)
      BY <1>6, ConcatProperties DEF Pending
    <3>2. Len(InHand(l)) \in Nat
      BY <1>6, LenProperties
    <3> QED
      BY <1>11, <1>14, <3>1, <3>2
  <2> HIDE DEF i
  <2>7. [k \in Loggers |-> Pending(k)]' =
          [[k \in Loggers |-> Pending(k)] EXCEPT ![l] = Append(Log!Without(@, i), puts + 1)]
    <3>1. [k \in Loggers |-> Pending(k)]' =
            [[k \in Loggers |-> Pending(k)] EXCEPT ![l] = Pending(l)']
      BY <1>5, <1>10, LogMoves
    <3>2. Pending(l)' = Append(Log!Without(Pending(l), i), puts + 1)
      BY <2>4, <2>5
    <3> QED
      BY <3>1, <3>2
  <2>8. UNCHANGED [k \in Loggers |-> LogState(k)]
    BY <1>5
  <2>9. Log!AcceptAndForget(l)
    BY <1>4, <1>5, <2>5, <2>6, <2>7, <2>8 DEF Log!AcceptAndForget
  <2> QED
    BY <1>1, <2>9 DEF Log!Next
<1> QED
  BY <1>6, <1>11, <1>13, <1>14

\* The writer writes, fails, closes or breaks its log, or does nothing to it.
LEMMA WriterIsLossy ==
  ASSUME LoggerInv, NEW l \in Loggers, WriterStep(l)
  PROVE  [Log!Next]_(Log!vars)
<1> DEFINE Goal == [Log!Next]_(Log!vars)
<1>1. LoggerTypeOK /\ WriterHolds
  BY DEF LoggerInv
<1>2. /\ InHand(l) \in Seq(Messages)
      /\ msgQueue[l] \in Seq(Messages)
  BY PendingTypes
<1>3. UNCHANGED puts
  BY DEF WriterStep, Look, PopEmpty, PopFront, SameDay, CloseOldFile, OpenNewFile, OpenPanics,
    AppendToFile, AppendFails, putVars
<1>4. /\ \A k \in Loggers \ {l} : writerPc'[k] = writerPc[k]
      /\ \A k \in Loggers \ {l} : taken'[k] = taken[k]
      /\ \A k \in Loggers \ {l} : msgQueue'[k] = msgQueue[k]
  <2>1. CASE Look(l) \/ PopEmpty(l) \/ PopFront(l)
    BY <1>1, <2>1 DEF Look, PopEmpty, PopFront, WriterGoto, LoggerTypeOK
  <2>2. CASE SameDay(l) \/ CloseOldFile(l) \/ OpenNewFile(l) \/ OpenPanics(l)
    BY <1>1, <2>2 DEF SameDay, CloseOldFile, OpenNewFile, OpenPanics, WriterGoto, LoggerTypeOK
  <2>3. CASE AppendToFile(l) \/ AppendFails(l)
    BY <1>1, <2>3 DEF AppendToFile, AppendFails, WriterGoto, LoggerTypeOK
  <2> QED
    BY <2>1, <2>2, <2>3 DEF WriterStep
<1>5. \A k \in Loggers \ {l} : LogState(k)' = LogState(k) /\ Pending(k)' = Pending(k)
  BY <1>4 DEF LogState, Pending, InHand
<1>6. LogState(l) = "open"
  BY DEF WriterStep, Look, PopEmpty, PopFront, SameDay, CloseOldFile, OpenNewFile, OpenPanics,
    AppendToFile, AppendFails, LogState
<1>7. ASSUME writerPc[l] \in {"reopen", "append"}
      PROVE  /\ Pending(l) = <<taken[l]>> \o msgQueue[l] /\ taken[l] \in Messages
             /\ Pending(l) # <<>>
             /\ Head(Pending(l)) = taken[l] /\ Tail(Pending(l)) = msgQueue[l]
  <2>1. taken[l] # NoMessage /\ taken[l] \in Messages
    BY <1>1, <1>7 DEF WriterHolds, LoggerTypeOK
  <2>2. Pending(l) = <<taken[l]>> \o msgQueue[l]
    BY <2>1 DEF Pending, InHand
  <2> QED
    BY <1>2, <2>1, <2>2, FirstAndRest
<1>8. ASSUME taken'[l] = NoMessage, UNCHANGED msgQueue
      PROVE  Pending(l)' = msgQueue[l]
  <2>1. Pending(l)' = <<>> \o msgQueue[l]
    BY <1>8 DEF Pending, InHand
  <2> QED
    BY <1>2, <2>1, ConcatEmptySeq
<1>9. ASSUME UNCHANGED <<taken, msgQueue, file>>, LogState(l)' = LogState(l)
      PROVE  Goal
  <2>1. Pending(l)' = Pending(l)
    BY <1>9 DEF Pending, InHand
  <2> QED
    BY <1>3, <1>5, <1>9, <2>1, SameLogs
<1>10. CASE Look(l)
  <2>1. Pending(l)' = Pending(l) /\ UNCHANGED file
    BY <1>10 DEF Look, Pending, InHand, fileVars
  <2>2. CASE LogState(l)' = "closed"
    <3>1. Log!Close(l)
      BY <1>3, <1>5, <1>6, <2>1, <2>2, LogMoves DEF Log!Close
    <3> QED
      BY <3>1 DEF Log!Next
  <2>3. CASE LogState(l)' = LogState(l)
    BY <1>3, <1>5, <2>1, <2>3, SameLogs
  <2>4. LogState(l)' = "closed" \/ LogState(l)' = LogState(l)
    BY <1>1, <1>6, <1>10 DEF Look, WriterGoto, LogState, LoggerTypeOK
  <2> QED
    BY <2>2, <2>3, <2>4
<1>11. CASE PopEmpty(l)
  BY <1>1, <1>9, <1>11 DEF PopEmpty, WriterGoto, LogState, LoggerTypeOK, fileVars
<1>12. CASE PopFront(l)
  <2>1. taken[l] = NoMessage
    BY <1>1, <1>12 DEF PopFront, WriterHolds
  <2>2. Head(msgQueue[l]) \in Messages
    BY <1>2, <1>12, HeadTailProperties DEF PopFront
  <2>3. taken'[l] = Head(msgQueue[l]) /\ msgQueue'[l] = Tail(msgQueue[l])
    BY <1>1, <1>12 DEF PopFront, LoggerTypeOK
  <2>4. Pending(l)' = <<Head(msgQueue[l])>> \o Tail(msgQueue[l])
    <3>1. taken'[l] # NoMessage
      BY <2>2, <2>3 DEF Messages, NoMessage
    <3>2. InHand(l)' = <<taken'[l]>>
      BY <3>1 DEF InHand
    <3> QED
      BY <2>3, <3>2 DEF Pending
  <2>5. Pending(l)' = msgQueue[l]
    BY <1>2, <1>12, <2>2, <2>4, FirstAndRest DEF PopFront
  <2>6. Pending(l) = msgQueue[l]
    <3>1. Pending(l) = <<>> \o msgQueue[l]
      BY <2>1 DEF Pending, InHand
    <3> QED
      BY <1>2, <3>1, ConcatEmptySeq
  <2>7. LogState(l)' = LogState(l) /\ UNCHANGED file
    BY <1>1, <1>12 DEF PopFront, WriterGoto, LogState, LoggerTypeOK, fileVars
  <2> QED
    BY <1>3, <1>5, <2>5, <2>6, <2>7, SameLogs
<1>13. CASE SameDay(l)
  BY <1>1, <1>9, <1>13 DEF SameDay, WriterGoto, LogState, LoggerTypeOK, fileVars
<1>14. CASE CloseOldFile(l)
  BY <1>1, <1>9, <1>14 DEF CloseOldFile, WriterGoto, LogState, LoggerTypeOK
<1>15. CASE OpenNewFile(l)
  BY <1>1, <1>9, <1>15 DEF OpenNewFile, WriterGoto, LogState, LoggerTypeOK
<1>16. CASE OpenPanics(l)
  <2>1. taken'[l] = NoMessage /\ writerPc'[l] = "stopped" /\ UNCHANGED <<msgQueue, file>>
    BY <1>1, <1>16 DEF OpenPanics, WriterGoto, LoggerTypeOK
  <2>2. Pending(l)' = Tail(Pending(l)) /\ Pending(l) # <<>>
    BY <1>7, <1>8, <1>16, <2>1 DEF OpenPanics
  <2>3. LogState(l)' = "closed"
    BY <2>1 DEF LogState
  <2>4. Log!Break(l)
    BY <1>3, <1>5, <1>6, <2>1, <2>2, <2>3, LogMoves DEF Log!Break
  <2> QED
    BY <2>4 DEF Log!Next
<1>17. CASE AppendToFile(l)
  <2>1. taken'[l] = NoMessage /\ UNCHANGED msgQueue
        /\ file' = [file EXCEPT ![l] = Append(@, taken[l])]
    BY <1>1, <1>17 DEF AppendToFile, LoggerTypeOK
  <2>2. Pending(l)' = Tail(Pending(l)) /\ Pending(l) # <<>> /\ Head(Pending(l)) = taken[l]
    BY <1>7, <1>8, <1>17, <2>1 DEF AppendToFile
  <2>3. LogState(l)' = LogState(l)
    BY <1>1, <1>17 DEF AppendToFile, WriterGoto, LogState, LoggerTypeOK
  <2>4. Log!Write(l)
    BY <1>3, <1>5, <1>6, <2>1, <2>2, <2>3, LogMoves DEF Log!Write
  <2> QED
    BY <2>4 DEF Log!Next
<1>18. CASE AppendFails(l)
  <2>1. taken'[l] = NoMessage /\ UNCHANGED <<msgQueue, file>>
    BY <1>1, <1>18 DEF AppendFails, LoggerTypeOK, fileVars
  <2>2. Pending(l)' = Tail(Pending(l)) /\ Pending(l) # <<>>
    BY <1>7, <1>8, <1>18, <2>1 DEF AppendFails
  <2>3. LogState(l)' = LogState(l)
    BY <1>1, <1>18 DEF AppendFails, WriterGoto, LogState, LoggerTypeOK
  <2>4. Log!Fail(l)
    BY <1>3, <1>5, <1>6, <2>1, <2>2, <2>3, LogMoves DEF Log!Fail
  <2> QED
    BY <2>4 DEF Log!Next
<1> QED
  BY <1>10, <1>11, <1>12, <1>13, <1>14, <1>15, <1>16, <1>17, <1>18 DEF WriterStep

\* Loggers implement LossyLog: order, no duplicates, and no loss but the ones it admits
\* (log.go:474-500).
THEOREM NoOtherLoss == Spec => LoggersAreLossyLogs
<1>1. Init => Log!Init
  BY EmptySeq, ConcatEmptySeq DEF Init, Log!Init, LogState, Pending, InHand
<1>2. ASSUME LoggerInv, [Next]_vars
      PROVE  [Log!Next]_(Log!vars)
  <2>1. ASSUME UNCHANGED <<puts, msgQueue, writerPc, taken, file>>
        PROVE  UNCHANGED Log!vars
    BY <2>1, SameLogs DEF LogState, Pending, InHand
  <2>2. CASE Midnight \/ InitLogPanics \/ InitStep \/ UNCHANGED vars
    BY <2>1, <2>2 DEF Midnight, InitLogPanics, InitStep, Swap, ShutdownQuits, ShutdownAwaits,
      ShutdownCloses, putVars, writerVars, fileVars, vars
  <2>3. ASSUME NEW l \in Unused, InitLog(l)
        PROVE  Log!Next
    BY <1>2, <2>3, InitLogOpens
  <2>4. ASSUME NEW l \in Loggers, WriterStep(l)
        PROVE  [Log!Next]_(Log!vars)
    BY <1>2, <2>4, WriterIsLossy
  <2>5. ASSUME NEW c \in Callers, ReadLogger(c)
        PROVE  UNCHANGED Log!vars
    BY <2>1, <2>5 DEF ReadLogger, writerVars, fileVars
  <2>6. ASSUME NEW c \in Callers, Put(c)
        PROVE  Log!Next
    <3>1. held[c] \in Loggers
      BY <1>2, <2>6 DEF Put, LoggerInv, LoggerTypeOK
    <3> QED
      BY <1>2, <2>6, <3>1, PutIsAccepted
  <2>7. Unused # {} => (CHOOSE l \in Unused : TRUE) \in Unused
    OBVIOUS
  <2> QED
    BY <1>2, <2>2, <2>3, <2>4, <2>5, <2>6, <2>7 DEF Next, Filtered, Crashed
<1> QED
  BY <1>1, <1>2, LoggerInductive, PTL DEF Spec, LoggersAreLossyLogs, Log!Spec
=============================================================================
