------------------------- MODULE FFmpegTimingProofs -------------------------
(***************************************************************************)
(* Proofs about FFmpegTiming, for any durations that satisfy its           *)
(* assumptions.                                                            *)
(*                                                                         *)
(* TimingTypeOK is inductive; the bounds on silence follow from ClockInv,  *)
(* which stands in FFmpegTiming and which TLC checks there.  It relates    *)
(* the monitor's clock, which restarts at a check and not at a report, to  *)
(* the true one.                                                           *)
(***************************************************************************)
EXTENDS FFmpegTiming, FiniteSetTheorems, FunctionTheorems, TLAPS

\* The oldest age is one that both comparisons tell apart.
LEMMA OldestType == Oldest \in Nat /\ ResetAfter <= Oldest /\ StallTimeout <= Oldest
BY TimingAssumption DEF Oldest

\* A stall takes until after the first check that may judge.
LEMMA LatestCheckType ==
  LatestCheck \in Nat /\ CheckInterval <= LatestCheck /\ StallTimeout <= LatestCheck
BY TimingAssumption DEF LatestCheck

-----------------------------------------------------------------------------
(* Types *)

\* The values that clocks and backoff start from.
LEMMA StartTypes ==
  /\ RetryMin \in RetryMin .. RetryMax /\ 0 \in 0 .. AttemptCap /\ 0 \in 0 .. RetryMax
  /\ 0 \in 0 .. Oldest /\ 0 \in 0 .. StallTimeout /\ 0 \in 0 .. SilenceCap
  /\ 0 \in 0 .. CheckInterval /\ CheckInterval \in 0 .. CheckInterval
BY TimingAssumption, OldestType

\* The initial state has its type.
LEMMA InitType == Init => TimingTypeOK
BY StartTypes DEF Init, TimingTypeOK, QueryTypeOK, Origins

\* The backoff of a step that waits for a retry keeps to its limits.
LEMMA WaitRetryType ==
  ASSUME NEW delay \in RetryMin .. RetryMax, NEW attempt \in 0 .. AttemptCap,
         WaitRetry(delay, attempt)
  PROVE  /\ phase' = "retry"
         /\ retryDelay' \in RetryMin .. RetryMax
         /\ retryAttempt' \in 0 .. AttemptCap
         /\ timer' \in 0 .. RetryMax
BY TimingAssumption DEF WaitRetry, minDuration

\* Every step keeps what a query reads to its type.
LEMMA StepQueryType == QueryTypeOK /\ [Next]_vars => QueryTypeOK'
<1> SUFFICES ASSUME QueryTypeOK, [Next]_vars
             PROVE  QueryTypeOK'
  OBVIOUS
<1> USE DEF QueryTypeOK, Origins, AtExit, AtBegin
<1>1. CASE Start \/ Launch
  BY <1>1 DEF Start, Launch
<1>2. CASE FFmpegExits \/ CheckKills
  BY <1>2 DEF FFmpegExits, CheckKills, ProcessEnds
<1>3. CASE LoopEnds \/ Progress
  BY <1>3 DEF LoopEnds, Progress, askVars
<1>4. CASE QueryReads \/ QueryAnswers
  BY <1>4 DEF QueryReads, QueryAnswers, Own
<1>5. CASE UNCHANGED queryVars
  BY <1>5 DEF queryVars, askVars
<1>6. CASE CloseStop \/ LaunchFails \/ WaitReturns \/ RetryFires \/ CheckTooEarly \/ CheckProgress
           \/ CheckWaits \/ MonitorQuits \/ Second \/ UNCHANGED vars
  BY <1>5, <1>6
     DEF CloseStop, LaunchFails, WaitReturns, RetryFires, CheckTooEarly, CheckProgress,
         CheckWaits, MonitorQuits, Second, vars
<1> QED
  BY <1>1, <1>2, <1>3, <1>4, <1>6 DEF Next

\* Every step keeps every variable to its type.
LEMMA StepType == TimingTypeOK /\ [Next]_vars => TimingTypeOK'
<1> SUFFICES ASSUME TimingTypeOK, [Next]_vars
             PROVE  TimingTypeOK'
  OBVIOUS
<1>0. QueryTypeOK'
  BY StepQueryType DEF TimingTypeOK
<1> USE TimingAssumption, OldestType, <1>0 DEF TimingTypeOK, loopVars, monitorVars, historyVars
<1>1. CASE Start
  BY <1>1, StartTypes DEF Start
<1>2. CASE CloseStop
  BY <1>2 DEF CloseStop
<1>3. CASE LaunchFails
  BY <1>3, WaitRetryType DEF LaunchFails
<1>4. CASE Launch
  BY <1>4, StartTypes DEF Launch
<1>5. CASE FFmpegExits
  BY <1>5 DEF FFmpegExits
<1>6. CASE WaitReturns
  <2>1. PICK delay \in RetryMin .. RetryMax, attempt \in 0 .. AttemptCap :
          WaitRetry(delay, attempt)
    BY <1>6, StartTypes DEF WaitReturns
  <2> QED
    BY <1>6, <2>1, WaitRetryType DEF WaitReturns
<1>7. CASE RetryFires
  BY <1>7 DEF RetryFires, minDuration
<1>8. CASE LoopEnds
  BY <1>8 DEF LoopEnds
<1>9. CASE Progress
  BY <1>9 DEF Progress
<1>10. CASE CheckTooEarly
  BY <1>10 DEF CheckTooEarly
<1>11. CASE CheckProgress
  BY ZenonT(60), <1>11, StartTypes DEF CheckProgress
<1>12. CASE CheckWaits
  BY <1>12 DEF CheckWaits
<1>13. CASE CheckKills
  BY <1>13 DEF CheckKills
<1>14. CASE MonitorQuits
  BY <1>14 DEF MonitorQuits
<1>15. CASE Second
  BY <1>15 DEF Second, Urgent, CheckDue, Older, minDuration
<1>16. CASE QueryReads \/ QueryAnswers
  BY <1>16 DEF QueryReads, QueryAnswers
<1>17. CASE UNCHANGED vars
  BY <1>17 DEF vars
<1> QED
  BY <1>1, <1>2, <1>3, <1>4, <1>5, <1>6, <1>7, <1>8, <1>9, <1>10, <1>11, <1>12, <1>13,
     <1>14, <1>15, <1>16, <1>17 DEF Next

\* The delays of the backoff stay within their two limits, and no clock leaves
\* its range (ffmpeg_worker.go:472, 568, 582).
THEOREM TimingTypesHold == Spec => []TimingTypeOK
BY InitType, StepType, PTL DEF Spec

-----------------------------------------------------------------------------
(* Clocks *)

\* Nothing runs and nothing was killed at first.
LEMMA InitClock == Init => ClockInv
BY DEF Init, ClockInv, KillInv

\* Every step keeps the clocks tied together.
LEMMA StepClock == TimingTypeOK /\ ClockInv /\ [Next]_vars => ClockInv'
<1> SUFFICES ASSUME TimingTypeOK, ClockInv, [Next]_vars
             PROVE  ClockInv'
  OBVIOUS
<1> USE TimingAssumption, DurationsAssumption, SilenceCapAssumption, OldestType,
        LatestCheckType
    DEF TimingTypeOK, ClockInv, KillInv, UnseenInv, SeenInv, SilentInv, loopVars,
        monitorVars, historyVars
<1>1. CASE Start
  BY <1>1 DEF Start
<1>2. CASE CloseStop
  BY <1>2 DEF CloseStop
<1>3. CASE LaunchFails
  BY <1>3 DEF LaunchFails, WaitRetry
<1>4. CASE Launch
  BY <1>4 DEF Launch, minDuration
<1>5. CASE FFmpegExits
  BY <1>5 DEF FFmpegExits
<1>6. CASE WaitReturns
  BY <1>6 DEF WaitReturns, WaitRetry
<1>7. CASE RetryFires
  BY <1>7 DEF RetryFires
<1>8. CASE LoopEnds
  BY <1>8 DEF LoopEnds
<1>9. CASE Progress
  BY <1>9 DEF Progress
<1>10. CASE CheckTooEarly
  BY <1>10 DEF CheckTooEarly, CheckDue, LatestCheck
<1>11. CASE CheckProgress
  BY <1>11 DEF CheckProgress, CheckDue
<1>12. CASE CheckWaits
  BY <1>12 DEF CheckWaits, CheckDue, LatestCheck, minDuration
<1>13. CASE CheckKills
  BY <1>13 DEF CheckKills, CheckDue
<1>14. CASE MonitorQuits
  BY <1>14 DEF MonitorQuits
<1>15. CASE Second
  BY <1>15 DEF Second, Urgent, CheckDue, Older, minDuration
<1>16. CASE QueryReads \/ QueryAnswers
  BY <1>16 DEF QueryReads, QueryAnswers
<1>17. CASE UNCHANGED vars
  BY <1>17 DEF vars
<1> QED
  BY <1>1, <1>2, <1>3, <1>4, <1>5, <1>6, <1>7, <1>8, <1>9, <1>10, <1>11, <1>12, <1>13,
     <1>14, <1>15, <1>16, <1>17 DEF Next

\* The clocks of the run, the monitor and the process stay tied together.
THEOREM ClocksAgree == Spec => []ClockInv
BY InitType, StepType, InitClock, StepClock, PTL DEF Spec

\* No process is killed that reported progress within stallTimeout.
THEOREM KillsAreJust == Spec => []OnlyStalledIsKilled
<1>1. ClockInv => OnlyStalledIsKilled
  BY DEF ClockInv, KillInv, OnlyStalledIsKilled
<1> QED
  BY <1>1, ClocksAgree, PTL

\* While the monitor runs, no silence lasts longer than two LatestChecks.
THEOREM StallsAreNoticed == Spec => []StallIsNoticed
<1>1. TimingTypeOK /\ ClockInv => StallIsNoticed
  BY TimingAssumption, LatestCheckType
     DEF TimingTypeOK, ClockInv, UnseenInv, SeenInv, StallIsNoticed
<1> QED
  BY <1>1, TimingTypesHold, ClocksAgree, PTL

\* A process that never made progress is killed too early to reset the backoff.
THEOREM SilentRunsBackOff == Spec => []SilentRunKeepsBackoff
<1>1. ClockInv => SilentRunKeepsBackoff
  BY DEF ClockInv, KillInv, SilentRunKeepsBackoff
<1> QED
  BY <1>1, ClocksAgree, PTL

-----------------------------------------------------------------------------
(* PTS queries *)

\* Nothing is known of any process at first.
LEMMA InitQuery == Init => QueryInv
BY DEF Init, QueryInv, Own

\* Every step keeps what is known of the processes of a run.
LEMMA StepQuery == TimingTypeOK /\ ClockInv /\ QueryInv /\ [Next]_vars => QueryInv'
<1> SUFFICES ASSUME TimingTypeOK, ClockInv, QueryInv, [Next]_vars
             PROVE  QueryInv'
  OBVIOUS
<1> USE DEF QueryInv, Own, queryVars, askVars, loopVars
<1>1. CASE Start
  BY <1>1 DEF Start, AtBegin
<1>2. CASE Launch
  BY <1>2 DEF Launch, AtBegin
<1>3. CASE FFmpegExits
  BY <1>3 DEF FFmpegExits, ProcessEnds, AtExit
<1>4. CASE LoopEnds
  BY <1>4 DEF LoopEnds
<1>5. CASE Progress
  BY <1>5 DEF Progress
<1>6. CASE CheckKills
  <2>1. phase \in {"run", "exited"}
    BY <1>6 DEF CheckKills, CheckDue, ClockInv
  <2> QED
    BY <1>6, <2>1 DEF CheckKills, ProcessEnds, AtExit
<1>7. CASE LaunchFails \/ WaitReturns
  BY <1>7 DEF LaunchFails, WaitReturns, WaitRetry
<1>8. CASE CloseStop \/ RetryFires
  BY <1>8 DEF CloseStop, RetryFires
<1>9. CASE CheckTooEarly \/ CheckProgress \/ CheckWaits \/ MonitorQuits
  BY <1>9 DEF CheckTooEarly, CheckProgress, CheckWaits, MonitorQuits
<1>10. CASE Second
  BY <1>10 DEF Second
<1>11. CASE QueryReads \/ QueryAnswers
  BY <1>11 DEF QueryReads, QueryAnswers
<1>12. CASE UNCHANGED vars
  BY <1>12 DEF vars
<1> QED
  BY <1>1, <1>2, <1>3, <1>4, <1>5, <1>6, <1>7, <1>8, <1>9, <1>10, <1>11, <1>12 DEF Next

\* No query is answered with a value that was not the worker's own either when it
\* read startedAt or when it loads the PTS, though the two reads are not one
\* (ffmpeg_worker.go:78, 452, 455, 464, 531).
THEOREM QueriesAreAnsweredOwn == Spec => []PtsAnswerIsOwn
<1>1. TimingTypeOK /\ QueryInv => PtsAnswerIsOwn
  BY DEF QueryInv, PtsAnswerIsOwn, Answer, Own
<1> QED
  BY <1>1, InitQuery, StepQuery, TimingTypesHold, ClocksAgree, PTL DEF Spec

-----------------------------------------------------------------------------
(* The backoff *)

\* A set with one more element has as many subsets again: those with it.
LEMMA TwiceTheSubsets ==
  ASSUME NEW n \in Nat
  PROVE  Cardinality(SUBSET (1 .. n + 1)) = Cardinality(SUBSET (1 .. n)) * 2
<1> DEFINE S == 1 .. n
           T == 1 .. n + 1
           With == {A \cup {n + 1} : A \in SUBSET S}
           f == [A \in SUBSET S |-> A \cup {n + 1}]
<1>1. n + 1 \notin S /\ T = S \cup {n + 1}
  OBVIOUS
<1>0. IsFiniteSet(S)
  <2>1. n \in Int /\ 1 \in Int
    OBVIOUS
  <2> QED
    BY <2>1, FS_Interval
<1> HIDE DEF S, T
<1>2. IsFiniteSet(SUBSET S)
  BY <1>0, FS_SUBSET
<1>3. ExistsBijection(SUBSET S, With)
  <2>1. f \in [SUBSET S -> With]
    OBVIOUS
  <2>2. \A A, B \in SUBSET S : f[A] = f[B] => A = B
    <3>1. \A A, B \in SUBSET S : A \cup {n + 1} = B \cup {n + 1} => A = B
      BY <1>1
    <3> QED
      BY <3>1
  <2>3. \A W \in With : \E A \in SUBSET S : f[A] = W
    OBVIOUS
  <2> HIDE DEF f, With
  <2>4. f \in Bijection(SUBSET S, With)
    BY <2>1, <2>2, <2>3, Fun_IsBij
  <2> QED
    BY <2>4, Fun_ExistsBij
<1>4. IsFiniteSet(With) /\ Cardinality(With) = Cardinality(SUBSET S)
  <2> HIDE DEF With
  <2> QED
    BY <1>2, <1>3, FS_Bijection
<1>5. SUBSET T = (SUBSET S) \cup With
  <2>1. ASSUME NEW A \in SUBSET T, n + 1 \in A
        PROVE  A \in With
    <3>1. A \ {n + 1} \in SUBSET S /\ A = (A \ {n + 1}) \cup {n + 1}
      BY <1>1, <2>1
    <3> QED
      BY <3>1
  <2>2. \A A \in SUBSET T : n + 1 \notin A => A \in SUBSET S
    BY <1>1
  <2>3. With \subseteq SUBSET T /\ SUBSET S \subseteq SUBSET T
    BY <1>1
  <2> HIDE DEF With
  <2>4. SUBSET T \subseteq (SUBSET S) \cup With
    BY <2>1, <2>2
  <2> QED
    BY <2>3, <2>4
<1>6. (SUBSET S) \cap With = {}
  <2>1. \A A \in With : n + 1 \in A
    OBVIOUS
  <2>2. \A A \in SUBSET S : n + 1 \notin A
    BY <1>1
  <2> HIDE DEF With
  <2> QED
    BY <2>1, <2>2
<1> HIDE DEF With
<1>7. Cardinality(SUBSET S) \in Nat /\ Cardinality({}) = 0
  BY <1>2, FS_CardinalityType, FS_EmptySet
<1>8. Cardinality(SUBSET T) = Cardinality(SUBSET S) + Cardinality(With) - 0
  BY <1>2, <1>4, <1>5, <1>6, <1>7, FS_Union
<1> QED
  BY <1>4, <1>7, <1>8 DEF S, T

\* A power of two is the number of subsets of a set of that size.
LEMMA PowerIsSubsets ==
  ASSUME NEW n \in Nat
  PROVE  /\ 2 ^ n \in Nat
         /\ 2 ^ n = Cardinality(SUBSET (1 .. n))
<1>1. IsFiniteSet(1 .. n) /\ Cardinality(1 .. n) = n
  <2>1. n \in Int /\ 1 \in Int
    OBVIOUS
  <2>2. IsFiniteSet(1 .. n) /\ Cardinality(1 .. n) = IF 1 > n THEN 0 ELSE n - 1 + 1
    BY <2>1, FS_Interval
  <2> QED
    BY <2>2
<1>2. IsFiniteSet(SUBSET (1 .. n)) /\ Cardinality(SUBSET (1 .. n)) = 2 ^ n
  BY <1>1, FS_SUBSET
<1> QED
  BY <1>2, FS_CardinalityType

\* The powers of two, step by step.
LEMMA PowerOfTwo ==
  /\ 2 ^ 0 = 1
  /\ \A n \in Nat : 2 ^ n \in Nat /\ 2 ^ (n + 1) = 2 ^ n * 2
<1>1. 2 ^ 0 = 1
  OBVIOUS
<1>2. ASSUME NEW n \in Nat
      PROVE  2 ^ n \in Nat /\ 2 ^ (n + 1) = 2 ^ n * 2
  <2>1. n + 1 \in Nat
    OBVIOUS
  <2>2. 2 ^ n \in Nat /\ 2 ^ n = Cardinality(SUBSET (1 .. n))
    BY PowerIsSubsets
  <2>3. 2 ^ (n + 1) = Cardinality(SUBSET (1 .. n + 1))
    BY <2>1, PowerIsSubsets
  <2> QED
    BY <2>2, <2>3, TwiceTheSubsets
<1> QED
  BY <1>1, <1>2

\* The first delay is retryDelayMin, each one is twice the one before as far as
\* the limit goes, and at the bound of the attempts it has reached the limit.
LEMMA DelayDoubles ==
  /\ DelayAfter(0) = RetryMin
  /\ \A n \in Nat : DelayAfter(n + 1) = minDuration(DelayAfter(n) * 2, RetryMax)
  /\ DelayAfter(AttemptCap - 1) = RetryMax /\ DelayAfter(AttemptCap) = RetryMax
<1> USE TimingAssumption
<1>1. DelayAfter(0) = RetryMin
  <2>1. RetryMin * 2 ^ 0 = RetryMin
    BY PowerOfTwo
  <2> QED
    BY <2>1 DEF DelayAfter, minDuration
<1>2. ASSUME NEW n \in Nat
      PROVE  DelayAfter(n + 1) = minDuration(DelayAfter(n) * 2, RetryMax)
  <2>1. PICK x \in Nat : x = RetryMin * 2 ^ n
    BY PowerOfTwo
  <2>2. RetryMin * 2 ^ (n + 1) = x * 2
    <3>1. RetryMin * 2 ^ (n + 1) = RetryMin * (2 ^ n * 2) /\ 2 ^ n \in Nat
      BY PowerOfTwo
    <3>2. \A a, b \in Nat : a * (b * 2) = (a * b) * 2
      OBVIOUS
    <3> QED
      BY <2>1, <3>1, <3>2
  <2> QED
    BY <2>1, <2>2 DEF DelayAfter, minDuration
<1>3. DelayAfter(AttemptCap - 1) = RetryMax
  <2>1. RetryMin * 2 ^ (AttemptCap - 1) \in Nat
    BY PowerOfTwo
  <2> QED
    BY <2>1, AttemptCapAssumption DEF DelayAfter, minDuration
<1>4. DelayAfter(AttemptCap) = RetryMax
  <2>1. AttemptCap - 1 \in Nat /\ (AttemptCap - 1) + 1 = AttemptCap
    OBVIOUS
  <2>2. DelayAfter(AttemptCap) = minDuration(RetryMax * 2, RetryMax)
    BY <1>2, <1>3, <2>1
  <2> QED
    BY <2>2 DEF minDuration
<1> QED
  BY <1>1, <1>2, <1>3, <1>4

\* The backoff has not begun at first.
LEMMA InitBackoff == Init => BackoffInv
BY DEF Init, BackoffInv

\* A failed launch or the end of a process counts the attempt.
LEMMA WaitRetryBackoff ==
  ASSUME NEW attempt \in 0 .. AttemptCap, WaitRetry(DelayAfter(attempt), attempt)
  PROVE  BackoffInv'
<1> USE TimingAssumption
<1>1. CASE attempt = AttemptCap
  <2>1. phase' = "retry" /\ retryAttempt' = AttemptCap /\ retryDelay' = RetryMax
    BY <1>1, DelayDoubles DEF WaitRetry, minDuration
  <2> QED
    BY <2>1, DelayDoubles DEF BackoffInv
<1>2. CASE attempt < AttemptCap
  <2>1. phase' = "retry" /\ retryAttempt' = attempt + 1 /\ retryDelay' = DelayAfter(attempt)
    BY <1>2 DEF WaitRetry, minDuration
  <2>2. (attempt + 1) - 1 = attempt /\ attempt + 1 > 0
    OBVIOUS
  <2> QED
    BY <2>1, <2>2 DEF BackoffInv
<1> QED
  BY <1>1, <1>2

\* Every step keeps the delay and the attempt together.
LEMMA StepBackoff == TimingTypeOK /\ ClockInv /\ BackoffInv /\ [Next]_vars => BackoffInv'
<1> SUFFICES ASSUME TimingTypeOK, ClockInv, BackoffInv, [Next]_vars
             PROVE  BackoffInv'
  OBVIOUS
<1> USE TimingAssumption
<1>0. retryAttempt \in 0 .. AttemptCap /\ 0 \in 0 .. AttemptCap
  BY DEF TimingTypeOK
<1>1. CASE Start
  BY <1>1, DelayDoubles DEF Start, BackoffInv
<1>2. CASE LaunchFails
  <2>1. WaitRetry(DelayAfter(retryAttempt), retryAttempt)
    BY <1>2 DEF LaunchFails, BackoffInv
  <2> QED
    BY <1>0, <2>1, WaitRetryBackoff
<1>3. CASE WaitReturns
  <2>1. \/ WaitRetry(DelayAfter(retryAttempt), retryAttempt)
        \/ WaitRetry(DelayAfter(0), 0)
    BY <1>3, DelayDoubles DEF WaitReturns, BackoffInv
  <2> QED
    BY <1>0, <2>1, WaitRetryBackoff
<1>4. CASE RetryFires
  <2>1. PICK n \in Nat : n = retryAttempt - 1
    BY <1>0, <1>4 DEF RetryFires, BackoffInv
  <2>2. n + 1 = retryAttempt
    BY <1>0, <2>1
  <2>3. phase' = "top" /\ retryAttempt' = retryAttempt
        /\ retryDelay' = minDuration(DelayAfter(n) * 2, RetryMax)
    BY <1>4, <2>1 DEF RetryFires, BackoffInv
  <2>4. retryDelay' = DelayAfter(retryAttempt')
    BY <2>2, <2>3, DelayDoubles
  <2> QED
    BY <2>3, <2>4 DEF BackoffInv
<1>5. CASE CheckKills
  <2>1. phase \in {"run", "exited"}
    BY <1>5 DEF CheckKills, CheckDue, ClockInv
  <2> QED
    BY <1>5, <2>1 DEF CheckKills, BackoffInv
<1>6. CASE Launch \/ FFmpegExits \/ LoopEnds
  BY <1>6 DEF Launch, FFmpegExits, LoopEnds, BackoffInv
<1>7. CASE UNCHANGED <<phase, retryDelay, retryAttempt>>
  BY <1>7 DEF BackoffInv
<1>8. CASE CloseStop \/ Progress \/ CheckTooEarly \/ CheckProgress \/ CheckWaits
            \/ MonitorQuits \/ QueryReads \/ QueryAnswers \/ Second \/ UNCHANGED vars
  BY <1>7, <1>8
     DEF CloseStop, Progress, CheckTooEarly, CheckProgress, CheckWaits, MonitorQuits,
         QueryReads, QueryAnswers, Second, vars, loopVars
<1> QED
  BY <1>1, <1>2, <1>3, <1>4, <1>5, <1>6, <1>8 DEF Next

\* The delay before attempt n is retryDelayMin * 2^(n-1), capped, whatever the two
\* limits are (ffmpeg_worker.go:505, 516, 526, 555, 572).
THEOREM DelaysMatchAttempts == Spec => []DelayMatchesAttempt
<1>1. TimingTypeOK /\ BackoffInv => DelayMatchesAttempt
  BY DEF BackoffInv, DelayAfter, DelayMatchesAttempt
<1> QED
  BY <1>1, InitBackoff, StepBackoff, TimingTypesHold, ClocksAgree, PTL DEF Spec
=============================================================================
