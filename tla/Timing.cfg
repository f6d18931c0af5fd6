\* The durations of the code, in seconds.
CONSTANTS
  RetryMin = 3
  RetryMax = 60
  ResetAfter = 30
  CheckInterval = 3
  StallTimeout = 20
  AttemptCap = 6
  SilenceCap = 45
SPECIFICATION Spec
INVARIANTS TimingTypeOK DelayMatchesAttempt OnlyStalledIsKilled StallIsNoticed SilentRunKeepsBackoff PtsAnswerIsOwn
