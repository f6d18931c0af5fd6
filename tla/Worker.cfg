\* One worker, two callers whose starts and stops overlap in every way, under
\* the fairness of the Go scheduler.
CONSTANTS
  Workers = {t1}
  Targets = {t1}
  Callers = {c1, c2}
  Runs = {r1, r2}
  None = None
  Faults = {"launch", "exit", "hang"}
  Windows = TRUE
  PromptExit = FALSE
SPECIFICATION FairWorkerSpec
INVARIANTS OneRunLoop LoopOwnsChannels DoneMeansGone
PROPERTIES WorkersKeepPromises KillHitsOwnRun NoRetryAfterStop StoppedRunEnds RetriesForever StallIsKilled
