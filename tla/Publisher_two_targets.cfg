\* Two targets and one reader that pauses and resumes each of them or both.
CONSTANTS
  Workers = {t1, t2}
  Targets = {t1, t2}
  Callers = {m, c1}
  Main = m
  Runs = {r1, r2, r3}
  None = None
  SharedKey = s
  Shared = FALSE
  PublishOnReady = FALSE
  Faults = {"exit"}
  Windows = TRUE
  PromptExit = TRUE
  Matches <- AnyMatch
  Commands = {"START", "STOP", "DOWN", "UP"}
  Signals = FALSE
SPECIFICATION Spec
SYMMETRY RunTargetSymmetry
INVARIANTS StartIsEffective PausedIsSilent PanicNeedsAbandonedStop
