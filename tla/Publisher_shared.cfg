\* Two targets of one shared ffmpeg process, main and one reader.
CONSTANTS
  Workers = {s}
  Targets = {t1, t2}
  Callers = {m, c1}
  Main = m
  Runs = {r1, r2, r3}
  None = None
  SharedKey = s
  Shared = TRUE
  PublishOnReady = TRUE
  Faults = {"launch", "exit", "hang"}
  Windows = TRUE
  PromptExit = FALSE
  Matches <- AnyMatch
  Commands = {"START", "STOP", "DOWN", "UP"}
  Signals = TRUE
SPECIFICATION Spec
SYMMETRY RunTargetSymmetry
INVARIANTS TypeOK PausedIsSilent
