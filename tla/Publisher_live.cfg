\* Liveness: main, one reader, a healthy ffmpeg and a signal.
CONSTANTS
  Workers = {t1}
  Targets = {t1}
  Callers = {m, c1}
  Main = m
  Runs = {r1, r2, r3}
  None = None
  SharedKey = s
  Shared = FALSE
  PublishOnReady = FALSE
  Faults = {}
  Windows = TRUE
  PromptExit = TRUE
  Matches <- AnyMatch
  Commands = {"START", "STOP", "DOWN", "UP"}
  Signals = TRUE
SPECIFICATION FairSpec
PROPERTIES CommandsAreAnswered ShutdownEnds
