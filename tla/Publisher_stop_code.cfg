\* One reader, a healthy ffmpeg, START and STOP: what STOP answers.
CONSTANTS
  Workers = {t1}
  Targets = {t1}
  Callers = {m, c1}
  Main = m
  Runs = {r1, r2, r3}
  None = None
  SharedKey = s
  Shared = FALSE
  PublishOnReady = FALSE
  Faults = {}
  Windows = FALSE
  PromptExit = TRUE
  Matches <- AnyMatch
  Commands = {"START", "STOP"}
  Signals = FALSE
SPECIFICATION Spec
INVARIANTS SuccessMeansStopped
