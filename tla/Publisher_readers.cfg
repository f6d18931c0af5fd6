\* One target, two readers: an old read loop still in a handler after a reconnect.
CONSTANTS
  Workers = {t1}
  Targets = {t1}
  Callers = {m, c1, c2}
  Main = m
  Runs = {r1, r2, r3}
  None = None
  SharedKey = s
  Shared = FALSE
  PublishOnReady = FALSE
  Faults = {"exit"}
  Windows = FALSE
  PromptExit = FALSE
  Matches <- AnyMatch
  Commands = {"START", "STOP", "DOWN", "UP"}
  Signals = FALSE
SPECIFICATION Spec
SYMMETRY RunReaderSymmetry
INVARIANTS AtMostOneLatePausedLaunch
PROPERTIES PublisherIsAClient
