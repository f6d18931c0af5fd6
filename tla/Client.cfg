\* Two sessions, panicking handlers, and a signal at any moment.
CONSTANTS
  Sessions = {s1, s2}
  Conns = {k1, k2}
  None = None
  HandlerPanics = TRUE
  MayShutDown = TRUE
SPECIFICATION ShutdownSpec
INVARIANTS ClientTypeOK NoConnForgotten StopChClosedOnce WakeUpIsPossible
PROPERTIES ShutdownCompletes
