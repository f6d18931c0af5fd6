\* Liveness under the fairness of the scheduler and a reachable server; no
\* handler panics.
CONSTANTS
  Sessions = {s1, s2}
  Conns = {k1, k2}
  None = None
  HandlerPanics = FALSE
  MayShutDown = FALSE
SPECIFICATION FairSelectSpec
PROPERTIES Reconnects Listens
