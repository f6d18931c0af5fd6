\* The read loops of one connection.
CONSTANTS
  Sessions = {s1, s2, s3}
  Conns = {k1, k2}
  None = None
  HandlerPanics = FALSE
  MayShutDown = FALSE
SPECIFICATION Spec
INVARIANTS OneReaderPerConn
