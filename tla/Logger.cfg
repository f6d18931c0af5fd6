\* Two loggers, the second replacing the first; a goroutine that logs (addlog is
\* atomic but for the read of gLogger); three midnights in a month of three days:
\* the day of the month comes round, and a file of yesterday is not one of a month
\* ago; every fault of the file system.
CONSTANTS
  Callers = {c1}
  Loggers = {l1, l2}
  None = None
  MaxQueue = 2
  MaxMessages = 3
  MonthDays = 3
  LastDate = 3
  Faults = {"open", "write"}
SPECIFICATION FairSpec
INVARIANTS LoggerTypeOK WritesToTodaysFile
PROPERTIES LoggersAreLossyLogs InitLogReturns QueueDrains
