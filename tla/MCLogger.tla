------------------------------ MODULE MCLogger ------------------------------
(***************************************************************************)
(* A finite instance of Logger for TLC.                                    *)
(***************************************************************************)
EXTENDS Logger, FiniteSets

\* A logger is replaced, its queue overflows, the day of the month comes round, and
\* months are so long that one missed midnight is no month of silence.
ASSUME EverythingHappens ==
  /\ Cardinality(Loggers) >= 2
  /\ MaxMessages > MaxQueue
  /\ LastDate >= MonthDays /\ MonthDays >= 3
=============================================================================
