--------------------------- MODULE MCFFmpegWorker ---------------------------
(***************************************************************************)
(* Finite instances of FFmpegWorker for TLC.                               *)
(***************************************************************************)
EXTENDS FFmpegWorker, Naturals, TLC

\* The fields of a worker refer to one run and leave an identity for the next.  A
\* caller inside a stop may refer to that one: the start of a third run then waits.
ASSUME EnoughRuns == Cardinality(Runs) > Cardinality(Workers)

RunSymmetry == Permutations(Runs) \cup Permutations(Callers) \cup Permutations(Workers)
=============================================================================
