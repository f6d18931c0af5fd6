------------------------- MODULE MCFFmpegPublisher -------------------------
(***************************************************************************)
(* Finite instances of FFmpegPublisher for TLC.                            *)
(***************************************************************************)
EXTENDS FFmpegPublisher, TLC

\* What resolveTargetsLocked may return: no match, an exact match, or every
\* configured URL with the same base.
AnyMatch == {{}, Targets} \cup {{t} : t \in Targets}

\* Callers that ever stop a worker.
Stoppers == IF Signals THEN Callers ELSE Readers

\* Every start finds an unused identity: a worker and a stop hold one each.
ASSUME EnoughRuns == Cardinality(Runs) >= Cardinality(Workers) + Cardinality(Stoppers)

RunSymmetry == Permutations(Runs)
RunTargetSymmetry == Permutations(Runs) \cup Permutations(Targets)
RunReaderSymmetry == Permutations(Runs) \cup Permutations(Readers)
=============================================================================
