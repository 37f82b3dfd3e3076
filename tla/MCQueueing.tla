----------------------------- MODULE MCQueueing -----------------------------
(* PipelineRunQueueing for TLC.                                            *)
EXTENDS PipelineRunQueueing, TLC

\* Runs are interchangeable; used by the runs without liveness properties.
RunSymmetry == Permutations(Run)
=============================================================================
