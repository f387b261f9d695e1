-------------------------- MODULE MCStatsRecorder --------------------------
(* Instances of StatsRecorder for TLC.                                     *)
EXTENDS StatsRecorder, TLC

EventSymmetry == Permutations(Events) \cup Permutations(Batches)
=============================================================================
