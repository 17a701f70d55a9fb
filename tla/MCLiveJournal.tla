---------------------------- MODULE MCLiveJournal ----------------------------
(* LiveJournal for TLC: stops are only compared, so any two may be exchanged. *)
EXTENDS LiveJournal, TLC

Interchangeable == Permutations(Stop)
=============================================================================
