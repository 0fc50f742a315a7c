---------------------------- MODULE MCMeteringWAL ----------------------------
(* MeteringWAL for the safety runs with restarts: the entries are          *)
(* interchangeable, so TLC explores one of each set of symmetric states.   *)
EXTENDS MeteringWAL, TLC

EntrySymmetry == Permutations(Entries)
=============================================================================
