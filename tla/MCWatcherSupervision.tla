------------------------ MODULE MCWatcherSupervision ------------------------
(* Instances of WatcherSupervision for TLC.                                *)
EXTENDS WatcherSupervision, TLC

ClientSymmetry == Permutations(Clients)
=============================================================================
