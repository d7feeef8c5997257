--------------------------- MODULE MCAccountWatcher ---------------------------
(* Instances of AccountWatcher for TLC.                                    *)
EXTENDS AccountWatcher, TLC

ClientAndLinkSymmetry == Permutations(Clients) \cup Permutations(Links)
=============================================================================
