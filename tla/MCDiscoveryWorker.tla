------------------------- MODULE MCDiscoveryWorker -------------------------
(* Two requests about one site and one topic, up to three jobs. *)
EXTENDS DiscoveryWorker, TLC
CONSTANTS c1, c2, site, topic

CallSymmetry == Permutations(Call)
=============================================================================
