---------------------------- MODULE MCLifecycle ----------------------------
(* Two installation requests for one database and one for another, upgrades
   tried twice on the web and twice on the command line.                   *)
EXTENDS Lifecycle, TLC

Symmetry == Permutations(Here) \cup Permutations(Web) \cup Permutations(Cli)
=============================================================================
