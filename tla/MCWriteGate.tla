----------------------------- MODULE MCWriteGate -----------------------------
(* The challenges of the run are interchangeable; bounds on its histories. *)
EXTENDS WriteGate, TLC

Renaming == Permutations(Challenge)
=============================================================================
