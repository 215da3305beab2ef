---------------------------- MODULE MCAdminAccess ----------------------------
(* The sessions of the run are interchangeable, and the later accounts.    *)
EXTENDS AdminAccess, TLC

Renaming == Permutations(Session) \cup Permutations(User \ {Initial})
=============================================================================
