-------------------------- MODULE MCCommentThreads --------------------------
(* The comments of the run are interchangeable. *)
EXTENDS CommentThreads, TLC

Renaming == Permutations(Comment)
=============================================================================
