--------------------------- MODULE MCPageRegistry ---------------------------
(* Two pages of one site, or two of one key; keys and sites may be renamed. *)
EXTENDS PageRegistry, TLC

MCWebs == {Key \X {s} : s \in Site} \cup {{k} \X Site : k \in Key}
Pages == Permutations(Key) \cup Permutations(Site)
=============================================================================
