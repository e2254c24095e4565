----------------------------- MODULE MCEmbedCache -----------------------------
(* One or two visitors of two pages, at one or two replicas.                  *)
EXTENDS EmbedCache, TLC

Symmetry == Permutations(Tasks) \cup Permutations(Replicas)

=============================================================================
