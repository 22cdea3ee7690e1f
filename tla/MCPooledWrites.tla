--------------------------- MODULE MCPooledWrites ---------------------------
(* Model-checking instances of PooledWrites. *)
EXTENDS PooledWrites, TLC

\* No id, digest or content is told apart from another by name.
Symmetry ==
  Permutations(Keys) \cup Permutations(Digests) \cup Permutations(Sources)
    \cup Permutations(Contents) \cup Permutations(Workers)
=============================================================================
