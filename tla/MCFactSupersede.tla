--------------------------- MODULE MCFactSupersede ---------------------------
(* Model-checking instance of FactSupersede. *)
EXTENDS FactSupersede, TLC

\* A create key is admitted for the first epoch; any generation, always in time.
MCRows ==
  {[generation |-> g, epoch |-> 1, activated |-> 1, cutoff |-> 1, revoked |-> FALSE] : g \in Generations}

Symmetry == Permutations(BatchIds) \cup Permutations(Facts) \cup Permutations(Generations)
=============================================================================
