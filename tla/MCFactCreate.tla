---------------------------- MODULE MCFactCreate ----------------------------
(* Model-checking instances of FactCreateReplication. *)
EXTENDS FactCreateReplication, TLC

\* Sound for the safety instance: there every fact is a fact-create record, and
\* no fact, fence, id or process is told apart from another by name.
Symmetry ==
  Permutations(BatchIds) \cup Permutations(Invocations) \cup Permutations(Workers)
    \cup Permutations(Facts) \cup Permutations(Fences)
=============================================================================
