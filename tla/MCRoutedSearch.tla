--------------------------- MODULE MCRoutedSearch ---------------------------
(* Model-checking instance of RoutedSearch: three shards and two profile      *)
(* stores.  Item 1 is in several databases with different scores, in shard 3  *)
(* and store 5 with another content; shard 1 may hold more than TopK facts.   *)
(* No search asks both shards and stores: at the start one kind is empty.     *)
EXTENDS RoutedSearch, TLC

CONSTANTS x, y

Fact(in, item, content, score) ==
  [in |-> in, item |-> item, content |-> content, score |-> score]

MCFacts ==
  {Fact(1, 1, x, 3), Fact(1, 2, x, 2), Fact(1, 3, x, 1), Fact(2, 1, x, 2),
   Fact(3, 1, y, 1), Fact(4, 1, x, 2), Fact(5, 1, y, 1)}
MCFirstHeld ==
  SUBSET {f \in MCFacts : f.in \in Shards} \cup SUBSET {f \in MCFacts : f.in \in Stores}
=============================================================================
