---------------------------- MODULE MCProvenance ----------------------------
(* Model-checking instance of Provenance: requests that make a chain, a cycle, *)
(* a supersession with a window, recorded now or with a time of the caller, a  *)
(* conflicting retry, an edge of an operation that is submitted late, an edge  *)
(* to an operation id that is none, said to supersede another edge, and more   *)
(* edges at one item than a query returns.  c and d are two items with one key *)
(* that is parsed to c, as are a:b of kind "fact" and b of kind "fact:a".      *)
EXTENDS Provenance, TLC

CONSTANTS a, b, c, d, o1, o2, bad, x, y

Edge(type, src, dst, op, from, to, body, sup) ==
  [type |-> type, src |-> src, dst |-> dst, op |-> op, from |-> from, to |-> to,
   body |-> body, sup |-> sup]

AB == Contradict(a, b, o1, None, None, x)
ABOther == Contradict(a, b, o1, None, None, y)
BC == Edge("supports", b, c, o1, None, None, x, None)
CB == Supersede(c, b, o1, 1, 2, x)
BD == Edge("supports", b, d, o1, None, None, x, None)
Observed == Edge("observed_by", b, o1, o1, None, None, x, None)
ToBad == Edge("derived_from", c, bad, o2, None, None, x, 1)
Loop == Edge("supports", a, a, o1, None, None, x, None)
Backwards == Edge("supports", a, c, o1, 2, 1, x, None)
NotObserve == Edge("observed_by", a, o2, o2, None, None, x, None)
Stranger == Edge("supports", a, c, o2, None, None, y, None)

MCForeign == {<<o2, y>>}
MCRequests == {AB, ABOther, BC, BD, CB, Observed, ToBad, Loop, Backwards, NotObserve, Stranger}

Now(r) == [req |-> r, rec |-> None]
At(r, t) == [req |-> r, rec |-> t]
MCBatches ==
  {<<Now(AB)>>, <<Now(BC)>>, <<At(BD, 0)>>, <<Now(CB)>>, <<Now(Observed)>>, <<Now(ToBad)>>,
   <<Now(Backwards)>>, <<At(AB, 1), Now(BC)>>, <<Now(BC), At(AB, 1), Now(ABOther)>>,
   <<At(AB, 1), Now(NotObserve)>>, <<Now(Observed), Now(Loop)>>, <<Now(BC), Now(Stranger)>>}

MCKey == [n \in Nodes |-> IF n = d THEN c ELSE n]
MCParsed == [k \in Range(MCKey) |-> k]
MCAsOfs == {[rec |-> None, valid |-> None], [rec |-> 0, valid |-> 1]}
=============================================================================
