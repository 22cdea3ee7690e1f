-------------------------- MODULE ProvenanceProofs --------------------------
(***************************************************************************)
(* Theorems of Provenance.  The loops of the code are recursive functions: *)
(* what holds before a loop and is kept by each of its turns holds after   *)
(* it (RecordAllKeeps, FollowAllKeeps).  The rest is about the two sides   *)
(* of the component: rows that are only added, and a walk by breadth.      *)
(***************************************************************************)
EXTENDS Provenance, FiniteSetTheorems, WellFoundedInduction, TLAPS

-----------------------------------------------------------------------------
(* Induction and recursion up to a bound.                                  *)

\* A set of naturals up to L that is entered at 0 and never left is all of them.
LEMMA UpTo ==
  ASSUME NEW L \in Nat, NEW T \in SUBSET (0..L), 0 \in T,
         \A n \in 1..L : n - 1 \in T => n \in T
  PROVE  T = 0..L
  <1> DEFINE R == OpToRel(<, Nat)
             Rest == (0..L) \ T
  <1>1. SUFFICES ASSUME Rest # {} PROVE FALSE
    OBVIOUS
  <1>2. IsWellFoundedOn(R, Nat)
    BY NatLessThanWellFounded
  <1>3. R = {ss \in Nat \X Nat : ss[1] < ss[2]}
    BY Zenon DEF OpToRel
  <1>4. Rest \subseteq Nat
    OBVIOUS
  <1> HIDE DEF R
  <1>5. PICK x \in Rest : \A y \in Rest : ~(<<y, x>> \in R)
    <2> HIDE DEF Rest
    <2> QED
      BY <1>1, <1>2, <1>4, WFMin
  <1>6. x # 0 /\ x - 1 \notin Rest
    <2>1. ~(<<x - 1, x>> \in R) \/ x - 1 \notin Rest
      BY <1>5
    <2>2. x # 0
      OBVIOUS
    <2> QED
      BY <1>3, <2>1, <2>2
  <1> QED
    BY <1>6

\* f is defined up to L by recursion with step.
Recursive(f, L, X, x0, step) ==
  /\ f \in [0..L -> X]
  /\ f[0] = x0 /\ \A n \in 1..L : f[n] = step[<<n, f[n - 1]>>]

\* A function that is defined by recursion up to L exists.
LEMMA Recursion ==
  ASSUME NEW L \in Nat, NEW X, NEW x0 \in X, NEW step \in [(1..L) \X X -> X]
  PROVE  \E f : Recursive(f, L, X, x0, step)
  <1> DEFINE Good(n, f) == f[0] = x0 /\ \A k \in 1..n : f[k] = step[<<k, f[k - 1]>>]
             T == {n \in 0..L : \E f \in [0..n -> X] : Good(n, f)}
  <1>1. 0 \in T
    <2>1. [n \in 0..0 |-> x0] \in [0..0 -> X] /\ Good(0, [n \in 0..0 |-> x0])
      OBVIOUS
    <2>2. \E f \in [0..0 -> X] : Good(0, f)
      BY <2>1
    <2> QED
      BY <2>2
  <1>2. ASSUME NEW n \in 1..L, n - 1 \in T PROVE n \in T
    <2>1. PICK f \in [0..(n - 1) -> X] : Good(n - 1, f)
      BY <1>2
    <2>2. f[n - 1] \in X
      OBVIOUS
    <2>3. step[<<n, f[n - 1]>>] \in X
      BY <2>2
    <2> DEFINE g == [k \in 0..n |-> IF k = n THEN step[<<n, f[n - 1]>>] ELSE f[k]]
    <2>4. g \in [0..n -> X]
      BY <2>3
    <2>5. \A k \in 0..(n - 1) : g[k] = f[k]
      OBVIOUS
    <2>6. g[n] = step[<<n, f[n - 1]>>]
      OBVIOUS
    <2> HIDE DEF g
    <2>7. g[0] = x0
      BY <2>1, <2>5
    <2>8. ASSUME NEW k \in 1..n PROVE g[k] = step[<<k, g[k - 1]>>]
      <3>1. CASE k = n
        BY <2>5, <2>6, <3>1
      <3>2. CASE k # n
        <4>1. k \in 1..(n - 1) /\ k \in 0..(n - 1) /\ k - 1 \in 0..(n - 1)
          BY <3>2
        <4> QED
          BY <2>1, <2>5, <4>1
      <3> QED
        BY <3>1, <3>2
    <2> QED
      BY <2>4, <2>7, <2>8
  <1>3. T = 0..L
    <2> HIDE DEF T
    <2>1. T \in SUBSET (0..L)
      BY DEF T
    <2> QED
      BY <1>1, <1>2, <2>1, UpTo
  <1>4. PICK f \in [0..L -> X] : Good(L, f)
    BY <1>3
  <1> QED
    BY <1>4 DEF Recursive

-----------------------------------------------------------------------------
(* Recording.                                                              *)

Txs == [ok : BOOLEAN, rows : Seq(Rows), ids : Seq(Nat)]
Begun == [ok |-> TRUE, rows |-> edges, ids |-> <<>>]

LEMMA RowType ==
  ASSUME NEW rows \in Seq(Rows), NEW i \in DOMAIN rows
  PROVE  rows[i] \in Rows /\ rows[i].req \in Requests /\ rows[i].rec \in Nat
  <1>1. rows[i] \in Rows
    OBVIOUS
  <1> QED
    BY <1>1 DEF Rows

\* What one request does to a transaction.
\* The row of a request.
LEMMA RowOfType ==
  ASSUME TypeOK, NEW sent \in Sent
  PROVE  /\ RowOf(sent) \in Rows /\ RowOf(sent).req = sent.req /\ sent.req \in Requests
         /\ ~ RowOf(sent).given => RowOf(sent).rec = now
  <1>1. sent.req \in Requests /\ sent.rec \in Nat \cup {None} /\ now \in Nat
    BY DEF Sent, TypeOK
  <1> QED
    BY <1>1 DEF RowOf, Rows

LEMMA RecordOneCases ==
  ASSUME TypeOK, NEW tx \in Txs, NEW sent \in Sent, NEW r, r = sent.req
  PROVE  /\ RecordOne(tx, sent) \in Txs
         /\ RecordOne(tx, sent).ok =>
              /\ tx.ok /\ Acceptable(tx.rows, r)
              /\ \/ \E i \in DOMAIN tx.rows :
                      /\ tx.rows[i].req = r
                      /\ RecordOne(tx, sent) = [tx EXCEPT !.ids = Append(@, i)]
                 \/ /\ Existing(tx.rows, r) = {}
                    /\ RecordOne(tx, sent) =
                         [tx EXCEPT !.rows = Append(@, RowOf(sent)),
                                    !.ids = Append(@, Len(tx.rows) + 1)]
  <1> DEFINE same == {i \in Existing(tx.rows, r) : EdgeMatchesRequest(tx.rows[i], r)}
             old == CHOOSE i \in same : TRUE
             new == RowOf(sent)
             wrong == ~ Acceptable(tx.rows, r) \/ (Existing(tx.rows, r) # {} /\ same = {})
  <1>1. /\ tx.ok \in BOOLEAN /\ tx.rows \in Seq(Rows) /\ tx.ids \in Seq(Nat)
        /\ Len(tx.rows) \in Nat /\ DOMAIN tx.rows = 1..Len(tx.rows)
    BY DEF Txs
  <1>2. \A i \in same : i \in DOMAIN tx.rows /\ i \in Nat /\ tx.rows[i].req = r
    BY <1>1 DEF Existing, EdgeMatchesRequest
  <1>3. CASE ~ tx.ok
    <2>1. RecordOne(tx, sent) = tx
      BY <1>3 DEF RecordOne
    <2> QED
      BY <1>3, <2>1
  <1>4. CASE tx.ok /\ wrong
    <2>1. RecordOne(tx, sent) = [tx EXCEPT !.ok = FALSE]
      BY <1>4 DEF RecordOne
    <2>2. [tx EXCEPT !.ok = FALSE] \in Txs /\ ~ [tx EXCEPT !.ok = FALSE].ok
      BY DEF Txs
    <2> QED
      BY <2>1, <2>2
  <1>5. CASE tx.ok /\ ~ wrong /\ same # {}
    <2>1. RecordOne(tx, sent) = [tx EXCEPT !.ids = Append(@, old)]
      BY <1>5 DEF RecordOne
    <2>2. old \in same
      BY <1>5
    <2> HIDE DEF old
    <2>3. old \in DOMAIN tx.rows /\ old \in Nat /\ tx.rows[old].req = r
      BY <1>2, <2>2
    <2>4. Append(tx.ids, old) \in Seq(Nat)
      BY <1>1, <2>3
    <2>5. [tx EXCEPT !.ids = Append(@, old)] \in Txs
      BY <2>4 DEF Txs
    <2> QED
      BY <1>5, <2>1, <2>3, <2>5
  <1>6. CASE tx.ok /\ ~ wrong /\ same = {}
    <2> DEFINE after == [tx EXCEPT !.rows = Append(@, new), !.ids = Append(@, Len(tx.rows) + 1)]
    <2>1. RecordOne(tx, sent) = after
      BY <1>6 DEF RecordOne
    <2>2. new \in Rows
      BY RowOfType
    <2>3. Append(tx.rows, new) \in Seq(Rows) /\ Append(tx.ids, Len(tx.rows) + 1) \in Seq(Nat)
      <3> HIDE DEF new
      <3> QED
        BY <1>1, <2>2
    <2>4. after \in Txs
      <3> HIDE DEF new
      <3> QED
        BY <2>3 DEF Txs
    <2> QED
      BY <1>6, <2>1, <2>4
  <1> QED
    BY <1>3, <1>4, <1>5, <1>6

\* What is so at the begin of a transaction and kept by each request is so at its end.
LEMMA RecordAllKeeps ==
  ASSUME TypeOK, NEW batch \in Seq(Sent),
         NEW P \in SUBSET ((0..Len(batch)) \X Txs), <<0, Begun>> \in P,
         \A n \in 1..Len(batch), tx \in Txs :
           <<n - 1, tx>> \in P => <<n, RecordOne(tx, batch[n])>> \in P
  PROVE  <<Len(batch), RecordAll(batch)>> \in P
  <1> DEFINE L == Len(batch)
             step == [p \in (1..L) \X Txs |-> RecordOne(p[2], batch[p[1]])]
             turns(f) == [n \in 0..L |-> IF n = 0 THEN Begun ELSE RecordOne(f[n - 1], batch[n])]
             tx == CHOOSE f : f = turns(f)
             T == {n \in 0..L : <<n, tx[n]>> \in P}
  <1>1. L \in Nat /\ \A n \in 1..L : batch[n] \in Sent
    OBVIOUS
  <1>2. Begun \in Txs
    BY DEF TypeOK, Txs, Begun, Rows
  <1>3. step \in [(1..L) \X Txs -> Txs]
    BY <1>1, RecordOneCases
  <1>4. PICK f \in [0..L -> Txs] : f[0] = Begun /\ \A n \in 1..L : f[n] = step[<<n, f[n - 1]>>]
    <2> HIDE DEF L, step
    <2>1. PICK f : Recursive(f, L, Txs, Begun, step)
      BY <1>1, <1>2, <1>3, Recursion
    <2> QED
      BY <2>1 DEF Recursive
  <1>5. f = turns(f)
    <2>1. ASSUME NEW n \in 0..L PROVE f[n] = turns(f)[n]
      <3>1. CASE n = 0
        BY <1>4, <3>1
      <3>2. CASE n # 0
        <4>1. n \in 1..L /\ n - 1 \in 0..L
          BY <1>1, <3>2
        <4>2. f[n - 1] \in Txs
          BY <4>1
        <4>3. step[<<n, f[n - 1]>>] = RecordOne(f[n - 1], batch[n])
          BY <4>1, <4>2
        <4> QED
          BY <1>4, <3>2, <4>1, <4>3
      <3> QED
        BY <3>1, <3>2
    <2> QED
      BY <2>1
  <1>6. tx = turns(tx)
    <2> HIDE DEF turns
    <2> QED
      BY <1>5
  <1>7. RecordAll(batch) = tx[L]
    BY DEF RecordAll, Begun
  <1> HIDE DEF tx
  <1>8. tx[0] = Begun /\ \A n \in 1..L : tx[n] = RecordOne(tx[n - 1], batch[n])
    <2>1. \A n \in 0..L : tx[n] = IF n = 0 THEN Begun ELSE RecordOne(tx[n - 1], batch[n])
      BY <1>6
    <2> QED
      BY <1>1, <2>1
  <1>9. T = 0..L
    <2>1. T \in SUBSET (0..L) /\ 0 \in T
      BY <1>1, <1>8
    <2>2. ASSUME NEW n \in 1..L, n - 1 \in T PROVE n \in T
      <3>1. <<n - 1, tx[n - 1]>> \in P
        BY <2>2
      <3>2. tx[n - 1] \in Txs
        BY <3>1
      <3>3. <<n, RecordOne(tx[n - 1], batch[n])>> \in P
        BY <3>1, <3>2
      <3> QED
        BY <1>8, <3>3
    <2> HIDE DEF T, L
    <2> QED
      BY <1>1, <2>1, <2>2, UpTo
  <1> QED
    BY <1>1, <1>7, <1>9

\* What a transaction that has not failed holds after n requests: the rows that
\* were there, and new rows for events of the batch that were not.
Rightly(n, tx, batch) ==
  /\ Len(edges) <= Len(tx.rows) /\ \A i \in DOMAIN edges : tx.rows[i] = edges[i]
  /\ \A i \in DOMAIN tx.rows \ DOMAIN edges : ~ tx.rows[i].given => tx.rows[i].rec = now
  /\ \A i, j \in DOMAIN tx.rows : Event(tx.rows[i].req) = Event(tx.rows[j].req) => i = j
  /\ \A i \in DOMAIN tx.rows : tx.rows[i].req.sup # None => tx.rows[i].req.sup < i
  /\ Len(tx.ids) = n
  /\ \A m \in 1..n : tx.ids[m] \in DOMAIN tx.rows /\ tx.rows[tx.ids[m]].req = batch[m].req
  /\ \A i \in DOMAIN tx.rows \ DOMAIN edges : \E m \in 1..n : tx.ids[m] = i

LEMMA RecordOneKeeps ==
  ASSUME TypeOK, NEW batch \in Seq(Sent), NEW n \in 1..Len(batch), NEW tx \in Txs,
         Rightly(n - 1, tx, batch), RecordOne(tx, batch[n]).ok
  PROVE  Rightly(n, RecordOne(tx, batch[n]), batch)
  <1> DEFINE r == batch[n].req
             new == RowOf(batch[n])
             k == Len(tx.rows)
             after == RecordOne(tx, batch[n])
  <1>1. /\ tx.rows \in Seq(Rows) /\ tx.ids \in Seq(Nat) /\ k \in Nat /\ DOMAIN tx.rows = 1..k
        /\ Len(edges) \in Nat /\ DOMAIN edges = 1..Len(edges) /\ n \in Nat /\ n - 1 \in Nat
        /\ Len(tx.ids) = n - 1 /\ Len(edges) <= k
    BY DEF Txs, TypeOK, Rightly
  <1>n. n \in Nat /\ n - 1 \in Nat
    OBVIOUS
  <1>e. \A i, j \in 1..k : Event(tx.rows[i].req) = Event(tx.rows[j].req) => i = j
    BY <1>1 DEF Rightly
  <1>s. \A i \in 1..k : tx.rows[i].req.sup # None => tx.rows[i].req.sup < i
    BY <1>1 DEF Rightly
  <1>2. /\ batch[n] \in Sent /\ new \in Rows /\ new.req = r
        /\ ~ new.given => new.rec = now
    BY RowOfType
  <1>3. /\ tx.ok /\ Acceptable(tx.rows, r)
        /\ \/ \E i \in DOMAIN tx.rows :
                /\ tx.rows[i].req = r
                /\ after = [tx EXCEPT !.ids = Append(@, i)]
           \/ /\ Existing(tx.rows, r) = {}
              /\ after = [tx EXCEPT !.rows = Append(@, new), !.ids = Append(@, k + 1)]
    BY <1>2, RecordOneCases
  <1> HIDE DEF after, r
  <1>4. CASE \E i \in DOMAIN tx.rows : tx.rows[i].req = r /\ after = [tx EXCEPT !.ids = Append(@, i)]
    <2>1. PICK i \in DOMAIN tx.rows : tx.rows[i].req = r /\ after = [tx EXCEPT !.ids = Append(@, i)]
      BY <1>4
    <2>2. after.rows = tx.rows /\ after.ids = Append(tx.ids, i)
      BY <2>1 DEF Txs
    <2>3. /\ Len(after.ids) = n /\ \A m \in 1..(n - 1) : after.ids[m] = tx.ids[m]
          /\ after.ids[n] = i
      BY <1>1, <2>1, <2>2
    <2>4. ASSUME NEW m \in 1..n
          PROVE  after.ids[m] \in DOMAIN after.rows /\ after.rows[after.ids[m]].req = batch[m].req
      <3>1. CASE m = n
        BY <2>1, <2>2, <2>3, <3>1 DEF r
      <3>2. CASE m # n
        <4>1. m \in 1..(n - 1)
          BY <1>1, <3>2
        <4> QED
          BY <2>2, <2>3, <4>1 DEF Rightly
      <3> QED
        BY <3>1, <3>2
    <2>5. ASSUME NEW j \in DOMAIN after.rows \ DOMAIN edges PROVE \E m \in 1..n : after.ids[m] = j
      <3>1. PICK m \in 1..(n - 1) : tx.ids[m] = j
        BY <2>2 DEF Rightly
      <3>2. after.ids[m] = j /\ m \in 1..n
        BY <1>n, <2>3, <3>1
      <3> QED
        BY <3>2
    <2> QED
      BY <2>2, <2>3, <2>4, <2>5 DEF Rightly, after, r
  <1>5. CASE /\ Existing(tx.rows, r) = {}
             /\ after = [tx EXCEPT !.rows = Append(@, new), !.ids = Append(@, k + 1)]
    <2>1. after.rows = Append(tx.rows, new) /\ after.ids = Append(tx.ids, k + 1)
      BY <1>5 DEF Txs
    <2>2. new.req = r /\ (~ new.given => new.rec = now)
      BY <1>2
    <2> HIDE DEF new, k
    <2>3. /\ DOMAIN after.rows = 1..(k + 1) /\ Len(after.rows) = k + 1
          /\ \A i \in 1..k : after.rows[i] = tx.rows[i]
          /\ after.rows[k + 1] = new
      BY <1>1, <1>2, <2>1 DEF k
    <2>4. /\ Len(after.ids) = n /\ \A m \in 1..(n - 1) : after.ids[m] = tx.ids[m]
          /\ after.ids[n] = k + 1
      BY <1>1, <2>1
    <2>5. Len(edges) <= Len(after.rows) /\ \A i \in DOMAIN edges : after.rows[i] = edges[i]
      BY <1>1, <2>3 DEF Rightly
    <2>6. ASSUME NEW i \in DOMAIN after.rows \ DOMAIN edges
          PROVE  /\ ~ after.rows[i].given => after.rows[i].rec = now
                 /\ \E m \in 1..n : after.ids[m] = i
      <3>1. CASE i = k + 1
        BY <1>1, <2>2, <2>3, <2>4, <3>1
      <3>2. CASE i # k + 1
        <4>1. i \in 1..k /\ i \in DOMAIN tx.rows \ DOMAIN edges
          BY <1>1, <2>3, <3>2
        <4>2. PICK m \in 1..(n - 1) : tx.ids[m] = i
          BY <4>1 DEF Rightly
        <4>3. after.ids[m] = i /\ m \in 1..n
          BY <1>1, <2>4, <4>2
        <4> QED
          BY <2>3, <4>1, <4>3 DEF Rightly
      <3> QED
        BY <3>1, <3>2
    <2>7. ASSUME NEW i \in 1..k PROVE Event(tx.rows[i].req) # Event(r)
      BY <1>1, <1>5 DEF Existing, SameEvent
    <2>8. ASSUME NEW i \in DOMAIN after.rows, NEW j \in DOMAIN after.rows,
                 Event(after.rows[i].req) = Event(after.rows[j].req)
          PROVE  i = j
      <3>1. i \in 1..k \/ i = k + 1
        BY <1>1, <2>3
      <3>2. j \in 1..k \/ j = k + 1
        BY <1>1, <2>3
      <3>3. CASE i \in 1..k /\ j \in 1..k
        BY <1>e, <2>3, <2>8, <3>3
      <3>4. CASE i = k + 1 \/ j = k + 1
        BY <2>2, <2>3, <2>7, <2>8, <3>1, <3>2, <3>4
      <3> QED
        BY <3>1, <3>2, <3>3, <3>4
    <2>9. ASSUME NEW i \in DOMAIN after.rows, after.rows[i].req.sup # None
          PROVE  after.rows[i].req.sup < i
      <3>1. CASE i \in 1..k
        BY <1>s, <2>3, <2>9, <3>1
      <3>2. CASE i = k + 1
        BY <1>1, <1>3, <2>2, <2>3, <2>9, <3>2 DEF Acceptable, ValidSupersedesReference
      <3> QED
        BY <1>1, <2>3, <3>1, <3>2
    <2>10. ASSUME NEW m \in 1..n
           PROVE  after.ids[m] \in DOMAIN after.rows /\ after.rows[after.ids[m]].req = batch[m].req
      <3>1. CASE m = n
        BY <1>1, <2>2, <2>3, <2>4, <3>1 DEF r
      <3>2. CASE m # n
        <4>1. m \in 1..(n - 1)
          BY <1>1, <3>2
        <4>2. after.ids[m] \in 1..k /\ tx.rows[after.ids[m]].req = batch[m].req
          BY <1>1, <2>4, <4>1 DEF Rightly
        <4> QED
          BY <1>1, <2>3, <4>2
      <3> QED
        BY <3>1, <3>2
    <2> QED
      BY <2>4, <2>5, <2>6, <2>8, <2>9, <2>10 DEF Rightly, after, r
  <1> QED
    BY <1>3, <1>4, <1>5

LEMMA RecordAllRightly ==
  ASSUME TypeOK, TableInv, NEW batch \in Seq(Sent), RecordAll(batch).ok
  PROVE  RecordAll(batch) \in Txs /\ Rightly(Len(batch), RecordAll(batch), batch)
  <1> DEFINE P == {p \in (0..Len(batch)) \X Txs : p[2].ok => Rightly(p[1], p[2], batch)}
  <1>1. <<0, Begun>> \in P
    <2>1. Begun \in Txs
      BY DEF TypeOK, Txs, Begun, Rows
    <2>2. Rightly(0, Begun, batch)
      BY DEF Rightly, Begun, TableInv, EventsExact, TypeOK
    <2> QED
      BY <2>1, <2>2
  <1>2. ASSUME NEW n \in 1..Len(batch), NEW tx \in Txs, <<n - 1, tx>> \in P
        PROVE  <<n, RecordOne(tx, batch[n])>> \in P
    <2>1. batch[n] \in Sent /\ n \in 0..Len(batch)
      OBVIOUS
    <2>2. RecordOne(tx, batch[n]) \in Txs /\ (RecordOne(tx, batch[n]).ok => tx.ok)
      BY <2>1, RecordOneCases
    <2>3. tx.ok => Rightly(n - 1, tx, batch)
      BY <1>2
    <2>4. RecordOne(tx, batch[n]).ok => Rightly(n, RecordOne(tx, batch[n]), batch)
      BY <2>2, <2>3, RecordOneKeeps
    <2> QED
      BY <2>1, <2>2, <2>4
  <1>3. <<Len(batch), RecordAll(batch)>> \in P
    <2>1. P \in SUBSET ((0..Len(batch)) \X Txs)
      OBVIOUS
    <2> HIDE DEF P
    <2> QED
      BY <1>1, <1>2, <2>1, RecordAllKeeps
  <1> QED
    BY <1>3

\* What every step does to the table: rows are added, of now if nothing else is said;
\* operations get the time they were stamped with; the clock does not go back.
Grown ==
  /\ Len(edges) <= Len(edges') /\ \A i \in DOMAIN edges : edges'[i] = edges[i]
  /\ \A i \in DOMAIN edges' \ DOMAIN edges : ~ edges'[i].given => edges'[i].rec = now
  /\ \A o \in Ops : \/ ops'[o] = ops[o]
                    \/ ops[o] = None /\ stamped[o] # None /\ ops'[o] = stamped[o]
  /\ now <= now'

TableType ==
  /\ edges \in Seq(Rows) /\ Len(edges) <= MaxEdges
  /\ ops \in [Ops -> 0..MaxTime \cup {None}] /\ stamped \in [Ops -> 0..MaxTime \cup {None}]
  /\ now \in 0..MaxTime
  /\ acked \subseteq Requests \X DOMAIN edges

LEMMA RecordStep ==
  ASSUME TypeOK, TableInv, NEW batch \in Batches, RecordProvenanceEdges(batch)
  PROVE  TableType' /\ TableInv' /\ Grown
  <1> DEFINE tx == RecordAll(batch)
             L == Len(batch)
  <1>1. batch \in Seq(Sent) /\ L \in Nat /\ DOMAIN batch = 1..L
    BY ProvenanceAssumption
  <1>2. /\ tx.ok /\ Len(tx.rows) <= MaxEdges /\ edges' = tx.rows
        /\ acked' = acked \cup {<<batch[i].req, tx.ids[i]>> : i \in DOMAIN batch}
        /\ UNCHANGED <<ops, stamped, now>>
    BY DEF RecordProvenanceEdges
  <1>3. tx \in Txs /\ Rightly(L, tx, batch)
    BY <1>1, <1>2, RecordAllRightly
  <1> HIDE DEF tx, L
  <1>4. /\ edges' \in Seq(Rows) /\ Len(edges') \in Nat /\ DOMAIN edges' = 1..Len(edges')
        /\ Len(edges) \in Nat /\ DOMAIN edges = 1..Len(edges) /\ now \in Nat
    BY <1>2, <1>3 DEF Txs, TypeOK
  <1>5. /\ Len(edges) <= Len(edges') /\ \A i \in DOMAIN edges : edges'[i] = edges[i]
        /\ \A i \in DOMAIN edges' \ DOMAIN edges : ~ edges'[i].given => edges'[i].rec = now
    BY <1>2, <1>3 DEF Rightly
  <1>6. /\ \A i, j \in DOMAIN edges' : Event(edges'[i].req) = Event(edges'[j].req) => i = j
        /\ \A i \in DOMAIN edges' : edges'[i].req.sup # None => edges'[i].req.sup < i
    BY <1>2, <1>3 DEF Rightly
  <1>7. \A m \in 1..L : tx.ids[m] \in DOMAIN edges' /\ edges'[tx.ids[m]].req = batch[m].req
    BY <1>2, <1>3 DEF Rightly
  <1>8. \A i \in DOMAIN edges' \ DOMAIN edges : \E m \in 1..L : tx.ids[m] = i
    BY <1>2, <1>3 DEF Rightly
  <1>9. DOMAIN edges \subseteq DOMAIN edges'
    BY <1>4, <1>5
  <1>10. acked = {<<edges[i].req, i>> : i \in DOMAIN edges}
    BY DEF TableInv, EventsExact
  <1>11. acked' = {<<edges'[i].req, i>> : i \in DOMAIN edges'}
    <2>1. ASSUME NEW a \in acked' PROVE a \in {<<edges'[i].req, i>> : i \in DOMAIN edges'}
      <3>1. CASE a \in acked
        BY <1>5, <1>9, <1>10, <3>1
      <3>2. CASE a \in {<<batch[i].req, tx.ids[i]>> : i \in DOMAIN batch}
        BY <1>1, <1>7, <3>2
      <3> QED
        BY <1>2, <3>1, <3>2
    <2>2. ASSUME NEW i \in DOMAIN edges' PROVE <<edges'[i].req, i>> \in acked'
      <3>1. CASE i \in DOMAIN edges
        BY <1>2, <1>5, <1>10, <3>1
      <3>2. CASE i \notin DOMAIN edges
        <4>1. PICK m \in 1..L : tx.ids[m] = i
          BY <1>8, <3>2
        <4>2. <<edges'[i].req, i>> = <<batch[m].req, tx.ids[m]>>
          BY <1>7, <4>1
        <4> QED
          BY <1>1, <1>2, <4>2
      <3> QED
        BY <3>1, <3>2
    <2> QED
      BY <2>1, <2>2
  <1>13. TableInv'
    BY <1>2, <1>6, <1>11 DEF TableInv, EventsExact
  <1>14. \A i \in DOMAIN edges' : edges'[i].req \in Requests
    <2>1. PICK rows \in Seq(Rows) : rows = edges'
      BY <1>4
    <2> QED
      BY <2>1, RowType
  <1>15. TableType'
    <2>1. acked' \subseteq Requests \X DOMAIN edges'
      BY <1>11, <1>14
    <2>2. Len(edges') <= MaxEdges
      BY <1>2
    <2> QED
      BY <1>2, <1>4, <2>1, <2>2 DEF TableType, TypeOK
  <1>16. Grown
    BY <1>2, <1>4, <1>5 DEF Grown, TypeOK
  <1> QED
    BY <1>13, <1>15, <1>16

\* The steps that leave the rows alone.
LEMMA SameRowsStep ==
  ASSUME TypeOK, TableInv, UNCHANGED <<edges, acked>>,
         \/ UNCHANGED <<ops, stamped, now>>
         \/ \E o \in Ops : StampOperation(o) \/ InsertOperation(o)
         \/ Tick
  PROVE  TableType' /\ TableInv' /\ Grown
  <1>1. now \in Nat /\ Len(edges) \in Nat
    BY DEF TypeOK
  <1>2. /\ now' \in 0..MaxTime /\ now <= now'
        /\ ops' \in [Ops -> 0..MaxTime \cup {None}]
        /\ stamped' \in [Ops -> 0..MaxTime \cup {None}]
        /\ \A o \in Ops : \/ ops'[o] = ops[o]
                          \/ ops[o] = None /\ stamped[o] # None /\ ops'[o] = stamped[o]
        /\ \A o \in Ops : stamped'[o] # None => ops'[o] = None
    <2>1. CASE UNCHANGED <<ops, stamped, now>>
      BY <2>1 DEF TypeOK, TableInv
    <2>2. CASE \E o \in Ops : StampOperation(o)
      BY <2>2 DEF TypeOK, TableInv, StampOperation
    <2>3. CASE \E o \in Ops : InsertOperation(o)
      BY <2>3 DEF TypeOK, TableInv, InsertOperation
    <2>4. CASE Tick
      BY <2>4, ProvenanceAssumption DEF TypeOK, TableInv, Tick
    <2> QED
      BY <2>1, <2>2, <2>3, <2>4
  <1>3. Grown
    BY <1>1, <1>2 DEF Grown
  <1>4. TableType'
    BY <1>2 DEF TableType, TypeOK, Rows
  <1>5. TableInv'
    BY <1>2 DEF TableInv, EventsExact
  <1> QED
    BY <1>3, <1>4, <1>5

\* Every step: rows are only added.
LEMMA TableStep ==
  ASSUME TypeOK, TableInv, [Next]_vars
  PROVE  TableType' /\ TableInv' /\ Grown
  <1>1. CASE \E b \in Batches : RecordProvenanceEdges(b)
    BY <1>1, RecordStep
  <1>2. CASE \/ \E o \in Ops : StampOperation(o) \/ InsertOperation(o)
             \/ Tick
    BY <1>2, SameRowsStep DEF StampOperation, InsertOperation, Tick
  <1>3. CASE UNCHANGED table
    BY <1>3, SameRowsStep DEF table
  <1>4. ASSUME NEW n \in Roots, NEW d \in Directions, NEW k \in Depths, NEW at \in AsOfs,
               Lineage(n, d, k, at)
        PROVE  UNCHANGED table
    BY <1>4 DEF Lineage
  <1>5. CASE ExpandOneWay \/ ExpandOutgoing \/ ExpandIncoming \/ SkipRoot \/ Complete \/ Return
    <2>1. UNCHANGED table
      BY <1>5 DEF ExpandOneWay, ExpandOutgoing, ExpandIncoming, SkipRoot, Complete, Return
    <2> QED
      BY <1>3, <2>1
  <1>6. CASE UNCHANGED vars
    BY <1>3, <1>6 DEF vars
  <1> QED
    BY <1>1, <1>2, <1>3, <1>4, <1>5, <1>6 DEF Next

-----------------------------------------------------------------------------
(* The past.                                                               *)

\* What is seen as of a time that has passed stays, and nothing is added to it but by
\* requests with a time of back then and by operations that were under way.
LEMMA PastIsFixed ==
  ASSUME TypeOK, Grown, NEW b \in 0..MaxTime, NEW v \in 0..MaxTime \cup {None}, b < now,
         edges' \in Seq(Rows),
         NEW at, at = [rec |-> b, valid |-> v]
  PROVE  /\ Projection(at, TRUE) \subseteq Projection(at, TRUE)'
         /\ Backdated(b) = {} =>
              /\ \A s \in BOOLEAN : Projection(at, s)' = Projection(at, s)
              /\ \A o \in Ops \ UnderWay(b) :
                   OperationProvenance(o, at)' = OperationProvenance(o, at)
  <1>0. at.rec = b /\ at.valid = v
    OBVIOUS
  <1>1. /\ Len(edges) \in Nat /\ DOMAIN edges = 1..Len(edges)
        /\ Len(edges') \in Nat /\ DOMAIN edges' = 1..Len(edges')
        /\ now \in Nat /\ b \in Nat /\ b # None
    BY ProvenanceAssumption DEF TypeOK
  <1>2. RecordedBy(at) = b /\ RecordedBy(at)' = b
    BY <1>0, <1>1 DEF RecordedBy
  <1>3. DOMAIN edges \subseteq DOMAIN edges'
    BY <1>1 DEF Grown
  <1>4. \A e : InForce(e, at)' <=> InForce(e, at)
    BY <1>2 DEF InForce
  <1>5. ASSUME Backdated(b) = {}, NEW i \in DOMAIN edges'
        PROVE  InForce(edges'[i], at) => i \in DOMAIN edges
    <2>1. CASE i \notin DOMAIN edges
      <3>1. ~ edges'[i].given => edges'[i].rec = now
        BY <2>1 DEF Grown
      <3>2. edges'[i].given => ~ (edges'[i].rec <= b)
        BY <1>5, <2>1 DEF Backdated
      <3> QED
        BY <1>1, <1>2, <3>1, <3>2 DEF InForce
    <2> QED
      BY <2>1
  <1>6. \A i \in DOMAIN edges : edges'[i] = edges[i]
    BY DEF Grown
  <1>7. ASSUME Backdated(b) = {}, NEW i \in DOMAIN edges PROVE Masked(i, at)' <=> Masked(i, at)
    <2>1. Masked(i, at)' <=>
            \E j \in DOMAIN edges' \ {i} :
              /\ edges'[j].req.type = "supersedes" /\ edges'[j].req.dst = edges'[i].req.dst
              /\ InForce(edges'[j], at)
      BY <1>4 DEF Masked
    <2> QED
      BY <1>3, <1>5, <1>6, <1>7, <2>1 DEF Masked
  <1>8. ASSUME Backdated(b) = {}, NEW s \in BOOLEAN PROVE Projection(at, s)' = Projection(at, s)
    <2>1. Projection(at, s)' =
            {i \in DOMAIN edges' : InForce(edges'[i], at) /\ (s \/ ~ Masked(i, at)')}
      BY <1>4 DEF Projection
    <2> QED
      BY <1>3, <1>5, <1>6, <1>7, <1>8, <2>1 DEF Projection
  <1>9. ASSUME Backdated(b) = {}, NEW o \in Ops \ UnderWay(b)
        PROVE  OperationProvenance(o, at)' = OperationProvenance(o, at)
    <2>1. {i \in Projection(at, TRUE) : edges[i].req.op = o}' =
          {i \in Projection(at, TRUE) : edges[i].req.op = o}
      <3>1. Projection(at, TRUE) \subseteq DOMAIN edges
        BY DEF Projection
      <3> QED
        BY <1>6, <1>8, <1>9, <3>1
    <2>2. (ops'[o] = None \/ ops'[o] > b) <=> (ops[o] = None \/ ops[o] > b)
      <3>1. \/ ops'[o] = ops[o]
            \/ ops[o] = None /\ stamped[o] # None /\ ops'[o] = stamped[o]
        BY DEF Grown
      <3>2. stamped[o] # None => stamped[o] \in Nat /\ ~ (stamped[o] <= b)
        BY DEF TypeOK, UnderWay
      <3> QED
        BY <1>1, <3>1, <3>2
    <2> QED
      BY <1>2, <2>1, <2>2 DEF OperationProvenance
  <1>10. Projection(at, TRUE) \subseteq Projection(at, TRUE)'
    BY <1>3, <1>4, <1>6 DEF Projection
  <1> QED
    BY <1>8, <1>9, <1>10

-----------------------------------------------------------------------------
(* Reachability in at most k steps.                                        *)

\* w holds what can be reached in 0, 1, ... up to L steps.
Levels(w, L, root, arcs) ==
  /\ w[0] = {root}
  /\ \A n \in 1..L : w[n] = w[n - 1] \cup Ahead(arcs, w[n - 1])

LEMMA WithinLevels ==
  ASSUME NEW root, NEW arcs, NEW L \in Nat
  PROVE  \E w : Levels(w, L, root, arcs) /\ Within(root, arcs, L) = w[L]
  <1> DEFINE X == SUBSET ({root} \cup {arc[2] : arc \in arcs})
             step == [p \in (1..L) \X X |-> p[2] \cup Ahead(arcs, p[2])]
             turns(f) == [n \in 0..L |->
                            IF n = 0 THEN {root} ELSE f[n - 1] \cup Ahead(arcs, f[n - 1])]
             w == CHOOSE f : f = turns(f)
  <1>1. {root} \in X
    OBVIOUS
  <1>2. \A N \in X : N \cup Ahead(arcs, N) \in X
    BY DEF Ahead
  <1>3. step \in [(1..L) \X X -> X]
    <2> HIDE DEF X
    <2> QED
      BY <1>2
  <1>4. PICK f : Recursive(f, L, X, {root}, step)
    <2> HIDE DEF X, step
    <2> QED
      BY <1>1, <1>3, Recursion
  <1>5. f \in [0..L -> X] /\ f[0] = {root}
    BY <1>4 DEF Recursive
  <1> HIDE DEF X
  <1>6. ASSUME NEW n \in 1..L PROVE f[n] = f[n - 1] \cup Ahead(arcs, f[n - 1])
    <2>1. n - 1 \in 0..L
      OBVIOUS
    <2>2. f[n - 1] \in X
      BY <1>5, <2>1
    <2>3. step[<<n, f[n - 1]>>] = f[n - 1] \cup Ahead(arcs, f[n - 1])
      BY <2>2
    <2> QED
      BY <1>4, <2>3 DEF Recursive
  <1>7. f = turns(f)
    <2>1. ASSUME NEW n \in 0..L PROVE f[n] = turns(f)[n]
      <3>1. CASE n = 0
        BY <1>5, <3>1
      <3>2. CASE n # 0
        <4>1. n \in 1..L
          BY <3>2
        <4> QED
          BY <1>6, <3>2, <4>1
      <3> QED
        BY <3>1, <3>2
    <2> QED
      BY <1>5, <2>1
  <1>8. w = turns(w)
    <2> HIDE DEF turns
    <2> QED
      BY <1>7
  <1>9. Within(root, arcs, L) = w[L]
    BY DEF Within
  <1> HIDE DEF w
  <1>10. \A n \in 0..L : w[n] = IF n = 0 THEN {root} ELSE w[n - 1] \cup Ahead(arcs, w[n - 1])
    BY <1>8
  <1>11. Levels(w, L, root, arcs)
    <2>0. 0 \in 0..L
      OBVIOUS
    <2>1. w[0] = {root}
      BY <1>10, <2>0, Zenon
    <2>2. ASSUME NEW n \in 1..L PROVE w[n] = w[n - 1] \cup Ahead(arcs, w[n - 1])
      <3>1. n \in 0..L /\ n # 0
        OBVIOUS
      <3> QED
        BY <1>10, <3>1, Zenon
    <2> QED
      BY <2>1, <2>2, Zenon DEF Levels
  <1> QED
    BY <1>9, <1>11

\* In no steps there is only the root; a step more adds what is ahead.
LEMMA WithinSteps ==
  ASSUME NEW root, NEW arcs, NEW k \in Nat
  PROVE  /\ Within(root, arcs, 0) = {root}
         /\ Within(root, arcs, k + 1) =
              Within(root, arcs, k) \cup Ahead(arcs, Within(root, arcs, k))
  <1>1. PICK u : Levels(u, 0, root, arcs) /\ Within(root, arcs, 0) = u[0]
    BY WithinLevels
  <1>2. PICK v : Levels(v, k, root, arcs) /\ Within(root, arcs, k) = v[k]
    BY WithinLevels
  <1>3. k + 1 \in Nat
    OBVIOUS
  <1>4. PICK w : Levels(w, k + 1, root, arcs) /\ Within(root, arcs, k + 1) = w[k + 1]
    BY <1>3, WithinLevels
  <1> DEFINE T == {n \in 0..k : w[n] = v[n]}
  <1>5. T = 0..k
    <2>0. w[0] = v[0]
      BY <1>2, <1>4, Zenon DEF Levels
    <2>1. T \in SUBSET (0..k) /\ 0 \in T
      BY <2>0
    <2>2. ASSUME NEW n \in 1..k, n - 1 \in T PROVE n \in T
      <3>1. n \in 1..(k + 1)
        OBVIOUS
      <3>2. w[n] = w[n - 1] \cup Ahead(arcs, w[n - 1])
        BY <1>4, <3>1 DEF Levels
      <3>3. v[n] = v[n - 1] \cup Ahead(arcs, v[n - 1])
        BY <1>2 DEF Levels
      <3>4. w[n - 1] = v[n - 1] /\ n \in 0..k
        BY <2>2
      <3>5. w[n] = v[n]
        BY <3>2, <3>3, <3>4, Zenon
      <3> QED
        BY <3>4, <3>5
    <2> HIDE DEF T
    <2> QED
      BY <2>1, <2>2, UpTo
  <1>6. w[k] = v[k]
    BY <1>5
  <1>7. k + 1 \in 1..(k + 1) /\ (k + 1) - 1 = k
    OBVIOUS
  <1>8. w[k + 1] = w[k] \cup Ahead(arcs, w[k])
    BY <1>4, <1>7 DEF Levels
  <1> QED
    BY <1>1, <1>2, <1>4, <1>6, <1>8 DEF Levels

\* A set that holds the root and all that is ahead of it holds what can be reached.
LEMMA WithinClosed ==
  ASSUME NEW root, NEW arcs, NEW k \in Nat, NEW V, root \in V, Ahead(arcs, V) \subseteq V
  PROVE  Within(root, arcs, k) \subseteq V
  <1> DEFINE T == {n \in 0..k : Within(root, arcs, n) \subseteq V}
  <1>1. T \in SUBSET (0..k) /\ 0 \in T
    BY WithinSteps
  <1>2. ASSUME NEW n \in 1..k, n - 1 \in T PROVE n \in T
    <2>1. n - 1 \in Nat /\ (n - 1) + 1 = n
      OBVIOUS
    <2>2. Within(root, arcs, n) =
            Within(root, arcs, n - 1) \cup Ahead(arcs, Within(root, arcs, n - 1))
      BY <2>1, WithinSteps
    <2>3. Within(root, arcs, n - 1) \subseteq V
      BY <1>2
    <2>4. Ahead(arcs, Within(root, arcs, n - 1)) \subseteq V
      BY <2>3 DEF Ahead
    <2> QED
      BY <2>2, <2>3, <2>4
  <1>3. T = 0..k
    <2> HIDE DEF T
    <2> QED
      BY <1>1, <1>2, UpTo
  <1> QED
    BY <1>3

\* More arcs reach more.
LEMMA WithinGrows ==
  ASSUME NEW root, NEW arcs, NEW more, arcs \subseteq more, NEW k \in Nat
  PROVE  Within(root, arcs, k) \subseteq Within(root, more, k)
  <1> DEFINE T == {n \in 0..k : Within(root, arcs, n) \subseteq Within(root, more, n)}
  <1>1. T \in SUBSET (0..k) /\ 0 \in T
    BY WithinSteps
  <1>2. ASSUME NEW n \in 1..k, n - 1 \in T PROVE n \in T
    <2>1. n - 1 \in Nat /\ (n - 1) + 1 = n
      OBVIOUS
    <2>2. /\ Within(root, arcs, n) =
               Within(root, arcs, n - 1) \cup Ahead(arcs, Within(root, arcs, n - 1))
          /\ Within(root, more, n) =
               Within(root, more, n - 1) \cup Ahead(more, Within(root, more, n - 1))
      BY <2>1, WithinSteps
    <2>3. Within(root, arcs, n - 1) \subseteq Within(root, more, n - 1)
      BY <1>2
    <2>4. Ahead(arcs, Within(root, arcs, n - 1)) \subseteq Ahead(more, Within(root, more, n - 1))
      BY <2>3 DEF Ahead
    <2> QED
      BY <2>2, <2>3, <2>4
  <1>3. T = 0..k
    <2> HIDE DEF T
    <2> QED
      BY <1>1, <1>2, UpTo
  <1> QED
    BY <1>3

\* More steps reach more.
LEMMA WithinFarther ==
  ASSUME NEW root, NEW arcs, NEW k \in Nat, NEW j \in 0..k
  PROVE  Within(root, arcs, j) \subseteq Within(root, arcs, k)
  <1> DEFINE T == {n \in 0..k : n < j \/ Within(root, arcs, j) \subseteq Within(root, arcs, n)}
  <1>1. T \in SUBSET (0..k) /\ 0 \in T
    <2>1. j # 0 => 0 < j
      OBVIOUS
    <2> QED
      BY <2>1
  <1>2. ASSUME NEW n \in 1..k, n - 1 \in T PROVE n \in T
    <2>1. n - 1 \in Nat /\ (n - 1) + 1 = n /\ (n - 1 < j => n < j \/ n = j)
      OBVIOUS
    <2>2. Within(root, arcs, n - 1) \subseteq Within(root, arcs, n)
      BY <2>1, WithinSteps
    <2>3. n - 1 < j \/ Within(root, arcs, j) \subseteq Within(root, arcs, n - 1)
      BY <1>2
    <2> QED
      BY <2>1, <2>2, <2>3
  <1>3. T = 0..k
    <2> HIDE DEF T
    <2> QED
      BY <1>1, <1>2, UpTo
  <1>4. k \in T /\ ~ (k < j)
    BY <1>3
  <1> QED
    BY <1>4

-----------------------------------------------------------------------------
(* The loop over what a query discovered.                                  *)

Accs == [at : Entries, queue : Seq(Entries), visited : SUBSET Nodes,
         found : SUBSET (DOMAIN edges), truncated : BOOLEAN]

\* The ends of a row are nodes.
LEMMA EndsAreNodes ==
  ASSUME TypeOK, NEW i \in DOMAIN edges, NEW n
  PROVE  /\ edges[i].req.src \in Nodes /\ edges[i].req.dst \in Nodes
         /\ OtherEnd(i, n) \in Nodes
  <1>1. edges[i].req \in Requests
    BY RowType DEF TypeOK
  <1>2. edges[i].req.src \in Nodes /\ edges[i].req.dst \in Nodes
    BY <1>1, ProvenanceAssumption
  <1> QED
    BY <1>2 DEF OtherEnd

\* One edge: it was found before; its other end was met before; or that is put
\* into the queue; or it is too deep.
LEMMA FollowCases ==
  ASSUME TypeOK, NEW acc \in Accs, NEW i \in DOMAIN edges, NEW after, after = Follow(acc, i),
         NEW next, next = OtherEnd(i, acc.at.node),
         NEW entry, entry = [node |-> next, depth |-> acc.at.depth + 1]
  PROVE  /\ after \in Accs /\ after.at = acc.at /\ after.found = acc.found \cup {i}
         /\ next \in Nodes /\ entry \in Entries
         /\ \/ i \in acc.found /\ after = acc
            \/ /\ Known(next, acc.visited)
               /\ after.queue = acc.queue /\ after.visited = acc.visited
               /\ after.truncated = acc.truncated
            \/ /\ next \notin acc.visited /\ acc.at.depth + 1 < walk.depth
               /\ after.queue = Append(acc.queue, entry)
               /\ after.visited = acc.visited \cup {next}
               /\ after.truncated = acc.truncated
            \/ /\ next \notin acc.visited /\ ~ (acc.at.depth + 1 < walk.depth)
               /\ after.queue = acc.queue
               /\ after.visited = acc.visited \cup {next} /\ after.truncated
  <1>1. next \in Nodes
    BY EndsAreNodes
  <1>2. /\ acc.at \in Entries /\ acc.queue \in Seq(Entries) /\ acc.visited \in SUBSET Nodes
        /\ acc.found \in SUBSET (DOMAIN edges) /\ acc.truncated \in BOOLEAN
    BY DEF Accs
  <1>3. entry \in Entries
    BY <1>1, <1>2 DEF Entries
  <1>4. /\ acc.found \cup {i} \in SUBSET (DOMAIN edges) /\ acc.visited \cup {next} \in SUBSET Nodes
        /\ Append(acc.queue, entry) \in Seq(Entries)
    BY <1>1, <1>2, <1>3
  <1>5. CASE i \in acc.found
    <2>1. after = acc /\ acc.found \cup {i} = acc.found
      BY <1>5 DEF Follow
    <2> QED
      BY <1>1, <1>3, <1>5, <2>1
  <1>6. CASE i \notin acc.found /\ Known(next, acc.visited)
    <2>1. after = [acc EXCEPT !.found = @ \cup {i}]
      BY <1>6 DEF Follow
    <2> QED
      BY <1>1, <1>2, <1>3, <1>4, <1>6, <2>1 DEF Accs
  <1>n. ~ Known(next, acc.visited) => next \notin acc.visited
    BY DEF Known
  <1>7. CASE i \notin acc.found /\ ~ Known(next, acc.visited) /\ acc.at.depth + 1 < walk.depth
    <2>1. after = [acc EXCEPT !.found = @ \cup {i}, !.visited = @ \cup {next},
                              !.queue = Append(@, entry)]
      BY <1>7 DEF Follow
    <2> QED
      BY <1>1, <1>2, <1>3, <1>4, <1>7, <1>n, <2>1 DEF Accs
  <1>8. CASE i \notin acc.found /\ ~ Known(next, acc.visited) /\ ~ (acc.at.depth + 1 < walk.depth)
    <2>1. after = [acc EXCEPT !.found = @ \cup {i}, !.visited = @ \cup {next},
                              !.truncated = TRUE]
      BY <1>8 DEF Follow
    <2> QED
      BY <1>1, <1>2, <1>3, <1>4, <1>8, <1>n, <2>1 DEF Accs
  <1> QED
    BY <1>5, <1>6, <1>7, <1>8

LEMMA FollowFinds ==
  ASSUME TypeOK, NEW acc \in Accs, NEW i \in DOMAIN edges
  PROVE  Follow(acc, i) \in Accs /\ Follow(acc, i).found = acc.found \cup {i}
  <1>1. PICK after, next, entry :
          /\ after = Follow(acc, i) /\ next = OtherEnd(i, acc.at.node)
          /\ entry = [node |-> next, depth |-> acc.at.depth + 1]
    OBVIOUS
  <1>2. after \in Accs /\ after.found = acc.found \cup {i}
    BY <1>1, FollowCases
  <1> QED
    BY <1>1, <1>2

\* The turns of the loop.
FollowTurns(acc, start, discovered) ==
  /\ acc[0] = start
  /\ \A n \in 1..Len(edges) :
       acc[n] = IF n \in discovered THEN Follow(acc[n - 1], n) ELSE acc[n - 1]

LEMMA FollowAllTurns ==
  ASSUME TypeOK, NEW start \in Accs, NEW discovered \in SUBSET (DOMAIN edges)
  PROVE  \E acc \in [0..Len(edges) -> Accs] :
           /\ FollowTurns(acc, start, discovered)
           /\ FollowAll(start, discovered) = acc[Len(edges)]
  <1> DEFINE L == Len(edges)
             turn(a, n) == IF n \in discovered THEN Follow(a, n) ELSE a
             step == [p \in (1..L) \X Accs |-> turn(p[2], p[1])]
             turns(f) == [n \in 0..L |-> IF n = 0 THEN start ELSE turn(f[n - 1], n)]
             acc == CHOOSE f : f = turns(f)
             T == {n \in 0..L : acc[n] \in Accs}
  <1>1. L \in Nat /\ DOMAIN edges = 1..L
    BY DEF TypeOK
  <1>2. ASSUME NEW a \in Accs, NEW n \in 1..L PROVE turn(a, n) \in Accs
    <2>1. Follow(a, n) \in Accs
      BY <1>1, FollowCases
    <2> QED
      BY <2>1
  <1> HIDE DEF turn
  <1>3. step \in [(1..L) \X Accs -> Accs]
    BY <1>2
  <1>4. PICK f : Recursive(f, L, Accs, start, step)
    <2> HIDE DEF L, step
    <2> QED
      BY <1>1, <1>3, Recursion
  <1>5. f \in [0..L -> Accs] /\ f[0] = start
    BY <1>4 DEF Recursive
  <1>6. ASSUME NEW n \in 1..L PROVE f[n] = turn(f[n - 1], n)
    <2>1. n - 1 \in 0..L
      BY <1>1
    <2>2. f[n - 1] \in Accs
      BY <1>5, <2>1
    <2>3. step[<<n, f[n - 1]>>] = turn(f[n - 1], n)
      BY <2>2
    <2> QED
      BY <1>4, <2>3 DEF Recursive
  <1>7. f = turns(f)
    <2>1. ASSUME NEW n \in 0..L PROVE f[n] = turns(f)[n]
      <3>1. CASE n = 0
        BY <1>5, <3>1
      <3>2. CASE n # 0
        <4>1. n \in 1..L
          BY <1>1, <3>2
        <4> QED
          BY <1>6, <3>2, <4>1
      <3> QED
        BY <3>1, <3>2
    <2> QED
      BY <1>5, <2>1
  <1>8. acc = turns(acc)
    <2> HIDE DEF turns
    <2> QED
      BY <1>7
  <1>9. FollowAll(start, discovered) = acc[L]
    BY DEF FollowAll, turn
  <1> HIDE DEF acc
  <1>10. \A n \in 0..L : acc[n] = IF n = 0 THEN start ELSE turn(acc[n - 1], n)
    BY <1>8
  <1>11. acc[0] = start
    <2>1. 0 \in 0..L
      BY <1>1
    <2> QED
      BY <1>10, <2>1, Zenon
  <1>12. ASSUME NEW n \in 1..L PROVE acc[n] = turn(acc[n - 1], n)
    <2>1. n \in 0..L /\ n # 0
      BY <1>1
    <2> QED
      BY <1>10, <2>1, Zenon
  <1>13. T = 0..L
    <2>1. T \in SUBSET (0..L) /\ 0 \in T
      BY <1>1, <1>11
    <2>2. ASSUME NEW n \in 1..L, n - 1 \in T PROVE n \in T
      <3>1. acc[n - 1] \in Accs /\ n \in 0..L
        BY <2>2
      <3>2. turn(acc[n - 1], n) \in Accs
        BY <1>2, <3>1
      <3> QED
        BY <1>12, <3>1, <3>2
    <2> HIDE DEF T, L
    <2> QED
      BY <1>1, <2>1, <2>2, UpTo
  <1>14. acc \in [0..L -> Accs]
    <2>1. acc = [n \in 0..L |-> acc[n]]
      <3> DEFINE listed(n) == IF n = 0 THEN start ELSE turn(acc[n - 1], n)
                 all == [n \in 0..L |-> listed(n)]
      <3>1. acc = all
        BY <1>8
      <3>2. all = [n \in 0..L |-> all[n]]
        <4> HIDE DEF listed
        <4> QED
          OBVIOUS
      <3> QED
        BY <3>1, <3>2
    <2>2. \A n \in 0..L : acc[n] \in Accs
      BY <1>13
    <2> QED
      BY <2>1, <2>2
  <1>15. FollowTurns(acc, start, discovered)
    BY <1>11, <1>12 DEF FollowTurns, turn
  <1> QED
    BY <1>9, <1>14, <1>15

\* What is so before the loop and kept by each turn is so after it.
LEMMA FollowAllKeeps ==
  ASSUME TypeOK, NEW P \in SUBSET Accs, NEW start \in P, NEW discovered \in SUBSET (DOMAIN edges),
         \A acc \in P, i \in discovered : Follow(acc, i) \in P
  PROVE  FollowAll(start, discovered) \in P
  <1> DEFINE L == Len(edges)
  <1>1. L \in Nat
    BY DEF TypeOK
  <1>2. PICK acc \in [0..L -> Accs] :
          FollowTurns(acc, start, discovered) /\ FollowAll(start, discovered) = acc[L]
    BY FollowAllTurns
  <1> DEFINE T == {n \in 0..L : acc[n] \in P}
  <1>3. T \in SUBSET (0..L) /\ 0 \in T
    BY <1>1, <1>2 DEF FollowTurns
  <1>4. ASSUME NEW n \in 1..L, n - 1 \in T PROVE n \in T
    <2>1. acc[n - 1] \in P /\ n \in 0..L
      BY <1>1, <1>4
    <2>2. acc[n] = IF n \in discovered THEN Follow(acc[n - 1], n) ELSE acc[n - 1]
      BY <1>2 DEF FollowTurns
    <2> QED
      BY <2>1, <2>2
  <1>5. T = 0..L
    <2> HIDE DEF T, L
    <2> QED
      BY <1>1, <1>3, <1>4, UpTo
  <1> QED
    BY <1>1, <1>2, <1>5

\* After the loop all that was discovered, and all that was found before, is found.
LEMMA FollowAllFinds ==
  ASSUME TypeOK, NEW start \in Accs, NEW discovered \in SUBSET (DOMAIN edges)
  PROVE  start.found \cup discovered \subseteq FollowAll(start, discovered).found
  <1> DEFINE L == Len(edges)
  <1>1. L \in Nat /\ DOMAIN edges = 1..L
    BY DEF TypeOK
  <1>2. PICK acc \in [0..L -> Accs] :
          FollowTurns(acc, start, discovered) /\ FollowAll(start, discovered) = acc[L]
    BY FollowAllTurns
  <1> DEFINE T == {n \in 0..L : start.found \cup {i \in discovered : i <= n} \subseteq acc[n].found}
  <1>3. T \in SUBSET (0..L) /\ 0 \in T
    <2>1. {i \in discovered : i <= 0} = {}
      BY <1>1
    <2> QED
      BY <1>1, <1>2, <2>1 DEF FollowTurns
  <1>4. ASSUME NEW n \in 1..L, n - 1 \in T PROVE n \in T
    <2>1. /\ start.found \cup {i \in discovered : i <= n - 1} \subseteq acc[n - 1].found
          /\ n \in 0..L /\ n \in DOMAIN edges
      BY <1>1, <1>4
    <2>2. acc[n - 1] \in Accs
      BY <1>1
    <2>3. acc[n] = IF n \in discovered THEN Follow(acc[n - 1], n) ELSE acc[n - 1]
      BY <1>2 DEF FollowTurns
    <2>4. acc[n - 1].found \cup ({n} \cap discovered) \subseteq acc[n].found
      <3>1. CASE n \in discovered
        <4>1. Follow(acc[n - 1], n).found = acc[n - 1].found \cup {n}
          BY <2>1, <2>2, FollowFinds
        <4>2. acc[n].found = acc[n - 1].found \cup {n}
          BY <2>3, <3>1, <4>1
        <4> QED
          BY <4>2
      <3>2. CASE n \notin discovered
        BY <2>3, <3>2
      <3> QED
        BY <3>1, <3>2
    <2>5. \A i \in discovered : i <= n => i <= n - 1 \/ i = n
      BY <1>1
    <2>6. start.found \cup {i \in discovered : i <= n} \subseteq acc[n].found
      BY <2>1, <2>4, <2>5
    <2> QED
      BY <2>1, <2>6
  <1>5. T = 0..L
    <2> HIDE DEF T, L
    <2> QED
      BY <1>1, <1>3, <1>4, UpTo
  <1>6. L \in T /\ {i \in discovered : i <= L} = discovered
    BY <1>1, <1>5
  <1> QED
    BY <1>2, <1>6

-----------------------------------------------------------------------------
(* What a turn of the loop keeps.                                          *)

InForceNow == Projection(walk.at, TRUE)

\* ItemsInv while the head of the queue is expanded.
LoopItems(acc) ==
  /\ \A i, j \in DOMAIN acc.queue : acc.queue[i].node = acc.queue[j].node => i = j
  /\ \A i \in DOMAIN acc.queue : /\ acc.queue[i].node \notin Expanded \cup {acc.at.node}
                                 /\ acc.queue[i].node \in acc.visited
  /\ Expanded \cup {acc.at.node} \subseteq acc.visited
  /\ ~ acc.truncated => \A n \in acc.visited :
       n \in Expanded \cup {acc.at.node} \/ \E i \in DOMAIN acc.queue : acc.queue[i].node = n

\* DepthInv.
LoopDepth(acc) ==
  /\ walk.root \in acc.visited
  /\ \A i, j \in DOMAIN acc.queue : i <= j => acc.queue[i].depth <= acc.queue[j].depth
  /\ \A i \in DOMAIN acc.queue : /\ acc.at.depth <= acc.queue[i].depth
                                 /\ acc.queue[i].depth <= acc.at.depth + 1
                                 /\ acc.queue[i].depth < walk.depth
  /\ acc.truncated => acc.at.depth + 1 >= walk.depth

\* FoundInv.
LoopFound(acc) ==
  /\ acc.found \subseteq InForceNow
  /\ Clear => \A i \in acc.found :
       edges[i].req.src \in acc.visited /\ edges[i].req.dst \in acc.visited

\* BreadthInv.
LoopBreadth(acc) ==
  /\ Clear => \A n \in Reach(first, acc.at.depth) :
       \/ n \in Expanded \cup {acc.at.node}
       \/ \E i \in DOMAIN acc.queue :
            acc.queue[i].node = n /\ acc.queue[i].depth = acc.at.depth
  /\ acc.at.node \in Reach(InForceNow, acc.at.depth)
  /\ \A i \in DOMAIN acc.queue : acc.queue[i].node \in Reach(InForceNow, acc.queue[i].depth)
  /\ acc.visited \subseteq Reach(InForceNow, walk.depth)

LoopInv(acc) == LoopItems(acc) /\ LoopDepth(acc) /\ LoopFound(acc) /\ LoopBreadth(acc)

LEMMA AppendParts ==
  ASSUME NEW S, NEW q \in Seq(S), NEW e \in S
  PROVE  /\ Len(q) \in Nat /\ DOMAIN q = 1..Len(q)
         /\ DOMAIN Append(q, e) = 1..(Len(q) + 1)
         /\ \A i \in 1..Len(q) : Append(q, e)[i] = q[i]
         /\ Append(q, e)[Len(q) + 1] = e
  OBVIOUS

\* An edge that is followed at n leads to its other end.
LEMMA OtherEndAhead ==
  ASSUME NEW S, NEW n, NEW i \in EdgesAt(S, {n}), NEW next, next = OtherEnd(i, n)
  PROVE  /\ <<n, next>> \in Arcs(S)
         /\ edges[i].req.src \in {n, next} /\ edges[i].req.dst \in {n, next}
  <1>1. i \in S
    BY DEF EdgesAt
  <1>2. CASE walk.direction # "incoming" /\ edges[i].req.src = n
    <2>1. next = edges[i].req.dst
      BY <1>2 DEF OtherEnd
    <2>2. <<edges[i].req.src, edges[i].req.dst>> \in Arcs(S)
      BY <1>1, <1>2 DEF Arcs
    <2> QED
      BY <1>2, <2>1, <2>2
  <1>3. CASE walk.direction # "outgoing" /\ edges[i].req.dst = n
    <2>1. next = edges[i].req.src
      BY <1>3 DEF OtherEnd
    <2>2. <<edges[i].req.dst, edges[i].req.src>> \in Arcs(S)
      BY <1>1, <1>3 DEF Arcs
    <2> QED
      BY <1>3, <2>1, <2>2
  <1> QED
    BY <1>2, <1>3 DEF EdgesAt

\* What is ahead of something within k steps is within k + 1.
LEMMA OneStepMore ==
  ASSUME NEW root, NEW arcs, NEW k \in Nat, NEW n \in Within(root, arcs, k), NEW next,
         <<n, next>> \in arcs
  PROVE  next \in Within(root, arcs, k + 1)
  <1>1. next \in Ahead(arcs, Within(root, arcs, k))
    <2>1. <<n, next>> \in {step \in arcs : step[1] \in Within(root, arcs, k)}
      OBVIOUS
    <2>2. <<n, next>>[2] = next
      OBVIOUS
    <2> QED
      BY <2>1, <2>2 DEF Ahead
  <1> QED
    BY <1>1, WithinSteps

\* What can be reached is the root or an end of an edge.
LEMMA ReachedAreEnds ==
  ASSUME NEW k \in Nat
  PROVE  Reach(InForceNow, k) \subseteq {walk.root} \cup Ends(DOMAIN edges)
  <1> DEFINE V == {walk.root} \cup Ends(DOMAIN edges)
             A == Arcs(InForceNow)
  <1>1. Ahead(A, V) \subseteq V
    BY DEF Ahead, Arcs, Ends, InForceNow, Projection
  <1>2. walk.root \in V
    OBVIOUS
  <1> HIDE DEF V, A
  <1>3. Within(walk.root, A, k) \subseteq V
    BY <1>1, <1>2, WithinClosed
  <1> QED
    BY <1>3 DEF V, A, Reach

\* Where the keys tell items apart, an item whose key is known was met.
LEMMA KnownWasMet ==
  ASSUME TypeOK, walk \in Walks, Legible, NEW i \in DOMAIN edges, NEW n, NEW V,
         V \subseteq Reach(InForceNow, walk.depth), Known(OtherEnd(i, n), V)
  PROVE  OtherEnd(i, n) \in V
  <1>1. walk.depth \in Nat
    BY ProvenanceAssumption DEF Walks
  <1>2. V \subseteq {walk.root} \cup Ends(DOMAIN edges)
    BY <1>1, ReachedAreEnds
  <1>3. OtherEnd(i, n) \in Ends(DOMAIN edges)
    BY DEF OtherEnd, Ends
  <1>4. PICK m \in V : Key[m] = Key[OtherEnd(i, n)]
    BY DEF Known
  <1>5. Parsed[Key[m]] = m /\ Parsed[Key[OtherEnd(i, n)]] = OtherEnd(i, n)
    BY <1>2, <1>3 DEF Legible
  <1> QED
    BY <1>4, <1>5

LEMMA LoopTurn ==
  ASSUME TypeOK, walk \in Walks, NEW acc \in Accs, acc.at.depth < walk.depth, LoopInv(acc),
         NEW i \in EdgesAt(InForceNow, {acc.at.node})
  PROVE  LoopInv(Follow(acc, i))
  <1>1. PICK after, next, entry :
          /\ after = Follow(acc, i) /\ next = OtherEnd(i, acc.at.node)
          /\ entry = [node |-> next, depth |-> acc.at.depth + 1]
    OBVIOUS
  <1>2. i \in InForceNow /\ i \in DOMAIN edges
    BY DEF EdgesAt, InForceNow, Projection
  <1>3. /\ after \in Accs /\ after.at = acc.at /\ after.found = acc.found \cup {i}
        /\ next \in Nodes /\ entry \in Entries
        /\ \/ i \in acc.found /\ after = acc
           \/ /\ Known(next, acc.visited)
              /\ after.queue = acc.queue /\ after.visited = acc.visited
              /\ after.truncated = acc.truncated
           \/ /\ next \notin acc.visited /\ acc.at.depth + 1 < walk.depth
              /\ after.queue = Append(acc.queue, entry)
              /\ after.visited = acc.visited \cup {next}
              /\ after.truncated = acc.truncated
           \/ /\ next \notin acc.visited /\ ~ (acc.at.depth + 1 < walk.depth)
              /\ after.queue = acc.queue
              /\ after.visited = acc.visited \cup {next} /\ after.truncated
    BY <1>1, <1>2, FollowCases
  <1>4. /\ <<acc.at.node, next>> \in Arcs(InForceNow)
        /\ edges[i].req.src \in {acc.at.node, next} /\ edges[i].req.dst \in {acc.at.node, next}
    BY <1>1, OtherEndAhead
  <1>5. /\ acc.at.depth \in Nat /\ walk.depth \in Nat /\ acc.at.depth + 1 \in 0..walk.depth
        /\ acc.queue \in Seq(Entries)
    <2>1. acc.at \in Entries /\ acc.queue \in Seq(Entries)
      BY DEF Accs
    <2>2. acc.at.depth \in Nat
      BY <2>1 DEF Entries
    <2>3. walk.depth \in Nat
      BY ProvenanceAssumption DEF Walks
    <2> QED
      BY <2>1, <2>2, <2>3
  <1>6. next \in Reach(InForceNow, acc.at.depth + 1) /\ next \in Reach(InForceNow, walk.depth)
    <2>1. acc.at.node \in Within(walk.root, Arcs(InForceNow), acc.at.depth)
      BY DEF LoopInv, LoopBreadth, Reach
    <2>2. next \in Within(walk.root, Arcs(InForceNow), acc.at.depth + 1)
      BY <1>4, <1>5, <2>1, OneStepMore
    <2>3. Within(walk.root, Arcs(InForceNow), acc.at.depth + 1)
            \subseteq Within(walk.root, Arcs(InForceNow), walk.depth)
      BY <1>5, WithinFarther
    <2> QED
      BY <2>2, <2>3 DEF Reach
  <1>7. acc.visited \cup {acc.at.node} \subseteq acc.visited
    BY DEF LoopInv, LoopItems
  <1>8. /\ acc.visited \subseteq after.visited /\ (Clear => next \in after.visited)
        /\ after.visited \subseteq acc.visited \cup {next}
    <2>1. Clear /\ i \in acc.found => next \in acc.visited
      <3>1. Clear /\ i \in acc.found =>
              edges[i].req.src \in acc.visited /\ edges[i].req.dst \in acc.visited
        BY DEF LoopInv, LoopFound
      <3>2. next \in {edges[i].req.src, edges[i].req.dst}
        BY <1>1 DEF OtherEnd
      <3> QED
        BY <3>1, <3>2
    <2>2. Clear /\ Known(next, acc.visited) => next \in acc.visited
      <3>1. acc.visited \subseteq Reach(InForceNow, walk.depth)
        BY DEF LoopInv, LoopBreadth
      <3> QED
        BY <1>1, <1>2, <3>1, KnownWasMet DEF Clear
    <2> QED
      BY <1>3, <2>1, <2>2
  <1>9. LoopFound(after)
    <2>1. after.found \subseteq InForceNow
      BY <1>2, <1>3 DEF LoopInv, LoopFound
    <2>2. ASSUME Clear, NEW j \in after.found
          PROVE  edges[j].req.src \in after.visited /\ edges[j].req.dst \in after.visited
      <3>1. CASE j \in acc.found
        BY <1>8, <2>2, <3>1 DEF LoopInv, LoopFound
      <3>2. CASE j = i
        BY <1>4, <1>7, <1>8, <2>2, <3>2
      <3> QED
        BY <1>3, <3>1, <3>2
    <2> QED
      BY <2>1, <2>2 DEF LoopFound
  <1>10. after.visited \subseteq Reach(InForceNow, walk.depth)
    BY <1>6, <1>8 DEF LoopInv, LoopBreadth
  <1>11. CASE \/ i \in acc.found /\ after = acc
              \/ /\ Known(next, acc.visited)
                 /\ after.queue = acc.queue /\ after.visited = acc.visited
                 /\ after.truncated = acc.truncated
    <2>1. /\ after.queue = acc.queue /\ after.visited = acc.visited /\ after.at = acc.at
          /\ after.truncated = acc.truncated
      BY <1>3, <1>11
    <2>2. LoopItems(after)
      BY <2>1 DEF LoopInv, LoopItems
    <2>3. LoopDepth(after)
      BY <2>1 DEF LoopInv, LoopDepth
    <2>4. LoopBreadth(after)
      BY <2>1 DEF LoopInv, LoopBreadth
    <2> QED
      BY <1>1, <1>9, <2>2, <2>3, <2>4 DEF LoopInv
  <1>12. CASE /\ next \notin acc.visited /\ acc.at.depth + 1 < walk.depth
              /\ after.queue = Append(acc.queue, entry)
              /\ after.visited = acc.visited \cup {next}
              /\ after.truncated = acc.truncated
    <2> DEFINE k == Len(acc.queue)
    <2>1. /\ k \in Nat /\ DOMAIN acc.queue = 1..k /\ DOMAIN after.queue = 1..(k + 1)
          /\ \A j \in 1..k : after.queue[j] = acc.queue[j]
          /\ after.queue[k + 1] = entry
      BY <1>3, <1>5, <1>12, AppendParts
    <2>2. entry.node = next /\ entry.depth = acc.at.depth + 1
      BY <1>1
    <2> HIDE DEF k
    <2>3. \A j \in 1..(k + 1) : j \in 1..k \/ j = k + 1
      BY <2>1
    <2>4. \A j \in 1..k : acc.queue[j].node # next
      BY <1>12, <2>1 DEF LoopInv, LoopItems
    <2>5. LoopItems(after)
      <3>1. ASSUME NEW j \in 1..(k + 1), NEW m \in 1..(k + 1),
                   after.queue[j].node = after.queue[m].node
            PROVE  j = m
        <4>1. CASE j \in 1..k /\ m \in 1..k
          BY <2>1, <3>1, <4>1 DEF LoopInv, LoopItems
        <4>2. CASE ~ (j \in 1..k /\ m \in 1..k)
          BY <2>1, <2>2, <2>3, <2>4, <3>1, <4>2
        <4> QED
          BY <4>1, <4>2
      <3>2. ASSUME NEW j \in 1..(k + 1)
            PROVE  /\ after.queue[j].node \notin Expanded \cup {acc.at.node}
                   /\ after.queue[j].node \in after.visited
        <4>1. CASE j \in 1..k
          BY <1>8, <2>1, <4>1 DEF LoopInv, LoopItems
        <4>2. CASE j = k + 1
          BY <1>8, <1>12, <2>1, <2>2, <4>2 DEF LoopInv, LoopItems
        <4> QED
          BY <2>3, <4>1, <4>2
      <3>3. Expanded \cup {acc.at.node} \subseteq after.visited
        BY <1>8 DEF LoopInv, LoopItems
      <3>4. ASSUME ~ after.truncated, NEW n \in after.visited
            PROVE  \/ n \in Expanded \cup {acc.at.node}
                   \/ \E j \in 1..(k + 1) : after.queue[j].node = n
        <4>1. CASE n = next
          BY <2>1, <2>2, <4>1
        <4>2. CASE n \in acc.visited /\ n \notin Expanded \cup {acc.at.node}
          <5>1. PICK j \in 1..k : acc.queue[j].node = n
            BY <1>12, <2>1, <3>4, <4>2 DEF LoopInv, LoopItems
          <5>2. j \in 1..(k + 1) /\ after.queue[j].node = n
            BY <2>1, <5>1
          <5> QED
            BY <5>2
        <4> QED
          BY <1>8, <4>1, <4>2
      <3> QED
        BY <1>3, <2>1, <3>1, <3>2, <3>3, <3>4 DEF LoopItems
    <2>6. LoopDepth(after)
      <3>1. \A j \in 1..k : acc.queue[j].depth \in Nat
        <4>1. \A j \in 1..k : acc.queue[j] \in Entries
          BY <1>5, <2>1
        <4> QED
          BY <4>1 DEF Entries
      <3>2. \A j \in 1..k : /\ acc.at.depth <= acc.queue[j].depth
                            /\ acc.queue[j].depth <= acc.at.depth + 1
                            /\ acc.queue[j].depth < walk.depth
        BY <2>1 DEF LoopInv, LoopDepth
      <3>3. \A j, m \in 1..k : j <= m => acc.queue[j].depth <= acc.queue[m].depth
        BY <2>1 DEF LoopInv, LoopDepth
      <3>4. ASSUME NEW j \in 1..(k + 1)
            PROVE  /\ acc.at.depth <= after.queue[j].depth
                   /\ after.queue[j].depth <= acc.at.depth + 1
                   /\ after.queue[j].depth < walk.depth
        <4>1. CASE j \in 1..k
          BY <2>1, <3>2, <4>1
        <4>2. CASE j = k + 1
          BY <1>5, <1>12, <2>1, <2>2, <4>2
        <4> QED
          BY <2>3, <4>1, <4>2
      <3>5. ASSUME NEW j \in 1..(k + 1), NEW m \in 1..(k + 1), j <= m
            PROVE  after.queue[j].depth <= after.queue[m].depth
        <4>1. CASE m \in 1..k
          <5>1. j \in 1..k
            BY <2>1, <3>5, <4>1
          <5> QED
            BY <2>1, <3>3, <3>5, <4>1, <5>1
        <4>2. CASE m = k + 1
          <5>1. after.queue[m].depth = acc.at.depth + 1
            BY <2>1, <2>2, <4>2
          <5> QED
            BY <3>4, <5>1
        <4> QED
          BY <2>3, <4>1, <4>2
      <3>6. walk.root \in after.visited
        BY <1>8 DEF LoopInv, LoopDepth
      <3>7. after.truncated => acc.at.depth + 1 >= walk.depth
        BY <1>12 DEF LoopInv, LoopDepth
      <3> QED
        BY <1>3, <2>1, <3>4, <3>5, <3>6, <3>7 DEF LoopDepth
    <2>7. LoopBreadth(after)
      <3>1. ASSUME Clear, NEW n \in Reach(first, acc.at.depth), n \notin Expanded \cup {acc.at.node}
            PROVE  \E j \in 1..(k + 1) :
                     after.queue[j].node = n /\ after.queue[j].depth = acc.at.depth
        <4>1. PICK j \in 1..k : acc.queue[j].node = n /\ acc.queue[j].depth = acc.at.depth
          BY <2>1, <3>1 DEF LoopInv, LoopBreadth
        <4>2. j \in 1..(k + 1) /\ after.queue[j] = acc.queue[j]
          BY <2>1
        <4> QED
          BY <4>1, <4>2
      <3>2. ASSUME NEW j \in 1..(k + 1)
            PROVE  after.queue[j].node \in Reach(InForceNow, after.queue[j].depth)
        <4>1. CASE j \in 1..k
          BY <2>1, <4>1 DEF LoopInv, LoopBreadth
        <4>2. CASE j = k + 1
          BY <1>6, <2>1, <2>2, <4>2
        <4> QED
          BY <2>3, <4>1, <4>2
      <3>3. acc.at.node \in Reach(InForceNow, acc.at.depth)
        BY DEF LoopInv, LoopBreadth
      <3> QED
        BY <1>3, <1>10, <2>1, <3>1, <3>2, <3>3 DEF LoopBreadth
    <2> QED
      BY <1>1, <1>9, <2>5, <2>6, <2>7 DEF LoopInv
  <1>13. CASE /\ next \notin acc.visited /\ ~ (acc.at.depth + 1 < walk.depth)
              /\ after.queue = acc.queue
              /\ after.visited = acc.visited \cup {next} /\ after.truncated
    <2>1. LoopItems(after)
      BY <1>3, <1>8, <1>13 DEF LoopInv, LoopItems
    <2>2. LoopDepth(after)
      <3>1. acc.at.depth + 1 >= walk.depth
        BY <1>5, <1>13
      <3> QED
        BY <1>3, <1>8, <1>13, <3>1 DEF LoopInv, LoopDepth
    <2>3. LoopBreadth(after)
      BY <1>3, <1>10, <1>13 DEF LoopInv, LoopBreadth
    <2> QED
      BY <1>1, <1>9, <2>1, <2>2, <2>3 DEF LoopInv
  <1> QED
    BY <1>3, <1>11, <1>12, <1>13

\* The loop keeps all this, and finds all that was discovered.
LEMMA LoopKeeps ==
  ASSUME TypeOK, walk \in Walks, NEW start \in Accs, start.at.depth < walk.depth, LoopInv(start),
         NEW discovered \in SUBSET EdgesAt(InForceNow, {start.at.node})
  PROVE  /\ FollowAll(start, discovered) \in Accs /\ FollowAll(start, discovered).at = start.at
         /\ LoopInv(FollowAll(start, discovered))
         /\ start.found \cup discovered \subseteq FollowAll(start, discovered).found
  <1> DEFINE P == {acc \in Accs : acc.at = start.at /\ LoopInv(acc)}
  <1>1. discovered \in SUBSET (DOMAIN edges)
    BY DEF EdgesAt, InForceNow, Projection
  <1>2. ASSUME NEW acc \in P, NEW i \in discovered PROVE Follow(acc, i) \in P
    <2>1. acc \in Accs /\ acc.at = start.at /\ LoopInv(acc)
      OBVIOUS
    <2>2. i \in EdgesAt(InForceNow, {acc.at.node}) /\ i \in DOMAIN edges
      BY <1>1, <2>1
    <2>3. LoopInv(Follow(acc, i))
      BY <2>1, <2>2, LoopTurn
    <2>4. Follow(acc, i) \in Accs /\ Follow(acc, i).at = acc.at
      <3>1. PICK after, next, entry :
              /\ after = Follow(acc, i) /\ next = OtherEnd(i, acc.at.node)
              /\ entry = [node |-> next, depth |-> acc.at.depth + 1]
        OBVIOUS
      <3>2. after \in Accs /\ after.at = acc.at
        BY <2>1, <2>2, <3>1, FollowCases
      <3> QED
        BY <3>1, <3>2
    <2> QED
      BY <2>1, <2>3, <2>4
  <1>3. FollowAll(start, discovered) \in P
    <2>1. P \in SUBSET Accs /\ start \in P
      OBVIOUS
    <2> HIDE DEF P
    <2> QED
      BY <1>1, <1>2, <2>1, FollowAllKeeps
  <1> QED
    BY <1>1, <1>3, FollowAllFinds

-----------------------------------------------------------------------------
(* What writers and the clock do to a walk.                                *)

WalkerType ==
  /\ pc \in {"idle", "walk", "second", "done", "failed"}
  /\ queue \in Seq(Entries)
  /\ visited \subseteq Nodes /\ found \subseteq DOMAIN edges /\ first \subseteq DOMAIN edges
  /\ outgoing \subseteq DOMAIN edges /\ truncated \in BOOLEAN
  /\ walk \in Walks \cup {None} /\ result \in Results \cup {None}
  /\ expanded \in Seq(Nodes)

LEMMA TypeParts == TypeOK <=> TableType /\ WalkerType
  BY DEF TypeOK, TableType, WalkerType

LEMMA NothingIsEmpty ==
  /\ DOMAIN <<>> = {} /\ Len(<<>>) = 0
  /\ \A S : <<>> \in Seq(S)
  OBVIOUS

LEMMA WalkUnderWay ==
  ASSUME IInv, pc # "idle"
  PROVE  walk \in Walks /\ walk.depth \in Nat
  <1>1. walk \in Walks
    BY DEF IInv, WalkInv
  <1> QED
    BY <1>1, ProvenanceAssumption DEF Walks

\* What was in force stays so.
LEMMA InForceGrows ==
  ASSUME TypeOK, TableType', Grown, walk \in Walks, walk' = walk
  PROVE  /\ DOMAIN edges \subseteq DOMAIN edges' /\ \A i \in DOMAIN edges : edges'[i] = edges[i]
         /\ InForceNow \subseteq InForceNow'
         /\ \A n : Leaving(n) \subseteq Leaving(n)' /\ Entering(n) \subseteq Entering(n)'
  <1>1. /\ Len(edges) \in Nat /\ DOMAIN edges = 1..Len(edges)
        /\ Len(edges') \in Nat /\ DOMAIN edges' = 1..Len(edges')
        /\ now \in Nat /\ now' \in Nat /\ now <= now'
    BY DEF TypeOK, TableType, Grown
  <1>2. DOMAIN edges \subseteq DOMAIN edges' /\ \A i \in DOMAIN edges : edges'[i] = edges[i]
    BY <1>1 DEF Grown
  <1>3. RecordedBy(walk.at) \in Nat /\ RecordedBy(walk.at)' \in Nat
        /\ RecordedBy(walk.at) <= RecordedBy(walk.at)'
    <2>1. walk.at \in AsOfs
      BY DEF Walks
    <2>2. walk.at.rec \in Nat \/ walk.at.rec = None
      BY <2>1, ProvenanceAssumption
    <2> QED
      BY <1>1, <2>2 DEF RecordedBy
  <1>4. ASSUME NEW i \in DOMAIN edges, InForce(edges[i], walk.at)
        PROVE  InForce(edges[i], walk.at)'
    <2>1. edges[i].rec \in Nat
      BY RowType DEF TypeOK
    <2>2. edges[i].rec <= RecordedBy(walk.at)'
      BY <1>3, <1>4, <2>1 DEF InForce
    <2> QED
      BY <1>2, <1>4, <2>2 DEF InForce
  <1>5. InForceNow \subseteq InForceNow'
    <2>1. /\ InForceNow = {i \in DOMAIN edges : InForce(edges[i], walk.at)}
          /\ InForceNow' = {i \in DOMAIN edges' : InForce(edges[i], walk.at)'}
      BY DEF InForceNow, Projection
    <2> QED
      BY <1>2, <1>4, <2>1
  <1>6. ASSUME NEW n
        PROVE  Leaving(n) \subseteq Leaving(n)' /\ Entering(n) \subseteq Entering(n)'
    <2>1. /\ Leaving(n) = {i \in InForceNow : edges[i].req.src = n}
          /\ Leaving(n)' = {i \in InForceNow' : edges'[i].req.src = n}
      BY DEF Leaving, InForceNow
    <2>2. /\ Entering(n) = {i \in InForceNow : edges[i].req.dst = n}
          /\ Entering(n)' = {i \in InForceNow' : edges'[i].req.dst = n}
      BY DEF Entering, InForceNow
    <2>3. InForceNow \subseteq DOMAIN edges
      BY DEF InForceNow, Projection
    <2> QED
      BY <1>2, <1>5, <2>1, <2>2, <2>3
  <1> QED
    BY <1>2, <1>5, <1>6

\* What a query returns is some of the edges at the item, and all of them below the limit.
LEMMA FirstRowsOf ==
  ASSUME NEW S, IsFiniteSet(S)
  PROVE  FirstRows(S) \subseteq S /\ (Cardinality(S) <= Limit => FirstRows(S) = S)
  <1>1. FirstRows(S) \subseteq S
    BY DEF FirstRows
  <1>2. ASSUME Cardinality(S) <= Limit, NEW i \in S
        PROVE  Cardinality({j \in S : j <= i}) <= Limit
    <2> DEFINE T == {j \in S : j <= i}
    <2>1. T \subseteq S
      OBVIOUS
    <2> HIDE DEF T
    <2>2. IsFiniteSet(T) /\ Cardinality(T) <= Cardinality(S)
      BY <2>1, FS_Subset
    <2>3. Cardinality(T) \in Nat /\ Cardinality(S) \in Nat /\ Limit \in Nat
      BY <2>2, FS_CardinalityType, ProvenanceAssumption
    <2>4. Cardinality(T) <= Limit
      BY <1>2, <2>2, <2>3
    <2> QED
      BY <2>4 DEF T
  <1> QED
    BY <1>1, <1>2 DEF FirstRows

LEMMA EdgesAreFinite ==
  ASSUME Len(edges) \in Nat, DOMAIN edges = 1..Len(edges)
  PROVE  /\ IsFiniteSet(InForceNow)
         /\ \A n : IsFiniteSet(Leaving(n)) /\ IsFiniteSet(Entering(n))
  <1>1. IsFiniteSet(DOMAIN edges)
    BY FS_Interval
  <1>2. InForceNow \subseteq DOMAIN edges
    BY DEF InForceNow, Projection
  <1>3. IsFiniteSet(InForceNow)
    BY <1>1, <1>2, FS_Subset
  <1>4. \A n : Leaving(n) \subseteq InForceNow /\ Entering(n) \subseteq InForceNow
    BY DEF Leaving, Entering, InForceNow
  <1> QED
    BY <1>3, <1>4, FS_Subset

\* The queries of a walk, with and without the limit.
LEMMA Queries ==
  ASSUME TypeOK, NEW n \in Nodes
  PROVE  /\ From(n) \subseteq Leaving(n) /\ To(n) \subseteq Entering(n)
         /\ Clear => From(n) = Leaving(n) /\ To(n) = Entering(n)
  <1>1. Len(edges) \in Nat /\ DOMAIN edges = 1..Len(edges)
    BY DEF TypeOK
  <1>2. IsFiniteSet(Leaving(n)) /\ IsFiniteSet(Entering(n))
    BY <1>1, EdgesAreFinite
  <1>3. Clear => Cardinality(Leaving(n)) <= Limit /\ Cardinality(Entering(n)) <= Limit
    BY DEF Clear, Unlimited
  <1> QED
    BY <1>2, <1>3, FirstRowsOf DEF From, To

\* What hides an edge or an item is not undone.
LEMMA ClearBefore ==
  ASSUME TypeOK, TableType', Grown, walk \in Walks, walk' = walk, Clear'
  PROVE  Clear
  <1>1. /\ DOMAIN edges \subseteq DOMAIN edges' /\ \A i \in DOMAIN edges : edges'[i] = edges[i]
        /\ \A n : Leaving(n) \subseteq Leaving(n)' /\ Entering(n) \subseteq Entering(n)'
    BY InForceGrows
  <1>2. Len(edges') \in Nat /\ DOMAIN edges' = 1..Len(edges')
    BY DEF TableType
  <1>3. \A n : IsFiniteSet(Leaving(n)') /\ IsFiniteSet(Entering(n)')
    <2>1. IsFiniteSet(1..Len(edges'))
      BY <1>2, FS_Interval
    <2>2. \A n : Leaving(n)' \subseteq DOMAIN edges' /\ Entering(n)' \subseteq DOMAIN edges'
      BY DEF Leaving, Entering, Projection
    <2> QED
      BY <1>2, <2>1, <2>2, FS_Subset
  <1>4. ASSUME NEW few, NEW many, few \subseteq many, IsFiniteSet(many), Cardinality(many) <= Limit
        PROVE  Cardinality(few) <= Limit
    <2>1. IsFiniteSet(few) /\ Cardinality(few) <= Cardinality(many)
      BY <1>4, FS_Subset
    <2>2. Cardinality(few) \in Nat /\ Cardinality(many) \in Nat /\ Limit \in Nat
      BY <1>4, <2>1, FS_CardinalityType, ProvenanceAssumption
    <2> QED
      BY <1>4, <2>1, <2>2
  <1>5. ASSUME NEW n \in Nodes
        PROVE  Cardinality(Leaving(n)) <= Limit /\ Cardinality(Entering(n)) <= Limit
    <2>1. Cardinality(Leaving(n)') <= Limit /\ Cardinality(Entering(n)') <= Limit
      BY DEF Clear, Unlimited
    <2>2. Cardinality(Leaving(n)) <= Limit
      BY <1>1, <1>3, <1>4, <2>1
    <2>3. Cardinality(Entering(n)) <= Limit
      BY <1>1, <1>3, <1>4, <2>1
    <2> QED
      BY <2>2, <2>3
  <1>6. Ends(DOMAIN edges) \subseteq Ends(DOMAIN edges)'
    BY <1>1 DEF Ends
  <1>7. Legible
    BY <1>6 DEF Clear, Legible
  <1> QED
    BY <1>5, <1>7 DEF Clear, Unlimited

\* So what could be reached can be reached.
LEMMA ReachGrows ==
  ASSUME TypeOK, TableType', Grown, walk \in Walks, walk' = walk, first' = first
  PROVE  /\ \A k : Reach(first, k)' = Reach(first, k)
         /\ \A k \in Nat : Reach(InForceNow, k) \subseteq Reach(InForceNow, k)'
         /\ \A N : EdgesAt(first, N)' = EdgesAt(first, N)
  <1>1. /\ DOMAIN edges \subseteq DOMAIN edges' /\ \A i \in DOMAIN edges : edges'[i] = edges[i]
        /\ InForceNow \subseteq InForceNow'
    BY InForceGrows
  <1>2. first \subseteq DOMAIN edges /\ InForceNow \subseteq DOMAIN edges
    BY DEF TypeOK, InForceNow, Projection
  <1>3. Arcs(first)' = Arcs(first)
    BY <1>1, <1>2 DEF Arcs
  <1>4. Arcs(InForceNow) \subseteq Arcs(InForceNow)'
    BY <1>1, <1>2 DEF Arcs
  <1>5. ASSUME NEW k PROVE Reach(first, k)' = Reach(first, k)
    BY <1>3 DEF Reach
  <1>6. ASSUME NEW k \in Nat PROVE Reach(InForceNow, k) \subseteq Reach(InForceNow, k)'
    <2>1. PICK few, many : few = Arcs(InForceNow) /\ many = Arcs(InForceNow)'
      OBVIOUS
    <2>2. Within(walk.root, few, k) \subseteq Within(walk.root, many, k)
      BY <1>4, <2>1, WithinGrows
    <2> QED
      BY <2>1, <2>2 DEF Reach
  <1>7. ASSUME NEW N PROVE EdgesAt(first, N)' = EdgesAt(first, N)
    BY <1>1, <1>2 DEF EdgesAt
  <1> QED
    BY <1>5, <1>6, <1>7

WalkVars == <<walk, queue, visited, found, truncated, expanded, first>>

\* A step that leaves the walk where it is keeps what is known of it.
LEMMA WalkKept ==
  ASSUME IInv, TableType', Grown, UNCHANGED WalkVars, pc = "idle" <=> pc' = "idle"
  PROVE  ItemsInv' /\ DepthInv' /\ FoundInv' /\ BreadthInv'
  <1>1. UNCHANGED <<walk, queue, visited, found, truncated, expanded, first>>
    BY DEF WalkVars
  <1>2. Queued' = Queued /\ Expanded' = Expanded
    BY <1>1 DEF Queued, Expanded
  <1>3. ItemsInv'
    BY <1>1, <1>2 DEF IInv, ItemsInv
  <1>4. DepthInv'
    BY <1>1 DEF IInv, DepthInv
  <1>5. CASE pc = "idle"
    BY <1>3, <1>4, <1>5 DEF FoundInv, BreadthInv
  <1>6. CASE pc # "idle"
    <2>0. walk \in Walks /\ walk.depth \in Nat /\ TypeOK
      BY <1>6, WalkUnderWay DEF IInv
    <2>1. /\ DOMAIN edges \subseteq DOMAIN edges' /\ \A i \in DOMAIN edges : edges'[i] = edges[i]
          /\ InForceNow \subseteq InForceNow'
      BY <1>1, <2>0, InForceGrows
    <2>2. /\ \A k : Reach(first, k)' = Reach(first, k)
          /\ \A k \in Nat : Reach(InForceNow, k) \subseteq Reach(InForceNow, k)'
          /\ \A N : EdgesAt(first, N)' = EdgesAt(first, N)
      BY <1>1, <2>0, ReachGrows
    <2>c. Clear' => Clear
      BY <1>1, <2>0, ClearBefore
    <2>3. /\ first \subseteq InForceNow /\ found \subseteq InForceNow
          /\ Clear' => Ends(found) \subseteq visited /\ EdgesAt(first, Expanded) \subseteq found
          /\ found \subseteq DOMAIN edges
      BY <1>6, <2>c DEF IInv, TypeOK, FoundInv, InForceNow
    <2>e. Ends(found)' = Ends(found)
      BY <1>1, <2>1, <2>3 DEF Ends
    <2>4. EdgesAt(first, Expanded)' = EdgesAt(first, Expanded)
      <3>1. PICK N : N = Expanded /\ N = Expanded'
        BY <1>2
      <3>2. EdgesAt(first, N)' = EdgesAt(first, N)
        BY <2>2
      <3>3. EdgesAt(first, Expanded)' = EdgesAt(first, N)'
        BY <3>1 DEF EdgesAt
      <3> QED
        BY <3>1, <3>2, <3>3
    <2>5. FoundInv'
      BY <1>1, <2>1, <2>3, <2>4, <2>e DEF FoundInv, InForceNow
    <2>6. \A i \in DOMAIN queue : queue[i].depth \in Nat
      <3>1. \A i \in DOMAIN queue : queue[i] \in Entries
        BY DEF IInv, TypeOK
      <3> QED
        BY <3>1 DEF Entries
    <2>7. BreadthInv'
      <3>1. PICK d, D : d = Head(queue).depth /\ d = Head(queue').depth
                        /\ D = walk.depth - 1 /\ D = walk'.depth - 1
        BY <1>1
      <3>2. /\ Reach(first, Head(queue).depth)' = Reach(first, Head(queue).depth)
            /\ Reach(first, walk.depth - 1)' = Reach(first, walk.depth - 1)
        <4>1. /\ Reach(first, Head(queue).depth)' = Reach(first, d)'
              /\ Reach(first, walk.depth - 1)' = Reach(first, D)'
          BY <3>1 DEF Reach
        <4>2. Reach(first, d)' = Reach(first, d) /\ Reach(first, D)' = Reach(first, D)
          BY <2>2
        <4> QED
          BY <3>1, <4>1, <4>2
      <3>3. ASSUME NEW i \in DOMAIN queue
            PROVE  queue'[i].node \in Reach(InForceNow, queue[i].depth)'
        <4>1. PICK k \in Nat : k = queue[i].depth /\ k = queue'[i].depth
          BY <1>1, <2>6
        <4>2. queue[i].node \in Reach(InForceNow, k)
          BY <1>6, <4>1 DEF IInv, BreadthInv, InForceNow
        <4>3. Reach(InForceNow, k)' = Reach(InForceNow, queue[i].depth)'
          BY <4>1 DEF Reach
        <4> QED
          BY <1>1, <2>2, <4>2, <4>3
      <3>4. visited \subseteq Reach(InForceNow, walk.depth)'
        <4>1. PICK k \in Nat : k = walk.depth /\ k = walk'.depth
          BY <1>1, <2>0
        <4>2. visited \subseteq Reach(InForceNow, k)
          BY <1>6, <4>1 DEF IInv, BreadthInv, InForceNow
        <4>3. Reach(InForceNow, k)' = Reach(InForceNow, walk.depth)'
          BY <4>1 DEF Reach
        <4> QED
          BY <2>2, <4>2, <4>3
      <3>5. /\ Clear' /\ queue # <<>> =>
                 Reach(first, Head(queue).depth) \subseteq
                   Expanded \cup {queue[i].node : i \in {j \in DOMAIN queue :
                                                        queue[j].depth = Head(queue).depth}}
            /\ Clear' /\ queue = <<>> /\ walk.depth > 0 =>
                 Reach(first, walk.depth - 1) \subseteq Expanded
        BY <1>6, <2>c DEF IInv, BreadthInv
      <3> QED
        BY <1>1, <1>2, <3>2, <3>3, <3>4, <3>5 DEF BreadthInv, InForceNow
    <2> QED
      BY <1>3, <1>4, <2>5, <2>7
  <1> QED
    BY <1>5, <1>6

\* A step of others keeps all that is known of the walk.
LEMMA OthersStep ==
  ASSUME IInv, TableType', TableInv', Grown, UNCHANGED <<pc, walker>>
  PROVE  IInv'
  <1>1. UNCHANGED <<pc, walk, queue, visited, found, outgoing, truncated, result, expanded, first>>
    BY DEF walker
  <1>2. ItemsInv' /\ DepthInv' /\ FoundInv' /\ BreadthInv'
    BY <1>1, WalkKept DEF WalkVars
  <1>3. DOMAIN edges \subseteq DOMAIN edges'
    BY DEF Grown, IInv, TypeOK, TableType
  <1>4. WalkerType'
    BY <1>1, <1>3 DEF IInv, TypeOK, WalkerType
  <1>5. WalkInv'
    <2>1. CASE pc = "second"
      <3>1. walk \in Walks /\ TypeOK
        BY <2>1, WalkUnderWay DEF IInv
      <3>2. /\ \A i \in DOMAIN edges : edges'[i] = edges[i]
            /\ \A n : Leaving(n) \subseteq Leaving(n)'
        BY <1>1, <3>1, InForceGrows
      <3>3. PICK n : n = Head(queue).node /\ n = Head(queue').node
        BY <1>1
      <3>4. Leaving(n)' = Leaving(Head(queue).node)'
        BY <3>3 DEF Leaving
      <3>5. outgoing' \subseteq Leaving(Head(queue).node)'
        BY <1>1, <2>1, <3>2, <3>3, <3>4 DEF IInv, WalkInv
      <3>6. first \subseteq DOMAIN edges
        BY <3>1 DEF TypeOK
      <3>7. Clear' => Clear
        BY <1>1, <3>1, ClearBefore
      <3>8. Clear' => \A i \in first : edges'[i].req.src = Head(queue').node => i \in outgoing
        BY <1>1, <2>1, <3>2, <3>6, <3>7 DEF IInv, WalkInv
      <3> QED
        BY <1>1, <2>1, <3>5, <3>8 DEF IInv, WalkInv
    <2>2. CASE pc = "done"
      <3>1. walk \in Walks /\ TypeOK
        BY <2>2, WalkUnderWay DEF IInv
      <3>2. Clear' => Clear
        BY <1>1, <3>1, ClearBefore
      <3> QED
        BY <1>1, <2>2, <3>2 DEF IInv, WalkInv
    <2>3. CASE pc \notin {"second", "done"}
      BY <1>1, <2>3 DEF IInv, WalkInv
    <2> QED
      BY <2>1, <2>2, <2>3
  <1>6. TypeOK'
    BY <1>4 DEF TypeOK, TableType, WalkerType
  <1> QED
    BY <1>2, <1>5, <1>6 DEF IInv

-----------------------------------------------------------------------------
(* The steps of a walk.                                                    *)

\* The head of the queue is to be expanded.
Popped == /\ pc \in {"walk", "second"} /\ queue # <<>> /\ Head(queue).depth < walk.depth

LEMMA HeadAndTail ==
  ASSUME NEW S, NEW q \in Seq(S), q # <<>>
  PROVE  /\ Head(q) \in S /\ Head(q) = q[1] /\ Tail(q) \in Seq(S)
         /\ Len(q) \in Nat /\ 1 \in DOMAIN q
         /\ \A i \in DOMAIN Tail(q) : i + 1 \in DOMAIN q /\ i + 1 # 1 /\ Tail(q)[i] = q[i + 1]
         /\ \A i \in DOMAIN q : i # 1 => i - 1 \in DOMAIN Tail(q) /\ Tail(q)[i - 1] = q[i]
  OBVIOUS

\* The loop starts with all that the invariant says.
LEMMA LoopStarts ==
  ASSUME IInv, Popped
  PROVE  /\ Taken \in Accs /\ Taken.at = Head(queue) /\ Taken.found = found
         /\ Taken.at.depth < walk.depth /\ LoopInv(Taken)
  <1> DEFINE h == Head(queue)
             rest == Tail(queue)
  <1>0. TypeOK /\ pc # "idle" /\ queue # <<>> /\ h.depth < walk.depth
    BY DEF IInv, Popped
  <1>1. walk \in Walks /\ walk.depth \in Nat
    BY <1>0, WalkUnderWay
  <1>2. /\ h \in Entries /\ h = queue[1] /\ rest \in Seq(Entries) /\ 1 \in DOMAIN queue
        /\ \A i \in DOMAIN rest : i + 1 \in DOMAIN queue /\ i + 1 # 1 /\ rest[i] = queue[i + 1]
        /\ \A i \in DOMAIN queue : i # 1 => i - 1 \in DOMAIN rest /\ rest[i - 1] = queue[i]
    BY <1>0, HeadAndTail DEF TypeOK
  <1>3. /\ Taken.at = h /\ Taken.queue = rest /\ Taken.visited = visited /\ Taken.found = found
        /\ Taken.truncated = truncated
    BY DEF Taken
  <1>4. Taken \in Accs
    BY <1>0, <1>2 DEF Taken, Accs, TypeOK
  <1>n. /\ DOMAIN queue \subseteq Nat /\ DOMAIN rest \subseteq Nat
        /\ \A i \in DOMAIN queue : queue[i].depth \in Nat
    <2>1. queue \in Seq(Entries)
      BY <1>0 DEF TypeOK
    <2>2. \A i \in DOMAIN queue : queue[i] \in Entries
      BY <2>1
    <2> QED
      BY <1>2, <2>1, <2>2 DEF Entries
  <1> HIDE DEF h, rest
  <1>5. LoopItems(Taken)
    <2>1. ASSUME NEW i \in DOMAIN rest, NEW j \in DOMAIN rest, rest[i].node = rest[j].node
          PROVE  i = j
      <3>1. i + 1 = j + 1
        BY <1>2, <2>1 DEF IInv, ItemsInv
      <3> QED
        BY <1>n, <3>1
    <2>2. ASSUME NEW i \in DOMAIN rest
          PROVE  rest[i].node \notin Expanded \cup {h.node} /\ rest[i].node \in visited
      <3>1. rest[i].node \in Queued
        BY <1>2 DEF Queued
      <3>2. rest[i].node # h.node
        BY <1>2 DEF IInv, ItemsInv
      <3> QED
        BY <3>1, <3>2 DEF IInv, ItemsInv
    <2>3. Expanded \cup {h.node} \subseteq visited
      <3>1. h.node \in Queued
        BY <1>2 DEF Queued
      <3> QED
        BY <3>1 DEF IInv, ItemsInv
    <2>4. ASSUME ~ truncated, NEW n \in visited
          PROVE  n \in Expanded \cup {h.node} \/ \E i \in DOMAIN rest : rest[i].node = n
      <3>1. walk.depth > 0
        <4>1. h.depth \in Nat
          BY <1>2 DEF Entries
        <4> QED
          BY <1>0, <1>1, <4>1 DEF h
      <3>2. n \in Queued \cup Expanded
        BY <1>0, <2>4, <3>1 DEF IInv, ItemsInv
      <3>3. CASE n \in Queued
        <4>1. PICK i \in DOMAIN queue : queue[i].node = n
          BY <3>3 DEF Queued
        <4> QED
          BY <1>2, <4>1
      <3> QED
        BY <3>2, <3>3
    <2> QED
      BY <1>3, <2>1, <2>2, <2>3, <2>4 DEF LoopItems
  <1>6. LoopDepth(Taken)
    <2>1. /\ walk.root \in visited
          /\ \A i, j \in DOMAIN queue : i <= j => /\ queue[i].depth <= queue[j].depth
                                                  /\ queue[j].depth <= queue[i].depth + 1
          /\ \A i \in DOMAIN queue : queue[i].depth < walk.depth
                                     \/ (walk.depth = 0 /\ queue = <<[node |-> walk.root, depth |-> 0]>>)
          /\ truncated => \A i \in DOMAIN queue : queue[i].depth + 1 >= walk.depth
      BY <1>0 DEF IInv, DepthInv
    <2>2. walk.depth # 0
      <3>1. h.depth \in Nat
        BY <1>2 DEF Entries
      <3> QED
        BY <1>0, <1>1, <3>1 DEF h
    <2>3. ASSUME NEW i \in DOMAIN rest
          PROVE  h.depth <= rest[i].depth /\ rest[i].depth <= h.depth + 1 /\ rest[i].depth < walk.depth
      <3>1. i + 1 \in DOMAIN queue /\ 1 <= i + 1
        BY <1>2, <1>n
      <3> QED
        BY <1>2, <2>1, <2>2, <3>1
    <2>4. ASSUME NEW i \in DOMAIN rest, NEW j \in DOMAIN rest, i <= j
          PROVE  rest[i].depth <= rest[j].depth
      <3>1. i + 1 \in DOMAIN queue /\ j + 1 \in DOMAIN queue /\ i + 1 <= j + 1
        BY <1>2, <1>n, <2>4
      <3> QED
        BY <1>2, <2>1, <3>1
    <2>5. truncated => h.depth + 1 >= walk.depth
      BY <1>2, <2>1
    <2> QED
      BY <1>3, <2>1, <2>3, <2>4, <2>5 DEF LoopDepth
  <1>7. LoopFound(Taken)
    BY <1>0, <1>3 DEF IInv, FoundInv, LoopFound, InForceNow, Ends
  <1>8. LoopBreadth(Taken)
    <2>1. /\ Clear => Reach(first, Head(queue).depth) \subseteq
               Expanded \cup {queue[i].node : i \in {j \in DOMAIN queue :
                                                    queue[j].depth = Head(queue).depth}}
          /\ \A i \in DOMAIN queue : queue[i].node \in Reach(InForceNow, queue[i].depth)
          /\ visited \subseteq Reach(InForceNow, walk.depth)
      BY <1>0 DEF IInv, BreadthInv, InForceNow
    <2>2. ASSUME Clear, NEW n \in Reach(first, h.depth), n \notin Expanded \cup {h.node}
          PROVE  \E i \in DOMAIN rest : rest[i].node = n /\ rest[i].depth = h.depth
      <3>1. PICK j \in DOMAIN queue : queue[j].depth = h.depth /\ queue[j].node = n
        BY <2>1, <2>2 DEF h
      <3>2. j # 1
        BY <1>2, <2>2, <3>1
      <3> QED
        BY <1>2, <3>1, <3>2
    <2>3. h.node \in Reach(InForceNow, h.depth)
      BY <1>2, <2>1
    <2>4. \A i \in DOMAIN rest : rest[i].node \in Reach(InForceNow, rest[i].depth)
      BY <1>2, <2>1
    <2> QED
      BY <1>3, <2>1, <2>2, <2>3, <2>4 DEF LoopBreadth
  <1> QED
    BY <1>0, <1>3, <1>4, <1>5, <1>6, <1>7, <1>8 DEF LoopInv, h

\* What is ahead of items whose edges were found was met.
LEMMA AheadIsMet ==
  ASSUME NEW S, NEW N, NEW F, NEW V, EdgesAt(S, N) \subseteq F,
         \A i \in F : edges[i].req.src \in V /\ edges[i].req.dst \in V
  PROVE  Ahead(Arcs(S), N) \subseteq V
  <1>1. ASSUME NEW arc \in Arcs(S), arc[1] \in N PROVE arc[2] \in V
    <2>1. CASE \E i \in S : /\ walk.direction # "incoming"
                            /\ arc = <<edges[i].req.src, edges[i].req.dst>>
      <3>1. PICK i \in S : /\ walk.direction # "incoming"
                           /\ arc = <<edges[i].req.src, edges[i].req.dst>>
        BY <2>1
      <3>2. i \in EdgesAt(S, N)
        BY <1>1, <3>1 DEF EdgesAt
      <3> QED
        BY <3>1, <3>2
    <2>2. CASE \E i \in S : /\ walk.direction # "outgoing"
                            /\ arc = <<edges[i].req.dst, edges[i].req.src>>
      <3>1. PICK i \in S : /\ walk.direction # "outgoing"
                           /\ arc = <<edges[i].req.dst, edges[i].req.src>>
        BY <2>2
      <3>2. i \in EdgesAt(S, N)
        BY <1>1, <3>1 DEF EdgesAt
      <3> QED
        BY <3>1, <3>2
    <2> QED
      BY <2>1, <2>2 DEF Arcs
  <1> QED
    BY <1>1 DEF Ahead

\* When the head has been expanded the walk is by breadth still.
LEMMA LoopEnds ==
  ASSUME IInv, Popped, Clear, NEW acc \in Accs, acc.at = Head(queue), LoopInv(acc),
         found \subseteq acc.found, EdgesAt(first, {acc.at.node}) \subseteq acc.found,
         NEW E, E = Expanded \cup {acc.at.node}
  PROVE  /\ EdgesAt(first, E) \subseteq acc.found
         /\ acc.queue # <<>> =>
              \A n \in Reach(first, acc.queue[1].depth) :
                \/ n \in E
                \/ \E i \in DOMAIN acc.queue :
                     acc.queue[i].node = n /\ acc.queue[i].depth = acc.queue[1].depth
         /\ acc.queue = <<>> => Reach(first, walk.depth - 1) \subseteq E
  <1> DEFINE A == Arcs(first)
             d == acc.at.depth
  <1>1. pc # "idle" /\ walk.depth \in Nat /\ d \in Nat /\ d < walk.depth
        /\ acc.queue \in Seq(Entries)
    <2>1. pc # "idle" /\ d < walk.depth
      BY DEF Popped
    <2>2. acc.at \in Entries /\ acc.queue \in Seq(Entries)
      BY DEF Accs
    <2> QED
      BY <2>1, <2>2, WalkUnderWay DEF Entries
  <1>2. EdgesAt(first, E) \subseteq acc.found
    <2>1. EdgesAt(first, Expanded) \subseteq found
      BY <1>1 DEF IInv, FoundInv
    <2>2. EdgesAt(first, E) \subseteq EdgesAt(first, Expanded) \cup EdgesAt(first, {acc.at.node})
      BY DEF EdgesAt
    <2> QED
      BY <2>1, <2>2
  <1>3. Ahead(A, E) \subseteq acc.visited
    BY <1>2, AheadIsMet DEF LoopInv, LoopFound
  <1>q. \A i \in DOMAIN acc.queue : acc.queue[i].depth \in Nat
    <2>1. \A i \in DOMAIN acc.queue : acc.queue[i] \in Entries
      BY <1>1
    <2> QED
      BY <2>1 DEF Entries
  <1>r. /\ \A n \in Reach(first, d) :
             \/ n \in E
             \/ \E i \in DOMAIN acc.queue : acc.queue[i].node = n /\ acc.queue[i].depth = d
        /\ \A i, j \in DOMAIN acc.queue : i <= j => acc.queue[i].depth <= acc.queue[j].depth
        /\ \A i \in DOMAIN acc.queue : /\ d <= acc.queue[i].depth /\ acc.queue[i].depth <= d + 1
                                       /\ acc.queue[i].depth < walk.depth
        /\ acc.truncated => d + 1 >= walk.depth
    BY DEF LoopInv, LoopBreadth, LoopDepth
  <1>4. ASSUME acc.queue # <<>>, NEW n \in Reach(first, acc.queue[1].depth), n \notin E
        PROVE  \E i \in DOMAIN acc.queue :
                 acc.queue[i].node = n /\ acc.queue[i].depth = acc.queue[1].depth
    <2>1. 1 \in DOMAIN acc.queue /\ \A i \in DOMAIN acc.queue : 1 <= i
      BY <1>1, <1>4
    <2>2. acc.queue[1].depth = d \/ acc.queue[1].depth = d + 1
      BY <1>1, <1>q, <1>r, <2>1
    <2>3. CASE acc.queue[1].depth = d
      BY <1>4, <1>r, <2>3
    <2>4. CASE acc.queue[1].depth = d + 1
      <3>1. \A i \in DOMAIN acc.queue : acc.queue[i].depth = d + 1
        BY <1>1, <1>q, <1>r, <2>1, <2>4
      <3>2. Reach(first, d) \subseteq E
        BY <1>1, <1>r, <3>1
      <3>3. Reach(first, d + 1) = Reach(first, d) \cup Ahead(A, Reach(first, d))
        BY <1>1, WithinSteps DEF Reach
      <3>4. Ahead(A, Reach(first, d)) \subseteq Ahead(A, E)
        <4> HIDE DEF A
        <4> QED
          BY <3>2 DEF Ahead
      <3>5. n \in acc.visited
        BY <1>3, <1>4, <2>4, <3>2, <3>3, <3>4
      <3>6. ~ acc.truncated
        <4>1. d + 1 < walk.depth
          BY <1>r, <2>1, <2>4
        <4> QED
          BY <1>1, <1>r, <4>1
      <3>7. PICK i \in DOMAIN acc.queue : acc.queue[i].node = n
        BY <1>4, <3>5, <3>6 DEF LoopInv, LoopItems
      <3> QED
        BY <2>4, <3>1, <3>7
    <2> QED
      BY <2>2, <2>3, <2>4
  <1>5. ASSUME acc.queue = <<>> PROVE Reach(first, walk.depth - 1) \subseteq E
    <2>0. DOMAIN acc.queue = {}
      BY <1>5
    <2>1. CASE acc.truncated
      <3>1. walk.depth - 1 = d
        BY <1>1, <1>r, <2>1
      <3> QED
        BY <1>r, <2>0, <3>1
    <2>2. CASE ~ acc.truncated
      <3>1. acc.visited \subseteq E
        BY <2>0, <2>2 DEF LoopInv, LoopItems
      <3>2. walk.root \in E
        BY <3>1 DEF LoopInv, LoopDepth
      <3>3. Ahead(A, E) \subseteq E
        BY <1>3, <3>1
      <3>4. walk.depth - 1 \in Nat
        BY <1>1
      <3> QED
        BY <3>2, <3>3, <3>4, WithinClosed DEF Reach
    <2> QED
      BY <2>1, <2>2
  <1> QED
    BY <1>2, <1>4, <1>5

\* The head of the queue was expanded: to the state that the loop leaves.
LEMMA ExpandStep ==
  ASSUME IInv, Popped, TableType', TableInv', Grown,
         NEW acc \in Accs, acc.at = Head(queue), LoopInv(acc),
         found \subseteq acc.found, Clear => EdgesAt(first, {acc.at.node}) \subseteq acc.found,
         Expand(acc), pc' = "walk", outgoing' = {}, UNCHANGED <<table, walk, result, first>>
  PROVE  IInv'
  <1>1. PICK E : E = Expanded \cup {acc.at.node}
    OBVIOUS
  <1>2. Clear =>
          /\ EdgesAt(first, E) \subseteq acc.found
          /\ acc.queue # <<>> =>
               \A n \in Reach(first, acc.queue[1].depth) :
                 \/ n \in E
                 \/ \E i \in DOMAIN acc.queue :
                      acc.queue[i].node = n /\ acc.queue[i].depth = acc.queue[1].depth
          /\ acc.queue = <<>> => Reach(first, walk.depth - 1) \subseteq E
    BY <1>1, LoopEnds
  <1>3. /\ queue' = acc.queue /\ visited' = acc.visited /\ found' = acc.found
        /\ truncated' = acc.truncated /\ expanded' = Append(expanded, acc.at.node)
        /\ walk' = walk /\ first' = first /\ result' = result /\ edges' = edges
    BY DEF Expand, table
  <1>4. /\ TypeOK /\ pc # "idle" /\ walk \in Walks /\ walk.depth \in Nat
        /\ acc.at.depth < walk.depth
    BY WalkUnderWay DEF Popped, IInv
  <1>5. /\ acc.at \in Entries /\ acc.queue \in Seq(Entries) /\ acc.visited \in SUBSET Nodes
        /\ acc.found \in SUBSET (DOMAIN edges) /\ acc.truncated \in BOOLEAN
    BY DEF Accs
  <1>6. /\ acc.at.node \in Nodes /\ acc.at.depth \in Nat
        /\ \A i \in DOMAIN acc.queue : acc.queue[i].depth \in Nat
    <2>1. \A i \in DOMAIN acc.queue : acc.queue[i] \in Entries
      BY <1>5
    <2> QED
      BY <1>5, <2>1 DEF Entries
  <1>7. /\ LoopItems(acc) /\ LoopDepth(acc) /\ LoopFound(acc) /\ LoopBreadth(acc)
    BY DEF LoopInv
  <1>8. /\ Len(expanded) \in Nat /\ DOMAIN expanded = 1..Len(expanded)
        /\ DOMAIN expanded' = 1..(Len(expanded) + 1)
        /\ \A i \in 1..Len(expanded) : expanded'[i] = expanded[i]
        /\ expanded'[Len(expanded) + 1] = acc.at.node
        /\ expanded' \in Seq(Nodes)
    <2>1. expanded \in Seq(Nodes)
      BY <1>4 DEF TypeOK
    <2>2. Append(expanded, acc.at.node) \in Seq(Nodes)
      BY <1>6, <2>1
    <2> QED
      BY <1>3, <1>6, <2>1, <2>2, AppendParts
  <1>9. Expanded' = E
    <2>1. ASSUME NEW i \in 1..(Len(expanded) + 1) PROVE expanded'[i] \in E
      <3>1. CASE i \in 1..Len(expanded)
        BY <1>1, <1>8, <3>1 DEF Expanded
      <3>2. CASE i = Len(expanded) + 1
        BY <1>1, <1>8, <3>2
      <3> QED
        BY <1>8, <3>1, <3>2
    <2>2. ASSUME NEW n \in E PROVE \E i \in 1..(Len(expanded) + 1) : expanded'[i] = n
      <3>1. CASE n \in Expanded
        <4>1. PICK i \in 1..Len(expanded) : expanded[i] = n
          BY <1>8, <3>1 DEF Expanded
        <4>2. i \in 1..(Len(expanded) + 1) /\ expanded'[i] = n
          BY <1>8, <4>1
        <4> QED
          BY <4>2
      <3>2. CASE n = acc.at.node
        <4>1. Len(expanded) + 1 \in 1..(Len(expanded) + 1)
          BY <1>8
        <4> QED
          BY <1>8, <3>2, <4>1
      <3> QED
        BY <1>1, <3>1, <3>2
    <2>3. Expanded' = {expanded'[i] : i \in 1..(Len(expanded) + 1)}
      BY <1>8 DEF Expanded
    <2> QED
      BY <2>1, <2>2, <2>3
  <1>10. IsInjective(expanded')
    <2>1. acc.at.node \notin Expanded
      <3>1. /\ Head(queue) = queue[1] /\ 1 \in DOMAIN queue
        BY <1>4, HeadAndTail DEF TypeOK, Popped
      <3>2. acc.at.node \in Queued
        BY <3>1 DEF Queued
      <3> QED
        BY <3>2 DEF IInv, ItemsInv
    <2>2. \A i \in 1..Len(expanded) : expanded[i] # acc.at.node
      BY <1>8, <2>1 DEF Expanded
    <2>3. \A i, j \in 1..Len(expanded) : expanded[i] = expanded[j] => i = j
      BY <1>8 DEF IInv, ItemsInv, IsInjective
    <2>4. ASSUME NEW i \in 1..(Len(expanded) + 1), NEW j \in 1..(Len(expanded) + 1),
                 expanded'[i] = expanded'[j]
          PROVE  i = j
      <3>1. i \in 1..Len(expanded) \/ i = Len(expanded) + 1
        BY <1>8
      <3>2. j \in 1..Len(expanded) \/ j = Len(expanded) + 1
        BY <1>8
      <3> QED
        BY <1>8, <2>2, <2>3, <2>4, <3>1, <3>2
    <2> QED
      BY <1>8, <2>4 DEF IsInjective
  <1>11. Queued' = {acc.queue[i].node : i \in DOMAIN acc.queue}
    BY <1>3 DEF Queued
  <1>12. ItemsInv'
    <2>1. \A i, j \in DOMAIN acc.queue : acc.queue[i].node = acc.queue[j].node => i = j
      BY <1>7 DEF LoopItems
    <2>2. Queued' \cap E = {} /\ Queued' \cup E \subseteq acc.visited
      BY <1>1, <1>7, <1>11 DEF LoopItems
    <2>3. ~ acc.truncated => acc.visited \subseteq Queued' \cup E
      BY <1>1, <1>7, <1>11 DEF LoopItems
    <2> QED
      BY <1>3, <1>9, <1>10, <2>1, <2>2, <2>3 DEF ItemsInv
  <1>13. DepthInv'
    <2>1. /\ walk.root \in acc.visited
          /\ \A i, j \in DOMAIN acc.queue : i <= j => acc.queue[i].depth <= acc.queue[j].depth
          /\ \A i \in DOMAIN acc.queue : /\ acc.at.depth <= acc.queue[i].depth
                                         /\ acc.queue[i].depth <= acc.at.depth + 1
                                         /\ acc.queue[i].depth < walk.depth
          /\ acc.truncated => acc.at.depth + 1 >= walk.depth
      BY <1>7 DEF LoopDepth
    <2>2. \A i, j \in DOMAIN acc.queue : acc.queue[j].depth <= acc.queue[i].depth + 1
      BY <1>6, <2>1
    <2>3. acc.truncated => \A i \in DOMAIN acc.queue : acc.queue[i].depth + 1 >= walk.depth
      BY <1>4, <1>6, <2>1
    <2> QED
      BY <1>3, <2>1, <2>2, <2>3 DEF DepthInv
  <1>14. /\ \A k : Reach(first, k)' = Reach(first, k)
         /\ \A k \in Nat : Reach(InForceNow, k) \subseteq Reach(InForceNow, k)'
         /\ \A N : EdgesAt(first, N)' = EdgesAt(first, N)
         /\ InForceNow \subseteq InForceNow'
    BY <1>3, <1>4, InForceGrows, ReachGrows
  <1>c. Clear' => Clear
    BY <1>3, <1>4, ClearBefore
  <1>15. FoundInv'
    <2>1. first \subseteq InForceNow /\ acc.found \subseteq InForceNow
      BY <1>4, <1>7 DEF IInv, FoundInv, LoopFound, InForceNow
    <2>2. Clear' => EdgesAt(first, Expanded)' \subseteq acc.found
      <3>1. EdgesAt(first, Expanded)' = EdgesAt(first, E)'
        BY <1>9 DEF EdgesAt
      <3> QED
        BY <1>2, <1>14, <1>c, <3>1
    <2>3. Clear' => Ends(acc.found) \subseteq acc.visited
      BY <1>7, <1>c DEF LoopFound, Ends
    <2>4. Ends(found)' = Ends(acc.found)
      BY <1>3 DEF Ends
    <2> QED
      BY <1>3, <1>14, <2>1, <2>2, <2>3, <2>4 DEF FoundInv, InForceNow
  <1>16. BreadthInv'
    <2>1. ASSUME Clear', queue' # <<>>
          PROVE  Reach(first, Head(queue).depth)' \subseteq
                   Expanded' \cup {queue'[i].node : i \in {j \in DOMAIN queue' :
                                                     queue'[j].depth = Head(queue').depth}}
      <3>1. Head(acc.queue) = acc.queue[1]
        BY <1>3, <1>5, <2>1, HeadAndTail
      <3>2. PICK k : k = acc.queue[1].depth /\ k = Head(queue').depth
        BY <1>3, <3>1
      <3>3. Reach(first, Head(queue).depth)' = Reach(first, k)'
        BY <3>2 DEF Reach
      <3>4. Reach(first, Head(queue).depth)' = Reach(first, acc.queue[1].depth)
        BY <1>14, <3>2, <3>3
      <3>5. ASSUME NEW n \in Reach(first, acc.queue[1].depth), n \notin E
            PROVE  n \in {queue'[i].node : i \in {j \in DOMAIN queue' :
                                                  queue'[j].depth = Head(queue').depth}}
        <4>1. PICK i \in DOMAIN acc.queue :
                acc.queue[i].node = n /\ acc.queue[i].depth = acc.queue[1].depth
          BY <1>2, <1>3, <1>c, <2>1, <3>5
        <4> QED
          BY <1>3, <3>2, <4>1
      <3> QED
        BY <1>9, <3>4, <3>5
    <2>2. ASSUME Clear', queue' = <<>>
          PROVE  Reach(first, walk.depth - 1)' \subseteq Expanded'
      <3>1. PICK k : k = walk.depth - 1 /\ k = walk'.depth - 1
        BY <1>3
      <3>2. Reach(first, walk.depth - 1)' = Reach(first, k)'
        BY <3>1 DEF Reach
      <3> QED
        BY <1>2, <1>3, <1>9, <1>14, <1>c, <2>2, <3>1, <3>2
    <2>3. ASSUME NEW i \in DOMAIN queue'
          PROVE  queue'[i].node \in Reach(InForceNow, queue[i].depth)'
      <3>1. PICK k \in Nat : k = acc.queue[i].depth /\ k = queue'[i].depth
        BY <1>3, <1>6
      <3>2. Reach(InForceNow, queue[i].depth)' = Reach(InForceNow, k)'
        BY <3>1 DEF Reach
      <3>3. acc.queue[i].node \in Reach(InForceNow, k)
        BY <1>3, <1>7, <3>1 DEF LoopBreadth
      <3> QED
        BY <1>3, <1>14, <3>2, <3>3
    <2>4. visited' \subseteq Reach(InForceNow, walk.depth)'
      <3>1. PICK k \in Nat : k = walk.depth /\ k = walk'.depth
        BY <1>3, <1>4
      <3>2. Reach(InForceNow, walk.depth)' = Reach(InForceNow, k)'
        BY <3>1 DEF Reach
      <3>3. acc.visited \subseteq Reach(InForceNow, k)
        BY <1>7, <3>1 DEF LoopBreadth
      <3> QED
        BY <1>3, <1>14, <3>2, <3>3
    <2> QED
      BY <2>1, <2>2, <2>3, <2>4 DEF BreadthInv, InForceNow
  <1>17. WalkerType'
    BY <1>3, <1>4, <1>5, <1>8 DEF TypeOK, WalkerType
  <1>18. TypeOK'
    BY <1>17 DEF TypeOK, TableType, WalkerType
  <1>19. WalkInv'
    BY <1>3, <1>4 DEF IInv, WalkInv
  <1> QED
    BY <1>12, <1>13, <1>15, <1>16, <1>18, <1>19 DEF IInv

LEMMA HeadIsNode ==
  ASSUME TypeOK, Popped
  PROVE  Head(queue).node \in Nodes
  <1>1. Head(queue) \in Entries
    BY HeadAndTail DEF TypeOK, Popped
  <1> QED
    BY <1>1 DEF Entries

LEMMA ExpandOneWayStep ==
  ASSUME IInv, TableType', TableInv', Grown, ExpandOneWay
  PROVE  IInv'
  <1> DEFINE n == Head(queue).node
             all == IF walk.direction = "outgoing" THEN From(n) ELSE To(n)
  <1>1. /\ Popped /\ pc = "walk" /\ walk.direction # "both"
        /\ Expand(FollowAll(Taken, all))
        /\ UNCHANGED <<table, pc, walk, outgoing, result, first>>
    BY DEF ExpandOneWay, Pop, Popped
  <1>2. /\ Taken \in Accs /\ Taken.at = Head(queue) /\ Taken.found = found
        /\ Taken.at.depth < walk.depth /\ LoopInv(Taken)
    BY <1>1, LoopStarts
  <1>3. walk \in Walks /\ TypeOK /\ walk.direction \in {"outgoing", "incoming"}
    BY <1>1, WalkUnderWay DEF IInv, Walks, Directions
  <1>q. /\ From(n) \subseteq Leaving(n) /\ To(n) \subseteq Entering(n)
        /\ Clear => From(n) = Leaving(n) /\ To(n) = Entering(n)
    BY <1>1, <1>3, HeadIsNode, Queries
  <1>4. /\ all \subseteq EdgesAt(InForceNow, {n})
        /\ Clear => all = EdgesAt(InForceNow, {n})
    BY <1>3, <1>q DEF EdgesAt, Leaving, Entering, InForceNow
  <1>5. first \subseteq InForceNow
    BY <1>1 DEF IInv, FoundInv, InForceNow
  <1>6. Clear => EdgesAt(first, {n}) \subseteq all
    BY <1>4, <1>5 DEF EdgesAt
  <1> HIDE DEF all
  <1>7. PICK acc : acc = FollowAll(Taken, all)
    OBVIOUS
  <1>8. /\ acc \in Accs /\ acc.at = Taken.at /\ LoopInv(acc)
        /\ Taken.found \cup all \subseteq acc.found
    <2>1. all \in SUBSET EdgesAt(InForceNow, {Taken.at.node})
      BY <1>2, <1>4
    <2> QED
      BY <1>2, <1>3, <1>7, <2>1, LoopKeeps
  <1>9. outgoing' = {} /\ pc' = "walk"
    BY <1>1 DEF IInv, WalkInv
  <1>10. Expand(acc) /\ UNCHANGED <<table, walk, result, first>>
    BY <1>1, <1>7
  <1> QED
    BY <1>1, <1>2, <1>6, <1>8, <1>9, <1>10, ExpandStep

LEMMA ExpandIncomingStep ==
  ASSUME IInv, TableType', TableInv', Grown, ExpandIncoming
  PROVE  IInv'
  <1> DEFINE n == Head(queue).node
  <1>1. /\ Popped /\ pc = "second"
        /\ Expand(FollowAll(FollowAll(Taken, outgoing), To(n)))
        /\ outgoing' = {} /\ pc' = "walk" /\ UNCHANGED <<table, walk, result, first>>
    BY DEF ExpandIncoming, Pop, Popped
  <1>2. /\ Taken \in Accs /\ Taken.at = Head(queue) /\ Taken.found = found
        /\ Taken.at.depth < walk.depth /\ LoopInv(Taken)
    BY <1>1, LoopStarts
  <1>3. walk \in Walks /\ TypeOK
    BY <1>1, WalkUnderWay DEF IInv
  <1>4. /\ walk.direction = "both" /\ outgoing \subseteq Leaving(n)
        /\ Clear => \A i \in first : edges[i].req.src = n => i \in outgoing
    BY <1>1 DEF IInv, WalkInv
  <1>5. first \subseteq InForceNow
    BY <1>1 DEF IInv, FoundInv, InForceNow
  <1>q. To(n) \subseteq Entering(n) /\ (Clear => To(n) = Entering(n))
    BY <1>1, <1>3, HeadIsNode, Queries
  <1>6. /\ outgoing \in SUBSET EdgesAt(InForceNow, {n}) /\ To(n) \in SUBSET EdgesAt(InForceNow, {n})
        /\ Clear => EdgesAt(first, {n}) \subseteq outgoing \cup To(n)
    BY <1>4, <1>5, <1>q DEF EdgesAt, Leaving, Entering, InForceNow
  <1>7. PICK half, acc : half = FollowAll(Taken, outgoing) /\ acc = FollowAll(half, To(n))
    OBVIOUS
  <1>8. /\ half \in Accs /\ half.at = Taken.at /\ LoopInv(half)
        /\ Taken.found \cup outgoing \subseteq half.found
    BY <1>2, <1>3, <1>6, <1>7, LoopKeeps
  <1>9. /\ acc \in Accs /\ acc.at = half.at /\ LoopInv(acc)
        /\ half.found \cup To(n) \subseteq acc.found
    BY <1>2, <1>3, <1>6, <1>7, <1>8, LoopKeeps
  <1>10. Expand(acc)
    BY <1>1, <1>7
  <1>11. /\ found \subseteq acc.found
         /\ Clear => EdgesAt(first, {acc.at.node}) \subseteq acc.found
    BY <1>2, <1>6, <1>8, <1>9
  <1> QED
    BY <1>1, <1>2, <1>8, <1>9, <1>10, <1>11, ExpandStep

LEMMA ExpandOutgoingStep ==
  ASSUME IInv, TableType', TableInv', Grown, ExpandOutgoing
  PROVE  IInv'
  <1> DEFINE n == Head(queue).node
  <1>1. /\ pc = "walk" /\ queue # <<>> /\ Head(queue).depth < walk.depth
        /\ walk.direction = "both" /\ outgoing' = From(n) /\ pc' = "second"
        /\ UNCHANGED <<edges, ops, stamped, now, acked>>
        /\ UNCHANGED <<walk, queue, visited, found, truncated, result, expanded, first>>
    BY DEF ExpandOutgoing, Pop, table
  <1>2. ItemsInv' /\ DepthInv' /\ FoundInv' /\ BreadthInv'
    BY <1>1, WalkKept DEF WalkVars
  <1>3. /\ TypeOK /\ walk \in Walks
        /\ From(n) \subseteq Leaving(n) /\ Leaving(n) \subseteq DOMAIN edges
        /\ Clear => From(n) = Leaving(n)
    <2>1. TypeOK /\ walk \in Walks /\ Popped
      BY <1>1, WalkUnderWay DEF IInv, Popped
    <2>2. Leaving(n) \subseteq DOMAIN edges
      BY DEF Leaving, Projection
    <2> QED
      BY <2>1, <2>2, HeadIsNode, Queries
  <1>l. Leaving(Head(queue).node)' = Leaving(n)
    BY <1>1 DEF Leaving, Projection, InForce, RecordedBy, Masked
  <1>c. Clear' => Clear
    BY <1>1, <1>3, ClearBefore
  <1>4. TypeOK'
    BY <1>1, <1>3 DEF IInv, TypeOK
  <1>5. Clear => \A i \in first : edges[i].req.src = n => i \in From(n)
    <2>1. first \subseteq Projection(walk.at, TRUE)
      BY <1>1 DEF IInv, FoundInv
    <2> QED
      BY <1>3, <2>1 DEF Leaving
  <1>6. WalkInv'
    <2>1. outgoing' \subseteq Leaving(Head(queue).node)'
      BY <1>1, <1>3, <1>l
    <2>2. Clear' => \A i \in first : edges'[i].req.src = Head(queue').node => i \in outgoing'
      BY <1>1, <1>5, <1>c
    <2> QED
      BY <1>1, <2>1, <2>2 DEF IInv, WalkInv
  <1> QED
    BY <1>2, <1>4, <1>6 DEF IInv

LEMMA CompleteStep ==
  ASSUME IInv, TableType', TableInv', Grown, Complete
  PROVE  IInv'
  <1>1. /\ pc = "walk" /\ queue = <<>> /\ pc' \in {"done", "failed"}
        /\ pc' = "done" => result'.items = ParsedItems \cap Items
        /\ result' \in Results \cup {None}
        /\ UNCHANGED <<edges, ops, stamped, now, acked>>
        /\ UNCHANGED <<walk, queue, visited, found, outgoing, truncated, expanded, first>>
    <2>1. CASE OperationIds \cap Malformed # {}
      BY <2>1 DEF Complete, table, IInv, TypeOK
    <2>2. CASE OperationIds \cap Malformed = {}
      <3>1. PICK items, ran : items = ParsedItems \cap Items /\ ran = RecordedOperations
        OBVIOUS
      <3>2. items \subseteq Items /\ ran \subseteq Ops
        BY <2>2, <3>1 DEF RecordedOperations, OperationIds
      <3>3. pc' = "done" /\ result' = [items |-> items, operations |-> ran]
        BY <2>2, <3>1 DEF Complete
      <3>4. result' \in Results /\ result'.items = items
        BY <3>2, <3>3 DEF Results
      <3> QED
        BY <3>1, <3>3, <3>4 DEF Complete, table
    <2> QED
      BY <2>1, <2>2
  <1>2. ItemsInv' /\ DepthInv' /\ FoundInv' /\ BreadthInv'
    BY <1>1, WalkKept DEF WalkVars
  <1>3. TypeOK'
    BY <1>1 DEF IInv, TypeOK
  <1>4. walk \in Walks /\ walk.depth \in Nat /\ TypeOK
    BY <1>1, WalkUnderWay DEF IInv
  <1>5. Clear' => Clear
    BY <1>1, <1>4, ClearBefore
  <1>6. Clear => ParsedItems = visited
    <2>1. visited \subseteq Reach(InForceNow, walk.depth)
      BY <1>1 DEF IInv, BreadthInv, InForceNow
    <2>2. visited \subseteq {walk.root} \cup Ends(DOMAIN edges)
      BY <1>4, <2>1, ReachedAreEnds
    <2>3. Clear => \A n \in visited : Parsed[Key[n]] = n
      BY <2>2 DEF Clear, Legible
    <2> QED
      BY <2>3 DEF ParsedItems
  <1>7. WalkInv'
    BY <1>1, <1>5, <1>6 DEF IInv, WalkInv
  <1> QED
    BY <1>2, <1>3, <1>7 DEF IInv

\* Only the root of a walk of no depth is skipped.
LEMMA SkipRootStep ==
  ASSUME IInv, TableType', TableInv', Grown, SkipRoot
  PROVE  IInv'
  <1>1. /\ pc = "walk" /\ pc' = "walk" /\ queue # <<>> /\ Head(queue).depth >= walk.depth
        /\ queue' = Tail(queue) /\ UNCHANGED <<edges, ops, stamped, now, acked>>
        /\ UNCHANGED <<walk, visited, found, outgoing, truncated, result, expanded, first>>
    BY DEF SkipRoot, table
  <1>2. walk \in Walks /\ walk.depth \in Nat /\ TypeOK
    BY <1>1, WalkUnderWay DEF IInv
  <1>3. walk.depth = 0 /\ queue = <<[node |-> walk.root, depth |-> 0]>>
    <2>1. Head(queue) = queue[1] /\ 1 \in DOMAIN queue /\ Head(queue) \in Entries
      BY <1>1, <1>2, HeadAndTail DEF TypeOK
    <2>2. queue[1].depth \in Nat
      BY <2>1 DEF Entries
    <2>3. \/ queue[1].depth < walk.depth
          \/ (walk.depth = 0 /\ queue = <<[node |-> walk.root, depth |-> 0]>>)
      BY <1>1, <2>1 DEF IInv, DepthInv
    <2> QED
      BY <1>1, <1>2, <2>1, <2>2, <2>3
  <1>4. queue' = <<>>
    <2>1. Tail(queue) \in Seq(Entries)
      BY <1>1, <1>2, HeadAndTail DEF TypeOK
    <2>2. Tail(queue) = Tail(<<[node |-> walk.root, depth |-> 0]>>)
      BY <1>3
    <2>3. ASSUME NEW e PROVE Tail(<<e>>) = <<>>
      OBVIOUS
    <2> QED
      BY <1>1, <2>2, <2>3
  <1>5. DOMAIN queue' = {} /\ queue' \in Seq(Entries) /\ Queued' = {} /\ Expanded' = Expanded
    <2>1. DOMAIN queue' = {}
      BY <1>4, NothingIsEmpty
    <2>2. queue' \in Seq(Entries)
      BY <1>4, NothingIsEmpty
    <2> QED
      BY <1>1, <2>1, <2>2 DEF Queued, Expanded
  <1>6. ItemsInv'
    BY <1>1, <1>3, <1>5 DEF IInv, ItemsInv
  <1>7. DepthInv'
    BY <1>1, <1>5 DEF IInv, DepthInv
  <1>8. /\ \A k \in Nat : Reach(InForceNow, k) \subseteq Reach(InForceNow, k)'
        /\ \A N : EdgesAt(first, N)' = EdgesAt(first, N)
        /\ InForceNow \subseteq InForceNow'
    BY <1>1, <1>2, InForceGrows, ReachGrows
  <1>9. FoundInv'
    <2>1. EdgesAt(first, Expanded)' = EdgesAt(first, Expanded) /\ Ends(found)' = Ends(found)
      BY <1>1, <1>5 DEF EdgesAt, Ends
    <2>2. Clear' => Clear
      BY <1>1, <1>2, ClearBefore
    <2> QED
      BY <1>1, <1>8, <2>1, <2>2 DEF IInv, FoundInv, InForceNow
  <1>10. BreadthInv'
    <2>1. visited' \subseteq Reach(InForceNow, walk.depth)'
      <3>1. PICK k \in Nat : k = walk.depth /\ k = walk'.depth
        BY <1>1, <1>2
      <3>2. Reach(InForceNow, walk.depth)' = Reach(InForceNow, k)'
        BY <3>1 DEF Reach
      <3>3. visited \subseteq Reach(InForceNow, k)
        BY <1>1, <3>1 DEF IInv, BreadthInv, InForceNow
      <3> QED
        BY <1>1, <1>8, <3>2, <3>3
    <2>2. ~ (walk'.depth > 0)
      BY <1>1, <1>3
    <2> QED
      BY <1>4, <1>5, <2>1, <2>2 DEF BreadthInv, InForceNow
  <1>11. TypeOK'
    BY <1>1, <1>2, <1>5 DEF TypeOK
  <1>12. WalkInv'
    BY <1>1 DEF IInv, WalkInv
  <1> QED
    BY <1>6, <1>7, <1>9, <1>10, <1>11, <1>12 DEF IInv

LEMMA LineageStep ==
  ASSUME IInv, TableType', TableInv', Grown,
         NEW root \in Roots, NEW d \in Directions, NEW k \in Depths, NEW at \in AsOfs,
         Lineage(root, d, k, at)
  PROVE  IInv'
  <1>1. /\ pc = "idle" /\ pc' = "walk"
        /\ walk' = [root |-> root, direction |-> d, depth |-> k, at |-> at]
        /\ queue' = <<[node |-> root, depth |-> 0]>> /\ visited' = {root} /\ found' = {}
        /\ truncated' = FALSE /\ first' = {i \in DOMAIN edges : InForce(edges[i], at)}
        /\ UNCHANGED <<edges, ops, stamped, now, acked>> /\ UNCHANGED <<outgoing, result, expanded>>
    BY DEF Lineage, table
  <1>2. expanded = <<>> /\ outgoing = {} /\ TypeOK
    BY <1>1 DEF IInv, WalkInv
  <1>3. root \in Nodes /\ k \in Nat
    BY ProvenanceAssumption
  <1>4. /\ walk' \in Walks /\ walk'.root = root /\ walk'.depth = k /\ walk'.at = at
    BY <1>1 DEF Walks
  <1>5. PICK entry : entry = [node |-> root, depth |-> 0]
    OBVIOUS
  <1>6. entry \in Entries /\ entry.node = root /\ entry.depth = 0
    BY <1>3, <1>5 DEF Entries
  <1>7. /\ queue' = <<entry>> /\ queue' \in Seq(Entries) /\ DOMAIN queue' = {1}
        /\ queue'[1] = entry /\ Head(queue') = entry /\ queue' # <<>>
    BY <1>1, <1>5, <1>6
  <1>8. Queued' = {root} /\ Expanded' = {}
    BY <1>1, <1>2, <1>6, <1>7 DEF Queued, Expanded
  <1>9. ItemsInv'
    <2>1. IsInjective(expanded')
      BY <1>1, <1>2 DEF IsInjective
    <2> QED
      BY <1>1, <1>7, <1>8, <2>1 DEF ItemsInv
  <1>10. DepthInv'
    <2>1. entry.depth < k \/ (k = 0 /\ queue' = <<[node |-> walk'.root, depth |-> 0]>>)
      BY <1>1, <1>3, <1>4, <1>6
    <2> QED
      BY <1>1, <1>4, <1>6, <1>7, <2>1 DEF DepthInv
  <1>11. InForceNow' = first'
    BY <1>1, <1>4 DEF InForceNow, Projection, InForce, RecordedBy
  <1>12. FoundInv'
    <2>1. EdgesAt(first, Expanded)' = {} /\ Ends(found)' = {}
      BY <1>1, <1>8 DEF EdgesAt, Ends
    <2> QED
      BY <1>1, <1>11, <2>1 DEF FoundInv, InForceNow
  <1>13. PICK arcs : arcs = Arcs(first)'
    OBVIOUS
  <1>14. Within(root, arcs, 0) = {root} /\ root \in Within(root, arcs, k)
    <2>1. Within(root, arcs, 0) = {root}
      BY <1>3, WithinSteps
    <2>2. 0 \in 0..k
      BY <1>3
    <2>3. Within(root, arcs, 0) \subseteq Within(root, arcs, k)
      BY <1>3, <2>2, WithinFarther
    <2> QED
      BY <2>1, <2>3
  <1>15. BreadthInv'
    <2>1. Arcs(InForceNow)' = arcs
      BY <1>11, <1>13 DEF Arcs
    <2>2. Reach(first, Head(queue).depth)' = {root}
      BY <1>4, <1>6, <1>7, <1>13, <1>14 DEF Reach
    <2>3. root \in Reach(InForceNow, queue[1].depth)'
      BY <1>4, <1>6, <1>7, <1>14, <2>1 DEF Reach
    <2>4. root \in Reach(InForceNow, walk.depth)'
      BY <1>4, <1>14, <2>1 DEF Reach
    <2>5. root \in {queue'[i].node : i \in {j \in DOMAIN queue' : queue'[j].depth = Head(queue').depth}}
      BY <1>6, <1>7
    <2>6. ASSUME NEW i \in DOMAIN queue' PROVE queue'[i].node \in Reach(InForceNow, queue[i].depth)'
      <3>1. i = 1
        BY <1>7
      <3> QED
        BY <1>6, <1>7, <2>3, <3>1
    <2>7. visited' \subseteq Reach(InForceNow, walk.depth)'
      BY <1>1, <2>4
    <2>8. Reach(first, Head(queue).depth)' \subseteq
            Expanded' \cup {queue'[i].node : i \in {j \in DOMAIN queue' :
                                                 queue'[j].depth = Head(queue').depth}}
      BY <2>2, <2>5
    <2> QED
      BY <1>7, <2>6, <2>7, <2>8 DEF BreadthInv, InForceNow
  <1>16. TypeOK'
    <2>1. first' \subseteq DOMAIN edges
      BY <1>1
    <2> QED
      BY <1>1, <1>2, <1>3, <1>4, <1>7, <2>1 DEF TypeOK
  <1>17. WalkInv'
    BY <1>1, <1>2, <1>4, <1>7 DEF WalkInv
  <1> QED
    BY <1>9, <1>10, <1>12, <1>15, <1>16, <1>17 DEF IInv

LEMMA ReturnStep ==
  ASSUME IInv, TableType', TableInv', Grown, Return
  PROVE  IInv'
  <1>1. /\ pc' = "idle" /\ walk' = None /\ queue' = <<>> /\ visited' = {} /\ found' = {}
        /\ outgoing' = {} /\ truncated' = FALSE /\ result' = None /\ expanded' = <<>>
        /\ first' = {} /\ UNCHANGED <<edges, ops, stamped, now, acked>>
    BY DEF Return, table
  <1>2. Queued' = {} /\ Expanded' = {}
    BY <1>1 DEF Queued, Expanded
  <1>3. TypeOK'
    <2>1. queue' \in Seq(Entries) /\ expanded' \in Seq(Nodes)
      BY <1>1, NothingIsEmpty
    <2>2. TypeOK
      BY DEF IInv
    <2> QED
      BY <1>1, <2>1, <2>2 DEF TypeOK
  <1>4. WalkInv'
    BY <1>1 DEF WalkInv
  <1>5. ItemsInv'
    BY <1>1, <1>2 DEF ItemsInv, IsInjective
  <1>6. DepthInv' /\ FoundInv' /\ BreadthInv'
    BY <1>1 DEF DepthInv, FoundInv, BreadthInv
  <1> QED
    BY <1>3, <1>4, <1>5, <1>6 DEF IInv

-----------------------------------------------------------------------------
(* Theorems.                                                               *)

LEMMA InitInv == Init => IInv
  <1> SUFFICES ASSUME Init PROVE IInv
    OBVIOUS
  <1>1. TypeOK
    <2>1. /\ edges \in Seq(Rows) /\ DOMAIN edges = {} /\ Len(edges) = 0
          /\ queue \in Seq(Entries) /\ expanded \in Seq(Nodes)
      BY NothingIsEmpty DEF Init
    <2>2. Len(edges) <= MaxEdges /\ now \in 0..MaxTime
      BY <2>1, ProvenanceAssumption DEF Init
    <2>3. /\ ops \in [Ops -> 0..MaxTime \cup {None}]
          /\ stamped \in [Ops -> 0..MaxTime \cup {None}]
      <3>1. 0 \in 0..MaxTime
        BY ProvenanceAssumption
      <3> QED
        BY <3>1 DEF Init
    <2>4. acked = {} /\ visited = {} /\ found = {} /\ first = {} /\ outgoing = {}
          /\ truncated = FALSE /\ walk = None /\ result = None /\ pc = "idle"
      BY DEF Init
    <2> QED
      BY <2>1, <2>2, <2>3, <2>4 DEF TypeOK
  <1>2. TableInv
    BY DEF Init, TableInv, EventsExact
  <1>3. Queued = {} /\ Expanded = {}
    BY DEF Init, Queued, Expanded
  <1>4. WalkInv
    BY DEF Init, WalkInv
  <1>5. ItemsInv
    BY <1>3 DEF Init, ItemsInv, IsInjective
  <1>6. DepthInv /\ FoundInv /\ BreadthInv
    BY DEF Init, DepthInv, FoundInv, BreadthInv
  <1> QED
    BY <1>1, <1>2, <1>4, <1>5, <1>6 DEF IInv

LEMMA NextInv == IInv /\ [Next]_vars => IInv'
  <1> SUFFICES ASSUME IInv, [Next]_vars PROVE IInv'
    OBVIOUS
  <1>1. TableType' /\ TableInv' /\ Grown
    BY TableStep DEF IInv
  <1>2. CASE \E b \in Batches : RecordProvenanceEdges(b)
    BY <1>1, <1>2, OthersStep DEF RecordProvenanceEdges
  <1>3. CASE (\E o \in Ops : StampOperation(o) \/ InsertOperation(o)) \/ Tick
    BY <1>1, <1>3, OthersStep DEF StampOperation, InsertOperation, Tick
  <1>4. CASE \E n \in Roots, d \in Directions, k \in Depths, at \in AsOfs : Lineage(n, d, k, at)
    BY <1>1, <1>4, LineageStep
  <1>5. CASE ExpandOneWay
    BY <1>1, <1>5, ExpandOneWayStep
  <1>6. CASE ExpandOutgoing
    BY <1>1, <1>6, ExpandOutgoingStep
  <1>7. CASE ExpandIncoming
    BY <1>1, <1>7, ExpandIncomingStep
  <1>8. CASE SkipRoot
    BY <1>1, <1>8, SkipRootStep
  <1>9. CASE Complete
    BY <1>1, <1>9, CompleteStep
  <1>10. CASE Return
    BY <1>1, <1>10, ReturnStep
  <1>11. CASE UNCHANGED vars
    BY <1>1, <1>11, OthersStep DEF vars
  <1> QED
    BY <1>2, <1>3, <1>4, <1>5, <1>6, <1>7, <1>8, <1>9, <1>10, <1>11 DEF Next

\* The invariant holds in every state: the events of the table are those that were
\* answered, and a walk is one by breadth over the edges in force.
THEOREM Invariance == Spec => []IInv
  BY InitInv, NextInv, PTL DEF Spec

\* Every variable has its type.
THEOREM TypeCorrect == Spec => []TypeOK
  <1>1. IInv => TypeOK
    BY DEF IInv
  <1> QED
    BY <1>1, Invariance, PTL

\* The table holds exactly the events that were answered, each once, whatever is
\* sent again, and what it supersedes is older (record_provenance_edges).
THEOREM EventsRecordedOnce == Spec => []EventsExact
  <1>1. IInv => EventsExact
    BY DEF IInv, TableInv
  <1> QED
    BY <1>1, Invariance, PTL

\* A walk that was completed: nothing beyond its depth is there, and where no query
\* reached its limit and the keys tell items apart nothing within it is missing, and
\* one that is not truncated has all that can be reached (lineage).
LEMMA LineageFacts == IInv => LineageComplete
  <1> SUFFICES ASSUME IInv PROVE LineageComplete
    OBVIOUS
  <1>1. IsInjective(expanded)
    BY DEF IInv, ItemsInv
  <1>2. ASSUME pc = "done"
        PROVE  visited \subseteq Reach(InForceNow, walk.depth) /\ found \subseteq InForceNow
    BY <1>2 DEF IInv, FoundInv, BreadthInv, InForceNow
  <1>3. ASSUME pc = "done", Clear
        PROVE  /\ Reach(first, walk.depth) \subseteq visited
               /\ result.items = visited \cap Items
               /\ walk.depth > 0 => EdgesAt(first, Reach(first, walk.depth - 1)) \subseteq found
               /\ ~ truncated /\ walk.depth > 0 =>
                    Reach(first, Cardinality(Nodes)) \subseteq visited
    <2> DEFINE A == Arcs(first)
    <2>1. /\ walk \in Walks /\ walk.depth \in Nat /\ queue = <<>>
          /\ result.items = visited \cap Items
      BY <1>3, WalkUnderWay DEF IInv, WalkInv
    <2>2. /\ walk.root \in visited /\ Expanded \subseteq visited
          /\ ~ truncated /\ walk.depth > 0 => visited \subseteq Expanded
      BY <1>3, <2>1 DEF IInv, DepthInv, ItemsInv, Queued
    <2>3. /\ walk.depth > 0 => Reach(first, walk.depth - 1) \subseteq Expanded
          /\ EdgesAt(first, Expanded) \subseteq found
          /\ \A i \in found : edges[i].req.src \in visited /\ edges[i].req.dst \in visited
      BY <1>3, <2>1 DEF IInv, FoundInv, BreadthInv, Ends
    <2>4. PICK E : E = Expanded
      OBVIOUS
    <2>5. Ahead(A, E) \subseteq visited
      BY <2>3, <2>4, AheadIsMet
    <2> HIDE DEF A
    <2>6. Reach(first, walk.depth) \subseteq visited
      <3>1. CASE walk.depth = 0
        BY <2>1, <2>2, <3>1, WithinSteps DEF Reach
      <3>2. CASE walk.depth > 0
        <4>1. PICK k \in Nat : k = walk.depth - 1 /\ walk.depth = k + 1
          BY <2>1, <3>2
        <4>2. Within(walk.root, A, k + 1) =
                Within(walk.root, A, k) \cup Ahead(A, Within(walk.root, A, k))
          BY WithinSteps
        <4>3. Within(walk.root, A, k) \subseteq E
          BY <2>3, <2>4, <3>2, <4>1 DEF Reach, A
        <4>4. Ahead(A, Within(walk.root, A, k)) \subseteq Ahead(A, E)
          BY <4>3 DEF Ahead
        <4> QED
          BY <2>2, <2>4, <2>5, <4>1, <4>2, <4>3, <4>4 DEF Reach, A
      <3> QED
        BY <2>1, <3>1, <3>2
    <2>7. ASSUME walk.depth > 0
          PROVE  EdgesAt(first, Reach(first, walk.depth - 1)) \subseteq found
      <3>1. Reach(first, walk.depth - 1) \subseteq Expanded
        BY <2>3, <2>7
      <3>2. EdgesAt(first, Reach(first, walk.depth - 1)) \subseteq EdgesAt(first, Expanded)
        BY <3>1 DEF EdgesAt
      <3> QED
        BY <2>3, <3>2
    <2>8. ASSUME ~ truncated, walk.depth > 0
          PROVE  Reach(first, Cardinality(Nodes)) \subseteq visited
      <3>1. Cardinality(Nodes) \in Nat
        BY FS_CardinalityType, ProvenanceAssumption
      <3>2. Ahead(A, visited) \subseteq visited
        <4>1. Ahead(A, visited) \subseteq Ahead(A, E)
          BY <2>2, <2>4, <2>8 DEF Ahead
        <4> QED
          BY <2>5, <4>1
      <3> QED
        BY <2>2, <3>1, <3>2, WithinClosed DEF Reach, A
    <2> QED
      BY <2>1, <2>6, <2>7, <2>8
  <1> QED
    BY <1>1, <1>2, <1>3 DEF LineageComplete, InForceNow, Clear

\* lineage beside writers, in graphs with cycles too: with the limit of a query and keys
\* that may be the same it adds nothing, and without them nothing is missing.
THEOREM LineageIsComplete == Spec => []LineageComplete
  BY Invariance, LineageFacts, PTL

\* What is seen as of a time that has passed stays, and only a request with a time of
\* back then or an operation that was under way then adds to it.
THEOREM PastIsStable == Spec => AsOfStable
  <1> DEFINE Stable(t, at) ==
               /\ Projection(at, TRUE) \subseteq Projection(at, TRUE)'
               /\ Backdated(t) = {} =>
                    /\ \A s \in BOOLEAN : Projection(at, s)' = Projection(at, s)
                    /\ \A o \in Ops \ UnderWay(t) :
                         OperationProvenance(o, at)' = OperationProvenance(o, at)
  <1>1. ASSUME IInv, [Next]_vars
        PROVE  [<<edges, ops>>' # <<edges, ops>> =>
                  \A t \in 0..MaxTime, v \in 0..MaxTime \cup {None} :
                    LET at == [rec |-> t, valid |-> v] IN t < now => Stable(t, at)]_table
    <2>1. TableType' /\ Grown
      BY <1>1, TableStep DEF IInv
    <2>2. TypeOK /\ edges' \in Seq(Rows)
      BY <1>1, <2>1 DEF IInv, TableType
    <2>3. ASSUME NEW t \in 0..MaxTime, NEW v \in 0..MaxTime \cup {None}, t < now,
                 NEW at, at = [rec |-> t, valid |-> v]
          PROVE  Stable(t, at)
      BY <2>1, <2>2, <2>3, PastIsFixed
    <2> HIDE DEF Stable
    <2> QED
      BY <2>3
  <1> QED
    BY <1>1, Invariance, PTL DEF Spec, AsOfStable

=============================================================================
