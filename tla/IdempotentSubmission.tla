------------------------ MODULE IdempotentSubmission ------------------------
(***************************************************************************)
(* What an idempotency key promises its callers, whatever fails and        *)
(* however often a request is repeated: a key stands for one operation     *)
(* with one content, once and for all; an answer names the operation kept  *)
(* under the key, with the content that was sent, and the receipt of that  *)
(* operation.                                                              *)
(*                                                                         *)
(* A key may be excused from standing for one operation only.  Its answers *)
(* are then still about operations kept under it: the receipt is that of   *)
(* one with the content that was sent.                                     *)
(***************************************************************************)
EXTENDS Naturals

CONSTANTS Keys, Contents

VARIABLES
  kept,       \* the operations, with key, content and receipt
  answered,   \* the answers given
  excused     \* the keys that need not stand for one operation

vars == <<kept, answered, excused>>

Operations == [key: Keys, content: Contents, receipt: Nat, operation: Nat]

Init == kept = {} /\ answered = {} /\ excused = {}

\* A key that stands for nothing gets its operation, and that a receipt of its own.
Keep(o) ==
  /\ \A p \in kept : /\ p.receipt # o.receipt /\ p.operation # o.operation
                     /\ p.key # o.key \/ o.key \in excused
  /\ kept' = kept \cup {o}
  /\ UNCHANGED <<answered, excused>>

\* The receipt and the operation of an answer are of one operation kept, or, for a
\* key that is excused, of two.
Answer(o) ==
  /\ \E p, q \in kept :
       /\ o = [p EXCEPT !.operation = q.operation]
       /\ q.key = p.key
       /\ q = p \/ p.key \in excused
  /\ answered' = answered \cup {o}
  /\ UNCHANGED <<kept, excused>>

\* An operation kept under the key was not seen.
Excuse(k) ==
  /\ \E p \in kept : p.key = k
  /\ excused' = excused \cup {k}
  /\ UNCHANGED <<kept, answered>>

Next ==
  \/ \E o \in kept' \cap Operations : Keep(o)
  \/ \E o \in answered' : Answer(o)
  \/ \E k \in excused' : Excuse(k)

Spec == Init /\ [][Next]_vars
=============================================================================
