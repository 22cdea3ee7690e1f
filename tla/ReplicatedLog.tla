--------------------------- MODULE ReplicatedLog ---------------------------
(***************************************************************************)
(* What replication promises the owner of a device, whatever the network,  *)
(* the server and concurrent invocations of the client do: the server's    *)
(* copy of the log only grows, one record at a time; every acknowledgement *)
(* names a prefix of the copy, which therefore stays there; and the device *)
(* believes replicated no more than what was acknowledged.                 *)
(***************************************************************************)
EXTENDS Integers, Sequences

CONSTANT Facts

VARIABLES
  log,        \* the server's copy
  promised,   \* the prefixes of log that were acknowledged
  known       \* how many records the device believes are replicated

vars == <<log, promised, known>>

IsPrefixOf(c, d) == Len(c) <= Len(d) /\ \A i \in 1..Len(c) : c[i] = d[i]

Init == log = <<>> /\ promised = {} /\ known = 0

\* The new copy is one record longer and starts with the old one.
Grow(l) ==
  /\ Len(l) = Len(log) + 1 /\ IsPrefixOf(log, l)
  /\ log' = l
  /\ UNCHANGED <<promised, known>>

Promise(c) ==
  /\ c # <<>> /\ IsPrefixOf(c, log)
  /\ promised' = promised \cup {c}
  /\ UNCHANGED <<log, known>>

\* The device may also lose its watermark, or go back to an older one.
Learn(n) ==
  /\ n = 0 \/ \E c \in promised : n <= Len(c)
  /\ known' = n
  /\ UNCHANGED <<log, promised>>

Next ==
  \/ log' \in Seq(Facts) /\ Grow(log')
  \/ \E c \in promised' : Promise(c)
  \/ known' \in Nat /\ Learn(known')

Spec == Init /\ [][Next]_vars
=============================================================================
